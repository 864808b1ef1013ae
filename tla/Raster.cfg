SPECIFICATION Spec
CONSTANTS
  Line = 768
  Lines = 6
  Heights = {0, 3, 5, 6, 7}
  Borders = {0, 32, 103, 104}
INVARIANTS FrameIsWhole OneRequest Prompt BitmapFilled
