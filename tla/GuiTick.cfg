\* One mappable button, which is also the menu's confirm button; two Vector
\* keys, one of them a modifier that latches on the on-screen keyboard.
CONSTANTS
  Keys = {"k", "shift"}
  StickyKeys = {"shift"}
  StickySlots = 2
  Sources = {"A"}
  Pads = {{}, {"START"}, {"SELECT"}, {"A"}, {"B"}, {"X"}, {"NAV"},
          {"NAV", "START"}, {"A", "START"}, {"A", "SELECT"}, {"A", "B"}, {"A", "NAV"}}
SPECIFICATION Spec
INVARIANTS FrozenHasWindow PickerIsVisible
PROPERTIES WindowsPressNothing FreshPressOnly ImplementsGuiWindows
\* Exit in the menu ends the program.
CHECK_DEADLOCK FALSE
