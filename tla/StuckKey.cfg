\* Checks the comment on release_held_game_keys().
CONSTANTS
  Keys = {"k", "shift"}
  StickyKeys = {"shift"}
  StickySlots = 2
  Sources = {"A"}
  Pads = {{}, {"START"}, {"SELECT"}, {"A"}, {"B"}, {"X"}, {"NAV"},
          {"NAV", "START"}, {"A", "START"}, {"A", "SELECT"}, {"A", "B"}, {"A", "NAV"}}
SPECIFICATION Spec
INVARIANT NoStuckKey
CHECK_DEADLOCK FALSE
