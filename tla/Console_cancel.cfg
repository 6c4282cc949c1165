SPECIFICATION FairSpec
CONSTANTS
  Apps = {"art", "portal", "gamble", "tetris"}
  Keys = {"lctrl", "c", "esc", "enter", "key"}
  MaxFifo = 1
  MaxDepth = 1
PROPERTIES CancelStops
