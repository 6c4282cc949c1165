SPECIFICATION FairSpec
CONSTANTS
  Apps = {"tetris"}
  Keys = {"lctrl", "c", "enter", "key"}
  MaxFifo = 1
  MaxDepth = 1
PROPERTIES CancelStopsEveryApp
