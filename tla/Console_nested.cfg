SPECIFICATION Spec
CONSTANTS
  Apps = {"art", "portal"}
  Keys = {"lctrl", "rctrl", "c", "enter"}
  MaxFifo = 2
  MaxDepth = 2
INVARIANTS TypeOK OneApp ScreenOwner LineKept CtrlNotStuck
PROPERTIES CancelKept
