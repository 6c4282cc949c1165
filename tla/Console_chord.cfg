SPECIFICATION Spec
CONSTANTS
  Apps = {"art"}
  Keys = {"lctrl", "c"}
  MaxFifo = 1
  MaxDepth = 1
PROPERTIES ChordRegisters
