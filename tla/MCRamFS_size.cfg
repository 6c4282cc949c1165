SPECIFICATION Spec
CONSTANTS
  n1 = n1  n2 = n2  n3 = n3  byte = byte
  Names = {n1}
  LongNames = {}
  Depth = 1
  BadPath = BadPath
  Bytes = {byte}
  Zero = Zero
  Hole = Hole
  NInodes = 2
  NFds = 1
  FlagSets <- SharedFlags
  Buffers <- NoneOrOne
  ReadCounts = {1}
  SeekOffsets = {3}
  ListMaxes = {}
  NBlocks = 3
  BlockSize = 2
INVARIANT SizeIsReadable
