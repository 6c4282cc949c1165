SPECIFICATION MappedSpec
CONSTANTS
  n1 = n1  n2 = n2  n3 = n3  byte = byte
  Names = {n1}
  LongNames = {}
  Depth = 1
  BadPath = BadPath
  Bytes = {byte}
  Zero = Zero
  Hole = Hole
  NInodes = 2
  NFds = 2
  FlagSets <- SharedFlags
  Buffers <- OneOrThree
  ReadCounts = {3}
  SeekOffsets = {3}
  ListMaxes = {1}
  NBlocks = 3
  BlockSize = 2
INVARIANTS BeyondSizeIsZero
PROPERTIES FailureKeepsData Refinement
