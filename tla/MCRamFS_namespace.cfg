SPECIFICATION Spec
CONSTANTS
  n1 = n1  n2 = n2  n3 = n3  byte = byte
  Names = {n1, n2, n3}
  LongNames = {n3}
  Depth = 2
  BadPath = BadPath
  Bytes = {byte}
  Zero = Zero
  Hole = Hole
  NInodes = 4
  NFds = 1
  FlagSets <- CreateOnly
  Buffers <- NoBuffers
  ReadCounts = {}
  SeekOffsets = {}
  ListMaxes = {}
  NBlocks = 3
  BlockSize = 1
INVARIANTS TypeOK BlocksOwnedOnce TreeIntact FdsLive
SYMMETRY Symmetry
