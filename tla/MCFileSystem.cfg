SPECIFICATION Spec
CONSTANTS
  n1 = n1  n2 = n2  n3 = n3  byte = byte
  Names = {n1, n2, n3}
  LongNames = {n3}
  Depth = 2
  BadPath = BadPath
  Bytes = {byte}
  Zero = Zero
  NInodes = 3
  NFds = 2
  FlagSets <- SharedFlags
  Buffers <- OneOrThree
  ReadCounts = {1}
  SeekOffsets = {1}
  ListMaxes = {2}
  MaxFile = 2
INVARIANTS TypeOK TreeClosed HandlesLive
SYMMETRY Symmetry
