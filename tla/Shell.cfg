SPECIFICATION ShellSpec
CONSTANTS
  n1 = n1  n2 = n2  n3 = n3  byte = byte  byte2 = byte2
  Names = {n1, n2, n3}
  LongNames = {n3}
  Depth = 2
  BadPath = BadPath
  Bytes = {byte, byte2}
  Zero = Zero
  Hole = Hole
  NInodes = 3
  NFds = 1
  FlagSets <- ShellFlags
  Buffers <- MCTexts
  ReadCounts = {2}
  SeekOffsets = {}
  ListMaxes = {1}
  NBlocks = 3
  BlockSize = 2
  Texts <- MCTexts
  CatBuf = 2
  LsMax = 1
INVARIANTS SizeIsReadable BlocksOwnedOnce DirsBounded NothingLeftOpen OutputTrue
PROPERTIES Refinement
SYMMETRY Symmetry
