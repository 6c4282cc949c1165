SPECIFICATION FairSpec
CONSTANTS
  BOARD_W = 4
  BOARD_H = 5
  NTypes = 3
  LinesPerLevel = 1
  SlowestDrop = 2
  MaxLines = 2
INVARIANTS TypeOK PieceFits LossIsReal ScreenTrue
PROPERTIES LandsWhole PiecesLand
