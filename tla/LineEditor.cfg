SPECIFICATION Spec
CONSTANTS
  MAX_COLS = 6
  MAX_ROWS = 2
  Typed = {"a"}
  MaxTails = 2
  MaxAhead = 3
INVARIANTS TypeOK InSync RunsShown
