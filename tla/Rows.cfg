CONSTANTS
  Align = 8
  Sizes <- MCSizes
SPECIFICATION Spec
INVARIANTS
  RowsPlaced
  NothingBeyond
