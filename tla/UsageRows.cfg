SPECIFICATION Spec
CONSTANTS
  Depth = 3
  Intervals <- Ends
INVARIANTS RowsRight
