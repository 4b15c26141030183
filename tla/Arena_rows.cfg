SPECIFICATION Spec
CONSTANTS
  Granule = 2
  Header = 2
  Block = 6
  Space = 22
  Sizes = {0, 3, 8}
  MaxMarks = 2
INVARIANTS CellsApart CellsHeld
PROPERTIES ReleaseExact
CHECK_DEADLOCK FALSE
