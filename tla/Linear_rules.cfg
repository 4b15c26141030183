SPECIFICATION Spec
CONSTANTS
  Depth = 2
  Height = 3
  Fuel = 8
  Modes = {0, 1}
INVARIANTS TypeOK Hulls NoSpuriousRefusal
PROPERTIES LinearOnce AliasInlines
CHECK_DEADLOCK FALSE
