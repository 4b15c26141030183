SPECIFICATION Spec
CONSTANTS
  Name = {a, b, nat}
  Prims = {nat}
  a = a
  b = b
  nat = nat
  TypeNames = 1
  BodyNames = 1
  RecGroup = 1
  FamGroup = 0
  MaxDecls = 3
  Redeclare = TRUE
INVARIANTS UnfoldingEnds
CHECK_DEADLOCK FALSE
