SPECIFICATION Spec
CONSTANTS
  Name = {a, b, nat}
  Prims = {nat}
  a = a
  b = b
  nat = nat
  TypeNames = 1
  BodyNames = 1
  RecGroup = 2
  FamGroup = 2
  MaxDecls = 2
  Redeclare = FALSE
INVARIANTS UnfoldingEnds MeaningsStay CtorsUnique
PROPERTIES GroupInstalled AtomicAdmission
CHECK_DEADLOCK FALSE
