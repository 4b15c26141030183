SPECIFICATION Spec
CONSTANTS
  Size = 2
  Widest = 2
  Args = 2
  Trees <- SmallTrees
  Bodies <- SmallBodies
INVARIANTS CertificateRight FirstFit Descends
PROPERTY Answers
CHECK_DEADLOCK FALSE
