SPECIFICATION Spec
CONSTANTS
  Node <- Nodes
  Children <- Names
  Above <- Parents
  Target <- LinkTo
  Sources <- SourceNames
  Modes <- TwoModes
  Args <- Paths
  Expected <- ThreeExpectations
  KindsOf <- Stand
  GoldensOf <- Beside
  Changes = 1
INVARIANTS WalkTold ExitZeroIsTrue
PROPERTIES Terminates
CHECK_DEADLOCK FALSE
