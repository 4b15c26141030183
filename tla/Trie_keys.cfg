SPECIFICATION Spec
CONSTANTS
  Keys <- Texts
  Values = {v1, v2}
  Missing = missing
  Calls = 4
INVARIANTS BindingsInOrder
PROPERTIES ImplementsKeyMap
CHECK_DEADLOCK FALSE
