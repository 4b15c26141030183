SPECIFICATION Spec
CONSTANTS
  Depth = 8
  Plans <- MCWitness
  Probes = {}
  Budgets = {200}
PROPERTIES WitnessAtItsIndex
CHECK_DEADLOCK FALSE
