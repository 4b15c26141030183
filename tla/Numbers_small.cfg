SPECIFICATION NumbersSpec
CONSTANTS
  Base = 4
  Word = 32
  Low <- LimbsOf32
  High <- LimbsOf31
  NatMax = 4
  MaxLimbs = 3
  Radix = 2
  Chunk = 3
  PerLimb = 2
  Power <- PowersOf2
  MaxDigits = 9
INVARIANTS NoWrap InRoom TextNoWrap Exact RoundTrip
CHECK_DEADLOCK FALSE
