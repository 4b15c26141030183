SPECIFICATION MemoSpec
CONSTANTS
  Names = {"nat", "a"}
  Bounds <- MCBounds
INVARIANTS AnswersFresh CachesRight
CHECK_DEADLOCK FALSE
