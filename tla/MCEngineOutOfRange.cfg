CONSTANTS
  NVars = 2
  NConstr = 1
  MaxLevel = 0
  Problem <- OutOfRange
  Watch <- MCWatchOutOfRange
  AllowRevisits = FALSE
SPECIFICATION EngineSpec
INVARIANTS
  AssertionsHold
CHECK_DEADLOCK FALSE
