CONSTANTS
  NVars = 3
  NConstr = 2
  MaxLevel = 0
  Problem <- AtMostAndXor
  Watch <- MCWatchAtMostAndXor
  AllowRevisits = TRUE
SPECIFICATION EngineSpec
INVARIANTS
  AssertionsHold
CHECK_DEADLOCK FALSE
