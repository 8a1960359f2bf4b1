CONSTANTS
  NVars = 4
  NConstr = 4
  MaxLevel = 0
  Problem <- Small
  Watch <- MCWatchSmall
  AllowRevisits = FALSE
SPECIFICATION EngineSpec
INVARIANTS
  StateInSync
  AssertionsHold
  Explained
  PropagatedFully
  ImpliedFollows
CHECK_DEADLOCK FALSE
