CONSTANTS
  NVars = 3
  NConstr = 3
  MaxLevel = 0
  Problem <- Graphs
  Watch <- MCWatchGraphs
  AllowRevisits = FALSE
SPECIFICATION EngineSpec
INVARIANTS
  StateInSync
  Explained
  PropagatedFully
  ImpliedFollows
  AssertionsHold
CHECK_DEADLOCK FALSE
