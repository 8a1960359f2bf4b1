CONSTANTS
  NVars = 3
  NConstr = 1
  MaxLevel = 0
  Problem <- DuplicateEdges
  Watch <- MCWatchDuplicateEdges
  AllowRevisits = FALSE
SPECIFICATION EngineSpec
INVARIANTS
  ImpliedFollows
CHECK_DEADLOCK FALSE
