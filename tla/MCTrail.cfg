CONSTANTS
  NVars = 3
  NConstr = 2
  MaxLevel = 1
  Watch <- MCWatch
SPECIFICATION Spec
INVARIANTS
  TypeOK
  TrailOK
  PendingCountsOwed
  FixpointSettled
  UndoMatchesCalls
  LearntIsUndef
  LazyWorkDone
PROPERTIES
  UndoIsLIFO
  PropagationEnds
CHECK_DEADLOCK FALSE
