CONSTANTS
  NVars = 5
  NConstr = 2
  MaxLevel = 5
  Problem <- MCProblem
  Watch <- MCWatch
  AllowRevisits = FALSE
  Scripts <- SearchScripts
SPECIFICATION SolverSpec
INVARIANTS
  SolverTypeOK
  EverythingFollows
  WatchedTwice
  ClausesPropagated
  ReasonsStand
  HeapComplete
  LearntIsAsserting
  ConflictIsAssumptions
PROPERTIES
  AnswersAreRight
  SolveReturns
