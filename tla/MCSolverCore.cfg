CONSTANTS
  NVars = 5
  NConstr = 2
  MaxLevel = 5
  Problem <- MCProblem
  Watch <- MCWatch
  AllowRevisits = FALSE
  Scripts <- CoreScripts
SPECIFICATION SolverSpec
INVARIANTS
  ConflictIsAssumptions
