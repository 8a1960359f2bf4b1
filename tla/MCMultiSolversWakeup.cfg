CONSTANTS
  nbThreads = 1
  maxsize = 12
  Var = {1}
  Setups <- AloneSetups
SPECIFICATION Spec
PROPERTIES
  SolveReturns
