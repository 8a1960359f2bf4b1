CONSTANTS
  nbThreads = 3
  maxsize = 14
  Var = {1}
  Setups <- MCSetups
SPECIFICATION Spec
INVARIANTS
  RingExact
  ResultOfWinner
PROPERTIES
  Delivered
  WorkersStop
