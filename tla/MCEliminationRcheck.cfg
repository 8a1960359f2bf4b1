CONSTANTS
  NVars = 4
  Sessions <- RcheckSessions
  MaxInterrupts = 0
SPECIFICATION Spec
INVARIANTS
  ModelIsModel
