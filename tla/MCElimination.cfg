CONSTANTS
  NVars = 4
  Sessions <- MCSessions
  MaxInterrupts = 1
SPECIFICATION Spec
INVARIANTS
  ElimTypeOK
  NothingLost
  OccurrencesExact
  Simplified
PROPERTIES
  AnswersAreRight
  CallsReturn
