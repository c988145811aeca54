SPECIFICATION Spec
CONSTANTS
  MaxMemory = 4
  InitialLimit = 4
  LowLimit = 3
  MaxKeys = 4
  MaxSignals = 1
  Utf8 = TRUE
  Scenarios <- MCScenarios
INVARIANTS KeysAreHandled EndsOnce
PROPERTIES Responsive
CHECK_DEADLOCK FALSE
