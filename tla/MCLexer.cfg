SPECIFICATION Spec
CONSTANTS
  MaxEdits = 2
  Scenarios <- MCScenarios
INVARIANTS StylesAreFresh
CHECK_DEADLOCK FALSE
