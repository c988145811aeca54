SPECIFICATION Spec
CONSTANTS
  Entries = {"1", "2", "3", "4"}
  Root = "root"
  Null = "null"
  Names <- MCNames
  NoName = "none"
  Texts <- MCTexts
  Torn = "torn"
  Absent = "absent"
  MaxCommands = 3
  MaxDepth = 1
  MaxCrashes = 1
  Cases = {}
  InitStates <- MCInitStates
INVARIANTS RingIsRing CleanMeansSaved OriginalSurvives
PROPERTIES RingIsRestored
CHECK_DEADLOCK FALSE
