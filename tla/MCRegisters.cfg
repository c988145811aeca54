SPECIFICATION Spec
CONSTANTS
  Globals <- MCGlobals
  External = {"$", "*"}
  Locals = {".a"}
  MaxDocs = 9
  Capacity = 4
  Strings <- MCStrings
  MaxText = 2
  MaxStack = 2
  MaxCommands = 3
  Macros = {"M"}
  Cases = {}
  InitStates <- MCInitStates
INVARIANTS ReferencesAreHeld EditedIsShown
PROPERTIES RuboutRestores OnlyNamedChanges
CHECK_DEADLOCK FALSE
