SPECIFICATION Spec
CONSTANTS
  WordBytes = {"a", "b", "u1", "u2", "1"}
  Wide <- MCWide
  Narrow <- MCNarrow
  RelativeLimit = 2
  Separators = {" ", "nl"}
  UseTabs = FALSE
  TabWidth = 2
  Commands <- MCCommands
  Words <- MCWords
  Beginnings <- MCBeginnings
  MaxKeys = 5
  MaxCommands = 2
  MaxArgument = 2
  MaxRubouts = 1
  FailingConversions = FALSE
INVARIANTS SearchFindsTheNth EditsWhatItFound LastRangeIsTheText PositionsAgree
PROPERTIES RuboutRestores
CHECK_DEADLOCK FALSE
