SPECIFICATION Spec
CONSTANTS
  Macros <- MCMacros
  Labels = {"a", "b"}
  Implied = 0
  UndoEnabled = TRUE
  MaxDepth = 2
  Typed = {"2", "0", "(", ")", "+", "-", ":", "<", ">", ";", "F<", "F>", "?", "|", "'", "F|", "F'", "C", "!a", "Oa", "Oa,b", "M", "$", "^C"}
  MaxLine = 3
  MaxTokens = 5
  MaxOps = 5
  MaxNum = 20
  MaxLines = 1
INVARIANTS RuboutRestoresLoops
PROPERTIES CallersLoopsAreSafe
