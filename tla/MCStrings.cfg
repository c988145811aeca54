CONSTANTS
  Globals <- MCGlobals
  Locals <- MCLocals
  CharCodes <- MCCharCodes
  Depth = 3
  Files <- MCFiles
  Home <- MCHome
  Symbols <- MCSymbols
  LexerSymbols <- MCLexerSymbols
  Labels <- MCLabels
  Topics <- MCTopics
  Cases <- MCCases
  Places = {"argument", "name"}
  TabWidth = 2
  MaxKeys = 6
SPECIFICATION Spec
CHECK_DEADLOCK FALSE
INVARIANTS ParsesAlike KeepsWhatWasTyped CompletesToAName
