SPECIFICATION FairSpec
CONSTANTS
  Commands = {"A"}
  Noops = {" "}
  QCommands = {"Q"}
  Strings = {"I"}
  At = "@"
  Esc = "$"
  BraceOpen = "{"
  BraceClose = "}"
  Leads = {"lead"}
  Conts = {"cont"}
  WordChars = {"A", "I", "Q"}
  CtlU = "^U"
  ReturnMayFail = FALSE
  MaxLen = 4
  Usages <- MCUsages
  Replacements <- SameLength
INVARIANTS InSync WordIsOneCommand Unity BackupRestores
PROPERTIES EditableLine KeyPressEnds
CONSTRAINT OneLine
