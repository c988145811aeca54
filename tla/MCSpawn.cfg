SPECIFICATION Spec
CONSTANTS
  AutoEol = TRUE
  Text <- MCText
  EolMode = "CRLF"
  Arguments <- MCArguments
  Chunks <- MCChunks
  MaxOutput = 3
  SplitCRLF = FALSE
  BufferSize = 1
  PipeSize = 1
  OutputSize = 3
  MemoryLimit = 4
  MaxCommands = 1
INVARIANTS InputIsRange FilterReplacesRange RuboutRestores
PROPERTIES ExitEndsCommand
CHECK_DEADLOCK FALSE
