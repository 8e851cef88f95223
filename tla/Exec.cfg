SPECIFICATION Spec
CONSTANTS
  Limit = 2
  MaxWritten = 3
  PipeSize = 2
  Chunks <- MCChunks
  ExitCodes = {0, 3}
  Wants = {"nothing", "contains", "json"}
INVARIANTS
  SatisfiedIsReal
  NothingLost
PROPERTY
  KillReturns
CHECK_DEADLOCK FALSE
