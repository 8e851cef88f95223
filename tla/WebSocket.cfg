SPECIFICATION Spec
CONSTANTS
  Configs <- MCConfigs
  Frames <- MCFrames
  MaxMessage = 200
  MaxFrames = 3
  MaxUnread = 1
  Timeout = 1
  ReadTimeout = 1
  LongestAttempt = 5
INVARIANTS
  SatisfiedIsEarned
  FirstMessageDecides
  EndsInTime
PROPERTY
  CancelReturns
CHECK_DEADLOCK FALSE
