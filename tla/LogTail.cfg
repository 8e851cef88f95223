SPECIFICATION Spec
CONSTANTS
  i1 = i1
  i2 = i2
  NoFile = NoFile
  Inodes <- MCInodes
  InitialData <- TwoLines
  Writes <- WholeLines
  Starts = {"end", "start", "tail"}
  TailLines = 1
  MinMatches = 2
  MaxScan = 6
  MaxTailScan = 4
  MaxSize = 8
  MaxOps = 5
INVARIANTS
  TypeOK
  CountExact
  AppearedIsReadInFull
PROPERTIES
  TailStart
  CatchesUp
