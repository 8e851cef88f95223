SPECIFICATION Spec
CONSTANTS
  i1 = i1
  i2 = i2
  NoFile = NoFile
  Inodes <- MCInodes
  InitialData <- Empty
  Writes <- SomeBytes
  Starts = {"start"}
  TailLines = 1
  MinMatches = 1
  MaxScan = 20
  MaxTailScan = 20
  MaxSize = 3
  MaxOps = 5
INVARIANT
  EveryLineCounted
