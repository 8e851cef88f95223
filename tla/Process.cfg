SPECIFICATION Spec
CONSTANTS
  r1 = r1
  g1 = g1
  Conds <- MCConds
  Guards <- MCGuards
  Mode = "all"
INVARIANTS
  ExitTruth
  StreamIsPrefix
PROPERTY
  SignalEnds
