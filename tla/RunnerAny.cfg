SPECIFICATION SeenSpec
CONSTANTS
  r1 = r1
  r2 = r2
  gateA = gateA
  NoOne = NoOne
  Watched = r1
  Conds <- MCConds
  Guards = {}
  Gates <- MCGates
  GateOf <- MCGateOf
  Mode = "any"
  RequiredSuccesses = 2
  HasStableFor = TRUE
  HasAttemptTimeout = TRUE
  MaxAttempts = 3
INVARIANTS
  StreakEarned
PROPERTIES
  KeepsContract
  EventuallyReturns
