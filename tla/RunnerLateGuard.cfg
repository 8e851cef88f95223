SPECIFICATION Spec
CONSTANTS
  r1 = r1
  r2 = r2
  g1 = g1
  gateA = gateA
  gateB = gateB
  NoOne = NoOne
  Conds <- MCConds
  Guards <- MCGuards
  Gates <- MCGates
  GateOf <- MCGateOf
  Mode = "all"
  RequiredSuccesses = 1
  HasStableFor = FALSE
  HasAttemptTimeout = TRUE
  MaxAttempts = 1
PROPERTY
  LateGuardNeverFatal
