SPECIFICATION Spec
CONSTANTS
  r1 = r1
  r2 = r2
  g1 = g1
  gateA = gateA
  gateB = gateB
  NoOne = NoOne
  Conds <- MCConds
  Guards <- MCGuards
  Gates <- MCGates
  GateOf <- MCGateOf
  Mode = "all"
  RequiredSuccesses = 1
  HasStableFor = TRUE
  HasAttemptTimeout = TRUE
  MaxAttempts = 2
INVARIANTS
  TypeOK
  ChecksSerialized
  SatisfiedIsEarned
  GiveUpIsHonest
  OneFatalRecord
  ReportMatchesProgress
PROPERTIES
  NoLateRecord
  ContractSteps
