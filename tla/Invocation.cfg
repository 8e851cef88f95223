SPECIFICATION Spec
CONSTANTS
  Inputs <- MCInputs
  Worlds <- MCWorlds
INVARIANTS
  UsableOnceAccepted
  VerdictIsTrue
  CanBeSatisfied
CHECK_DEADLOCK FALSE
