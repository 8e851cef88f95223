SPECIFICATION Spec
CONSTANTS
  Timeout = 26
  Interval = 2
  RawMaxInterval = 5
  Backoff = "exponential"
  Jitter = 50
  RawAttemptTimeout = 2
  RawSuccesses = 3
  StableFor = 4
  MaxDuration = 7
  MaxLatency = 3
  GoodLatency = 1
INVARIANTS
  TypeOK
  BackoffFollowsFailures
  StableStretch
  SatisfiedInTime
  DetectedInTime
