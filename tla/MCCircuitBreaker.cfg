\* Thresholds as small as they can be and still tell one result from two.
SPECIFICATION Spec
CONSTANTS
  FailureThreshold = 2
  RecoveryThreshold = 2
  HalfOpenMaxProbes = 2
  InitialBackoff = 2
  MaxBackoff = 3
  CounterCap = 3
  MaxRestarts = 2
INVARIANT
  BreakerIsSound
PROPERTIES
  ClosesAfterTrial
  Recovers
