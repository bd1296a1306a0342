SPECIFICATION Spec
CONSTANTS
  FailureThreshold = 2
  RecoveryThreshold = 2
  HalfOpenMaxProbes = 1
  InitialBackoff = 1
  MaxBackoff = 1
  CounterCap = 2
  MaxFailures = 2
  MaxLost = 1
  Pools = {"front", "exit"}
  Loops = {l1}
PROPERTIES
  
  DeadNodeIsExcluded
  LiveNodeIsOffered
