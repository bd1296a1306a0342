SPECIFICATION Spec
CONSTANTS
  Endpoints = {"e1", "e2"}
  EndpointPorts = {1, 2}
  LegacyPort = 2
  Handlers = {h1}
  Objects = 4
  Sessions = {s1, s2}
  Keys = {"k1", "k2", "k3"}
  Urls = {"u1"}
  MaxCollectors = 2
  MaxProxyCount = 1
  MaxSubs = 2
  MaxStarted = 2
  Countries = {"A", "B"}
  MaxPoolId = 2
  MaxSubId = 2
  PoolNames = {"x"}
  EndpointNames = {"e"}
  MaxEndpointId = 2
  Requests = {r1, r2}
  Paths = {"a", "b"}
  Batch = {"b"}
  MaxReads = 2
  MaxWrites = 1
  Kept = 3
  MaxConcurrent = 1
  MaxNow = 3
  MaxArrivals = 4
INVARIANTS
  TypeOK
  ListensAsConfigured
  
  SlotsAreHeld
  RateIsKept
PROPERTIES
  UpgradeIsSafe
  CollectorsDoNotClash
  OwnSubscription
  
