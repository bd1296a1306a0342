\* One session, both routes, one restart: crashes between any two calls.
SPECIFICATION Spec
CONSTANTS
  a = a
  b = b
  Node = {a, b}
  Pool <- TwoHops
  Route <- UpToTwo
  Cooldowns = {1}
  HealthyTtl = 1
  DayTicks = 1
  DbMayFail = FALSE
  MaxRestarts = 1
  Session = {s1}
  Anonymous = anonymous
  Instance = {i1}
  NoInstance = none
  Skipped = skipped
  LeaseTtl = 2
  MaxPending = 1
INVARIANT
  LeaseIsDurable
PROPERTIES
  SessionKeepsExit
  NewRouteIsSound
  
