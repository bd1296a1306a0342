\* Two sessions compete for two exits on one known address or none.
SPECIFICATION Spec
CONSTANTS
  f = f
  x = x
  y = y
  Session = {s1, s2}
  Front = {f, x}
  Exit = {x, y}
  Ip = {ip1}
  Unknown = unknown
  Nobody = nobody
  Latency <- SlowFast
  LeaseTtl = 1
  MaxLoad = 1
  MaxRestarts = 1
INVARIANTS
  LoadCountsLeases
  LeaseIsDurable
PROPERTY
  SessionKeepsIp
SYMMETRY Sessions
