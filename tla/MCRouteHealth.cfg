\* Two cooldowns, a day one tick longer than the longer one, refused writes.
SPECIFICATION HealthSpec
CONSTANTS
  a = a
  b = b
  Node = {a, b}
  Route <- OneIsShort
  Cooldowns = {1, 2}
  HealthyTtl = 2
  DayTicks = 3
  DbMayFail = TRUE
  MaxRestarts = 1
INVARIANTS
  ExcludedForCooldown
  NotFailedAndHealthy
  NodeOutWithRoute
