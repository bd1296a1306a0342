SPECIFICATION HealthSpec
CONSTANTS
  a = a
  b = b
  Node = {a, b}
  Route <- OneIsShort
  Cooldowns = {1, 2}
  HealthyTtl = 1
  DayTicks = 2
  DbMayFail = FALSE
  MaxRestarts = 1
INVARIANT FailureExpires
