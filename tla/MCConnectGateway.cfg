SPECIFICATION Spec
CONSTANTS
  Routes = {r1, r2}
  Ports = {1, 2}
  MaxPid = 3
  Conns = {c1}
  ConnectAttempts = 2
INVARIANT
  RowsAreSound
PROPERTY
  HandedOutPortAnswers
