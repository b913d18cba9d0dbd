SPECIFICATION Spec
CONSTANTS
  Fds = {f1, f2}
  Messages = {m1, m2}
  MaxConnections = 1
  MaxDeaths = 0
  MaxEvictions = 0
INVARIANTS SentWhole
CHECK_DEADLOCK FALSE
