SPECIFICATION LateSpec
CONSTANTS
  Fds = {f1, f2}
  Messages = {m1, m2}
  MaxConnections = 1
  MaxDeaths = 0
  MaxEvictions = 1
INVARIANTS NoneForgotten
PROPERTIES Delivered
CHECK_DEADLOCK FALSE
