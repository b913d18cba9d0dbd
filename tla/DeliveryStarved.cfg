SPECIFICATION LateSpec
CONSTANTS
  Fds = {f1, f2}
  Messages = {m1, m2}
  MaxConnections = 1
  MaxDeaths = 1
  MaxEvictions = 0
PROPERTIES DeliveredRegardless
CHECK_DEADLOCK FALSE
