SPECIFICATION LateSpec
CONSTANTS
  Fds = {f1, f2}
  Messages = {m1, m2}
  MaxConnections = 2
  MaxDeaths = 1
  MaxEvictions = 0
SYMMETRY Symmetry
INVARIANTS TypeOK OneSenderPerClient OneOutstanding AtMostOnce NotBeforeReady
CHECK_DEADLOCK FALSE
