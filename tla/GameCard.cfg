SPECIFICATION FairSpec
CONSTANTS
  Listener = listener
  Others = {r1, r2}
  Broker = broker
  MaxLosses = 1
  Queues = 1
  MaxPushes = 2
INVARIANTS TypeOK OneRequest ListenerWoken
PROPERTIES OnlyGuestsCross KilledByLossOrGuest Served
CHECK_DEADLOCK FALSE
