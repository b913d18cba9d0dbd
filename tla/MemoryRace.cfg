SPECIFICATION Spec
CONSTANTS
  Publishers = {p1, p2}
  MemorySize = 7
  Configs <- RaceConfigs
  Sizes = {1, 3}
  MaxMessages = 3
  MaxSends = 1
  MaxHeld = 1
INVARIANTS IndexedPayloadIntact
CHECK_DEADLOCK FALSE
