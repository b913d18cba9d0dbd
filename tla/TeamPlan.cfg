SPECIFICATION Spec
CONSTANTS
  pikachu = pikachu
  squirtle = squirtle
  gengar = gengar
  Pokemons = {pikachu, squirtle}
  Positions = {0, 1}
  Start <- PairsStart
  Owned <- PairsOwned
  Objectives <- Pairs
  Plannings = {"FIFO", "RR"}
  Quantum = 2
  TradingCycles = 1
  Receivers = {1, 2}
  Listener = 1
  BrokerReachable = TRUE
  Pause = TRUE
INVARIANTS
  TypeOK
  ReservationsKept
  NoneTooMany
  NoTrainerForgotten
  NoNullDereferenced
CHECK_DEADLOCK FALSE
