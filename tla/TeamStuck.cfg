SPECIFICATION Spec
CONSTANTS
  pikachu = pikachu
  squirtle = squirtle
  gengar = gengar
  Pokemons = {pikachu, squirtle, gengar}
  Positions = {0}
  Start <- TriplesStart
  Owned <- TriplesOwned
  Objectives <- Triples
  Plannings = {"FIFO"}
  Quantum = 2
  TradingCycles = 5
  Receivers = {1}
  Listener = 1
  BrokerReachable = FALSE
  Pause = TRUE
INVARIANTS
  DeadlocksFound
CHECK_DEADLOCK FALSE
