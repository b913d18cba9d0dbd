SPECIFICATION FairSpec
CONSTANTS
  pikachu = pikachu
  squirtle = squirtle
  gengar = gengar
  Pokemons = {pikachu, squirtle, gengar}
  Positions = {0, 1}
  Start <- RingStart
  Owned <- RingOwned
  Objectives <- Ring
  Plannings = {"FIFO", "RR"}
  Quantum = 2
  TradingCycles = 5
  Receivers = {1}
  Listener = 1
  BrokerReachable = FALSE
  Pause = FALSE
INVARIANTS
  OneCycleAtATime
  PokemonsConserved
PROPERTIES
  TeamFinishes
CHECK_DEADLOCK FALSE
