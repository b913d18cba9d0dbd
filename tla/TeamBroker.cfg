SPECIFICATION FairSpec
CONSTANTS
  Listener = listener
  Others <- TeamThreads
  Broker = broker
  Server = server
  Pokemons = {p1, p2}
  Trainers = {t1}
  MaxLosses = 1
  Queues = 1
  MaxPushes = 1
  MaxTroubles = 1
INVARIANTS TypeOK GetsFirst
PROPERTIES InStep AnswerFindsItsTrainer Heard
CHECK_DEADLOCK FALSE
