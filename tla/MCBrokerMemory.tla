--------------------------- MODULE MCBrokerMemory ---------------------------
(* Instances of BrokerMemory for TLC: the configurations a broker runs with. *)
EXTENDS BrokerMemory

Dynamic(replacement, seek, freq, min) ==
  [memory_alg |-> "PARTITIONS", remplacement_alg |-> replacement, seek_alg |-> seek,
   compacting_freq |-> freq, partition_min_size |-> min]

Fifo   == Dynamic("FIFO", "FIRST_FIT", 2, 2)
Lru    == Dynamic("LRU", "BEST_FIT", -1, 1)
Buddy  == [Lru EXCEPT !.memory_alg = "BUDDY_SYSTEM"]

AllConfigs == {Fifo, Lru, Buddy}
RaceConfigs == {Dynamic("FIFO", "FIRST_FIT", 1, 2)}
=============================================================================
