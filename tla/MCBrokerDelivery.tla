-------------------------- MODULE MCBrokerDelivery --------------------------
(* Instances of BrokerDelivery for TLC. *)
EXTENDS BrokerDelivery, TLC

Symmetry == Permutations(Messages)

\* Where the liveness run starts, a state of Spec: every process has subscribed,
\* one of them is ready and its update found an empty queue.
Early == CHOOSE f \in Fds : TRUE

LateInit ==
  /\ conn = [f \in Fds |-> "open"]
  /\ connections = [f \in Fds |-> 1]
  /\ peer = [f \in Fds |-> IF f = Early THEN "ready" ELSE "subscribed"]
  /\ subscribers \in SetToSeqs(Fds)
  /\ ready_to_recieve = [f \in Fds |-> f = Early]
  /\ ready_to_recieve_mutex = [f \in Fds |-> Nobody]
  /\ access_answering = [f \in Fds |-> FALSE]
  /\ queue = <<>>
  /\ published = {}
  /\ already_sent = [m \in Messages |-> {}]
  /\ payload = [m \in Messages |-> Partition]
  /\ pc = [t \in Threads |-> IF t = Update(Early, 1) THEN "done" ELSE "off"]
  /\ index = [t \in Threads |-> 1]
  /\ current = [t \in Threads |-> None]
  /\ received = [f \in Fds |-> [m \in Messages |-> 0]]
  /\ unprocessed = [f \in Fds |-> 0]
  /\ garbled = {}
  /\ deaths = 0
  /\ evictions = 0

LateSpec == LateInit /\ [][Next]_vars /\ Fairness
=============================================================================
