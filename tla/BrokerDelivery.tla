--------------------------- MODULE BrokerDelivery ---------------------------
(***************************************************************************)
(* Delivery of the messages of one queue of the broker (broker.c): the     *)
(* broadcast thread of each message, the update thread of each subscriber  *)
(* that becomes ready, the descriptor threads that serve the connections,  *)
(* and the three mutexes a client struct carries.  A client struct is      *)
(* found by descriptor and never removed, so that a connection that reuses *)
(* a descriptor inherits the struct of the one before it.                  *)
(***************************************************************************)
EXTENDS Integers, SequencesExt

CONSTANTS
  Fds,             (* socket descriptors, each with its client struct        *)
  Messages,        (* messages published on the queue                        *)
  MaxConnections,  (* bound: connections that get the same descriptor        *)
  MaxDeaths,       (* bound: subscribers that vanish                         *)
  MaxEvictions     (* bound: messages that the cache evicts                  *)

ASSUME DeliveryAssumption ==
  MaxConnections \in Nat /\ MaxDeaths \in Nat /\ MaxEvictions \in Nat

Broadcast(m) == <<"broadcast", m>>
Update(f, n) == <<"update", f, n>>
Broadcasts == {Broadcast(m) : m \in Messages}
Updates    == {Update(f, n) : f \in Fds, n \in 1..MaxConnections}
Threads    == Broadcasts \cup Updates

Nobody == <<"nobody">>          \* no thread holds the mutex
None == <<"none">>              \* no iteration is running
Partition == <<"partition">>    \* the payload is the cache's, not deserialised

VARIABLES
  conn,         \* descriptor: "free", "open", "lost" (peer gone), "closing"
  connections,  \* how many connections have had the descriptor
  ready_to_recieve,        \* client->ready_to_recieve
  ready_to_recieve_mutex,  \* the thread that holds it
  access_answering,        \* is it locked?  whoever locked it, PROCESSED unlocks it
  subscribers,  \* queue->subscribers
  queue,        \* queue->messages
  published,    \* messages that have been added to the queue
  already_sent, \* message->already_sent, by descriptor
  payload,      \* message->message->payload: the partition or a thread's copy
  pc, index,    \* the threads: where each one is, and its loop index
  current,      \* the subscriber or message of the iteration it is in
  peer,         \* the process at the other end: "off", "connected", "subscribed", "ready"
  received,     \* how often its connection got each message
  unprocessed,  \* messages it has not answered with PROCESSED
  garbled,      \* messages sent from something that was not their payload
  deaths, evictions

client  == <<ready_to_recieve, ready_to_recieve_mutex, access_answering>>
thread  == <<pc, index, current>>
process == <<peer, received, unprocessed>>
bounds  == <<deaths, evictions>>
vars == <<conn, connections, client, subscribers, queue, published, already_sent, payload,
          thread, process, garbled, bounds>>

Init ==
  /\ conn = [f \in Fds |-> "free"]
  /\ connections = [f \in Fds |-> 0]
  /\ ready_to_recieve = [f \in Fds |-> FALSE]
  /\ ready_to_recieve_mutex = [f \in Fds |-> Nobody]
  /\ access_answering = [f \in Fds |-> FALSE]
  /\ subscribers = <<>>
  /\ queue = <<>>
  /\ published = {}
  /\ already_sent = [m \in Messages |-> {}]
  /\ payload = [m \in Messages |-> Partition]
  /\ pc = [t \in Threads |-> "off"]
  /\ index = [t \in Threads |-> 1]
  /\ current = [t \in Threads |-> None]
  /\ peer = [f \in Fds |-> "off"]
  /\ received = [f \in Fds |-> [m \in Messages |-> 0]]
  /\ unprocessed = [f \in Fds |-> 0]
  /\ garbled = {}
  /\ deaths = 0
  /\ evictions = 0

-----------------------------------------------------------------------------
(* Connections *)

\* accept and add_or_get_client: the struct of the descriptor is found as it was left.
Connect(f) ==
  /\ conn[f] = "free" /\ connections[f] < MaxConnections
  /\ conn' = [conn EXCEPT ![f] = "open"]
  /\ connections' = [connections EXCEPT ![f] = @ + 1]
  /\ peer' = [peer EXCEPT ![f] = "connected"]
  /\ received' = [received EXCEPT ![f] = [m \in Messages |-> 0]]
  /\ UNCHANGED <<client, subscribers, queue, published, already_sent, payload, thread,
                 unprocessed, garbled, bounds>>

\* NEW_SUBSCRIPTION
Subscribe(f) ==
  /\ peer[f] = "connected"
  /\ subscribers' = Append(subscribers, f)
  /\ peer' = [peer EXCEPT ![f] = "subscribed"]
  /\ UNCHANGED <<conn, connections, client, queue, published, already_sent, payload, thread,
                 received, unprocessed, garbled, bounds>>

\* Fault: the subscriber becomes ready and nobody brings it up to date.
ReadyWithoutUpdate(f) ==
  /\ peer[f] = "subscribed"
  /\ ready_to_recieve_mutex[f] = Nobody
  /\ ready_to_recieve' = [ready_to_recieve EXCEPT ![f] = TRUE]
  /\ peer' = [peer EXCEPT ![f] = "ready"]
  /\ UNCHANGED <<conn, connections, ready_to_recieve_mutex, access_answering, subscribers,
                 queue, published, already_sent, payload, thread, received, unprocessed,
                 garbled, bounds>>

\* READY_TO_RECIEVE waits for the mutex, and its thread brings the subscriber up to date.
Ready(f) ==
  /\ peer[f] = "subscribed"
  /\ ready_to_recieve_mutex[f] = Nobody
  /\ ready_to_recieve' = [ready_to_recieve EXCEPT ![f] = TRUE]
  /\ peer' = [peer EXCEPT ![f] = "ready"]
  /\ pc' = [pc EXCEPT ![Update(f, connections[f])] = "start"]
  /\ UNCHANGED <<conn, connections, ready_to_recieve_mutex, access_answering, subscribers,
                 queue, published, already_sent, payload, index, current, received,
                 unprocessed, garbled, bounds>>

\* Fault: a PROCESSED for a message that was not sent.
ProcessedUnasked(f) ==
  /\ peer[f] = "ready"
  /\ unprocessed' = [unprocessed EXCEPT ![f] = @ - 1]
  /\ access_answering' = [access_answering EXCEPT ![f] = FALSE]
  /\ UNCHANGED <<conn, connections, ready_to_recieve, ready_to_recieve_mutex, subscribers,
                 queue, published, already_sent, payload, thread, peer, received, garbled,
                 bounds>>

\* PROCESSED unlocks what the sender of the message locked.
Processed(f) ==
  /\ peer[f] = "ready" /\ unprocessed[f] > 0
  /\ unprocessed' = [unprocessed EXCEPT ![f] = @ - 1]
  /\ access_answering' = [access_answering EXCEPT ![f] = FALSE]
  /\ UNCHANGED <<conn, connections, ready_to_recieve, ready_to_recieve_mutex, subscribers,
                 queue, published, already_sent, payload, thread, peer, received, garbled,
                 bounds>>

\* The process dies or loses its connection, with a message in hand or not.
Die(f) ==
  /\ conn[f] = "open" /\ deaths < MaxDeaths
  /\ deaths' = deaths + 1
  /\ conn' = [conn EXCEPT ![f] = "lost"]
  /\ peer' = [peer EXCEPT ![f] = "off"]
  /\ unprocessed' = [unprocessed EXCEPT ![f] = 0]
  /\ UNCHANGED <<connections, client, subscribers, queue, published, already_sent, payload,
                 thread, received, garbled, evictions>>

\* The end of descriptor_socket: unsubscribe, and nothing else is undone.
Disconnect(f) ==
  /\ conn[f] = "lost"
  /\ conn' = [conn EXCEPT ![f] = "closing"]
  /\ \/ \E i \in DOMAIN subscribers :
          subscribers[i] = f /\ subscribers' = RemoveAt(subscribers, i)
     \/ (\A i \in DOMAIN subscribers : subscribers[i] # f) /\ UNCHANGED subscribers
  /\ UNCHANGED <<connections, client, queue, published, already_sent, payload, thread,
                 process, garbled, bounds>>

\* The server loop closes the descriptor; accept may hand it out again.
Close(f) ==
  /\ conn[f] = "closing"
  /\ conn' = [conn EXCEPT ![f] = "free"]
  /\ UNCHANGED <<connections, client, subscribers, queue, published, already_sent, payload,
                 thread, process, garbled, bounds>>

-----------------------------------------------------------------------------
(* The queue *)

\* NEW_MESSAGE, once the cache has stored it: its broadcast thread starts.
Publish(m) ==
  /\ m \notin published
  /\ published' = published \cup {m}
  /\ queue' = Append(queue, m)
  /\ pc' = [pc EXCEPT ![Broadcast(m)] = "next"]
  /\ UNCHANGED <<conn, connections, client, subscribers, already_sent, payload, index,
                 current, process, garbled, bounds>>

\* free_memory_partition takes the message off the queue; threads keep theirs.
Evict(i) ==
  /\ evictions < MaxEvictions
  /\ evictions' = evictions + 1
  /\ queue' = RemoveAt(queue, i)
  /\ UNCHANGED <<conn, connections, client, subscribers, published, already_sent, payload,
                 thread, process, garbled, deaths>>

-----------------------------------------------------------------------------
(* The threads: both loop by index over a list that others change *)

\* A broadcast delivers its message to each subscriber, an update each message to
\* its subscriber.
Msg(t) == IF t \in Broadcasts THEN t[2] ELSE current[t]
To(t)  == IF t \in Updates THEN t[2] ELSE current[t]

\* update_subscriber_with_messages_all_queues finds the queue in the client's list.
StartUpdate(t) ==
  /\ pc[t] = "start"
  /\ pc' = [pc EXCEPT ![t] = IF Contains(subscribers, To(t)) THEN "next" ELSE "done"]
  /\ UNCHANGED <<conn, connections, client, subscribers, queue, published, already_sent,
                 payload, index, current, process, garbled, bounds>>

\* The next subscriber of a broadcast; the payload is deserialised for it, into a
\* field of the message that all threads share.
PickSubscriber(t) ==
  /\ pc[t] = "next" /\ index[t] \in DOMAIN subscribers
  /\ current' = [current EXCEPT ![t] = subscribers[index[t]]]
  /\ payload' = [payload EXCEPT ![Msg(t)] = t]
  /\ pc' = [pc EXCEPT ![t] = "ready_mutex"]
  /\ UNCHANGED <<conn, connections, client, subscribers, queue, published, already_sent,
                 index, process, garbled, bounds>>

\* The next message of an update.
PickMessage(t) ==
  /\ pc[t] = "next" /\ index[t] \in DOMAIN queue
  /\ current' = [current EXCEPT ![t] = queue[index[t]]]
  /\ payload' = [payload EXCEPT ![queue[index[t]]] = t]
  /\ pc' = [pc EXCEPT ![t] = "ready_mutex"]
  /\ UNCHANGED <<conn, connections, client, subscribers, queue, published, already_sent,
                 index, process, garbled, bounds>>

Finish(t, list) ==
  /\ pc[t] = "next" /\ index[t] \notin DOMAIN list
  /\ pc' = [pc EXCEPT ![t] = "done"]
  /\ index' = [index EXCEPT ![t] = 1]       \* the thread's locals are gone
  /\ UNCHANGED <<conn, connections, client, subscribers, queue, published, already_sent,
                 payload, current, process, garbled, bounds>>

LockReady(t) ==
  /\ pc[t] = "ready_mutex" /\ ready_to_recieve_mutex[To(t)] = Nobody
  /\ ready_to_recieve_mutex' = [ready_to_recieve_mutex EXCEPT ![To(t)] = t]
  /\ pc' = [pc EXCEPT ![t] = "answering"]
  /\ UNCHANGED <<conn, connections, ready_to_recieve, access_answering, subscribers, queue,
                 published, already_sent, payload, index, current, process, garbled, bounds>>

\* Faults: one of the two conditions is not checked.
MustSendAgain(t)   == ready_to_recieve[To(t)]
MustSendUnready(t) == To(t) \notin already_sent[Msg(t)]

MustSend(t) == To(t) \notin already_sent[Msg(t)] /\ ready_to_recieve[To(t)]

\* Fault: ready_to_recieve_mutex stays locked.
LeaveClientLocked(t) ==
  /\ payload' = [payload EXCEPT ![Msg(t)] = Partition]
  /\ index' = [index EXCEPT ![t] = @ + 1]
  /\ current' = [current EXCEPT ![t] = None]
  /\ pc' = [pc EXCEPT ![t] = "next"]
  /\ UNCHANGED ready_to_recieve_mutex

\* Either way the shared payload is the partition again and the loop goes on.
LeaveClient(t) ==
  /\ payload' = [payload EXCEPT ![Msg(t)] = Partition]
  /\ ready_to_recieve_mutex' = [ready_to_recieve_mutex EXCEPT ![To(t)] = Nobody]
  /\ index' = [index EXCEPT ![t] = @ + 1]
  /\ current' = [current EXCEPT ![t] = None]
  /\ pc' = [pc EXCEPT ![t] = "next"]

\* Fault: access_answering is unlocked like the other two.
ReleaseAnswering(f) == UNCHANGED access_answering
KeepAnswering(f)    == access_answering' = [access_answering EXCEPT ![f] = TRUE]

\* With the mutex, wait for access_answering and check.  The message goes out, and
\* access_answering stays locked until PROCESSED.
Send(t) ==
  /\ pc[t] = "answering" /\ ~access_answering[To(t)] /\ MustSend(t)
  /\ KeepAnswering(To(t))
  /\ already_sent' = [already_sent EXCEPT ![Msg(t)] = @ \cup {To(t)}]
  /\ IF conn[To(t)] = "open"
     THEN /\ received' = [received EXCEPT ![To(t)][Msg(t)] = @ + 1]
          /\ unprocessed' = [unprocessed EXCEPT ![To(t)] = @ + 1]
     ELSE UNCHANGED <<received, unprocessed>>
  /\ garbled' = IF payload[Msg(t)] = Partition THEN garbled \cup {Msg(t)} ELSE garbled
  /\ LeaveClient(t)
  /\ UNCHANGED <<conn, connections, ready_to_recieve, subscribers, queue, published,
                 peer, bounds>>

\* Sent before, or the subscriber is not ready: access_answering is unlocked again.
Skip(t) ==
  /\ pc[t] = "answering" /\ ~access_answering[To(t)] /\ ~MustSend(t)
  /\ LeaveClient(t)
  /\ UNCHANGED <<conn, connections, ready_to_recieve, access_answering, subscribers, queue,
                 published, already_sent, process, garbled, bounds>>

SendToClient(t) == LockReady(t) \/ Send(t) \/ Skip(t)

BroadcastStep(t) == PickSubscriber(t) \/ Finish(t, subscribers) \/ SendToClient(t)
UpdateStep(t)    == StartUpdate(t) \/ PickMessage(t) \/ Finish(t, queue) \/ SendToClient(t)

Next ==
  \/ \E f \in Fds : \/ Connect(f) \/ Subscribe(f) \/ Ready(f) \/ Processed(f)
                    \/ Die(f) \/ Disconnect(f) \/ Close(f)
  \/ \E m \in Messages : Publish(m)
  \/ \E i \in DOMAIN queue : Evict(i)
  \/ \E t \in Broadcasts : BroadcastStep(t)
  \/ \E t \in Updates : UpdateStep(t)

Spec == Init /\ [][Next]_vars

\* The threads of the broker run and take free mutexes, and a living subscriber
\* processes what it is sent.
Fairness ==
  /\ \A t \in Broadcasts : WF_vars(BroadcastStep(t))
  /\ \A t \in Updates : WF_vars(UpdateStep(t))
  /\ \A f \in Fds : WF_vars(Processed(f))

FairSpec == Spec /\ Fairness

-----------------------------------------------------------------------------
(* Properties *)

Labels == {"off", "start", "next", "ready_mutex", "answering", "done"}

IterationsTyped ==
  \A t \in Threads : pc[t] \in {"ready_mutex", "answering"} =>
    Msg(t) \in Messages /\ To(t) \in Fds

\* The values the variables take; a thread in an iteration has a message and a
\* subscriber to send it to.
TypeOK ==
  /\ conn \in [Fds -> {"free", "open", "lost", "closing"}]
  /\ connections \in [Fds -> 0..MaxConnections]
  /\ ready_to_recieve \in [Fds -> BOOLEAN]
  /\ ready_to_recieve_mutex \in [Fds -> Threads \cup {Nobody}]
  /\ access_answering \in [Fds -> BOOLEAN]
  /\ subscribers \in Seq(Fds)
  /\ queue \in Seq(Messages)
  /\ published \subseteq Messages
  /\ already_sent \in [Messages -> SUBSET Fds]
  /\ payload \in [Messages -> Threads \cup {Partition}]
  /\ pc \in [Threads -> Labels]
  /\ index \in [Threads -> Nat]
  /\ current \in [Threads -> Fds \cup Messages \cup {None}]
  /\ peer \in [Fds -> {"off", "connected", "subscribed", "ready"}]
  /\ received \in [Fds -> [Messages -> Nat]]
  /\ unprocessed \in [Fds -> Nat]
  /\ garbled \subseteq Messages
  /\ deaths \in Nat /\ evictions \in Nat
  /\ IterationsTyped

Sending(t, f) == To(t) = f /\ pc[t] = "answering"

\* ready_to_recieve_mutex belongs to the one thread that is sending to the client,
\* while it waits for the answer to the message before too: no two threads write
\* to a subscriber at once (687-730).
OneSenderPerClient ==
  \A f \in Fds, t \in Threads : Sending(t, f) <=> ready_to_recieve_mutex[f] = t

\* access_answering stays locked from the sending of a message to its PROCESSED: a
\* subscriber never has two messages to process.
OneOutstanding ==
  \A f \in Fds :
    /\ unprocessed[f] <= 1
    /\ unprocessed[f] = 1 => access_answering[f]

\* No connection gets a message twice, whichever of its update and the message's
\* broadcast comes first, and however their loops slip.
AtMostOnce ==
  \A f \in Fds, m \in Messages : received[f][m] <= 1

\* A message reaches a connection that has not asked for it yet only when the
\* descriptor's struct was left ready by the connection before.
NotBeforeReady ==
  \A f \in Fds : peer[f] \in {"connected", "subscribed"} /\ connections[f] = 1 =>
    \A m \in Messages : received[f][m] = 0

\* When every thread is done, and nothing left a list under a running loop, each
\* ready subscriber has had each message of the queue.
NoneForgotten ==
  (/\ deaths = 0 /\ evictions = 0
   /\ \A t \in Threads : pc[t] \in {"off", "done"}) =>
     \A f \in Fds, m \in published : peer[f] = "ready" => received[f][m] = 1

\* A ready subscriber gets each message of the queue, as long as no subscriber dies
\* and no message is evicted.
Delivered ==
  [](deaths = 0 /\ evictions = 0) =>
    \A f \in Fds, m \in Messages :
      m \in published /\ peer[f] = "ready" ~> received[f][m] = 1

\* A message is sent from its deserialised payload.
SentWhole == garbled = {}

\* A subscriber that stays gets each message, whatever becomes of the others.
DeliveredRegardless ==
  \A f \in Fds, m \in Messages :
    m \in published /\ peer[f] = "ready" ~> received[f][m] = 1 \/ peer[f] # "ready"

-----------------------------------------------------------------------------
(* What the safety properties rest on: with TypeOK, an inductive invariant *)

\* A thread that has not been created is "off", one per message and connection.
ThreadsOnce ==
  /\ \A m \in Messages : pc[Broadcast(m)] # "off" => m \in published
  /\ \A f \in Fds, n \in 1..MaxConnections : pc[Update(f, n)] # "off" =>
       /\ n <= connections[f]
       /\ n = connections[f] => peer[f] \notin {"connected", "subscribed"}

\* What a connection got, its descriptor was recorded as sent.
ReceivedWasSent ==
  \A f \in Fds, m \in Messages :
    received[f][m] <= 1 /\ (received[f][m] = 1 => f \in already_sent[m])

\* The struct of a descriptor is ready only after the first READY_TO_RECIEVE on it.
ReadyIsAsked ==
  \A f \in Fds :
    /\ connections[f] = 0 => peer[f] = "off" /\ ~ready_to_recieve[f]
    /\ connections[f] = 1 /\ peer[f] \in {"connected", "subscribed"} =>
         ~ready_to_recieve[f] /\ \A m \in Messages : received[f][m] = 0

IInv ==
  TypeOK /\ ThreadsOnce /\ OneSenderPerClient /\ OneOutstanding /\ ReceivedWasSent
    /\ ReadyIsAsked
=============================================================================
