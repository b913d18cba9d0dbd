----------------------------- MODULE TeamBroker -----------------------------
(***************************************************************************)
(* How the Team (team.c) shares its socket to the broker: the listener,    *)
(* one thread for each initial GET, the trainers that send a CATCH, and    *)
(* the server thread, which gets the GameBoy's messages and unlocks two    *)
(* mutexes that it never locks.  What the messages do to requirements and  *)
(* plans is Team's.                                                        *)
(***************************************************************************)
EXTENDS BrokerLink, FiniteSets

CONSTANTS
  Pokemons,    (* the pokemons of global_requirements: one GET for each       *)
  Trainers,    (* trainers, with a pokemon each to catch                      *)
  Server,      (* the thread of server_function                               *)
  Queues,      (* how many queues the Team subscribes to: three               *)
  MaxPushes,   (* bound: APPEARED and LOCALIZED that the broker has           *)
  MaxTroubles  (* bound: messages of the GameBoy and losses of the broker     *)

\* The thread of a GET belongs to the connection it was created for.
Get(p, c)  == <<"get", p, c>>
Gets(c)    == {Get(p, c) : p \in Pokemons}
GetThreads == UNION {Gets(c) : c \in 1..(MaxLosses + 1)}
Nobody     == <<"nobody">>

ASSUME TeamAssumption ==
  /\ Others = GetThreads \cup Trainers \cup {Server} /\ Nobody \notin Threads
  /\ Server \notin GetThreads \cup Trainers /\ GetThreads \cap Trainers = {}
  /\ Queues \in Nat /\ MaxPushes \in Nat /\ MaxTroubles \in Nat
  /\ IsFiniteSet(Pokemons)

NoId == -1

VARIABLES
  at,                    \* where each thread is
  all_gets_ready,        \* is it locked?
  broker_mutex,          \* who locked it
  internal_broker_need,
  gets_left,
  opening,               \* connections whose send_gets has yet to create its threads
  has_broker_connection, \* set by the first connection, for good
  subscribed,            \* the queues of the present connection so far
  awaiting,              \* correlative_id_awaiting of each trainer
  pushes, guests,
  meddled                \* the server thread unlocked what another thread had locked

locks  == <<all_gets_ready, broker_mutex, meddled>>
needs  == <<internal_broker_need, gets_left, opening>>
counts == <<subscribed, pushes, guests>>
vars   == <<link, at, locks, needs, has_broker_connection, awaiting, counts>>

Init ==
  /\ LinkInit
  /\ at = [t \in Threads |-> IF t = Listener THEN "restart" ELSE "off"]
  /\ all_gets_ready = FALSE
  /\ broker_mutex = Nobody
  /\ internal_broker_need = FALSE
  /\ gets_left = 0
  /\ opening = {}
  /\ has_broker_connection = FALSE
  /\ subscribed = 0
  /\ awaiting = [t \in Trainers |-> NoId]
  /\ pushes = 0 /\ guests = 0
  /\ meddled = FALSE

Goto(t, place) == at' = [at EXCEPT ![t] = place]
At(t, place)   == Running /\ Idle(t) /\ at[t] = place
OffLink        == UNCHANGED link
Says(t, s)     ==
  /\ Start(t, s)
  /\ UNCHANGED <<connected, connection, stream, got, broker, out_of_step, dead, losses>>

-----------------------------------------------------------------------------
(* broker_mutex, by whoever uses the socket *)

\* Fault: the thread goes on without the mutex.
GoesOn(t) == UNCHANGED locks

Locks(t) ==
  /\ broker_mutex = Nobody
  /\ broker_mutex' = t
  /\ UNCHANGED <<all_gets_ready, meddled>>

\* A mutex does not ask who unlocks it.
UnlockBroker(t) ==
  /\ broker_mutex' = Nobody
  /\ meddled' = (meddled \/ broker_mutex \notin {t, Nobody})
  /\ UNCHANGED all_gets_ready

OpenGate(t) ==
  /\ all_gets_ready' = FALSE
  /\ meddled' = (meddled \/ (t = Server /\ all_gets_ready))
  /\ UNCHANGED broker_mutex

Steps(t, from, to) ==
  /\ At(t, from) /\ Goto(t, to)
  /\ UNCHANGED <<awaiting, counts, has_broker_connection>>

Moves(t, from, to)   == Steps(t, from, to) /\ OffLink
Asks(t, from, to, s) == Steps(t, from, to) /\ Says(t, s)

-----------------------------------------------------------------------------
(* broker_server_function *)

Restart(t) ==
  /\ Moves(t, "restart", "connect")
  /\ internal_broker_need' = FALSE
  /\ UNCHANGED <<locks, gets_left, opening>>

Connect(t) ==
  /\ At(t, "connect") /\ Goto(t, "subscribe")
  /\ LinkConnect
  /\ has_broker_connection' = TRUE
  /\ subscribed' = 0
  /\ UNCHANGED <<locks, needs, awaiting, pushes, guests>>

Subscribe(t) ==
  /\ At(t, "subscribe") /\ subscribed < Queues
  /\ Says(t, subscribe_to_queue)
  /\ subscribed' = subscribed + 1
  /\ UNCHANGED <<at, locks, needs, has_broker_connection, awaiting, pushes, guests>>

NeedGets(t) ==
  /\ Moves(t, "subscribe", "close gate") /\ subscribed = Queues
  /\ internal_broker_need' = TRUE
  /\ UNCHANGED <<locks, gets_left, opening>>

\* all_gets_ready stays locked, and the thread of send_gets is created.
CloseGate(t) ==
  /\ Moves(t, "close gate", "gate") /\ ~all_gets_ready
  /\ all_gets_ready' = TRUE
  /\ opening' = opening \cup {connection}
  /\ UNCHANGED <<broker_mutex, meddled, internal_broker_need, gets_left>>

PassGate(t) ==
  /\ Moves(t, "gate", "peek") /\ ~all_gets_ready
  /\ UNCHANGED <<locks, needs>>

Peek(t) ==
  /\ \/ DataToPeek /\ Steps(t, "peek", "lock broker")
     \/ EndToPeek /\ Steps(t, "peek", "restart")
  /\ OffLink
  /\ UNCHANGED <<locks, needs>>

LockBroker(t) ==
  /\ Moves(t, "lock broker", "test need") /\ Locks(t)
  /\ UNCHANGED needs

MayReceive == ~internal_broker_need /\ gets_left = 0

Receive(t) ==
  /\ Asks(t, "test need", "received", receive_pokemon_message) /\ MayReceive
  /\ UNCHANGED <<locks, needs>>

\* It goes back to the gate with broker_mutex locked, to lock it again.
KeepBroker(t) ==
  /\ Moves(t, "test need", "gate") /\ ~MayReceive
  /\ UNCHANGED <<locks, needs>>

Acknowledge(t) ==
  /\ Asks(t, "received", "need", send_message_acknowledge)
  /\ UNCHANGED <<locks, needs>>

\* process_pokemon_message: of the messages, only CAUGHT has to find its trainer.
Process(t) ==
  /\ At(t, "need") /\ Goto(t, "processed")
  /\ internal_broker_need' = TRUE
  /\ awaiting' = [r \in Trainers |->
                    IF got[t] = <<"CAUGHT", awaiting[r]>> THEN NoId ELSE awaiting[r]]
  /\ OffLink
  /\ UNCHANGED <<locks, gets_left, opening, has_broker_connection, counts>>

Processes(t) ==
  /\ Steps(t, "processed", "need over")
  /\ IF has_broker_connection THEN Says(t, already_processed) ELSE OffLink
  /\ UNCHANGED <<locks, needs>>

\* The end of process_pokemon_message, by the listener or by the server thread.
NeedOver(t) ==
  /\ Moves(t, "need over", "unlock broker")
  /\ internal_broker_need' = FALSE
  /\ UNCHANGED <<locks, gets_left, opening>>

UnlockAfter(t) ==
  /\ Moves(t, "unlock broker", "open gate") /\ UnlockBroker(t)
  /\ UNCHANGED needs

OpenAfter(t) ==
  /\ Moves(t, "open gate", IF t = Listener THEN "gate" ELSE "off") /\ OpenGate(t)
  /\ UNCHANGED needs

EndOfMessage(t) == NeedOver(t) \/ UnlockAfter(t) \/ OpenAfter(t)

ListenerStep(t) ==
  \/ Restart(t) \/ Connect(t) \/ Subscribe(t) \/ NeedGets(t) \/ CloseGate(t) \/ PassGate(t)
  \/ Peek(t) \/ LockBroker(t) \/ Receive(t) \/ KeepBroker(t) \/ Acknowledge(t) \/ Process(t)
  \/ Processes(t) \/ EndOfMessage(t)

\* server_function: a message of the GameBoy.  It says nothing to the broker.
Guest(t) ==
  /\ At(t, "off") /\ Goto(t, "need over")
  /\ guests + losses < MaxTroubles
  /\ guests' = guests + 1
  /\ OffLink
  /\ UNCHANGED <<locks, needs, has_broker_connection, awaiting, subscribed, pushes>>

-----------------------------------------------------------------------------
(* The initial GETs *)

\* Fault: the counter leaves one GET out.
SendGetsButOne(c) ==
  /\ Running /\ c \in opening
  /\ opening' = opening \ {c}
  /\ gets_left' = Cardinality(Pokemons) - 1
  /\ at' = [t \in Threads |-> IF t \in Gets(c) THEN "lock" ELSE at[t]]
  /\ OffLink
  /\ UNCHANGED <<locks, internal_broker_need, has_broker_connection, awaiting, counts>>

\* send_gets, two seconds later.
SendGets(c) ==
  /\ Running /\ c \in opening
  /\ opening' = opening \ {c}
  /\ gets_left' = Cardinality(Pokemons)
  /\ at' = [t \in Threads |-> IF t \in Gets(c) THEN "lock" ELSE at[t]]
  /\ OffLink
  /\ UNCHANGED <<locks, internal_broker_need, has_broker_connection, awaiting, counts>>

\* send_initial_get, as a trainer does with its CATCH.
LockAndSend(t) ==
  /\ Asks(t, "lock", "sent", send_pokemon_message) /\ Locks(t)
  /\ UNCHANGED needs

\* Fault: the GET before the last declares the Team ready.
Penultimate == gets_left <= 2

LastGet == gets_left = 1

\* The last GET declares the Team ready before it opens the gate.
CountGet(t) ==
  /\ Steps(t, "sent", IF LastGet THEN "ready" ELSE "unlock")
  /\ gets_left' = gets_left - 1
  /\ IF LastGet THEN Says(t, ready_to_recieve) ELSE OffLink
  /\ UNCHANGED <<locks, internal_broker_need, opening>>

\* Fault: the need of the GETs stays.
GetsStay(t) ==
  /\ Moves(t, "ready", "open")
  /\ UNCHANGED <<locks, needs>>

GetsOver(t) ==
  /\ Moves(t, "ready", "open")
  /\ internal_broker_need' = FALSE
  /\ UNCHANGED <<locks, gets_left, opening>>

OpenForListener(t) ==
  /\ Moves(t, "open", "unlock") /\ OpenGate(t)
  /\ UNCHANGED needs

Unlock(t) ==
  /\ Moves(t, "unlock", "done") /\ UnlockBroker(t)
  /\ UNCHANGED needs

GetStep(t) ==
  LockAndSend(t) \/ CountGet(t) \/ GetsOver(t) \/ OpenForListener(t) \/ Unlock(t)

-----------------------------------------------------------------------------
(* The CATCH of a trainer that has arrived (executing); without a broker the *)
(* capture is the Team's own *)

Arrive(t) ==
  /\ Moves(t, "off", IF has_broker_connection THEN "lock" ELSE "done")
  /\ UNCHANGED <<locks, needs>>

Await(t) ==
  /\ At(t, "sent") /\ Goto(t, "unlock")
  /\ awaiting' = [awaiting EXCEPT ![t] = got[t]]
  /\ OffLink
  /\ UNCHANGED <<locks, needs, has_broker_connection, counts>>

\* Fault: the trainer unlocks before it notes the id.
AwaitUnlocked(t) ==
  \/ LockAndSend(t)
  \/ Moves(t, "sent", "unlock") /\ UnlockBroker(t) /\ UNCHANGED needs
  \/ /\ At(t, "unlock") /\ Goto(t, "done")
     /\ awaiting' = [awaiting EXCEPT ![t] = got[t]]
     /\ OffLink
     /\ UNCHANGED <<locks, needs, has_broker_connection, counts>>

TrainerStep(t) == LockAndSend(t) \/ Await(t) \/ Unlock(t)

-----------------------------------------------------------------------------
(* The broker, the socket and the GameCard behind it *)

OnSocket(step) ==
  step /\ UNCHANGED <<at, locks, needs, has_broker_connection, awaiting, counts>>

NewPush ==
  /\ pushes < MaxPushes
  /\ pushes' = pushes + 1
  /\ Enqueue(<<"APPEARED">>, {})
  /\ UNCHANGED <<at, locks, needs, has_broker_connection, awaiting, subscribed, guests>>

\* The GameCard answers a CATCH with its id.
CatchAnswered(m) ==
  /\ m[1] \in Trainers
  /\ OnSocket(Enqueue(<<"CAUGHT", m[2]>>, {m}))

ThreadStep(t) ==
  \/ OnSocket(SocketStep(t))
  \/ t = Listener /\ ListenerStep(t)
  \/ t = Server /\ EndOfMessage(t)
  \/ t \in GetThreads /\ GetStep(t)
  \/ t \in Trainers /\ TrainerStep(t)

Next ==
  \/ \E t \in Threads : ThreadStep(t)
  \/ \E t \in Trainers : Arrive(t)
  \/ \E c \in opening : SendGets(c)
  \/ Guest(Server)
  \/ OnSocket(BrokerStep)
  \/ NewPush
  \/ \E m \in published : CatchAnswered(m)
  \/ guests + losses < MaxTroubles /\ OnSocket(LoseBroker)

Spec == Init /\ [][Next]_vars

\* What a thread that is not on the socket waits for.
Unblocked(t) ==
  CASE at[t] \in {"lock broker", "lock"} -> broker_mutex = Nobody
    [] at[t] \in {"close gate", "gate"}  -> ~all_gets_ready
    [] at[t] = "peek"                    -> DataToPeek \/ EndToPeek
    [] OTHER                             -> at[t] \notin {"off", "done"}

CanStep(t) == Running /\ IF Idle(t) THEN Unblocked(t) ELSE SocketCanStep(t)

\* The threads of both processes run; nothing is assumed of the trainers' paths, of the
\* GameBoy, of new messages, of the GameCard's answers, or of the broker's death, but
\* that it starts again.  Weak fairness, with the state predicates that enable the steps.
Fairness ==
  /\ \A t \in Threads : <>[]CanStep(t) => []<><<ThreadStep(t)>>_vars
  /\ \A c \in 1..(MaxLosses + 1) :
       <>[](Running /\ c \in opening) => []<><<SendGets(c)>>_vars
  /\ <>[]BrokerCanStep => []<><<OnSocket(BrokerStep)>>_vars

FairSpec == Spec /\ Fairness

-----------------------------------------------------------------------------
(* Properties *)

Places == {"restart", "connect", "subscribe", "close gate", "gate", "peek", "lock broker",
           "test need", "received", "need", "processed", "need over", "unlock broker",
           "open gate", "off", "lock", "sent", "ready", "open", "unlock", "done"}

\* The values of what this module adds to the link.  The counter of the GETs that are
\* left is below zero only if the server thread let GETs of two connections overlap.
TypeOK ==
  /\ at \in [Threads -> Places]
  /\ all_gets_ready \in BOOLEAN
  /\ broker_mutex \in Threads \cup {Nobody}
  /\ internal_broker_need \in BOOLEAN
  /\ gets_left \in Int /\ gets_left <= Cardinality(Pokemons) /\ (meddled \/ gets_left >= 0)
  /\ opening \subseteq 1..connection
  /\ awaiting \in [Trainers -> {NoId} \cup Nat]
  /\ has_broker_connection \in BOOLEAN /\ meddled \in BOOLEAN
  /\ subscribed \in 0..Queues
  /\ pushes \in 0..MaxPushes /\ guests \in 0..MaxTroubles

\* The Team declares itself ready to the broker only after the broker has got a GET for
\* each of its pokemons on the same connection (337-344), whatever was sent on the last.
GetsFirst ==
  ready /\ ~meddled =>
    \A p \in Pokemons : \E m \in published : m[1] = Get(p, connection)

\* A delivery of the broker is on the socket.
Delivering ==
  pushing # Nothing \/ \E i \in DOMAIN to_process : to_process[i].kind \in {"header", "body"}

\* What broker_mutex does not cover: a delivery that arrives while a thread waits for an
\* id, and the subscriptions of a new connection.
Crossing == (Delivering \/ at[Listener] = "subscribe") /\ \E t \in Others : Using(t)

\* broker_mutex keeps the answers apart (327, 408, 845): GETs, trainers and the listener
\* take each other's words only in the crossings above, or after a message of the
\* GameBoy has unlocked what they held (242).
InStep == [][out_of_step' => out_of_step \/ meddled \/ Crossing]_vars

\* The trainers that wait for an id of the present broker.
Waiting(id) == {r \in Trainers : awaiting[r] = id /\ socket[r] = connection}

\* A CAUGHT finds the trainer whose CATCH it answers, and no other, however early it
\* comes: the id is noted before the listener can receive it (845-853).
AnswerFindsItsTrainer ==
  [][\A id \in 0..last_message_id :
       (/\ at[Listener] = "need" /\ at'[Listener] = "processed"
        /\ got[Listener] = <<"CAUGHT", id>>) =>
          Cardinality(Waiting(id)) = 1 \/ meddled]_vars

\* The listener peeked at an answer that another thread has read since: it holds
\* broker_mutex and waits for a header that the broker may never send.
StalePeek ==
  /\ at[Listener] = "received" /\ ~Idle(Listener)
  /\ Len(script[Listener]) = 2 /\ to_process = <<>> /\ outgoing = <<>>

Halted == out_of_step \/ dead \/ meddled \/ StalePeek

Rested == outgoing = <<>> /\ to_process = <<>> /\ at[Listener] = "peek" /\ gets_left = 0

\* The listener, which goes back to its gate with broker_mutex locked (400-416), never
\* waits for it in vain: every message is received, every GET sent and every CATCH, on
\* every connection, unless the process stops, stands at a stale peek, or is meddled with.
Heard ==
  /\ \A t \in Trainers : at[t] = "lock" ~> at[t] = "done" \/ Halted
  /\ []<>(Rested \/ Halted)
=============================================================================
