-------------------------- MODULE GameCardRequests --------------------------
(***************************************************************************)
(* How the GameCard (gamecard.c) serves requests: those of the broker, in  *)
(* the thread that listens to it, and those of the GameBoy, each in a      *)
(* thread of its own that the server thread creates with op_mutex locked.  *)
(* Two mutexes and a flag hand the file system and the broker's socket     *)
(* from one to the other; the request threads unlock a mutex that only the *)
(* listener locks.  What a request does to the files is TallGrass's.       *)
(***************************************************************************)
EXTENDS BrokerLink

CONSTANTS
  Queues,      (* how many queues the GameCard subscribes to: three           *)
  MaxPushes    (* bound: messages that the broker has for the GameCard        *)

Requests == Others       \* one thread for each message of the GameBoy
Nobody   == <<"nobody">>

ASSUME RequestsAssumption ==
  Queues \in Nat /\ MaxPushes \in Nat /\ Nobody \notin Threads

VARIABLES
  at,                    \* where each thread is
  op_mutex,              \* who holds it: requests get it from the server thread
  broker_mutex,          \* is it locked?  the listener locks it, anyone unlocks it
  internal_broker_need,  \* a request is being processed
  has_broker_connection, \* set by the first connection, for good
  subscribed,            \* the queues of the present connection so far
  pushes

vars == <<link, at, op_mutex, broker_mutex, internal_broker_need, has_broker_connection,
          subscribed, pushes>>

Init ==
  /\ LinkInit
  /\ at = [t \in Threads |-> IF t = Listener THEN "connect" ELSE "off"]
  /\ op_mutex = Nobody
  /\ broker_mutex = FALSE
  /\ internal_broker_need = FALSE
  /\ has_broker_connection = FALSE
  /\ subscribed = 0
  /\ pushes = 0

Goto(t, place) == at' = [at EXCEPT ![t] = place]
At(t, place)   == Running /\ Idle(t) /\ at[t] = place
OffLink        == UNCHANGED link
Says(t, s)     ==
  /\ Start(t, s)
  /\ UNCHANGED <<connected, connection, stream, got, broker, out_of_step, dead, losses>>
Moves(t, from, to)   == At(t, from) /\ Goto(t, to) /\ OffLink
Asks(t, from, to, s) == At(t, from) /\ Goto(t, to) /\ Says(t, s)
Mutexes        == <<op_mutex, broker_mutex>>
Flags          == <<internal_broker_need, has_broker_connection>>
Counts         == <<subscribed, pushes>>

-----------------------------------------------------------------------------
(* broker_server_function *)

\* Retried until the broker accepts.
Connect(t) ==
  /\ At(t, "connect")
  /\ LinkConnect
  /\ Goto(t, "subscribe")
  /\ has_broker_connection' = TRUE
  /\ subscribed' = 0
  /\ UNCHANGED <<Mutexes, internal_broker_need, pushes>>

\* Fault: one subscription too many.
SubscribeAgain(t) ==
  /\ At(t, "subscribe") /\ subscribed <= Queues
  /\ Says(t, subscribe_to_queue)
  /\ subscribed' = subscribed + 1
  /\ UNCHANGED <<at, Mutexes, Flags, pushes>>

Subscribe(t) ==
  /\ At(t, "subscribe") /\ subscribed < Queues
  /\ Says(t, subscribe_to_queue)
  /\ subscribed' = subscribed + 1
  /\ UNCHANGED <<at, Mutexes, Flags, pushes>>

DeclareReady(t) ==
  /\ Asks(t, "subscribe", "peek", ready_to_recieve) /\ subscribed = Queues
  /\ UNCHANGED <<Mutexes, Flags, Counts>>

\* A word to peek at, whoever it is for; at the end of the data, start again.
Peek(t) ==
  /\ At(t, "peek")
  /\ \/ DataToPeek /\ Goto(t, "lock broker")
     \/ EndToPeek /\ Goto(t, "connect")
  /\ OffLink
  /\ UNCHANGED <<Mutexes, Flags, Counts>>

LockBroker(t) ==
  /\ Moves(t, "lock broker", "test need") /\ ~broker_mutex
  /\ broker_mutex' = TRUE
  /\ UNCHANGED <<op_mutex, Flags, Counts>>

\* While a request is being processed it goes back to its peek with broker_mutex locked.
TestNeed(t) ==
  /\ Moves(t, "test need", IF internal_broker_need THEN "peek" ELSE "lock op")
  /\ UNCHANGED <<Mutexes, Flags, Counts>>

\* Fault: the listener trusts the flag it has tested.
TakeOp(t) ==
  /\ Asks(t, "lock op", "received", receive_pokemon_message)
  /\ op_mutex' = t
  /\ UNCHANGED <<broker_mutex, Flags, Counts>>

LockOp(t) ==
  /\ Asks(t, "lock op", "received", receive_pokemon_message) /\ op_mutex = Nobody
  /\ op_mutex' = t
  /\ UNCHANGED <<broker_mutex, Flags, Counts>>

Acknowledge(t) ==
  /\ Asks(t, "received", "process", send_message_acknowledge)
  /\ UNCHANGED <<Mutexes, Flags, Counts>>

ListenerStep(t) ==
  \/ Connect(t) \/ Subscribe(t) \/ DeclareReady(t) \/ Peek(t) \/ LockBroker(t)
  \/ TestNeed(t) \/ LockOp(t) \/ Acknowledge(t)

-----------------------------------------------------------------------------
(* server_function *)

\* The GameBoy connects, sends its message, and leaves.
Arrive(r) ==
  /\ At(r, "off")
  /\ Goto(r, "arrived")
  /\ OffLink
  /\ UNCHANGED <<Mutexes, Flags, Counts>>

\* incoming: op_mutex first, then the thread that will unlock it.
Accept(r) ==
  /\ At(r, "arrived") /\ op_mutex = Nobody
  /\ op_mutex' = r
  /\ Goto(r, "process")
  /\ OffLink
  /\ UNCHANGED <<broker_mutex, Flags, Counts>>

-----------------------------------------------------------------------------
(* process_pokemon_message, by the listener or by a request's thread *)

Process(t) ==
  /\ Moves(t, "process", "work")
  /\ internal_broker_need' = TRUE
  /\ UNCHANGED <<Mutexes, has_broker_connection, Counts>>

\* Fault: the answer is sent whether or not there was ever a connection.
AnswerAnyway == TRUE

MayAnswer == has_broker_connection

\* A CATCH of a pokemon without a file and a GET without positions have no answer.
Work(t) ==
  /\ At(t, "work")
  /\ \/ MayAnswer /\ Says(t, send_pokemon_message)
     \/ OffLink
  /\ Goto(t, "worked")
  /\ UNCHANGED <<Mutexes, Flags, Counts>>

Worked(t) ==
  /\ At(t, "worked")
  /\ IF t = Listener /\ has_broker_connection THEN Says(t, already_processed) ELSE OffLink
  /\ Goto(t, "processed")
  /\ UNCHANGED <<Mutexes, Flags, Counts>>

NeedOver(t) ==
  /\ Moves(t, "processed", "unlock op")
  /\ internal_broker_need' = FALSE
  /\ UNCHANGED <<Mutexes, has_broker_connection, Counts>>

UnlockOp(t) ==
  /\ Moves(t, "unlock op", "unlock broker")
  /\ op_mutex' = Nobody
  /\ UNCHANGED <<broker_mutex, Flags, Counts>>

\* Fault: only who may have locked it unlocks it.
UnlockOwn(t) ==
  /\ Moves(t, "unlock broker", IF t = Listener THEN "peek" ELSE "done")
  /\ broker_mutex' = (broker_mutex /\ t # Listener)
  /\ UNCHANGED <<op_mutex, Flags, Counts>>

\* Whether or not it was t that locked it.
UnlockBroker(t) ==
  /\ Moves(t, "unlock broker", IF t = Listener THEN "peek" ELSE "done")
  /\ broker_mutex' = FALSE
  /\ UNCHANGED <<op_mutex, Flags, Counts>>

ProcessStep(t) ==
  \/ Process(t) \/ Work(t) \/ Worked(t) \/ NeedOver(t) \/ UnlockOp(t) \/ UnlockBroker(t)

-----------------------------------------------------------------------------
(* The broker and the socket *)

OnSocket(step) == step /\ UNCHANGED <<at, Mutexes, Flags, Counts>>

NewPush ==
  /\ pushes < MaxPushes
  /\ pushes' = pushes + 1
  /\ Enqueue(<<"message">>, {})
  /\ UNCHANGED <<at, Mutexes, Flags, subscribed>>

ThreadStep(t) ==
  OnSocket(SocketStep(t)) \/ ProcessStep(t) \/ ListenerStep(t)

Next ==
  \/ \E t \in Threads : ThreadStep(t)
  \/ \E r \in Requests : Arrive(r) \/ Accept(r)
  \/ OnSocket(BrokerStep)
  \/ NewPush
  \/ OnSocket(LoseBroker)

Spec == Init /\ [][Next]_vars

\* What a thread that is not on the socket waits for.
Unblocked(t) ==
  CASE at[t] = "peek" -> DataToPeek \/ EndToPeek
    [] at[t] = "lock broker" -> ~broker_mutex
    [] at[t] = "lock op" -> op_mutex = Nobody
    [] OTHER -> at[t] \notin {"off", "arrived", "done"}

CanStep(t) == Running /\ IF Idle(t) THEN Unblocked(t) ELSE SocketCanStep(t)

\* The threads of both processes run; nothing is assumed of the GameBoy, of new
\* messages, or of the broker's death, but that it starts again.  Weak fairness,
\* written with the state predicates that enable the steps.
Fairness ==
  /\ \A t \in Threads : <>[]CanStep(t) => []<><<ThreadStep(t)>>_vars
  /\ \A r \in Requests :
       <>[](Running /\ at[r] = "arrived" /\ op_mutex = Nobody) => []<><<Accept(r)>>_vars
  /\ <>[]BrokerCanStep => []<><<OnSocket(BrokerStep)>>_vars

FairSpec == Spec /\ Fairness

-----------------------------------------------------------------------------
(* Properties *)

Places == {"connect", "subscribe", "peek", "lock broker", "test need", "lock op", "received",
           "process", "work", "worked", "processed", "unlock op", "unlock broker",
           "off", "arrived", "done"}

\* The values of what this module adds to the link.
TypeOK ==
  /\ at \in [Threads -> Places]
  /\ op_mutex \in Threads \cup {Nobody}
  /\ broker_mutex \in BOOLEAN
  /\ internal_broker_need \in BOOLEAN /\ has_broker_connection \in BOOLEAN
  /\ subscribed \in 0..Queues
  /\ pushes \in 0..MaxPushes

InOperation ==
  {"received", "process", "work", "worked", "processed", "unlock op"}

\* op_mutex excludes: who reads the broker's message or works on the files holds it,
\* though a request's thread never locked it (545, 516, 166).  TallGrass has one
\* request at a time because of this.
OneRequest ==
  \A t \in Threads : at[t] \in InOperation <=> op_mutex = t

\* The listener never waits for broker_mutex in vain: it is locked while the
\* listener waits only if a request's thread will still unlock it (515-526, 167).
ListenerWoken ==
  at[Listener] \in {"connect", "subscribe", "peek", "lock broker"} /\ broker_mutex =>
    \E r \in Requests : at[r] \in (InOperation \cup {"unlock broker"}) \ {"received"}

\* The two ends of the socket lose step only while the answer to a GameBoy's request
\* is being sent: the broker's deliveries alone never cross the listener's answers.
OnlyGuestsCross ==
  [][out_of_step' => out_of_step \/ \E r \in Requests : Using(r)]_vars

\* What the socket can kill the process with (functions.c 161, 426-505, SIGPIPE): a
\* broker that was lost, and then only a thread that is still on its socket, though
\* has_broker_connection lets every later answer try (20); or, while the broker lives,
\* the word that crosses, in an exchange that a guest takes part in.
KilledByLossOrGuest ==
  [][dead' =>
       \/ dead
       \/ losses > 0 /\ \E t \in Threads : ~Idle(t) /\ ~Reaches(t)
       \/ out_of_step' /\ \E r \in Requests : Using(r)]_vars

\* The listener peeked at the answer to a request, which the request has read since:
\* it holds op_mutex and waits for a header that the broker may never send.
StalePeek ==
  /\ at[Listener] = "received" /\ ~Idle(Listener)
  /\ Len(script[Listener]) = 2 /\ to_process = <<>> /\ outgoing = <<>>

\* The broker has nothing for the listener, which has finished with all it got.
Rested == outgoing = <<>> /\ to_process = <<>> /\ at[Listener] = "peek"

Halted == out_of_step \/ dead \/ StalePeek

\* Each message of the GameBoy, and each of the broker, is processed in the end,
\* unless the process stops or stands at a stale peek.
Served ==
  /\ \A r \in Requests : at[r] = "arrived" ~> at[r] = "done" \/ Halted
  /\ []<>(Rested \/ Halted)
=============================================================================
