--------------------------- MODULE GameCardProofs ---------------------------
(***************************************************************************)
(* The mutexes of the GameCard exclude and its listener waits for none of  *)
(* them in vain, its socket kills it only by a lost broker or in a guest's *)
(* exchange, and loses step only while a request's answer is being sent:   *)
(* for any number of requests, of queues and of messages, and however      *)
(* often the broker dies.                                                  *)
(***************************************************************************)
EXTENDS GameCardRequests, LinkProofs

Placed == at \in [Threads -> Places] /\ op_mutex \in Threads \cup {Nobody}

IInv == Placed /\ OneRequest

\* The broker and the words on the socket move no thread.
LEMMA SocketMovesNobody ==
  ASSUME IInv, UNCHANGED <<at, op_mutex>>
  PROVE  IInv'
  BY DEF IInv, Placed, OneRequest

\* The start of the process: nobody works.
LEMMA NobodyWorksFirst == Init => IInv
  <1> SUFFICES ASSUME Init PROVE IInv
    OBVIOUS
  <1>1. at = [t \in Threads |-> IF t = Listener THEN "connect" ELSE "off"] /\ op_mutex = Nobody
    BY DEF Init
  <1>2. Placed
    BY <1>1 DEF Placed, Places
  <1>3. OneRequest
    BY <1>1, RequestsAssumption DEF OneRequest, InOperation
  <1> QED
    BY <1>2, <1>3 DEF IInv

\* A thread that goes from one place to another on the same side of op_mutex.
LEMMA SameSide ==
  ASSUME IInv, NEW t \in Threads, NEW to \in Places,
         Goto(t, to), to \in InOperation <=> at[t] \in InOperation,
         op_mutex' = op_mutex
  PROVE  IInv'
  BY DEF IInv, Placed, OneRequest, Goto

\* A thread that takes op_mutex while nobody has it.
LEMMA Enters ==
  ASSUME IInv, NEW t \in Threads, NEW to \in Places \cap InOperation,
         Goto(t, to), op_mutex = Nobody, op_mutex' = t
  PROVE  IInv'
  BY RequestsAssumption DEF IInv, Placed, OneRequest, Goto

\* A thread that has op_mutex leaves it.
LEMMA Leaves ==
  ASSUME IInv, NEW t \in Threads, NEW to \in Places \ InOperation,
         Goto(t, to), at[t] \in InOperation, op_mutex' = Nobody
  PROVE  IInv'
  BY RequestsAssumption DEF IInv, Placed, OneRequest, Goto

\* The listener takes and gives back the mutexes in order.
LEMMA ListenerKeeps ==
  ASSUME IInv, NEW t \in Threads, ListenerStep(t)
  PROVE  IInv'
  <1>1. CASE Connect(t)
    BY <1>1, SameSide, "subscribe" \in Places DEF Connect, At, Mutexes, InOperation, Places
  <1>2. CASE Subscribe(t)
    BY <1>2, SocketMovesNobody DEF Subscribe, Mutexes
  <1>3. CASE DeclareReady(t)
    BY <1>3, SameSide DEF DeclareReady, Asks, At, Mutexes, InOperation, Places
  <1>4. CASE Peek(t)
    BY <1>4, SameSide DEF Peek, At, Mutexes, InOperation, Places
  <1>5. CASE LockBroker(t)
    BY <1>5, SameSide DEF LockBroker, Moves, At, InOperation, Places
  <1>6. CASE TestNeed(t)
    BY <1>6, SameSide DEF TestNeed, Moves, At, Mutexes, InOperation, Places
  <1>7. CASE LockOp(t)
    BY <1>7, Enters DEF LockOp, Asks, InOperation, Places
  <1>8. CASE Acknowledge(t)
    BY <1>8, SameSide DEF Acknowledge, Asks, At, Mutexes, InOperation, Places
  <1> QED
    BY <1>1, <1>2, <1>3, <1>4, <1>5, <1>6, <1>7, <1>8 DEF ListenerStep

\* So does the thread of a request.
LEMMA ProcessKeeps ==
  ASSUME IInv, NEW t \in Threads, ProcessStep(t)
  PROVE  IInv'
  <1>1. CASE Process(t)
    BY <1>1, SameSide DEF Process, Moves, At, Mutexes, InOperation, Places
  <1>2. CASE Work(t)
    BY <1>2, SameSide DEF Work, At, Mutexes, InOperation, Places
  <1>3. CASE Worked(t)
    BY <1>3, SameSide DEF Worked, At, Mutexes, InOperation, Places
  <1>4. CASE NeedOver(t)
    BY <1>4, SameSide DEF NeedOver, Moves, At, Mutexes, InOperation, Places
  <1>5. CASE UnlockOp(t)
    BY <1>5, Leaves DEF UnlockOp, Moves, At, InOperation, Places
  <1>6. CASE UnlockBroker(t)
    BY <1>6, SameSide DEF UnlockBroker, Moves, At, InOperation, Places
  <1> QED
    BY <1>1, <1>2, <1>3, <1>4, <1>5, <1>6 DEF ProcessStep

\* Every step of the process, of the broker and of the GameBoy keeps the invariant.
LEMMA Inductive == IInv /\ [Next]_vars => IInv'
  <1> SUFFICES ASSUME IInv, [Next]_vars PROVE IInv'
    OBVIOUS
  <1>1. ASSUME NEW t \in Threads, ThreadStep(t) PROVE IInv'
    BY <1>1, ListenerKeeps, ProcessKeeps, SocketMovesNobody DEF ThreadStep, OnSocket, Mutexes
  <1>2. ASSUME NEW r \in Requests, Arrive(r) PROVE IInv'
    BY <1>2, SameSide DEF Arrive, At, Mutexes, InOperation, Places, Requests, Threads
  <1>3. ASSUME NEW r \in Requests, Accept(r) PROVE IInv'
    BY <1>3, Enters DEF Accept, InOperation, Places, Requests, Threads
  <1>4. CASE OnSocket(BrokerStep)
    BY <1>4, SocketMovesNobody DEF OnSocket, Mutexes
  <1>5. CASE NewPush
    BY <1>5, SocketMovesNobody DEF NewPush, Mutexes
  <1>6. CASE OnSocket(LoseBroker)
    BY <1>6, SocketMovesNobody DEF OnSocket, Mutexes
  <1>7. CASE UNCHANGED vars
    BY <1>7, SocketMovesNobody DEF vars
  <1> QED
    BY <1>1, <1>2, <1>3, <1>4, <1>5, <1>6, <1>7 DEF Next

\* op_mutex, which the server thread locks for a request and the request unlocks, lets
\* one thread at a time read the broker's message or work on the files (545, 516, 166).
THEOREM RequestsExclude == Spec => []OneRequest
  <1>1. Init => IInv
    BY NobodyWorksFirst
  <1>2. IInv /\ [Next]_vars => IInv'
    BY Inductive
  <1>3. IInv => OneRequest
    BY DEF IInv
  <1> QED
    BY <1>1, <1>2, <1>3, PTL DEF Spec

-----------------------------------------------------------------------------
(* The values *)

\* A step of the process that goes to one of the places, and what else it changes.
LEMMA GoesTyped ==
  ASSUME TypeOK, NEW t \in Threads, NEW to \in Places, Goto(t, to),
         op_mutex' \in Threads \cup {Nobody}, broker_mutex' \in BOOLEAN,
         internal_broker_need' \in BOOLEAN, has_broker_connection' \in BOOLEAN,
         subscribed' \in 0..Queues, pushes' = pushes
  PROVE  TypeOK'
  BY DEF TypeOK, Goto

\* What is left alone stays typed.
LEMMA NothingTyped ==
  ASSUME TypeOK, UNCHANGED <<at, Mutexes, Flags, Counts>>
  PROVE  TypeOK'
  BY DEF TypeOK, Mutexes, Flags, Counts

\* The process starts typed.
LEMMA FirstTyped == Init => TypeOK
  <1> SUFFICES ASSUME Init PROVE TypeOK
    OBVIOUS
  <1>1. at = [t \in Threads |-> IF t = Listener THEN "connect" ELSE "off"] /\ op_mutex = Nobody
        /\ subscribed = 0 /\ pushes = 0
    BY DEF Init
  <1>2. broker_mutex \in BOOLEAN /\ internal_broker_need \in BOOLEAN
        /\ has_broker_connection \in BOOLEAN
    BY DEF Init
  <1> QED
    BY <1>1, <1>2, RequestsAssumption DEF TypeOK, Places

\* A step of broker_server_function keeps the types.
LEMMA ListenerTyped ==
  ASSUME TypeOK, NEW t \in Threads, ListenerStep(t)
  PROVE  TypeOK'
  <1> USE DEF Moves, Asks, At, Mutexes, Flags, Counts, Places
  <1>0. /\ op_mutex \in Threads \cup {Nobody} /\ broker_mutex \in BOOLEAN
        /\ internal_broker_need \in BOOLEAN /\ has_broker_connection \in BOOLEAN
        /\ subscribed \in 0..Queues
    BY DEF TypeOK
  <1>1. CASE Connect(t)
    <2>1. has_broker_connection' \in BOOLEAN /\ subscribed' \in 0..Queues
      BY <1>1, RequestsAssumption DEF Connect
    <2> QED
      BY <1>0, <1>1, <2>1, GoesTyped DEF Connect
  <1>2. CASE Subscribe(t)
    <2>1. subscribed' \in 0..Queues
      BY <1>0, <1>2, RequestsAssumption DEF Subscribe
    <2> QED
      BY <1>2, <2>1 DEF Subscribe, TypeOK
  <1>3. CASE DeclareReady(t)
    BY <1>0, <1>3, GoesTyped DEF DeclareReady
  <1>4. CASE Peek(t)
    BY <1>0, <1>4, GoesTyped DEF Peek
  <1>5. CASE LockBroker(t)
    BY <1>0, <1>5, GoesTyped DEF LockBroker
  <1>6. CASE TestNeed(t)
    BY <1>0, <1>6, GoesTyped DEF TestNeed
  <1>7. CASE LockOp(t)
    BY <1>0, <1>7, GoesTyped DEF LockOp
  <1>8. CASE Acknowledge(t)
    BY <1>0, <1>8, GoesTyped DEF Acknowledge
  <1> QED
    BY <1>1, <1>2, <1>3, <1>4, <1>5, <1>6, <1>7, <1>8 DEF ListenerStep

\* A step of the thread of a request keeps the types.
LEMMA ProcessTyped ==
  ASSUME TypeOK, NEW t \in Threads, ProcessStep(t)
  PROVE  TypeOK'
  <1> USE DEF Moves, Asks, At, Mutexes, Flags, Counts, Places
  <1>0. /\ op_mutex \in Threads \cup {Nobody} /\ broker_mutex \in BOOLEAN
        /\ internal_broker_need \in BOOLEAN /\ has_broker_connection \in BOOLEAN
        /\ subscribed \in 0..Queues
    BY DEF TypeOK
  <1>1. CASE Process(t)
    BY <1>0, <1>1, GoesTyped DEF Process
  <1>2. CASE Work(t)
    BY <1>0, <1>2, GoesTyped DEF Work
  <1>3. CASE Worked(t)
    BY <1>0, <1>3, GoesTyped DEF Worked
  <1>4. CASE NeedOver(t)
    BY <1>0, <1>4, GoesTyped DEF NeedOver
  <1>5. CASE UnlockOp(t)
    BY <1>0, <1>5, GoesTyped DEF UnlockOp
  <1>6. CASE UnlockBroker(t)
    BY <1>0, <1>6, GoesTyped DEF UnlockBroker
  <1> QED
    BY <1>1, <1>2, <1>3, <1>4, <1>5, <1>6 DEF ProcessStep

\* Every step keeps the types.
LEMMA TypingKept == TypeOK /\ [Next]_vars => TypeOK'
  <1> SUFFICES ASSUME TypeOK, [Next]_vars PROVE TypeOK'
    OBVIOUS
  <1>0. /\ op_mutex \in Threads \cup {Nobody} /\ broker_mutex \in BOOLEAN
        /\ internal_broker_need \in BOOLEAN /\ has_broker_connection \in BOOLEAN
        /\ subscribed \in 0..Queues
    BY DEF TypeOK
  <1>1. ASSUME NEW t \in Threads, ThreadStep(t) PROVE TypeOK'
    BY <1>1, ListenerTyped, ProcessTyped, NothingTyped DEF ThreadStep, OnSocket
  <1>2. ASSUME NEW r \in Requests, Arrive(r) \/ Accept(r) PROVE TypeOK'
    <2>1. r \in Threads
      BY DEF Requests, Threads
    <2>2. CASE Arrive(r)
      BY <1>0, <2>1, <2>2, GoesTyped DEF Arrive, Mutexes, Flags, Counts, Places
    <2>3. CASE Accept(r)
      BY <1>0, <2>1, <2>3, GoesTyped DEF Accept, Mutexes, Flags, Counts, Places
    <2> QED
      BY <1>2, <2>2, <2>3
  <1>3. CASE OnSocket(BrokerStep) \/ OnSocket(LoseBroker)
    BY <1>3, NothingTyped DEF OnSocket
  <1>4. CASE NewPush
    BY <1>4, RequestsAssumption DEF NewPush, TypeOK, Mutexes, Flags, Counts
  <1>5. CASE UNCHANGED vars
    BY <1>5, NothingTyped DEF vars, Mutexes, Flags, Counts
  <1> QED
    BY <1>1, <1>2, <1>3, <1>4, <1>5 DEF Next

\* The mutexes, flags and counters keep their ranges whatever the threads do: no more
\* queues are subscribed to on a connection than there are (431-462).
THEOREM TypeCorrect == Spec => []TypeOK
  <1>1. Init => TypeOK
    BY FirstTyped
  <1>2. TypeOK /\ [Next]_vars => TypeOK'
    BY TypingKept
  <1> QED
    BY <1>1, <1>2, PTL DEF Spec

-----------------------------------------------------------------------------
(* Which thread is where *)

ListenersPlaces ==
  {"connect", "subscribe", "peek", "lock broker", "test need", "lock op", "received"}

\* The thread of a request takes no step of broker_server_function.
RequestsApart == \A r \in Requests : at[r] \notin ListenersPlaces

Apart == TypeOK /\ RequestsApart

\* The steps of broker_server_function are the listener's.
LEMMA OnlyTheListener ==
  ASSUME Apart, NEW t \in Threads, ListenerStep(t)
  PROVE  t = Listener
  <1>1. at[t] \in ListenersPlaces
    BY DEF ListenerStep, Connect, Subscribe, DeclareReady, Peek, LockBroker, TestNeed, LockOp,
           Acknowledge, Moves, Asks, At, ListenersPlaces
  <1> QED
    BY <1>1 DEF Apart, RequestsApart, Requests, Threads

\* Who moves keeps to the places of its own function.
LEMMA MovesApart ==
  ASSUME Apart, NEW t \in Threads, NEW to, Goto(t, to),
         t = Listener \/ to \notin ListenersPlaces
  PROVE  RequestsApart'
  <1> SUFFICES ASSUME NEW r \in Requests PROVE at'[r] \notin ListenersPlaces
    BY DEF RequestsApart
  <1>1. /\ at \in [Threads -> Places] /\ at' = [at EXCEPT ![t] = to]
        /\ r \in Threads /\ r # Listener /\ at[r] \notin ListenersPlaces
    BY LinkAssumption DEF Apart, TypeOK, RequestsApart, Requests, Threads, Goto
  <1> QED
    BY <1>1

\* Every step keeps the requests out of the listener's function.
LEMMA ApartKept == Apart /\ [Next]_vars => Apart'
  <1> SUFFICES ASSUME Apart, [Next]_vars PROVE RequestsApart'
    BY TypingKept DEF Apart
  <1>1. ASSUME NEW t \in Threads, ThreadStep(t) PROVE RequestsApart'
    <2>1. CASE OnSocket(SocketStep(t))
      BY <2>1 DEF OnSocket, Apart, RequestsApart
    <2>2. CASE ProcessStep(t)
      <3>1. CASE t = Listener
        <4>1. \E to : Goto(t, to)
          BY <2>2
          DEF ProcessStep, Process, Work, Worked, NeedOver, UnlockOp, UnlockBroker, Moves
        <4> QED
          BY <3>1, <4>1, MovesApart
      <3>2. CASE t # Listener
        <4>1. \E to \in {"work", "worked", "processed", "unlock op", "unlock broker", "done"} :
                 Goto(t, to)
          BY <2>2, <3>2
          DEF ProcessStep, Process, Work, Worked, NeedOver, UnlockOp, UnlockBroker, Moves
        <4> QED
          BY <4>1, MovesApart DEF ListenersPlaces
      <3> QED
        BY <3>1, <3>2
    <2>3. CASE ListenerStep(t)
      <3>1. UNCHANGED at \/ \E to : Goto(t, to)
        BY <2>3
        DEF ListenerStep, Connect, Subscribe, DeclareReady, Peek, LockBroker, TestNeed, LockOp,
            Acknowledge, Moves, Asks
      <3>2. CASE UNCHANGED at
        BY <3>2 DEF Apart, RequestsApart
      <3> QED
        BY <2>3, <3>1, <3>2, MovesApart, OnlyTheListener
    <2> QED
      BY <1>1, <2>1, <2>2, <2>3 DEF ThreadStep
  <1>2. ASSUME NEW r \in Requests, Arrive(r) \/ Accept(r) PROVE RequestsApart'
    <2>1. r \in Threads
      BY DEF Requests, Threads
    <2> QED
      BY <1>2, <2>1, MovesApart DEF Arrive, Accept, ListenersPlaces
  <1>3. CASE OnSocket(BrokerStep) \/ OnSocket(LoseBroker) \/ NewPush \/ UNCHANGED vars
    BY <1>3 DEF OnSocket, NewPush, vars, Apart, RequestsApart
  <1> QED
    BY <1>1, <1>2, <1>3 DEF Next

\* And there they are at first.
LEMMA FirstApart == Init => Apart
  BY FirstTyped, LinkAssumption DEF Init, Apart, RequestsApart, ListenersPlaces, Requests, Threads

-----------------------------------------------------------------------------
(* The listener and broker_mutex *)

\* A request that will unlock broker_mutex when it has ended.
WillUnlock == (InOperation \cup {"unlock broker"}) \ {"received"}

\* The flag is set only while a thread is at work...
NeedIsWork ==
  internal_broker_need => \E t \in Threads : at[t] \in {"work", "worked", "processed"}

\* ... which is why the listener, when it finds the flag set, will be let in again.
WokenInv == Apart /\ NeedIsWork /\ ListenerWoken

\* A step that leaves the flag and broker_mutex alone, of a thread that goes on with its
\* request, or of the listener where it holds broker_mutex or no one does.
LEMMA GoesOn ==
  ASSUME WokenInv, NEW t \in Threads, NEW to \in Places, Goto(t, to),
         UNCHANGED <<broker_mutex, internal_broker_need>>,
         at[t] \in {"work", "worked", "processed"} => to \in {"work", "worked", "processed"},
         t # Listener /\ at[t] \in WillUnlock => to \in WillUnlock,
         t = Listener /\ to \in {"connect", "subscribe", "peek", "lock broker"}
            => at[t] \in {"connect", "subscribe", "peek", "lock broker"}
  PROVE  NeedIsWork' /\ ListenerWoken'
  <1>1. at \in [Threads -> Places] /\ at' = [at EXCEPT ![t] = to]
    BY DEF WokenInv, Apart, TypeOK, Goto
  <1>2. NeedIsWork'
    BY <1>1 DEF WokenInv, NeedIsWork
  <1>3. ListenerWoken'
    BY <1>1 DEF WokenInv, ListenerWoken, WillUnlock, InOperation, Requests, Threads
  <1> QED
    BY <1>2, <1>3

\* The broker and the words on the socket wake and work nobody.
LEMMA NothingWoken ==
  ASSUME WokenInv, UNCHANGED <<at, broker_mutex, internal_broker_need>>
  PROVE  NeedIsWork' /\ ListenerWoken'
  BY DEF WokenInv, NeedIsWork, ListenerWoken

\* The listener waits for broker_mutex only while someone else is to unlock it.
LEMMA ListenerStaysWoken ==
  ASSUME WokenInv, NEW t \in Threads, ListenerStep(t)
  PROVE  NeedIsWork' /\ ListenerWoken'
  <1> USE DEF Moves, Asks, At, Mutexes, Flags, Counts, Places, WillUnlock, InOperation
  <1>0. at \in [Threads -> Places] /\ Listener \notin Requests /\ t = Listener
    BY LinkAssumption, OnlyTheListener DEF WokenInv, Apart, TypeOK, Requests
  <1>1. CASE Connect(t)
    <2>1. at[t] = "connect" /\ Goto(t, "subscribe")
          /\ UNCHANGED <<broker_mutex, internal_broker_need>>
      BY <1>1 DEF Connect
    <2> QED
      BY <2>1, GoesOn
  <1>2. CASE Subscribe(t)
    BY <1>2, NothingWoken DEF Subscribe
  <1>3. CASE DeclareReady(t)
    BY <1>3, GoesOn DEF DeclareReady
  <1>4. CASE Peek(t)
    BY <1>4, GoesOn DEF Peek
  <1>5. CASE LockBroker(t)
    <2>1. at[t] = "lock broker" /\ Goto(t, "test need") /\ ~broker_mutex
          /\ UNCHANGED internal_broker_need
      BY <1>5 DEF LockBroker
    <2>2. NeedIsWork'
      BY <1>0, <2>1 DEF WokenInv, NeedIsWork, Goto
    <2>3. ListenerWoken'
      BY <1>0, <2>1 DEF ListenerWoken, Goto
    <2> QED
      BY <2>2, <2>3
  <1>6. CASE TestNeed(t)
    <2>1. at[t] = "test need" /\ UNCHANGED <<broker_mutex, internal_broker_need>>
          /\ Goto(t, IF internal_broker_need THEN "peek" ELSE "lock op")
      BY <1>6 DEF TestNeed
    <2>2. NeedIsWork'
      BY <1>0, <2>1 DEF WokenInv, NeedIsWork, Goto
    <2>3. ASSUME internal_broker_need
          PROVE  \E r \in Requests : at'[r] \in WillUnlock
      <3>1. PICK r \in Threads : at[r] \in {"work", "worked", "processed"}
        BY <2>3 DEF WokenInv, NeedIsWork
      <3>2. r # t /\ r \in Requests
        BY <1>0, <2>1, <3>1 DEF Requests, Threads
      <3> QED
        BY <1>0, <2>1, <3>1, <3>2 DEF Goto
    <2>4. ListenerWoken'
      BY <1>0, <2>1, <2>3 DEF ListenerWoken, Goto
    <2> QED
      BY <2>2, <2>4
  <1>7. CASE LockOp(t)
    BY <1>7, GoesOn DEF LockOp
  <1>8. CASE Acknowledge(t)
    BY <1>8, GoesOn DEF Acknowledge
  <1> QED
    BY <1>1, <1>2, <1>3, <1>4, <1>5, <1>6, <1>7, <1>8 DEF ListenerStep

\* A request that takes broker_mutex, or the listener's turn, gives it back.
LEMMA ProcessKeepsWoken ==
  ASSUME WokenInv, NEW t \in Threads, ProcessStep(t)
  PROVE  NeedIsWork' /\ ListenerWoken'
  <1> USE DEF Moves, Asks, At, Mutexes, Flags, Counts, Places, WillUnlock, InOperation
  <1>0. at \in [Threads -> Places] /\ Listener \in Threads /\ Listener \notin Requests
    BY LinkAssumption DEF WokenInv, Apart, TypeOK, Threads, Requests
  <1>1. CASE Process(t)
    <2>1. at[t] = "process" /\ Goto(t, "work") /\ UNCHANGED broker_mutex
      BY <1>1 DEF Process
    <2>2. NeedIsWork'
      <3>1. at'[t] = "work"
        BY <1>0, <2>1 DEF Goto
      <3> QED
        BY <3>1 DEF NeedIsWork
    <2>3. ListenerWoken'
      BY <1>0, <2>1 DEF WokenInv, ListenerWoken, Goto, Requests, Threads
    <2> QED
      BY <2>2, <2>3
  <1>2. CASE Work(t)
    BY <1>2, GoesOn DEF Work
  <1>3. CASE Worked(t)
    BY <1>3, GoesOn DEF Worked
  <1>4. CASE NeedOver(t)
    <2>1. at[t] = "processed" /\ Goto(t, "unlock op") /\ UNCHANGED broker_mutex
          /\ ~internal_broker_need'
      BY <1>4 DEF NeedOver
    <2>2. NeedIsWork'
      BY <2>1 DEF NeedIsWork
    <2>3. ListenerWoken'
      BY <1>0, <2>1 DEF WokenInv, ListenerWoken, Goto, Requests, Threads
    <2> QED
      BY <2>2, <2>3
  <1>5. CASE UnlockOp(t)
    BY <1>5, GoesOn DEF UnlockOp
  <1>6. CASE UnlockBroker(t)
    <2>1. at[t] = "unlock broker" /\ at' \in [Threads -> Places] /\ ~broker_mutex'
          /\ Goto(t, IF t = Listener THEN "peek" ELSE "done")
          /\ UNCHANGED internal_broker_need
      BY <1>0, <1>6 DEF UnlockBroker, Goto
    <2>2. NeedIsWork'
      BY <1>0, <2>1 DEF WokenInv, NeedIsWork, Goto
    <2> QED
      BY <2>1, <2>2 DEF ListenerWoken
  <1> QED
    BY <1>1, <1>2, <1>3, <1>4, <1>5, <1>6 DEF ProcessStep

\* Every step keeps that.
LEMMA WokenKept == WokenInv /\ [Next]_vars => WokenInv'
  <1> SUFFICES ASSUME WokenInv, [Next]_vars PROVE NeedIsWork' /\ ListenerWoken'
    BY ApartKept DEF WokenInv
  <1>1. ASSUME NEW t \in Threads, ThreadStep(t) PROVE NeedIsWork' /\ ListenerWoken'
    BY <1>1, ListenerStaysWoken, ProcessKeepsWoken, NothingWoken
    DEF ThreadStep, OnSocket, Mutexes, Flags
  <1>2. ASSUME NEW r \in Requests, Arrive(r) \/ Accept(r) PROVE NeedIsWork' /\ ListenerWoken'
    <2>1. r \in Threads /\ r # Listener
      BY LinkAssumption DEF Requests, Threads
    <2>2. CASE Arrive(r)
      BY <2>1, <2>2, GoesOn DEF Arrive, At, Mutexes, Flags, Places, WillUnlock, InOperation
    <2>3. CASE Accept(r)
      BY <2>1, <2>3, GoesOn DEF Accept, At, Flags, Places, WillUnlock, InOperation
    <2> QED
      BY <1>2, <2>2, <2>3
  <1>3. CASE OnSocket(BrokerStep) \/ OnSocket(LoseBroker)
    BY <1>3, NothingWoken DEF OnSocket, Mutexes, Flags
  <1>4. CASE NewPush
    BY <1>4, NothingWoken DEF NewPush, Mutexes, Flags
  <1>5. CASE UNCHANGED vars
    BY <1>5, NothingWoken DEF vars
  <1> QED
    BY <1>1, <1>2, <1>3, <1>4, <1>5 DEF Next

\* The listener that goes back to its peek with broker_mutex locked (515-526) is let in
\* again: the request whose flag it has seen is still to unlock it (167).
THEOREM ListenerIsWoken == Spec => []ListenerWoken
  <1>1. Init => WokenInv
    BY FirstApart DEF Init, WokenInv, NeedIsWork, ListenerWoken
  <1>2. WokenInv /\ [Next]_vars => WokenInv'
    BY WokenKept
  <1>3. WokenInv => ListenerWoken
    BY DEF WokenInv
  <1> QED
    BY <1>1, <1>2, <1>3, PTL DEF Spec

-----------------------------------------------------------------------------
(* What kills the process *)

\* Before the first connection the listener is at its first step, and nobody answers.
SpeaksConnected ==
  connection = 0 => at[Listener] = "connect" /\ ~has_broker_connection

LifeInv == Apart /\ LossInv /\ SpeaksConnected

\* A thread that goes on, and may call a function of the library once connected.
LEMMA GoesOnAlive ==
  ASSUME LifeInv, NEW t \in Threads, NEW to \in Places, Goto(t, to),
         UNCHANGED has_broker_connection,
         t # Listener \/ at[t] # "connect",
         OffLink \/ \E s \in Seq(ScriptStep) : Says(t, s) /\ connection # 0
  PROVE  LossInv' /\ SpeaksConnected'
  <1>1. LossInv' /\ UNCHANGED connection
    <2>1. CASE OffLink
      BY <2>1, LossInvUnchanged DEF LifeInv, OffLink, link
    <2>2. CASE \E s \in Seq(ScriptStep) : Says(t, s) /\ connection # 0
      BY <2>2, StartKeepsLossInv DEF LifeInv, Says
    <2> QED
      BY <2>1, <2>2
  <1>2. SpeaksConnected'
    BY <1>1 DEF LifeInv, Apart, TypeOK, SpeaksConnected, Goto
  <1> QED
    BY <1>1, <1>2

\* The listener uses the socket only after it has connected.
LEMMA ListenerStaysAlive ==
  ASSUME LifeInv, NEW t \in Threads, ListenerStep(t)
  PROVE  LossInv' /\ SpeaksConnected'
  <1> USE DEF Moves, Asks, At, Flags, Places
  <1>0. t = Listener /\ (at[t] # "connect" => connection # 0)
    BY OnlyTheListener DEF LifeInv, SpeaksConnected
  <1>1. CASE Connect(t)
    BY <1>1, ConnectKeepsLossInv DEF Connect, LifeInv, SpeaksConnected
  <1>2. CASE Subscribe(t)
    BY <1>0, <1>2, ScriptsTyped, StartKeepsLossInv DEF Subscribe, Says, LifeInv, SpeaksConnected
  <1>3. CASE DeclareReady(t)
    BY <1>0, <1>3, ScriptsTyped, GoesOnAlive DEF DeclareReady
  <1>4. CASE Peek(t)
    BY <1>0, <1>4, GoesOnAlive DEF Peek
  <1>5. CASE LockBroker(t)
    BY <1>0, <1>5, GoesOnAlive DEF LockBroker
  <1>6. CASE TestNeed(t)
    BY <1>0, <1>6, GoesOnAlive DEF TestNeed
  <1>7. CASE LockOp(t)
    BY <1>0, <1>7, ScriptsTyped, GoesOnAlive DEF LockOp
  <1>8. CASE Acknowledge(t)
    BY <1>0, <1>8, ScriptsTyped, GoesOnAlive DEF Acknowledge
  <1> QED
    BY <1>1, <1>2, <1>3, <1>4, <1>5, <1>6, <1>7, <1>8 DEF ListenerStep

\* A request uses the socket only after has_broker_connection was set.
LEMMA ProcessKeepsAlive ==
  ASSUME LifeInv, NEW t \in Threads, ProcessStep(t)
  PROVE  LossInv' /\ SpeaksConnected'
  <1> USE DEF Moves, Asks, At, Flags, Places
  <1>0. has_broker_connection => connection # 0
    BY DEF LifeInv, SpeaksConnected
  <1>1. CASE Process(t)
    BY <1>1, GoesOnAlive DEF Process
  <1>2. CASE Work(t)
    BY <1>0, <1>2, ScriptsTyped, GoesOnAlive DEF Work, MayAnswer
  <1>3. CASE Worked(t)
    BY <1>0, <1>3, ScriptsTyped, GoesOnAlive DEF Worked
  <1>4. CASE NeedOver(t)
    BY <1>4, GoesOnAlive DEF NeedOver
  <1>5. CASE UnlockOp(t)
    BY <1>5, GoesOnAlive DEF UnlockOp
  <1>6. CASE UnlockBroker(t)
    BY <1>6, GoesOnAlive DEF UnlockBroker
  <1> QED
    BY <1>1, <1>2, <1>3, <1>4, <1>5, <1>6 DEF ProcessStep

\* So until the first loss whoever is on a socket reaches the broker, whatever the step.
LEMMA LifeKept == LifeInv /\ [Next]_vars => LifeInv'
  <1> SUFFICES ASSUME LifeInv, [Next]_vars PROVE LossInv' /\ SpeaksConnected'
    BY ApartKept DEF LifeInv
  <1>1. ASSUME NEW t \in Threads, ThreadStep(t) PROVE LossInv' /\ SpeaksConnected'
    <2>1. CASE OnSocket(SocketStep(t))
      <3>1. LossInv' /\ UNCHANGED connection
        BY <2>1, SocketKeepsLossInv
        DEF OnSocket, LifeInv, SocketStep, SendWord, ReceiveWord
      <3> QED
        BY <2>1, <3>1 DEF OnSocket, LifeInv, SpeaksConnected, Flags
    <2> QED
      BY <1>1, <2>1, ListenerStaysAlive, ProcessKeepsAlive DEF ThreadStep
  <1>2. ASSUME NEW r \in Requests, Arrive(r) \/ Accept(r) PROVE LossInv' /\ SpeaksConnected'
    <2>1. r \in Threads /\ r # Listener
      BY LinkAssumption DEF Requests, Threads
    <2> QED
      BY <1>2, <2>1, GoesOnAlive DEF Arrive, Accept, At, Flags, Places
  <1>3. CASE OnSocket(BrokerStep) \/ NewPush \/ UNCHANGED vars
    <2>1. UNCHANGED <<connected, connection, ends, dead, losses>>
      <3>1. CASE NewPush
        BY <3>1, EnqueueKeepsEnds DEF NewPush
      <3>2. CASE OnSocket(BrokerStep)
        BY <3>2, BrokerKeepsEnds DEF OnSocket
      <3>3. CASE UNCHANGED vars
        BY <3>3 DEF vars, link
      <3> QED
        BY <1>3, <3>1, <3>2, <3>3
    <2>2. UNCHANGED <<at, has_broker_connection>>
      BY <1>3 DEF OnSocket, NewPush, vars, Flags
    <2> QED
      BY <2>1, <2>2, LossInvUnchanged DEF LifeInv, SpeaksConnected
  <1>4. CASE OnSocket(LoseBroker)
    BY <1>4, LoseKeepsLossInv DEF OnSocket, LifeInv, SpeaksConnected, Flags
  <1> QED
    BY <1>1, <1>2, <1>3, <1>4 DEF Next

-----------------------------------------------------------------------------
(* The two ends of the socket in step *)

Pushes == {<<"message">>}

\* What a thread may be saying or reading where it is.
UttersAt(t, place) ==
  CASE place = "subscribe"                   -> {"NEW_SUBSCRIPTION", "queue", "OK"}
    [] place = "peek"                        -> {"READY_TO_RECIEVE", "ready"}
    [] place = "received"                    -> {"header", "body"}
    [] place = "process"                     -> {"MESSAGE_ACK", "acknowledged"}
    [] place = "worked"                      -> {"NEW_MESSAGE", "id", "message"}
    [] place = "processed" /\ t = Listener   -> {"PROCESSED"}
    [] OTHER                                 -> {}

Speech == \A t \in Threads : Phase(t) \in UttersAt(t, at[t]) \cup {NoKind}

\* The listener has the header of a message, and has not told the broker that it has
\* processed it.
InHand ==
  \/ at[Listener] = "received" /\ Phase(Listener) # "header"
  \/ at[Listener] \in {"process", "work", "worked"}
  \/ Phase(Listener) = "PROCESSED"

Deliveries == {w \in WordsBack(Pushes) : w.kind = "header"}
Endings    == {w \in WordsOut(Pushes) : w.kind = "PROCESSED"}

\* The broker has one message at a time with the listener: it waits for its PROCESSED.
OneDelivery ==
  /\ OneToken(to_broker, Endings, to_process, Deliveries, InHand \/ Current = "processed")
  /\ ~(InHand /\ Current = "processed")
  /\ connected /\ ~access_answering =>
       /\ NoneIn(to_broker, Endings) /\ NoneIn(to_process, Deliveries)
       /\ ~InHand /\ Current # "processed"

\* The listener has yet to declare itself ready on the connection.
Early == at[Listener] = "subscribe" \/ Phase(Listener) = "READY_TO_RECIEVE"

Readies    == {w \in WordsOut(Pushes) : w.kind = "READY_TO_RECIEVE"}
FromBroker == {w \in WordsBack(Pushes) : w.to = Broker}
ToListener == AnswersTo(Pushes, Listener)

\* Each delivery in the stream comes after a word that answers the listener.
AnswerFirst(s) ==
  \A i \in DOMAIN s : s[i] \in FromBroker => \E j \in DOMAIN s : j < i /\ s[j] \in ToListener

\* The broker delivers nothing before it has answered the listener's READY_TO_RECIEVE.
ReadyFirst ==
  /\ \A i \in DOMAIN to_broker : to_broker[i] \in Readies => to_broker[i].by = Listener
  /\ Current \in {"ready", "become ready"} => IsServed(Listener)
  /\ Early => ~Awake /\ Current # "ready"
              /\ NoneIn(to_process, FromBroker) /\ NoneIn(to_broker, Readies)
  /\ Phase(Listener) = "ready" =>
       AnswerFirst(to_process) /\ (Awake => ~NoneIn(to_process, ToListener))

StepInv ==
  /\ Apart /\ LinkTyped(Pushes)
  /\ Running => TurnInv(Pushes) /\ Speech /\ OneDelivery /\ ReadyFirst

\* A thread goes to a place, and calls the function that begins with k, if with any.
OwnMove(t, to, k) ==
  /\ Idle(t) /\ at' = [at EXCEPT ![t] = to]
  /\ IF k = NoKind THEN OffLink ELSE \E s \in Functions : Head(s).kind = k /\ Says(t, s)
  /\ k \in UttersAt(t, to) \cup {NoKind}
  /\ to = "received" => k = "header"
  /\ to = "subscribe" \/ k = "READY_TO_RECIEVE" => at[t] = "subscribe"
  /\ t = Listener /\ (to \in {"process", "work", "worked"} \/ k = "PROCESSED") =>
       at[t] \in {"received", "process", "work", "worked"}

\* The functions by the word that each begins with.
LEMMA FunctionsBegin ==
  /\ subscribe_to_queue \in Functions /\ Head(subscribe_to_queue).kind = "NEW_SUBSCRIPTION"
  /\ ready_to_recieve \in Functions /\ Head(ready_to_recieve).kind = "READY_TO_RECIEVE"
  /\ send_pokemon_message \in Functions /\ Head(send_pokemon_message).kind = "NEW_MESSAGE"
  /\ receive_pokemon_message \in Functions /\ Head(receive_pokemon_message).kind = "header"
  /\ send_message_acknowledge \in Functions /\ Head(send_message_acknowledge).kind = "MESSAGE_ACK"
  /\ already_processed \in Functions /\ Head(already_processed).kind = "PROCESSED"
  BY DEF Functions, subscribe_to_queue, ready_to_recieve, send_pokemon_message,
         receive_pokemon_message, send_message_acknowledge, already_processed, send, recv

\* The steps of broker_server_function off the socket, but the first.
LEMMA ListenerMoves ==
  ASSUME Apart, NEW t \in Threads, ListenerStep(t), ~Connect(t)
  PROVE  \E to, k : OwnMove(t, to, k)
  <1> USE FunctionsBegin DEF OwnMove, Moves, Asks, At, Goto, UttersAt, NoKind
  <1>0. t = Listener /\ at \in [Threads -> Places]
    BY OnlyTheListener DEF Apart, TypeOK
  <1>1. CASE Subscribe(t)
    <2>1. at' = [at EXCEPT ![t] = "subscribe"]
      BY <1>0, <1>1 DEF Subscribe
    <2>2. OwnMove(t, "subscribe", "NEW_SUBSCRIPTION")
      BY <1>1, <2>1 DEF Subscribe
    <2> QED
      BY <2>2
  <1>2. CASE DeclareReady(t)
    <2>1. OwnMove(t, "peek", "READY_TO_RECIEVE")
      BY <1>2 DEF DeclareReady
    <2> QED
      BY <2>1
  <1>3. CASE Peek(t)
    <2>1. OwnMove(t, "lock broker", NoKind) \/ OwnMove(t, "connect", NoKind)
      BY <1>3 DEF Peek
    <2> QED
      BY <2>1
  <1>4. CASE LockBroker(t)
    <2>1. OwnMove(t, "test need", NoKind)
      BY <1>4 DEF LockBroker
    <2> QED
      BY <2>1
  <1>5. CASE TestNeed(t)
    <2>1. OwnMove(t, "peek", NoKind) \/ OwnMove(t, "lock op", NoKind)
      BY <1>5 DEF TestNeed
    <2> QED
      BY <2>1
  <1>6. CASE LockOp(t)
    <2>1. OwnMove(t, "received", "header")
      BY <1>6 DEF LockOp
    <2> QED
      BY <2>1
  <1>7. CASE Acknowledge(t)
    <2>1. OwnMove(t, "process", "MESSAGE_ACK")
      BY <1>7 DEF Acknowledge
    <2> QED
      BY <2>1
  <1> QED
    BY <1>1, <1>2, <1>3, <1>4, <1>5, <1>6, <1>7 DEF ListenerStep

\* The steps of process_pokemon_message, and those of a request before it.
LEMMA RequestMoves ==
  ASSUME NEW t \in Threads, ProcessStep(t) \/ (t # Listener /\ (Arrive(t) \/ Accept(t)))
  PROVE  \E to, k : OwnMove(t, to, k)
  <1> USE FunctionsBegin DEF OwnMove, Moves, At, Goto, UttersAt, NoKind
  <1>1. CASE Process(t)
    <2>1. OwnMove(t, "work", NoKind)
      BY <1>1 DEF Process
    <2> QED
      BY <2>1
  <1>2. CASE Work(t)
    <2>1. OwnMove(t, "worked", NoKind) \/ OwnMove(t, "worked", "NEW_MESSAGE")
      BY <1>2 DEF Work
    <2> QED
      BY <2>1
  <1>3. CASE Worked(t)
    <2>1. OwnMove(t, "processed", NoKind) \/ OwnMove(t, "processed", "PROCESSED")
      BY <1>3 DEF Worked
    <2> QED
      BY <2>1
  <1>4. CASE NeedOver(t)
    <2>1. OwnMove(t, "unlock op", NoKind)
      BY <1>4 DEF NeedOver
    <2> QED
      BY <2>1
  <1>5. CASE UnlockOp(t)
    <2>1. OwnMove(t, "unlock broker", NoKind)
      BY <1>5 DEF UnlockOp
    <2> QED
      BY <2>1
  <1>6. CASE UnlockBroker(t)
    <2>1. OwnMove(t, "peek", NoKind) \/ OwnMove(t, "done", NoKind)
      BY <1>6 DEF UnlockBroker
    <2> QED
      BY <2>1
  <1>7. CASE t # Listener /\ Arrive(t)
    <2>1. OwnMove(t, "arrived", NoKind)
      BY <1>7 DEF Arrive
    <2> QED
      BY <2>1
  <1>8. CASE t # Listener /\ Accept(t)
    <2>1. OwnMove(t, "process", NoKind)
      BY <1>8 DEF Accept
    <2> QED
      BY <2>1
  <1> QED
    BY <1>1, <1>2, <1>3, <1>4, <1>5, <1>6, <1>7, <1>8 DEF ProcessStep

\* What the link's steps know of the threads' words.
LEMMA SaidWhere ==
  ASSUME Apart, Speech, NEW t \in Threads
  PROVE  /\ Phase(t) \in {"READY_TO_RECIEVE", "ready", "header", "body", "PROCESSED"}
              => t = Listener
         /\ Phase(t) \in {"READY_TO_RECIEVE", "ready"} => at[t] = "peek"
         /\ Phase(t) \in {"header", "body"} => at[t] = "received"
         /\ Phase(t) = "PROCESSED" => at[t] = "processed"
         /\ Phase(t) = "OK" => at[t] = "subscribe"
         /\ at[t] = "received" => Phase(t) \in {"header", "body", NoKind}
  <1>1. Phase(t) \in UttersAt(t, at[t]) \cup {NoKind}
    BY DEF Speech
  <1>2. t # Listener => at[t] \notin {"peek", "received"}
    BY DEF Apart, RequestsApart, ListenersPlaces, Requests, Threads
  <1> QED
    BY <1>1, <1>2 DEF UttersAt, NoKind

\* A thread that goes on with its function says what is said where it is.
LEMMA SpeechGoesOn ==
  ASSUME Speech, NEW t \in Threads, Phase(t) \in Kinds, Phase(t)' = Follows(Phase(t)), at' = at,
         \A u \in Threads : u # t => Phase(u)' = Phase(u)
  PROVE  Speech'
  <1> SUFFICES ASSUME NEW u \in Threads PROVE Phase(u)' \in UttersAt(u, at[u]) \cup {NoKind}
    BY DEF Speech
  <1>1. CASE u # t
    BY <1>1 DEF Speech
  <1>2. CASE u = t
    <2>1. Phase(t) \in UttersAt(t, at[t])
      BY DEF Speech, NoKind, Kinds
    <2> QED
      BY <1>2, <2>1 DEF UttersAt, Follows
  <1> QED
    BY <1>1, <1>2

\* A thread's own step off the socket: the broker's end does not change.
LEMMA OwnMoveKeepsSteps ==
  ASSUME StepInv, Running, Apart', NEW t \in Threads, NEW to, NEW k, OwnMove(t, to, k)
  PROVE  StepInv' /\ out_of_step' = out_of_step
  <1>1. TurnInv(Pushes) /\ Speech /\ OneDelivery /\ ReadyFirst /\ LinkTyped(Pushes) /\ Apart
    BY DEF StepInv
  <1>2. /\ UNCHANGED <<connected, to_broker, to_process, serving, access_answering, ready, pushing,
                       out_of_step, dead>>
        /\ LinkTyped(Pushes)' /\ TurnInv(Pushes)'
        /\ Phase(t)' = k /\ \A u \in Threads : u # t => Phase(u)' = Phase(u)
    <2>0. Phase(t) = NoKind /\ Idle(t)
      BY DEF OwnMove, Phase
    <2>1. CASE k = NoKind
      <3>1. UNCHANGED link
        BY <2>1 DEF OwnMove, OffLink
      <3>2. UNCHANGED <<connected, connection, ends, to_broker, to_process, serving, pushing, ready,
                        access_answering, out_of_step, dead, script>>
        BY <3>1 DEF link, stream, broker, ends
      <3>3. \A u \in Threads : Phase(u)' = Phase(u)
        BY <3>2 DEF Phase, Idle
      <3> QED
        BY <1>1, <2>0, <2>1, <3>1, <3>2, <3>3, TurnUnchanged, LinkTypedUnchanged
    <2>2. CASE k # NoKind
      <3>1. PICK s \in Functions : Head(s).kind = k /\ Says(t, s)
        BY <2>2 DEF OwnMove
      <3>2. s \in Seq(ScriptStep)
        BY FunctionsWhole
      <3>3. /\ Start(t, s)
            /\ UNCHANGED <<connected, connection, stream, got, broker, out_of_step, dead, losses>>
        BY <3>1 DEF Says
      <3>4. k = "header" => t = Listener
        <4>1. k = "header" => to = "received"
          BY DEF OwnMove, UttersAt, NoKind
        <4>2. at'[t] = to
          BY <1>1 DEF OwnMove, Apart, TypeOK
        <4>3. t # Listener => at'[t] # "received"
          BY DEF Apart, RequestsApart, ListenersPlaces, Requests, Threads
        <4> QED
          BY <4>1, <4>2, <4>3
      <3>5. LinkTyped(Pushes)'
        BY <1>1, <3>2, <3>3, StartTyped
      <3>6. TurnInv(Pushes)'
        BY <1>1, <2>0, <3>1, <3>3, <3>4, StartKeepsTurn
      <3>7. Phase(t)' = k /\ \A u \in Threads : u # t => Phase(u)' = Phase(u)
        BY <1>1, <3>1, <3>3, PhaseStarts DEF LinkTyped, TurnInv
      <3> QED
        BY <3>3, <3>5, <3>6, <3>7 DEF stream, broker
    <2> QED
      BY <2>1, <2>2
  <1>3. at' = [at EXCEPT ![t] = to] /\ at \in [Threads -> Places] /\ Phase(t) = NoKind
    BY <1>1 DEF OwnMove, Apart, TypeOK, Phase
  <1>4. Speech'
    BY <1>1, <1>2, <1>3 DEF OwnMove, Speech
  <1>5. k \in {"NEW_SUBSCRIPTION", "READY_TO_RECIEVE", "NEW_MESSAGE", "header", "MESSAGE_ACK",
               "PROCESSED", NoKind}
    <2>1. CASE k = NoKind
      BY <2>1
    <2>2. CASE k # NoKind
      <3>1. k \in Openings
        BY <2>2, FunctionsWhole DEF OwnMove
      <3> QED
        BY <3>1 DEF Openings, Headers
    <2> QED
      BY <2>1, <2>2
  <1>6. (InHand' => InHand) /\ (Early' => Early)
        /\ (Phase(Listener)' = "ready" => Phase(Listener) = "ready")
    <2>0. Listener \in Threads
      BY DEF Threads
    <2>1. CASE t # Listener
      <3>1. at'[Listener] = at[Listener] /\ Phase(Listener)' = Phase(Listener)
        BY <1>2, <1>3, <2>0, <2>1
      <3> QED
        BY <3>1 DEF InHand, Early
    <2>2. CASE t = Listener
      <3>1. at'[Listener] = to /\ Phase(Listener)' = k /\ Phase(Listener) = NoKind
        BY <1>2, <1>3, <2>2
      <3>2. InHand' => InHand
        BY <2>2, <3>1 DEF InHand, OwnMove, NoKind
      <3>3. Early' => Early
        BY <2>2, <3>1 DEF Early, OwnMove
      <3> QED
        BY <1>5, <3>1, <3>2, <3>3 DEF NoKind
    <2> QED
      BY <2>1, <2>2
  <1>7. Current' = Current /\ IsServed(Listener)' = IsServed(Listener) /\ Awake' = Awake
    BY <1>2 DEF Current, IsServed, Awake
  <1>8. OneDelivery'
    BY <1>1, <1>2, <1>6, <1>7 DEF OneDelivery, OneToken
  <1>9. ReadyFirst'
    BY <1>1, <1>2, <1>6, <1>7 DEF ReadyFirst
  <1> QED
    BY <1>2, <1>4, <1>8, <1>9 DEF StepInv

\* The listener connects: there is nothing yet on the socket.
LEMMA ConnectKeepsSteps ==
  ASSUME StepInv, Running, Apart', NEW t \in Threads, Connect(t)
  PROVE  StepInv' /\ out_of_step' = out_of_step
  <1>1. TurnInv(Pushes) /\ Speech /\ OneDelivery /\ LinkTyped(Pushes) /\ Apart
    BY DEF StepInv
  <1>2. t = Listener /\ Idle(Listener) /\ LinkConnect /\ at' = [at EXCEPT ![Listener] = "subscribe"]
    BY <1>1, OnlyTheListener DEF Connect, At, Goto, ListenerStep
  <1>3. /\ ~connected /\ to_process' = <<>>
        /\ UNCHANGED <<to_broker, script, serving, ready, pushing, out_of_step, dead>>
    BY <1>2 DEF LinkConnect, ends, broker
  <1>4. to_broker = <<>> /\ serving = <<>> /\ pushing = Nothing /\ ~ready
    BY <1>1, <1>3 DEF TurnInv, LeftNothing
  <1>5. LinkTyped(Pushes)' /\ TurnInv(Pushes)'
    BY <1>1, <1>2, ConnectTyped, ConnectKeepsTurn
  <1>6. \A u \in Threads : Phase(u)' = Phase(u)
    BY <1>3 DEF Phase, Idle
  <1>7. at'[Listener] = "subscribe" /\ Phase(Listener)' = NoKind
    BY <1>1, <1>2, <1>6 DEF Apart, TypeOK, Threads, Phase
  <1>8. Speech'
    BY <1>1, <1>2, <1>6, <1>7 DEF Speech, Apart, TypeOK
  <1>9. Current' = NoKind /\ ~Awake' /\ ~InHand'
    BY <1>3, <1>4, <1>7 DEF Current, Awake, InHand, NoKind
  <1>10. OneDelivery'
    BY <1>3, <1>4, <1>9, NoneInEmpty DEF OneDelivery, OneToken, NoKind
  <1>11. ReadyFirst'
    <2>1. NoneIn(<<>>, FromBroker) /\ NoneIn(<<>>, Readies) /\ DOMAIN <<>> = {}
      BY NoneInEmpty
    <2> QED
      BY <1>3, <1>4, <1>7, <1>9, <2>1 DEF ReadyFirst, NoKind
  <1> QED
    BY <1>3, <1>5, <1>8, <1>10, <1>11 DEF StepInv

\* What moves no thread leaves each where it says what it says.
LEMMA StaysPut ==
  ASSUME Speech, UNCHANGED <<at, script>>
  PROVE  /\ Speech' /\ InHand' = InHand /\ Early' = Early
         /\ \A u \in Threads : Phase(u)' = Phase(u)
  <1>1. \A u : Phase(u)' = Phase(u)
    BY DEF Phase, Idle
  <1> QED
    BY <1>1 DEF Speech, InHand, Early

\* The broker dies.
LEMMA LoseKeepsSteps ==
  ASSUME StepInv, Running, Apart', LoseBroker, UNCHANGED at
  PROVE  StepInv' /\ out_of_step' = out_of_step
  <1>1. TurnInv(Pushes) /\ Speech /\ OneDelivery /\ ReadyFirst /\ LinkTyped(Pushes)
    BY DEF StepInv
  <1>2. /\ connected' = FALSE /\ to_broker' = <<>> /\ serving' = <<>> /\ pushing' = Nothing
        /\ ready' = FALSE /\ UNCHANGED <<to_process, script, out_of_step>>
    BY DEF LoseBroker, ends
  <1>3. LinkTyped(Pushes)' /\ TurnInv(Pushes)'
    BY <1>1, LoseTyped, LoseKeepsTurn
  <1>4. /\ Speech' /\ InHand' = InHand /\ Early' = Early
        /\ Phase(Listener)' = Phase(Listener)
    BY <1>1, <1>2, StaysPut DEF Threads
  <1>5. Current' = NoKind /\ ~Awake'
    BY <1>2 DEF Current, Awake, NoKind
  <1>6. OneDelivery'
    BY <1>1, <1>2, <1>4, <1>5, NoneInEmpty DEF OneDelivery, OneToken, NoKind
  <1>7. ReadyFirst'
    <2>1. NoneIn(<<>>, Readies) /\ DOMAIN <<>> = {}
      BY NoneInEmpty
    <2> QED
      BY <1>1, <1>2, <1>4, <1>5, <2>1 DEF ReadyFirst, NoKind
  <1> QED
    BY <1>2, <1>3, <1>4, <1>6, <1>7 DEF StepInv

\* What is in hand and what is early after a word of the listener's function.
LEMMA WordMovesOn ==
  ASSUME Apart, Speech, NEW t \in Threads, Phase(t) \in Kinds, Phase(t)' = Follows(Phase(t)),
         at' = at, \A u \in Threads : u # t => Phase(u)' = Phase(u)
  PROVE  /\ Speech' /\ (Early' => Early)
         /\ InHand' = IF Phase(t) = "header" THEN TRUE
                      ELSE IF Phase(t) = "PROCESSED" THEN FALSE ELSE InHand
         /\ Phase(t) = "PROCESSED" => InHand
         /\ Phase(t) = "header" => ~InHand
         /\ Phase(Listener)' = "ready" =>
              \/ Phase(t) = "READY_TO_RECIEVE"
              \/ t # Listener /\ Phase(Listener) = "ready"
  <1>1. Speech'
    BY SpeechGoesOn
  <1>2. /\ Phase(t) \in {"READY_TO_RECIEVE", "ready", "header", "body", "PROCESSED"} => t = Listener
        /\ Phase(t) \in {"header", "body"} => at[t] = "received"
        /\ Phase(t) = "PROCESSED" => at[t] = "processed"
        /\ at[t] = "received" => Phase(t) \in {"header", "body", NoKind}
    BY SaidWhere
  <1>3. /\ Phase(t)' \notin {"READY_TO_RECIEVE", "PROCESSED", "header"}
        /\ Phase(t)' = "ready" => Phase(t) = "READY_TO_RECIEVE"
        /\ Phase(t) = "PROCESSED" => Phase(t)' = NoKind
        /\ Phase(t) # NoKind
    BY DEF Follows, Kinds, NoKind
  <1>4. CASE t # Listener
    <2>1. Phase(Listener)' = Phase(Listener) /\ at'[Listener] = at[Listener]
      BY <1>4 DEF Threads
    <2> QED
      BY <1>1, <1>2, <1>4, <2>1 DEF InHand, Early
  <1>5. CASE t = Listener
    <2>1. InHand' = IF Phase(t) = "header" THEN TRUE
                    ELSE IF Phase(t) = "PROCESSED" THEN FALSE ELSE InHand
      <3>1. CASE at[t] = "received"
        BY <1>2, <1>3, <1>5, <3>1 DEF InHand, NoKind
      <3>2. CASE at[t] # "received"
        BY <1>2, <1>3, <1>5, <3>2 DEF InHand, NoKind
      <3> QED
        BY <3>1, <3>2
    <2>2. (Phase(t) = "PROCESSED" => InHand) /\ (Phase(t) = "header" => ~InHand)
      BY <1>2, <1>5 DEF InHand
    <2> QED
      BY <1>1, <1>3, <1>5, <2>1, <2>2 DEF Early
  <1> QED
    BY <1>4, <1>5

\* The first answer of a stream without its first word, which is no answer.
LEMMA AnswerFirstOfTail ==
  ASSUME NEW s \in Seq(WordsBack(Pushes)), s # <<>>, Head(s) \notin ToListener
  PROVE  /\ AnswerFirst(s) => AnswerFirst(Tail(s))
         /\ ~NoneIn(s, ToListener) => ~NoneIn(Tail(s), ToListener)
  <1> DEFINE q == Tail(s)
  <1>1. /\ Len(s) \in Nat \ {0} /\ DOMAIN s = 1..Len(s) /\ Head(s) = s[1]
        /\ DOMAIN q = 1..(Len(s) - 1)
        /\ \A i \in DOMAIN q : i + 1 \in DOMAIN s /\ q[i] = s[i + 1]
    BY HeadAndTail
  <1>2. \A j \in DOMAIN s : s[j] \in ToListener => j - 1 \in DOMAIN q /\ q[j - 1] = s[j]
    <2> SUFFICES ASSUME NEW j \in DOMAIN s, s[j] \in ToListener
                 PROVE  j - 1 \in DOMAIN q /\ q[j - 1] = s[j]
      OBVIOUS
    <2>1. j # 1
      BY <1>1
    <2> HIDE DEF q
    <2>2. j - 1 \in DOMAIN q /\ (j - 1) + 1 = j
      BY <1>1, <2>1
    <2> QED
      BY <1>1, <2>2
  <1> HIDE DEF q
  <1>3. ASSUME AnswerFirst(s) PROVE AnswerFirst(q)
    <2> SUFFICES ASSUME NEW i \in DOMAIN q, q[i] \in FromBroker
                 PROVE  \E j \in DOMAIN q : j < i /\ q[j] \in ToListener
      BY DEF AnswerFirst
    <2>1. i + 1 \in DOMAIN s /\ s[i + 1] \in FromBroker
      BY <1>1
    <2>2. PICK j \in DOMAIN s : j < i + 1 /\ s[j] \in ToListener
      BY <1>3, <2>1 DEF AnswerFirst
    <2>3. j - 1 \in DOMAIN q /\ q[j - 1] \in ToListener
      BY <1>2, <2>2
    <2>4. j - 1 < i
      BY <1>1, <2>2
    <2> QED
      BY <2>3, <2>4
  <1>4. ~NoneIn(s, ToListener) => ~NoneIn(q, ToListener)
    BY <1>2 DEF NoneIn
  <1> QED
    BY <1>3, <1>4 DEF q

\* A delivery at the end of a stream that has an answer, or another word.
LEMMA AnswerFirstOfAppend ==
  ASSUME NEW s \in Seq(WordsBack(Pushes)), NEW e \in WordsBack(Pushes)
  PROVE  /\ AnswerFirst(s) /\ (e \in FromBroker => ~NoneIn(s, ToListener))
              => AnswerFirst(Append(s, e))
         /\ ~NoneIn(s, ToListener) \/ e \in ToListener => ~NoneIn(Append(s, e), ToListener)
  <1> DEFINE q == Append(s, e)
  <1>1. /\ Len(s) \in Nat /\ DOMAIN s = 1..Len(s)
        /\ DOMAIN q = 1..(Len(s) + 1) /\ q[Len(s) + 1] = e
        /\ \A i \in DOMAIN s : q[i] = s[i]
    BY WordAppended
  <1> HIDE DEF q
  <1>2. Len(s) + 1 \in DOMAIN q /\ \A i \in DOMAIN s : i \in DOMAIN q /\ i < Len(s) + 1
    BY <1>1
  <1>3. ASSUME AnswerFirst(s), e \in FromBroker => ~NoneIn(s, ToListener) PROVE AnswerFirst(q)
    <2> SUFFICES ASSUME NEW i \in DOMAIN q, q[i] \in FromBroker
                 PROVE  \E j \in DOMAIN q : j < i /\ q[j] \in ToListener
      BY DEF AnswerFirst
    <2>1. CASE i \in DOMAIN s
      BY <1>1, <1>2, <1>3, <2>1 DEF AnswerFirst
    <2>2. CASE i \notin DOMAIN s
      <3>1. i = Len(s) + 1
        BY <1>1, <2>2
      <3> QED
        BY <1>1, <1>2, <1>3, <3>1 DEF NoneIn
    <2> QED
      BY <2>1, <2>2
  <1>4. ~NoneIn(s, ToListener) \/ e \in ToListener => ~NoneIn(q, ToListener)
    BY <1>1, <1>2 DEF NoneIn
  <1> QED
    BY <1>3, <1>4 DEF q

\* In a stream without deliveries nothing comes before an answer.
LEMMA AnswerFirstByNone ==
  ASSUME NEW s, NoneIn(s, FromBroker)
  PROVE  AnswerFirst(s)
  BY DEF AnswerFirst, NoneIn

\* A word of a thread's reaches the broker, or is lost.
LEMMA SendKeepsSteps ==
  ASSUME StepInv, Running, Apart', NEW t \in Threads, SendWord(t), UNCHANGED at
  PROVE  StepInv' /\ out_of_step' = out_of_step
  <1> DEFINE k == Phase(t)
             w == Word(t)
  <1>1. TurnInv(Pushes) /\ Speech /\ OneDelivery /\ ReadyFirst /\ LinkTyped(Pushes) /\ Apart
    BY DEF StepInv
  <1>2. /\ ~Idle(t) /\ Head(script[t]).op = "send"
        /\ script' = [script EXCEPT ![t] = Tail(@)]
        /\ to_broker' = Append(to_broker, w) \/ to_broker' = to_broker
        /\ UNCHANGED <<connected, to_process, serving, access_answering, ready, pushing,
                       out_of_step>>
    BY DEF SendWord, broker
  <1>3. LinkTyped(Pushes)' /\ TurnInv(Pushes)'
    BY <1>1, SendTyped, SendKeepsTurn
  <1>4. /\ k \in Kinds /\ Phase(t)' = Follows(k) /\ k \notin Receives
        /\ \A u \in Threads : u # t => Phase(u)' = Phase(u)
    <2>1. EndsTyped /\ Scripted
      BY <1>1 DEF LinkTyped, TurnInv
    <2> QED
      BY <1>2, <2>1, PhaseMoves
  <1>5. w \in WordsOut(Pushes) /\ w.by = t /\ w.kind = k /\ to_broker \in Seq(WordsOut(Pushes))
    BY <1>1, <1>2, WordTyped DEF Word, Phase, LinkTyped, StreamsTyped
  <1>6. /\ Speech' /\ (Early' => Early)
        /\ InHand' = IF k = "header" THEN TRUE ELSE IF k = "PROCESSED" THEN FALSE ELSE InHand
        /\ k = "PROCESSED" => InHand
        /\ Phase(Listener)' = "ready" =>
             k = "READY_TO_RECIEVE" \/ (t # Listener /\ Phase(Listener) = "ready")
    BY <1>1, <1>4, WordMovesOn
  <1>7. k # "header" /\ (k \in {"READY_TO_RECIEVE", "PROCESSED"} => t = Listener)
    BY <1>1, <1>4, SaidWhere DEF Receives
  <1>8. Current' = Current /\ IsServed(Listener)' = IsServed(Listener) /\ Awake' = Awake
    BY <1>2 DEF Current, IsServed, Awake
  <1> HIDE DEF k, w
  <1>9. OneDelivery'
    <2>1. CASE k = "PROCESSED"
      <3>1. NoneIn(to_broker, Endings) /\ NoneIn(to_process, Deliveries) /\ Current # "processed"
        BY <1>1, <1>6, <2>1 DEF OneDelivery, OneToken
      <3>2. AtMostOne(to_broker', Endings)
        BY <1>2, <1>5, <3>1, TokensOfAppend DEF NoneIn, AtMostOne
      <3>3. ~(connected /\ ~access_answering)
        BY <1>1, <1>6, <2>1 DEF OneDelivery
      <3> QED
        BY <1>1, <1>2, <1>6, <1>7, <1>8, <2>1, <3>1, <3>2, <3>3 DEF OneDelivery, OneToken
    <2>2. CASE k # "PROCESSED"
      <3>1. InHand' = InHand
        BY <1>6, <1>7, <2>2
      <3>2. w \notin Endings
        BY <1>5, <2>2 DEF Endings
      <3>3. /\ NoneIn(to_broker, Endings) => NoneIn(to_broker', Endings)
            /\ AtMostOne(to_broker, Endings) => AtMostOne(to_broker', Endings)
        <4>1. /\ NoneIn(to_broker, Endings) => NoneIn(Append(to_broker, w), Endings)
              /\ AtMostOne(to_broker, Endings) => AtMostOne(Append(to_broker, w), Endings)
          BY <1>5, <3>2, TokensOfAppend
        <4> QED
          BY <1>2, <4>1
      <3> QED
        BY <1>1, <1>2, <1>8, <3>1, <3>3 DEF OneDelivery, OneToken
    <2> QED
      BY <2>1, <2>2
  <1>10. k = "READY_TO_RECIEVE" => Early
    BY <1>7 DEF Early, k
  <1>11. \A i \in DOMAIN to_broker' : to_broker'[i] \in Readies => to_broker'[i].by = Listener
    <2>1. w \in Readies => w.by = Listener
      BY <1>5, <1>7 DEF Readies
    <2>2. \A i \in DOMAIN to_broker' : (i \in DOMAIN to_broker /\ to_broker'[i] = to_broker[i])
                                       \/ to_broker'[i] = w
      BY <1>2, <1>5, WordAppended
    <2> QED
      BY <1>1, <2>1, <2>2 DEF ReadyFirst
  <1>12. Early' => ~Awake /\ Current # "ready" /\ NoneIn(to_process, FromBroker)
                   /\ NoneIn(to_broker', Readies)
    <2> SUFFICES ASSUME Early' PROVE ~Awake /\ Current # "ready" /\ NoneIn(to_process, FromBroker)
                                     /\ NoneIn(to_broker', Readies)
      OBVIOUS
    <2>1. ~Awake /\ Current # "ready" /\ NoneIn(to_process, FromBroker) /\ NoneIn(to_broker, Readies)
      BY <1>1, <1>6 DEF ReadyFirst
    <2>2. k # "READY_TO_RECIEVE"
      <3> SUFFICES ASSUME k = "READY_TO_RECIEVE" PROVE FALSE
        OBVIOUS
      <3>1. t = Listener /\ at[Listener] = "peek" /\ Phase(Listener)' = "ready"
        BY <1>1, <1>4, <1>7, SaidWhere DEF k, Follows
      <3> QED
        BY <3>1 DEF Early
    <2>3. w \notin Readies
      BY <1>5, <2>2 DEF Readies
    <2>4. NoneIn(Append(to_broker, w), Readies)
      BY <1>5, <2>1, <2>3, TokensOfAppend
    <2> QED
      BY <1>2, <2>1, <2>4
  <1>13. Phase(Listener)' = "ready" =>
           AnswerFirst(to_process) /\ (Awake => ~NoneIn(to_process, ToListener))
    BY <1>1, <1>6, <1>10, AnswerFirstByNone DEF ReadyFirst
  <1>14. ReadyFirst'
    BY <1>1, <1>2, <1>8, <1>11, <1>12, <1>13 DEF ReadyFirst
  <1> QED
    BY <1>2, <1>3, <1>6, <1>9, <1>14 DEF StepInv

\* A thread takes a word that was meant for it.
LEMMA ReceiveKeepsSteps ==
  ASSUME StepInv, Running, Apart', NEW t \in Threads, ReceiveWord(t), Running', UNCHANGED at
  PROVE  StepInv'
  <1> DEFINE k == Phase(t)
             w == Head(to_process)
  <1>1. TurnInv(Pushes) /\ Speech /\ OneDelivery /\ ReadyFirst /\ LinkTyped(Pushes) /\ Apart
    BY DEF StepInv
  <1>2. /\ ~Idle(t) /\ Head(script[t]).op = "recv" /\ to_process # <<>> /\ Meant(w, t)
        /\ to_process' = Tail(to_process)
        /\ script' = [script EXCEPT ![t] = Tail(@)]
        /\ UNCHANGED <<connected, to_broker, serving, access_answering, ready, pushing>>
    BY DEF ReceiveWord, Running, broker
  <1>3. LinkTyped(Pushes)' /\ TurnInv(Pushes)'
    BY <1>1, ReceiveTyped, ReceiveKeepsTurn
  <1>4. /\ k \in Kinds /\ Phase(t)' = Follows(k) /\ k \in Receives
        /\ \A u \in Threads : u # t => Phase(u)' = Phase(u)
    <2>1. EndsTyped /\ Scripted
      BY <1>1 DEF LinkTyped, TurnInv
    <2> QED
      BY <1>2, <2>1, PhaseMoves
  <1>5. w \in WordsBack(Pushes) /\ w.kind = k /\ w.to \in {t, Broker}
        /\ to_process \in Seq(WordsBack(Pushes))
    <2>1. to_process \in Seq(WordsBack(Pushes))
      BY <1>1 DEF LinkTyped, StreamsTyped
    <2> QED
      BY <1>2, <2>1, HeadAndTail DEF Meant, Phase
  <1>6. /\ Speech' /\ (Early' => Early)
        /\ InHand' = IF k = "header" THEN TRUE ELSE IF k = "PROCESSED" THEN FALSE ELSE InHand
        /\ k = "header" => ~InHand
        /\ Phase(Listener)' = "ready" =>
             k = "READY_TO_RECIEVE" \/ (t # Listener /\ Phase(Listener) = "ready")
    BY <1>1, <1>4, WordMovesOn
  <1>7. k \notin {"READY_TO_RECIEVE", "PROCESSED"} /\ (k \in {"header", "body"} => t = Listener)
    BY <1>1, <1>4, SaidWhere DEF Receives
  <1>8. Current' = Current /\ IsServed(Listener)' = IsServed(Listener) /\ Awake' = Awake
    BY <1>2 DEF Current, IsServed, Awake
  <1>9. t # Listener => w.to = t
    <2>1. w.to = Broker => w.kind \in {"header", "body"}
      BY <1>1, <1>2, NextDelivery DEF TurnInv, Half
    <2> QED
      BY <1>5, <1>7, <2>1
  <1> HIDE DEF k, w
  <1>10. OneDelivery'
    <2>1. CASE k = "header"
      <3>1. w \in Deliveries
        BY <1>5, <2>1 DEF Deliveries
      <3>2. ~NoneIn(to_process, Deliveries) /\ (AtMostOne(to_process, Deliveries)
                                                => NoneIn(Tail(to_process), Deliveries))
        BY <1>2, <1>5, <3>1, TokensOfTail DEF w
      <3>3. NoneIn(to_broker, Endings) /\ Current # "processed" /\ ~(connected /\ ~access_answering)
            /\ NoneIn(Tail(to_process), Deliveries)
        BY <1>1, <3>2 DEF OneDelivery, OneToken
      <3>4. AtMostOne(Tail(to_process), Deliveries)
        BY <3>3 DEF NoneIn, AtMostOne
      <3> QED
        BY <1>1, <1>2, <1>8, <3>3, <3>4 DEF OneDelivery, OneToken
    <2>2. CASE k # "header"
      <3>1. InHand' = InHand
        BY <1>6, <1>7, <2>2
      <3>2. /\ NoneIn(to_process, Deliveries) => NoneIn(Tail(to_process), Deliveries)
            /\ AtMostOne(to_process, Deliveries) => AtMostOne(Tail(to_process), Deliveries)
        BY <1>2, <1>5, TokensOfTail
      <3> QED
        BY <1>1, <1>2, <1>8, <3>1, <3>2 DEF OneDelivery, OneToken
    <2> QED
      BY <2>1, <2>2
  <1>11. Early' => ~Awake /\ Current # "ready" /\ NoneIn(Tail(to_process), FromBroker)
                   /\ NoneIn(to_broker, Readies)
    <2>1. NoneIn(to_process, FromBroker) => NoneIn(Tail(to_process), FromBroker)
      BY <1>2, <1>5, TokensOfTail
    <2> QED
      BY <1>1, <1>6, <2>1 DEF ReadyFirst
  <1>12. Phase(Listener)' = "ready" =>
           AnswerFirst(Tail(to_process)) /\ (Awake => ~NoneIn(Tail(to_process), ToListener))
    <2> SUFFICES ASSUME Phase(Listener)' = "ready"
                 PROVE  AnswerFirst(Tail(to_process))
                        /\ (Awake => ~NoneIn(Tail(to_process), ToListener))
      OBVIOUS
    <2>1. t # Listener /\ Phase(Listener) = "ready"
      BY <1>6, <1>7
    <2>2. w \notin ToListener
      BY <1>9, <2>1 DEF ToListener, AnswersTo
    <2> QED
      BY <1>1, <1>2, <1>5, <2>1, <2>2, AnswerFirstOfTail DEF ReadyFirst, w
  <1>13. ReadyFirst'
    BY <1>1, <1>2, <1>8, <1>11, <1>12 DEF ReadyFirst
  <1> QED
    BY <1>3, <1>6, <1>10, <1>13 DEF StepInv

\* The broker's descriptor thread reads a header.
LEMMA HeaderKeepsSteps ==
  ASSUME StepInv, Running, Apart', ReadHeader, UNCHANGED at
  PROVE  StepInv' /\ out_of_step' = out_of_step
  <1> DEFINE w == Head(to_broker)
             k == w.kind
  <1>1. TurnInv(Pushes) /\ Speech /\ OneDelivery /\ ReadyFirst /\ LinkTyped(Pushes)
    BY DEF StepInv
  <1>2. /\ serving = <<>> /\ to_broker # <<>> /\ to_broker' = Tail(to_broker)
        /\ UNCHANGED <<connected, script, to_process, access_answering, pushing, ready>>
    BY DEF ReadHeader, ends
  <1>3. LinkTyped(Pushes)' /\ TurnInv(Pushes)' /\ out_of_step' = out_of_step
    BY <1>1, HeaderTyped, HeaderKeepsTurn
  <1>4. /\ Speech' /\ InHand' = InHand /\ Early' = Early
        /\ Phase(Listener)' = Phase(Listener)
    BY <1>1, <1>2, StaysPut DEF Threads
  <1>5. to_broker \in Seq(WordsOut(Pushes)) /\ w \in WordsOut(Pushes) /\ k \in Headers
        /\ w.by \in Threads
    BY <1>1, <1>2, NextWord, WordsAreOfKinds, HeadersComeFirst DEF LinkTyped, StreamsTyped
  <1>6. Current' = First(k) /\ \A u : IsServed(u)' <=> u = w.by
    <2>1. serving' = Remaining(w.by, First(k)) /\ First(k) \in Stages
      BY <1>5, FirstTurns DEF ReadHeader
    <2> QED
      BY <1>5, <2>1, ServiceStarts
  <1>7. /\ First(k) = "ready" <=> k = "READY_TO_RECIEVE"
        /\ First(k) # "become ready"
        /\ First(k) = "processed" <=> k = "PROCESSED"
    BY <1>5, FirstTurns
  <1>8. Current = NoKind
    BY <1>2 DEF Current
  <1> HIDE DEF k
  <1>9. OneDelivery'
    <2>1. CASE k = "PROCESSED"
      <3>1. w \in Endings
        BY <1>5, <2>1 DEF Endings, k
      <3>2. ~NoneIn(to_broker, Endings) /\ (AtMostOne(to_broker, Endings)
                                            => NoneIn(Tail(to_broker), Endings))
        BY <1>2, <1>5, <3>1, TokensOfTail
      <3>3. NoneIn(to_process, Deliveries) /\ ~InHand /\ ~(connected /\ ~access_answering)
            /\ NoneIn(Tail(to_broker), Endings)
        BY <1>1, <3>2 DEF OneDelivery, OneToken
      <3>4. AtMostOne(Tail(to_broker), Endings)
        BY <3>3 DEF NoneIn, AtMostOne
      <3> QED
        BY <1>1, <1>2, <1>4, <3>3, <3>4 DEF OneDelivery, OneToken
    <2>2. CASE k # "PROCESSED"
      <3>1. Current' # "processed"
        BY <1>6, <1>7, <2>2
      <3>2. /\ NoneIn(to_broker, Endings) => NoneIn(Tail(to_broker), Endings)
            /\ AtMostOne(to_broker, Endings) => AtMostOne(Tail(to_broker), Endings)
        BY <1>2, <1>5, TokensOfTail
      <3> QED
        BY <1>1, <1>2, <1>4, <3>1, <3>2 DEF OneDelivery, OneToken
    <2> QED
      BY <2>1, <2>2
  <1>10. Awake' = Awake
    BY <1>2, <1>6, <1>7, <1>8 DEF Awake, NoKind
  <1>11. \A i \in DOMAIN Tail(to_broker) :
           Tail(to_broker)[i] \in Readies => Tail(to_broker)[i].by = Listener
    <2>1. \A i \in DOMAIN Tail(to_broker) :
            i + 1 \in DOMAIN to_broker /\ Tail(to_broker)[i] = to_broker[i + 1]
      BY <1>2, <1>5, HeadAndTail
    <2> QED
      BY <1>1, <2>1 DEF ReadyFirst
  <1>12. k = "READY_TO_RECIEVE" => w \in Readies /\ w.by = Listener /\ ~NoneIn(to_broker, Readies)
    <2>1. k = "READY_TO_RECIEVE" => w \in Readies
      BY <1>5 DEF Readies, k
    <2>2. 1 \in DOMAIN to_broker /\ w = to_broker[1]
      BY <1>2, <1>5, HeadAndTail
    <2> QED
      BY <1>1, <2>1, <2>2 DEF ReadyFirst, NoneIn
  <1>13. Early => ~Awake /\ Current' # "ready" /\ NoneIn(Tail(to_broker), Readies)
    <2>1. NoneIn(to_broker, Readies) => NoneIn(Tail(to_broker), Readies)
      BY <1>2, <1>5, TokensOfTail
    <2> QED
      BY <1>1, <1>6, <1>7, <1>12, <2>1 DEF ReadyFirst
  <1>14. Current' \in {"ready", "become ready"} => IsServed(Listener)'
    BY <1>6, <1>7, <1>12
  <1>15. ReadyFirst'
    BY <1>1, <1>2, <1>4, <1>10, <1>11, <1>13, <1>14 DEF ReadyFirst
  <1> QED
    BY <1>3, <1>4, <1>9, <1>15 DEF StepInv

\* It reads the rest of what a thread says.
LEMMA RestKeepsSteps ==
  ASSUME StepInv, Running, Apart', ReadRest, Running', UNCHANGED at
  PROVE  StepInv'
  <1> DEFINE w == Head(to_broker)
  <1>1. TurnInv(Pushes) /\ Speech /\ OneDelivery /\ ReadyFirst /\ LinkTyped(Pushes)
    BY DEF StepInv
  <1>2. /\ to_broker # <<>> /\ to_broker' = Tail(to_broker)
        /\ UNCHANGED <<connected, script, to_process, access_answering, pushing, ready>>
    BY DEF ReadRest, ends
  <1>3. LinkTyped(Pushes)' /\ TurnInv(Pushes)'
    BY <1>1, RestTyped, RestKeepsTurn
  <1>4. /\ Speech' /\ InHand' = InHand /\ Early' = Early
        /\ Phase(Listener)' = Phase(Listener)
    BY <1>1, <1>2, StaysPut DEF Threads
  <1>5. PICK k \in Stages : StepOf(k).op = "recv" /\ Current = k /\ Current' = After(k)
    BY <1>1, RestTaken
  <1>6. Current \notin {"ready", "become ready", "processed"}
        /\ Current' \notin {"ready", "become ready", "processed"}
    <2>1. k \notin {"become ready", "processed"} /\ After(k) \notin {"ready", "processed"}
          /\ (After(k) = "become ready" <=> k = "ready")
      BY <1>5, StageTurns
    <2>2. k # "ready"
      BY <1>5 DEF StepOf, send
    <2> QED
      BY <1>5, <2>1, <2>2
  <1>7. to_broker \in Seq(WordsOut(Pushes))
    BY <1>1 DEF LinkTyped, StreamsTyped
  <1>8. OneDelivery'
    <2>1. /\ NoneIn(to_broker, Endings) => NoneIn(Tail(to_broker), Endings)
          /\ AtMostOne(to_broker, Endings) => AtMostOne(Tail(to_broker), Endings)
      BY <1>2, <1>7, TokensOfTail
    <2> QED
      BY <1>1, <1>2, <1>4, <1>6, <2>1 DEF OneDelivery, OneToken
  <1>9. ReadyFirst'
    <2>1. NoneIn(to_broker, Readies) => NoneIn(Tail(to_broker), Readies)
      BY <1>2, <1>7, TokensOfTail
    <2>2. \A i \in DOMAIN Tail(to_broker) :
            i + 1 \in DOMAIN to_broker /\ Tail(to_broker)[i] = to_broker[i + 1]
      BY <1>2, <1>7, HeadAndTail
    <2>3. \A i \in DOMAIN Tail(to_broker) :
            Tail(to_broker)[i] \in Readies => Tail(to_broker)[i].by = Listener
      BY <1>1, <2>2 DEF ReadyFirst
    <2>4. Awake' = Awake
      BY <1>2, <1>6 DEF Awake
    <2> QED
      BY <1>1, <1>2, <1>4, <1>6, <2>1, <2>3, <2>4 DEF ReadyFirst
  <1> QED
    BY <1>3, <1>4, <1>8, <1>9 DEF StepInv

\* It answers the thread whose header it serves.
LEMMA AnswerKeepsSteps ==
  ASSUME StepInv, Running, Apart', Answer, UNCHANGED at
  PROVE  StepInv' /\ out_of_step' = out_of_step
  <1>1. TurnInv(Pushes) /\ Speech /\ OneDelivery /\ ReadyFirst /\ LinkTyped(Pushes)
    BY DEF StepInv
  <1>2. UNCHANGED <<connected, script, to_broker, access_answering, pushing, ready, out_of_step>>
    BY DEF Answer, ends
  <1>3. LinkTyped(Pushes)' /\ TurnInv(Pushes)'
    BY <1>1, AnswerTyped, AnswerKeepsTurn
  <1>4. /\ Speech' /\ InHand' = InHand /\ Early' = Early
        /\ Phase(Listener)' = Phase(Listener)
    BY <1>1, <1>2, StaysPut DEF Threads
  <1>5. PICK t \in Threads, k \in Stages, w \in WordsBack(Pushes) :
          /\ StepOf(k).op = "send" /\ w.to = t /\ w.kind = k
          /\ to_process' = Append(to_process, w)
          /\ Current = k /\ Current' = After(k)
          /\ \A u \in Threads : IsServed(u) <=> u = t
          /\ \A u \in Threads : IsServed(u)' <=> u = t /\ After(k) # NoKind
    <2>1. \E t \in Threads, k \in Stages, w \in WordsBack(Pushes) :
            /\ StepOf(k).op = "send" /\ w.to = t /\ w.kind = k
            /\ to_process' = Append(to_process, w)
            /\ Current = k /\ \A u : IsServed(u) <=> u = t
            /\ Handled' /\ Current' = After(k)
            /\ \A u \in Threads : IsServed(u)' <=> u = t /\ After(k) # NoKind
      BY <1>1, AnswerGiven
    <2> QED
      BY <2>1
  <1>6. /\ k \notin {"processed", "become ready", "header"}
        /\ After(k) \notin {"ready", "processed"}
        /\ After(k) = "become ready" <=> k = "ready"
    <2>1. k # "header"
      BY DEF Stages
    <2> QED
      BY <1>5, <2>1, StageTurns
  <1>7. to_process \in Seq(WordsBack(Pushes))
    BY <1>1 DEF LinkTyped, StreamsTyped
  <1>8. w \notin Deliveries /\ w \notin FromBroker /\ (t = Listener => w \in ToListener)
    BY <1>5, <1>6, LinkAssumption DEF Deliveries, FromBroker, ToListener, AnswersTo, Threads
  <1>9. OneDelivery'
    <2>1. /\ NoneIn(to_process, Deliveries) => NoneIn(Append(to_process, w), Deliveries)
          /\ AtMostOne(to_process, Deliveries) => AtMostOne(Append(to_process, w), Deliveries)
      BY ONLY <1>5, <1>7, <1>8, TokensOfAppend
    <2>2. Current # "processed" /\ Current' # "processed"
      BY <1>5, <1>6
    <2> QED
      BY <1>1, <1>2, <1>4, <1>5, <2>1, <2>2 DEF OneDelivery, OneToken
  <1>10. k = "ready" => t = Listener /\ ~Early
    <2>1. k = "ready" => IsServed(Listener) /\ ~Early
      BY <1>1, <1>5 DEF ReadyFirst
    <2> QED
      BY <1>5, <2>1 DEF Threads
  <1>11. k # "ready" => Awake' = Awake
    BY <1>2, <1>5, <1>6 DEF Awake
  <1>12. Current' \in {"ready", "become ready"} => IsServed(Listener)'
    BY <1>5, <1>6, <1>10 DEF Threads, NoKind
  <1>13. Early => ~Awake' /\ Current' # "ready" /\ NoneIn(Append(to_process, w), FromBroker)
    <2>1. NoneIn(to_process, FromBroker) => NoneIn(Append(to_process, w), FromBroker)
      BY ONLY <1>5, <1>7, <1>8, TokensOfAppend
    <2> QED
      BY <1>1, <1>5, <1>6, <1>10, <1>11, <2>1 DEF ReadyFirst
  <1>14. Phase(Listener) = "ready" =>
           AnswerFirst(Append(to_process, w))
           /\ (Awake' => ~NoneIn(Append(to_process, w), ToListener))
    <2>1. AnswerFirst(to_process) => AnswerFirst(Append(to_process, w))
      BY ONLY <1>5, <1>7, <1>8, AnswerFirstOfAppend
    <2>2. ~NoneIn(to_process, ToListener) \/ w \in ToListener
            => ~NoneIn(Append(to_process, w), ToListener)
      BY ONLY <1>5, <1>7, AnswerFirstOfAppend
    <2> QED
      BY <1>1, <1>8, <1>10, <1>11, <2>1, <2>2 DEF ReadyFirst
  <1>15. ReadyFirst'
    BY <1>1, <1>2, <1>4, <1>5, <1>12, <1>13, <1>14 DEF ReadyFirst
  <1> QED
    BY <1>2, <1>3, <1>4, <1>9, <1>15 DEF StepInv

\* It marks the process ready, or its message processed.
LEMMA FlagsKeepSteps ==
  ASSUME StepInv, Running, Apart', BecomeReady \/ Processed, UNCHANGED at
  PROVE  StepInv' /\ out_of_step' = out_of_step
  <1>1. TurnInv(Pushes) /\ Speech /\ OneDelivery /\ ReadyFirst /\ LinkTyped(Pushes)
    BY DEF StepInv
  <1>2. /\ UNCHANGED <<connected, script, to_broker, to_process, pushing, out_of_step>>
        /\ serving # <<>> /\ serving' = Tail(serving)
    BY DEF BecomeReady, Processed, ServeNext, Serving, stream, ends
  <1>3. LinkTyped(Pushes)' /\ TurnInv(Pushes)'
    BY <1>1, FlagsTyped, FlagsKeepTurn
  <1>4. /\ Speech' /\ InHand' = InHand /\ Early' = Early
        /\ Phase(Listener)' = Phase(Listener)
    BY <1>1, <1>2, StaysPut DEF Threads
  <1>5. PICK t \in Threads, k \in Stages :
          Head(serving) = <<t, StepOf(k)>> /\ Current = k
    BY <1>1, <1>2, ServiceShape DEF TurnInv
  <1>6. Current' = After(k)
    BY <1>1, <1>2, <1>5, ServiceMoves DEF TurnInv
  <1>7. CASE BecomeReady
    <2>1. k = "become ready" /\ After(k) = NoKind
      <3>1. StepOf(k).op = "ready"
        BY <1>5, <1>7 DEF BecomeReady, Serving
      <3> QED
        BY <3>1, StageTurns
    <2>2. Awake /\ access_answering' = access_answering
      BY <1>5, <1>7, <2>1 DEF Awake, BecomeReady
    <2>3. OneDelivery'
      BY <1>1, <1>2, <1>4, <1>5, <1>6, <2>1, <2>2 DEF OneDelivery, OneToken, NoKind
    <2>4. ReadyFirst'
      BY <1>1, <1>2, <1>4, <1>6, <2>1, <2>2 DEF ReadyFirst, NoKind
    <2> QED
      BY <1>2, <1>3, <1>4, <2>3, <2>4 DEF StepInv
  <1>8. CASE Processed
    <2>1. k = "processed" /\ After(k) = NoKind
      <3>1. StepOf(k).op = "processed"
        BY <1>5, <1>8 DEF Processed, Serving
      <3> QED
        BY <3>1, StageTurns
    <2>2. ready' = ready
      BY <1>8 DEF Processed
    <2>3. OneDelivery'
      BY <1>1, <1>2, <1>4, <1>5, <1>6, <2>1 DEF OneDelivery, OneToken, NoKind
    <2>4. Awake' => Awake
      BY <1>2, <1>6, <2>1, <2>2 DEF Awake, NoKind
    <2>5. ReadyFirst'
      BY <1>1, <1>2, <1>4, <1>6, <2>1, <2>4 DEF ReadyFirst, NoKind
    <2> QED
      BY <1>2, <1>3, <1>4, <2>3, <2>5 DEF StepInv
  <1> QED
    BY <1>7, <1>8

\* The broker delivers: a header when the one before has been processed, and its body.
LEMMA PushKeepsSteps ==
  ASSUME StepInv, Running, Apart', PushHeader \/ PushBody, UNCHANGED at
  PROVE  StepInv' /\ out_of_step' = out_of_step
  <1>1. TurnInv(Pushes) /\ Speech /\ OneDelivery /\ ReadyFirst /\ LinkTyped(Pushes)
    BY DEF StepInv
  <1>2. UNCHANGED <<connected, script, to_broker, serving, ready, out_of_step>>
    BY DEF PushHeader, PushBody, ends
  <1>0. Nothing \notin Pushes
    BY DEF Nothing, Pushes
  <1>3. LinkTyped(Pushes)' /\ TurnInv(Pushes)'
    BY <1>0, <1>1, PushTyped, PushKeepsTurn
  <1>4. /\ Speech' /\ InHand' = InHand /\ Early' = Early
        /\ Phase(Listener)' = Phase(Listener)
    BY <1>1, <1>2, StaysPut DEF Threads
  <1>5. PICK w \in WordsBack(Pushes) :
          /\ to_process' = Append(to_process, w) /\ w.to = Broker
          /\ w.kind = (IF pushing = Nothing THEN "header" ELSE "body")
    BY <1>0, <1>1, PushGiven
  <1>6. Current' = Current /\ IsServed(Listener)' = IsServed(Listener)
    BY <1>2 DEF Current, IsServed
  <1>7. to_process \in Seq(WordsBack(Pushes))
    BY <1>1 DEF LinkTyped, StreamsTyped
  <1>8. Awake
    BY DEF PushHeader, PushBody, Awake
  <1>9. OneDelivery'
    <2>1. /\ NoneIn(to_process, Deliveries) => AtMostOne(Append(to_process, w), Deliveries)
          /\ w \notin Deliveries /\ NoneIn(to_process, Deliveries)
               => NoneIn(Append(to_process, w), Deliveries)
          /\ w \notin Deliveries /\ AtMostOne(to_process, Deliveries)
               => AtMostOne(Append(to_process, w), Deliveries)
      BY ONLY <1>5, <1>7, TokensOfAppend
    <2>2. CASE PushHeader
      <3>1. connected /\ ~access_answering /\ access_answering'
        BY <2>2 DEF PushHeader, PushTurn
      <3>2. /\ NoneIn(to_broker, Endings) /\ NoneIn(to_process, Deliveries)
            /\ ~InHand /\ Current # "processed"
        BY <1>1, <3>1 DEF OneDelivery
      <3> QED
        BY <1>1, <1>2, <1>4, <1>5, <1>6, <2>1, <3>1, <3>2 DEF OneDelivery, OneToken
    <2>3. CASE PushBody
      <3>1. w \notin Deliveries /\ access_answering' = access_answering
        BY <1>5, <2>3 DEF PushBody, Deliveries
      <3> QED
        BY <1>1, <1>2, <1>4, <1>5, <1>6, <2>1, <3>1 DEF OneDelivery, OneToken
    <2> QED
      BY <2>2, <2>3
  <1>10. Phase(Listener) = "ready" =>
           AnswerFirst(to_process') /\ ~NoneIn(to_process', ToListener)
    <2>1. /\ AnswerFirst(to_process) /\ ~NoneIn(to_process, ToListener)
               => AnswerFirst(Append(to_process, w))
          /\ ~NoneIn(to_process, ToListener) => ~NoneIn(Append(to_process, w), ToListener)
      BY ONLY <1>5, <1>7, AnswerFirstOfAppend
    <2> QED
      BY <1>1, <1>5, <1>8, <2>1 DEF ReadyFirst
  <1>11. ~Early
    BY <1>1, <1>8 DEF ReadyFirst
  <1>12. ReadyFirst'
    BY <1>1, <1>2, <1>4, <1>6, <1>10, <1>11 DEF ReadyFirst
  <1> QED
    BY <1>2, <1>3, <1>4, <1>9, <1>12 DEF StepInv

\* A step that changes nothing of all this.
LEMMA QuietKeepsSteps ==
  ASSUME StepInv, Apart', LinkTyped(Pushes)',
         UNCHANGED <<connected, connection, to_broker, to_process, ends, serving,
                     access_answering, ready, pushing, out_of_step, dead, at>>
  PROVE  StepInv'
  <1> SUFFICES ASSUME Running' PROVE TurnInv(Pushes)' /\ Speech' /\ OneDelivery' /\ ReadyFirst'
    BY DEF StepInv
  <1>1. TurnInv(Pushes) /\ Speech /\ OneDelivery /\ ReadyFirst
    BY DEF StepInv, Running
  <1>2. UNCHANGED <<script, to_broker, to_process, connected, serving, access_answering, ready,
                    pushing>>
    BY DEF ends
  <1>3. TurnInv(Pushes)'
    BY <1>1, TurnUnchanged
  <1>4. /\ Speech' /\ InHand' = InHand /\ Early' = Early
        /\ Phase(Listener)' = Phase(Listener)
    BY <1>1, <1>2, StaysPut DEF Threads
  <1>5. Current' = Current /\ IsServed(Listener)' = IsServed(Listener) /\ Awake' = Awake
    BY <1>2 DEF Current, IsServed, Awake
  <1>6. OneDelivery'
    BY <1>1, <1>2, <1>4, <1>5 DEF OneDelivery, OneToken
  <1>7. ReadyFirst'
    BY <1>1, <1>2, <1>4, <1>5 DEF ReadyFirst
  <1> QED
    BY <1>3, <1>4, <1>6, <1>7

\* No delivery comes where the listener awaits an answer: before the first header it has
\* declared itself ready, and before its answer goes out it has the one header in hand.
LEMMA NoDeliveryForAnswer ==
  ASSUME StepInv, Running, ReceiveWord(Listener), out_of_step'
  PROVE  Head(to_process).to # Broker
  <1> SUFFICES ASSUME Head(to_process).to = Broker PROVE FALSE
    OBVIOUS
  <1> DEFINE w == Head(to_process)
  <1>1. TurnInv(Pushes) /\ Speech /\ OneDelivery /\ ReadyFirst /\ LinkTyped(Pushes) /\ Apart
        /\ Listener \in Threads
    BY DEF StepInv, Threads
  <1>2. to_process # <<>> /\ Phase(Listener) \in {"OK", "ready", "id"}
    <2>1. Broker \notin Threads
      BY LinkAssumption DEF Threads
    <2> QED
      BY <1>1, <2>1, ReceiveCrosses DEF Receives
  <1>3. to_process \in Seq(WordsBack(Pushes))
    BY <1>1 DEF LinkTyped, StreamsTyped
  <1>4. /\ w \in WordsBack(Pushes) /\ w.kind = Half
    BY <1>1, <1>2, NextDelivery DEF TurnInv
  <1>5. 1 \in DOMAIN to_process /\ w = to_process[1] /\ \A j \in DOMAIN to_process : ~(j < 1)
    BY <1>2, <1>3, HeadAndTail
  <1>6. w \in FromBroker
    BY <1>4 DEF FromBroker
  <1>7. CASE Phase(Listener) = "OK"
    <2>1. Early
      BY <1>1, <1>7, SaidWhere DEF Early
    <2> QED
      BY <1>1, <1>5, <1>6, <2>1 DEF ReadyFirst, NoneIn
  <1>8. CASE Phase(Listener) = "ready"
    BY <1>1, <1>5, <1>6, <1>8 DEF ReadyFirst, AnswerFirst
  <1>9. CASE Phase(Listener) = "id"
    <2>1. at[Listener] = "worked"
      <3>1. "id" \in UttersAt(Listener, at[Listener])
        BY <1>1, <1>9 DEF Speech, NoKind
      <3> QED
        BY <3>1 DEF UttersAt
    <2>2. NoneIn(to_process, Deliveries)
      BY <1>1, <2>1 DEF OneDelivery, OneToken, InHand
    <2>3. w \in Deliveries
      BY <1>4, <1>9 DEF Deliveries, Half
    <2> QED
      BY <1>5, <2>2, <2>3 DEF NoneIn
  <1> QED
    BY <1>2, <1>7, <1>8, <1>9

\* A request's thread is on the socket.
GuestUses == \E r \in Requests : Using(r)

\* Of two threads one serves the GameBoy.
LEMMA OneIsGuest ==
  ASSUME NEW t \in Threads, NEW u \in Threads, t # u, Using(t), Using(u)
  PROVE  GuestUses
  BY DEF GuestUses, Requests, Threads

\* A thread that takes a word for another takes a guest's, or is one.
LEMMA ReceiveCrossesGuests ==
  ASSUME StepInv, Running, NEW t \in Threads, ReceiveWord(t), out_of_step'
  PROVE  GuestUses
  <1>1. TurnInv(Pushes) /\ LinkTyped(Pushes)
    BY DEF StepInv
  <1>2. ~Idle(t) /\ \/ Head(to_process).to \in Threads \ {t} /\ ~Idle(Head(to_process).to)
                    \/ Head(to_process).to = Broker
    BY <1>1, ReceiveCrosses
  <1>3. CASE t # Listener
    BY <1>2, <1>3 DEF GuestUses, Using, Requests, Threads
  <1>4. CASE t = Listener
    <2>1. Head(to_process).to # Broker
      BY <1>4, NoDeliveryForAnswer
    <2> QED
      BY <1>2, <2>1, OneIsGuest DEF Using
  <1> QED
    BY <1>3, <1>4

\* What the steps of the socket and of the threads do to it all.
LEMMA ThreadKeepsSteps ==
  ASSUME StepInv, Apart', NEW t \in Threads, ThreadStep(t)
  PROVE  StepInv' /\ (out_of_step' => out_of_step \/ GuestUses)
  <1>1. CASE OnSocket(SocketStep(t))
    <2>1. Running /\ UNCHANGED at /\ (SendWord(t) \/ ReceiveWord(t))
      BY <1>1 DEF OnSocket, SocketStep, SendWord, ReceiveWord
    <2>2. CASE SendWord(t)
      BY <2>1, <2>2, SendKeepsSteps
    <2>3. CASE ReceiveWord(t)
      <3>1. LinkTyped(Pushes)'
        BY <2>3, ReceiveTyped DEF StepInv
      <3>2. CASE Running'
        BY <2>1, <2>3, <3>2, ReceiveKeepsSteps DEF Running
      <3>3. CASE ~Running'
        <4>1. StepInv'
          BY <3>1, <3>3 DEF StepInv
        <4> QED
          BY <2>1, <2>3, <4>1, ReceiveCrossesGuests
      <3> QED
        BY <3>2, <3>3
    <2> QED
      BY <2>1, <2>2, <2>3
  <1>2. CASE ListenerStep(t)
    <2>1. Running
      BY <1>2 DEF ListenerStep, Connect, Subscribe, DeclareReady, Peek, LockBroker, TestNeed,
                  LockOp, Acknowledge, Moves, Asks, At
    <2>2. CASE Connect(t)
      BY <2>1, <2>2, ConnectKeepsSteps
    <2>3. CASE ~Connect(t)
      <3>1. PICK to, k : OwnMove(t, to, k)
        BY <1>2, <2>3, ListenerMoves DEF StepInv
      <3> QED
        BY <2>1, <3>1, OwnMoveKeepsSteps
    <2> QED
      BY <2>2, <2>3
  <1>3. CASE ProcessStep(t)
    <2>1. Running
      BY <1>3 DEF ProcessStep, Process, Work, Worked, NeedOver, UnlockOp, UnlockBroker, Moves, At
    <2>2. PICK to, k : OwnMove(t, to, k)
      BY <1>3, RequestMoves
    <2> QED
      BY <2>1, <2>2, OwnMoveKeepsSteps
  <1> QED
    BY <1>1, <1>2, <1>3 DEF ThreadStep

\* And those of the broker.
LEMMA BrokerKeepsSteps ==
  ASSUME StepInv, Apart', BrokerStep, UNCHANGED at
  PROVE  StepInv' /\ (out_of_step' => out_of_step \/ GuestUses)
  <1>1. Running
    BY DEF BrokerStep, ReadHeader, ReadRest, Answer, BecomeReady, Processed, PushHeader, PushBody,
           Serving
  <1>2. CASE ReadHeader
    BY <1>1, <1>2, HeaderKeepsSteps
  <1>3. CASE ReadRest
    <2>1. LinkTyped(Pushes)'
      BY <1>3, RestTyped DEF StepInv
    <2>2. CASE Running'
      BY <1>1, <1>3, <2>2, RestKeepsSteps DEF Running
    <2>3. CASE ~Running'
      <3>1. StepInv'
        BY <2>1, <2>3 DEF StepInv
      <3>2. ASSUME out_of_step' PROVE GuestUses
        <4>1. \E t, u \in Threads : t # u /\ Using(t) /\ Using(u)
          BY <1>1, <1>3, <3>2, RestCrosses DEF StepInv
        <4> QED
          BY <4>1, OneIsGuest
      <3> QED
        BY <3>1, <3>2
    <2> QED
      BY <2>2, <2>3
  <1>4. CASE Answer
    BY <1>1, <1>4, AnswerKeepsSteps
  <1>5. CASE BecomeReady \/ Processed
    BY <1>1, <1>5, FlagsKeepSteps
  <1>6. CASE PushHeader \/ PushBody
    BY <1>1, <1>6, PushKeepsSteps
  <1> QED
    BY <1>2, <1>3, <1>4, <1>5, <1>6 DEF BrokerStep

\* So every step keeps the ends in step, or a guest is on the socket.
LEMMA StepsKept ==
  StepInv /\ [Next]_vars => StepInv' /\ (out_of_step' => out_of_step \/ GuestUses)
  <1> SUFFICES ASSUME StepInv, [Next]_vars
               PROVE  StepInv' /\ (out_of_step' => out_of_step \/ GuestUses)
    OBVIOUS
  <1>0. Apart' /\ LinkTyped(Pushes)
    BY ApartKept DEF StepInv
  <1>1. ASSUME NEW t \in Threads, ThreadStep(t)
        PROVE  StepInv' /\ (out_of_step' => out_of_step \/ GuestUses)
    BY <1>0, <1>1, ThreadKeepsSteps
  <1>2. ASSUME NEW r \in Requests, Arrive(r) \/ Accept(r)
        PROVE  StepInv' /\ (out_of_step' => out_of_step \/ GuestUses)
    <2>1. r \in Threads /\ r # Listener /\ Running
      BY <1>2, LinkAssumption DEF Requests, Threads, Arrive, Accept, At
    <2>2. PICK to, k : OwnMove(r, to, k)
      BY <1>2, <2>1, RequestMoves
    <2> QED
      BY <1>0, <2>1, <2>2, OwnMoveKeepsSteps
  <1>3. CASE OnSocket(BrokerStep)
    BY <1>0, <1>3, BrokerKeepsSteps DEF OnSocket
  <1>4. CASE NewPush
    <2>1. Enqueue(<<"message">>, {}) /\ UNCHANGED at /\ <<"message">> \in Pushes
      BY <1>4 DEF NewPush, Pushes
    <2>2. LinkTyped(Pushes)'
      BY <1>0, <2>1, EnqueueTyped
    <2>3. UNCHANGED <<connected, connection, to_broker, to_process, ends, serving,
                      access_answering, ready, pushing, out_of_step, dead, at>>
      BY <2>1 DEF Enqueue, stream
    <2> QED
      BY <1>0, <2>2, <2>3, QuietKeepsSteps
  <1>5. CASE OnSocket(LoseBroker)
    <2>1. Running
      BY <1>5 DEF OnSocket, LoseBroker
    <2> QED
      BY <1>0, <1>5, <2>1, LoseKeepsSteps DEF OnSocket
  <1>6. CASE UNCHANGED vars
    <2>1. UNCHANGED link /\ UNCHANGED at
      BY <1>6 DEF vars
    <2>2. UNCHANGED <<connected, connection, to_broker, to_process, ends, serving,
                      access_answering, ready, pushing, out_of_step, dead, at>>
      BY <2>1 DEF link, stream, broker
    <2> QED
      BY <1>0, <2>1, <2>2, LinkTypedUnchanged, QuietKeepsSteps
  <1> QED
    BY <1>1, <1>2, <1>3, <1>4, <1>5, <1>6 DEF Next

\* The start: nothing is on the socket.
LEMMA StepsFirst == Init => StepInv
  <1> SUFFICES ASSUME Init PROVE StepInv
    OBVIOUS
  <1>1. LinkInit /\ at = [t \in Threads |-> IF t = Listener THEN "connect" ELSE "off"]
    BY DEF Init
  <1>2. Apart /\ LinkTyped(Pushes) /\ TurnInv(Pushes)
    BY <1>1, FirstApart, LinkInitTyped, FirstTurn
  <1>3. /\ \A t \in Threads : Phase(t) = NoKind
        /\ Current = NoKind /\ ~connected /\ to_broker = <<>> /\ to_process = <<>>
        /\ ~ready /\ pushing = Nothing /\ Listener \in Threads
    BY <1>1 DEF LinkInit, Phase, Idle, Current, Threads
  <1>4. Speech
    BY <1>3 DEF Speech
  <1>5. ~InHand /\ ~Early /\ ~Awake
    BY <1>1, <1>3 DEF InHand, Early, Awake, NoKind
  <1>6. OneDelivery
    BY <1>3, <1>5, NoneInEmpty DEF OneDelivery, OneToken, NoKind
  <1>7. ReadyFirst
    <2>1. DOMAIN <<>> = {}
      OBVIOUS
    <2> QED
      BY <1>3, <1>5, <2>1 DEF ReadyFirst, NoKind
  <1> QED
    BY <1>2, <1>4, <1>6, <1>7 DEF StepInv

\* The ends lose step only while a guest's answer is being sent.  Left to itself the
\* listener takes nothing for another: the broker delivers nothing before it has answered
\* READY_TO_RECIEVE (broker.c 1067, 699), then one message at a time until PROCESSED
\* (696, 1078), which the listener sends after the answer to that message (496, 162).
THEOREM OnlyGuestsGetAcross == Spec => OnlyGuestsCross
  <1>1. Init => StepInv
    BY StepsFirst
  <1>2. StepInv /\ [Next]_vars => StepInv'
    BY StepsKept
  <1>3. StepInv /\ [Next]_vars => [out_of_step' => out_of_step \/ \E r \in Requests : Using(r)]_vars
    BY StepsKept DEF GuestUses
  <1> QED
    BY <1>1, <1>2, <1>3, PTL DEF Spec, OnlyGuestsCross

\* What a step of the process kills it with.
LEMMA StepsThatKill ==
  ASSUME LifeInv, [Next]_vars, dead', ~dead
  PROVE  \/ losses > 0 /\ \E t \in Threads : ~Idle(t) /\ ~Reaches(t)
         \/ out_of_step' /\ ~out_of_step
  <1>1. CASE \E t \in Threads : OnSocket(SocketStep(t))
    <2>1. PICK t \in Threads : SocketStep(t)
      BY <1>1 DEF OnSocket
    <2>2. ~Idle(t) /\ (~Reaches(t) \/ out_of_step') /\ ~out_of_step
      BY <2>1, SocketKills DEF SocketStep, SendWord, ReceiveWord, Running
    <2>3. ~Reaches(t) => losses > 0
      <3>1. LossInv /\ losses \in Nat
        BY DEF LifeInv, LossInv, EndsTyped
      <3> QED
        BY <2>2, <3>1, FirstReaches
    <2> QED
      BY <2>2, <2>3
  <1>2. CASE \E t \in Threads : ProcessStep(t) \/ ListenerStep(t)
    <2>1. PICK t \in Threads : ProcessStep(t) \/ ListenerStep(t)
      BY <1>2
    <2>2. UNCHANGED dead
      <3> USE DEF Moves, Asks, OffLink, link, Says
      <3>1. CASE ProcessStep(t)
        BY <3>1 DEF ProcessStep, Process, Work, Worked, NeedOver, UnlockOp, UnlockBroker
      <3>2. CASE ListenerStep(t)
        BY <3>2 DEF ListenerStep, Connect, LinkConnect, Subscribe, DeclareReady, Peek, LockBroker,
                    TestNeed, LockOp, Acknowledge
      <3> QED
        BY <2>1, <3>1, <3>2
    <2> QED
      BY <2>2
  <1>3. CASE \/ \E r \in Requests : Arrive(r) \/ Accept(r)
             \/ OnSocket(BrokerStep) \/ NewPush \/ OnSocket(LoseBroker) \/ UNCHANGED vars
    <2>1. CASE OnSocket(BrokerStep)
      BY <2>1, BrokerKeepsEnds DEF OnSocket
    <2>2. CASE OnSocket(LoseBroker)
      BY <2>2 DEF OnSocket, LoseBroker
    <2>3. CASE \E r \in Requests : Arrive(r) \/ Accept(r)
      BY <2>3 DEF Arrive, Accept, OffLink, link
    <2>4. CASE NewPush \/ UNCHANGED vars
      BY <2>4 DEF NewPush, Enqueue, vars, link
    <2> QED
      BY <1>3, <2>1, <2>2, <2>3, <2>4
  <1> QED
    BY <1>1, <1>2, <1>3 DEF Next, ThreadStep

\* Before the first loss a thread on a socket reaches the broker (108-120, 431), so that
\* its death there is that of a word which crosses, and only guests make words cross.
THEOREM OnlyLossOrGuestsKill == Spec => KilledByLossOrGuest
  <1>1. Init => LifeInv /\ StepInv
    BY FirstApart, LinkInitSafe, StepsFirst DEF Init, LifeInv, SpeaksConnected, LinkInit, Threads
  <1>2. LifeInv /\ StepInv /\ [Next]_vars => LifeInv' /\ StepInv'
    BY LifeKept, StepsKept
  <1>3. LifeInv /\ StepInv /\ [Next]_vars
          => [dead' => \/ dead
                       \/ losses > 0 /\ \E t \in Threads : ~Idle(t) /\ ~Reaches(t)
                       \/ out_of_step' /\ \E r \in Requests : Using(r)]_vars
    BY StepsThatKill, StepsKept DEF GuestUses
  <1> QED
    BY <1>1, <1>2, <1>3, PTL DEF Spec, KilledByLossOrGuest
=============================================================================
