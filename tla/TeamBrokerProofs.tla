-------------------------- MODULE TeamBrokerProofs --------------------------
(***************************************************************************)
(* For any number of pokemons, trainers, queues and messages, and however  *)
(* often the broker dies: the Team declares itself ready to the broker     *)
(* only once the broker has all of its GETs; its threads stay in step with *)
(* the broker but where broker_mutex does not keep them apart; and the     *)
(* answer to a CATCH finds the trainer that awaits it.                     *)
(***************************************************************************)
EXTENDS TeamBroker, LinkProofs, FiniteSetTheorems

Rounds   == 1..(MaxLosses + 1)
Messages == {<<"APPEARED">>} \cup ({"CAUGHT"} \X Nat)

-----------------------------------------------------------------------------
(* Where the threads are, and what they are saying *)

GetPlaces     == {"off", "lock", "sent", "ready", "open", "unlock", "done"}
TrainerPlaces == {"off", "lock", "sent", "unlock", "done"}
ServerPlaces  == {"off", "need over", "unlock broker", "open gate"}
ListenerPlaces ==
  {"restart", "connect", "subscribe", "close gate", "gate", "peek", "lock broker",
   "test need", "received", "need", "processed", "need over", "unlock broker", "open gate"}

Placed ==
  /\ at \in [Threads -> Places]
  /\ \A t \in GetThreads : at[t] \in GetPlaces
  /\ \A t \in Trainers : at[t] \in TrainerPlaces
  /\ at[Server] \in ServerPlaces
  /\ at[Listener] \in ListenerPlaces

\* The function that a thread has called to get to a place.
Called(place) ==
  CASE place = "subscribe" -> subscribe_to_queue
    [] place = "received"  -> receive_pokemon_message
    [] place = "need"      -> send_message_acknowledge
    [] place = "need over" -> already_processed
    [] place = "sent"      -> send_pokemon_message
    [] place = "ready"     -> ready_to_recieve
    [] OTHER               -> <<>>

\* s is what is left of f.
LeftOf(s, f) ==
  Len(s) <= Len(f) /\ \A i \in DOMAIN s : s[i] = f[Len(f) - Len(s) + i]

ScriptsPlaced == \A t \in Threads : LeftOf(script[t], Called(at[t]))

\* Who has got an id and has yet to note it, or to send its message with it, has it.
IdsHeld == \A t \in Threads : at[t] = "sent" /\ Len(script[t]) <= 1 => got[t] \in Nat

MessagesHaveIds ==
  /\ \A i \in DOMAIN to_broker : to_broker[i].kind = "message" => to_broker[i].value \in Nat
  /\ published \in SUBSET (Threads \X Nat)

Counters ==
  /\ all_gets_ready \in BOOLEAN /\ meddled \in BOOLEAN
  /\ broker_mutex \in Threads \cup {Nobody}
  /\ internal_broker_need \in BOOLEAN /\ has_broker_connection \in BOOLEAN
  /\ gets_left \in Int /\ gets_left <= Cardinality(Pokemons)
  /\ opening \subseteq 1..connection
  /\ awaiting \in [Trainers -> {NoId} \cup Nat]
  /\ subscribed \in 0..Queues
  /\ pushes \in 0..MaxPushes /\ guests \in 0..MaxTroubles

Typed ==
  LinkTyped(Messages) /\ Placed /\ ScriptsPlaced /\ IdsHeld /\ MessagesHaveIds /\ Counters

-----------------------------------------------------------------------------
(* Connections *)

\* Each connection but the last has been lost, and of a lost one nothing is left.
Connections ==
  /\ losses <= MaxLosses
  /\ connection = losses + (IF connected THEN 1 ELSE 0)
  /\ ~connected => to_broker = <<>> /\ serving = <<>> /\ ~ready

\* The GETs of a connection are created once, after it has been connected.
Births ==
  /\ \A p \in Pokemons, d \in Rounds : d > connection \/ d \in opening => at[Get(p, d)] = "off"
  /\ at[Listener] \in {"subscribe", "close gate"} =>
       connection \notin opening /\ \A p \in Pokemons : at[Get(p, connection)] = "off"
  /\ at[Listener] \notin {"restart", "connect"} => connection # 0

-----------------------------------------------------------------------------
(* The gate: GETs of two connections never overlap *)

Over == {"unlock", "done"}

Left == {p \in Pokemons : at[Get(p, connection)] \in {"lock", "sent"}}

\* The GETs of the connection count themselves down; the last one opens the gate.
Counting ==
  /\ opening = {}
  /\ \A p \in Pokemons : at[Get(p, connection)] # "off"
  /\ gets_left = Cardinality(Left)
  /\ \A p \in Pokemons : at[Get(p, connection)] \in {"ready", "open"} =>
       \A q \in Pokemons \ {p} : at[Get(q, connection)] \in Over

\* They have yet to be created.
Opening ==
  opening = {connection} /\ \A p \in Pokemons : at[Get(p, connection)] = "off"

Gates ==
  /\ \A p \in Pokemons, d \in Rounds : d < connection => at[Get(p, d)] \in Over
  /\ all_gets_ready => at[Listener] = "gate" /\ connection # 0 /\ (Opening \/ Counting)
  /\ ~all_gets_ready => opening = {}
  /\ at[Listener] \notin {"subscribe", "close gate"} /\ ~all_gets_ready /\ connection # 0 =>
       \A p \in Pokemons : at[Get(p, connection)] \in Over
  /\ gets_left >= 0

-----------------------------------------------------------------------------
(* What the broker has heard of the GETs of the connection *)

Published(p) == \E m \in published : m[1] = Get(p, connection)

SaidBefore(p, i) ==
  \/ Published(p)
  \/ \E j \in DOMAIN to_broker :
       j < i /\ to_broker[j].kind = "message" /\ to_broker[j].by = Get(p, connection)

HasSent(t) ==
  \/ at[t] \in {"ready", "open"} \cup Over
  \/ at[t] = "sent" /\ Idle(t)

Words ==
  /\ \A p \in Pokemons, d \in Rounds : ~Idle(Get(p, d)) => socket[Get(p, d)] = d
  /\ connected => \A p \in Pokemons :
       HasSent(Get(p, connection)) => SaidBefore(p, Len(to_broker) + 1)
  /\ \A i \in DOMAIN to_broker : to_broker[i].kind = "READY_TO_RECIEVE" =>
       \A p \in Pokemons : SaidBefore(p, i)
  /\ \A k \in DOMAIN serving : serving[k][2].op = "ready" => \A p \in Pokemons : Published(p)

GetsInv ==
  /\ Typed /\ Connections /\ Births
  /\ ~meddled => Gates /\ GetsFirst
  /\ ~meddled /\ Running => Words

-----------------------------------------------------------------------------
(* The steps of the threads, by what they do to their place and script *)

\* The places where something is said or read.
Spoken == {"subscribe", "received", "need", "need over", "sent", "ready"}

\* t has done with the socket, goes to a place, and says what is said there, if anything.
OwnStep(t, to) ==
  /\ Running /\ Idle(t)
  /\ Goto(t, to)
  /\ \/ to # "sent" /\ OffLink
     \/ to \in Spoken /\ Says(t, Called(to))

\* The threads are of four kinds, and no thread is of two.
LEMMA Kin ==
  /\ Server \in Threads /\ Listener \in Threads /\ Server # Listener
  /\ \A t \in GetThreads : t \in Threads /\ t # Server /\ t # Listener /\ t \notin Trainers
  /\ \A t \in Trainers : t \in Threads /\ t # Server /\ t # Listener /\ t \notin GetThreads
  /\ \A p \in Pokemons, d \in Rounds : Get(p, d) \in GetThreads
  /\ \A t \in GetThreads : \E p \in Pokemons, d \in Rounds : t = Get(p, d)
  <1>1. GetThreads = {Get(p, d) : p \in Pokemons, d \in Rounds}
    BY DEF GetThreads, Gets, Rounds
  <1>2. \A p \in Pokemons, d \in Rounds : Get(p, d) \in GetThreads
    BY <1>1
  <1>3. \A t \in GetThreads : \E p \in Pokemons, d \in Rounds : t = Get(p, d)
    BY <1>1
  <1> QED
    BY <1>2, <1>3, TeamAssumption, LinkAssumption DEF Threads

\* The GETs of two pokemons or of two connections are different threads.
LEMMA GetsDiffer ==
  ASSUME NEW p, NEW q, NEW c, NEW d, Get(p, c) = Get(q, d)
  PROVE  p = q /\ c = d
  BY DEF Get

\* What is said at a place is a script of the library.
LEMMA CalledTyped ==
  ASSUME NEW place \in Places
  PROVE  Called(place) \in Seq(ScriptStep)
  <1>1. <<>> \in Seq(ScriptStep)
    OBVIOUS
  <1> QED
    BY <1>1, ScriptsTyped DEF Called

\* A step of the listener takes it from one of its places to another; so for the others.
LEMMA ListenerMoves ==
  ASSUME Placed, ListenerStep(Listener), ~Connect(Listener)
  PROVE  \E to \in ListenerPlaces : OwnStep(Listener, to)
  <1> USE DEF Moves, Asks, Steps, At, OwnStep, ListenerPlaces, Called, Spoken
  <1>1. CASE Restart(Listener)
    BY <1>1 DEF Restart
  <1>2. CASE Subscribe(Listener)
    <2>1. Goto(Listener, "subscribe")
      BY <1>2, Kin DEF Subscribe, Placed, Goto
    <2> QED
      BY <1>2, <2>1 DEF Subscribe
  <1>3. CASE NeedGets(Listener)
    BY <1>3 DEF NeedGets
  <1>4. CASE CloseGate(Listener)
    BY <1>4 DEF CloseGate
  <1>5. CASE PassGate(Listener)
    BY <1>5 DEF PassGate
  <1>6. CASE Peek(Listener)
    BY <1>6 DEF Peek
  <1>7. CASE LockBroker(Listener)
    BY <1>7 DEF LockBroker
  <1>8. CASE Receive(Listener)
    BY <1>8 DEF Receive
  <1>9. CASE KeepBroker(Listener)
    BY <1>9 DEF KeepBroker
  <1>10. CASE Acknowledge(Listener)
    BY <1>10 DEF Acknowledge
  <1>11. CASE Process(Listener)
    BY <1>11 DEF Process
  <1>12. CASE Processes(Listener)
    BY <1>12 DEF Processes
  <1>13. CASE EndOfMessage(Listener)
    BY <1>13 DEF EndOfMessage, NeedOver, UnlockAfter, OpenAfter
  <1> QED
    BY <1>1, <1>2, <1>3, <1>4, <1>5, <1>6, <1>7, <1>8, <1>9, <1>10, <1>11, <1>12, <1>13
    DEF ListenerStep

\* The same of the server ...
LEMMA ServerMoves ==
  ASSUME EndOfMessage(Server) \/ Guest(Server)
  PROVE  \E to \in ServerPlaces : OwnStep(Server, to)
  BY Kin DEF EndOfMessage, NeedOver, UnlockAfter, OpenAfter, Guest, Moves, Steps, At, OwnStep,
             ServerPlaces

\* ... of a GET ...
LEMMA GetMoves ==
  ASSUME NEW t \in GetThreads, GetStep(t)
  PROVE  \E to \in GetPlaces : OwnStep(t, to)
  <1> USE DEF Moves, Asks, Steps, At, OwnStep, GetPlaces, Called, Spoken
  <1>1. CASE LockAndSend(t)
    BY <1>1 DEF LockAndSend
  <1>2. CASE CountGet(t)
    BY <1>2 DEF CountGet
  <1>3. CASE GetsOver(t)
    BY <1>3 DEF GetsOver
  <1>4. CASE OpenForListener(t)
    BY <1>4 DEF OpenForListener
  <1>5. CASE Unlock(t)
    BY <1>5 DEF Unlock
  <1> QED
    BY <1>1, <1>2, <1>3, <1>4, <1>5 DEF GetStep

\* ... and of a trainer.
LEMMA TrainerMoves ==
  ASSUME NEW t \in Trainers, TrainerStep(t) \/ Arrive(t)
  PROVE  \E to \in TrainerPlaces : OwnStep(t, to)
  <1> USE DEF Moves, Asks, Steps, At, OwnStep, TrainerPlaces, Called, Spoken
  <1>1. CASE LockAndSend(t)
    BY <1>1 DEF LockAndSend
  <1>2. CASE Await(t)
    BY <1>2 DEF Await
  <1>3. CASE Unlock(t)
    BY <1>3 DEF Unlock
  <1>4. CASE Arrive(t)
    BY <1>4 DEF Arrive
  <1> QED
    BY <1>1, <1>2, <1>3, <1>4 DEF TrainerStep

\* Of a script all is left at first, and nothing in the end.
LEMMA NothingLeft == ASSUME NEW f \in Seq(ScriptStep) PROVE LeftOf(<<>>, f) /\ LeftOf(f, f)
  BY DEF LeftOf

\* And after each word less is.
LEMMA TailLeft ==
  ASSUME NEW f \in Seq(ScriptStep), NEW s \in Seq(ScriptStep), s # <<>>, LeftOf(s, f)
  PROVE  LeftOf(Tail(s), f)
  <1>1. /\ Len(s) \in Nat \ {0} /\ Len(f) \in Nat /\ Len(Tail(s)) = Len(s) - 1
        /\ DOMAIN s = 1..Len(s) /\ DOMAIN Tail(s) = 1..(Len(s) - 1)
        /\ \A i \in DOMAIN Tail(s) : i + 1 \in DOMAIN s /\ Tail(s)[i] = s[i + 1]
    BY HeadAndTail
  <1>2. ASSUME NEW i \in DOMAIN Tail(s)
        PROVE  Tail(s)[i] = f[Len(f) - Len(Tail(s)) + i]
    <2>1. s[i + 1] = f[Len(f) - Len(s) + (i + 1)]
      BY <1>1 DEF LeftOf
    <2>2. Len(f) - Len(s) + (i + 1) = Len(f) - Len(Tail(s)) + i
      BY <1>1
    <2> QED
      BY <1>1, <2>1, <2>2
  <1> QED
    BY <1>1, <1>2 DEF LeftOf

\* Only a message, at the end of send_pokemon_message, is sent with an id.
LEMMA MessageIsLast ==
  ASSUME NEW place \in Places, NEW i \in DOMAIN Called(place),
         Called(place)[i].kind = "message"
  PROVE  place = "sent" /\ i = 3
  <1> USE DEF send, recv
  <1>1. CASE place = "sent"
    BY <1>1 DEF Called, send_pokemon_message
  <1>2. CASE place = "subscribe"
    BY <1>2 DEF Called, subscribe_to_queue
  <1>3. CASE place = "received"
    <2>1. Called(place) = <<recv("header"), recv("body")>>
      BY <1>3 DEF Called, receive_pokemon_message
    <2> QED
      BY <2>1
  <1>4. CASE place = "need"
    BY <1>4 DEF Called, send_message_acknowledge
  <1>5. CASE place = "need over"
    <2>1. Called(place) = <<send("PROCESSED")>>
      BY <1>5 DEF Called, already_processed
    <2> QED
      BY <2>1
  <1>6. CASE place = "ready"
    <2>1. Called(place) = <<send("READY_TO_RECIEVE"), recv("ready")>>
      BY <1>6 DEF Called, ready_to_recieve
    <2> QED
      BY <2>1
  <1>7. CASE place \notin {"sent", "subscribe", "received", "need", "need over", "ready"}
    <2>1. Called(place) = <<>>
      BY <1>7 DEF Called
    <2> QED
      BY <2>1
  <1> QED
    BY <1>1, <1>2, <1>3, <1>4, <1>5, <1>6, <1>7

\* Who sends a message has read the id that goes with it.
LEMMA LastWordIsMessage ==
  ASSUME Typed, NEW t \in Threads, ~Idle(t)
  PROVE  /\ at[t] = "sent" /\ Len(script[t]) = 1 => Head(script[t]) = send("message")
         /\ at[t] = "sent" /\ Len(script[t]) = 2 => Head(script[t]) = recv("id")
         /\ Head(script[t]).kind = "message" => at[t] = "sent" /\ Len(script[t]) = 1
  <1>1. script[t] \in Seq(ScriptStep) /\ script[t] # <<>> /\ at[t] \in Places
    BY DEF Typed, LinkTyped, EndsTyped, Idle, Placed
  <1>2. Len(script[t]) \in Nat \ {0} /\ Head(script[t]) = script[t][1] /\ 1 \in DOMAIN script[t]
    BY <1>1, HeadAndTail
  <1> DEFINE f == Called(at[t])
  <1> DEFINE i == Len(f) - Len(script[t]) + 1
  <1>3. f \in Seq(ScriptStep)
    BY <1>1, CalledTyped
  <1>4. Len(script[t]) <= Len(f) /\ Head(script[t]) = f[i]
    BY <1>2 DEF Typed, ScriptsPlaced, LeftOf
  <1>5. Len(f) \in Nat /\ DOMAIN f = 1..Len(f)
    BY <1>3
  <1>6. i \in DOMAIN f
    BY <1>2, <1>4, <1>5
  <1>7. at[t] = "sent" => Len(f) = 3 /\ f[3] = send("message") /\ f[2] = recv("id")
    BY DEF Called, send_pokemon_message
  <1> HIDE DEF f
  <1>8. Head(script[t]).kind = "message" => at[t] = "sent" /\ i = 3
    BY <1>1, <1>4, <1>6, MessageIsLast DEF f
  <1>9. at[t] = "sent" => (Len(script[t]) = 1 <=> i = 3) /\ (Len(script[t]) = 2 => i = 2)
    <2> DEFINE n == Len(script[t])
    <2>1. n \in Nat /\ n # 0
      BY <1>2
    <2>2. at[t] = "sent" => i = 4 - n
      <3> SUFFICES ASSUME at[t] = "sent" PROVE i = 4 - n
        OBVIOUS
      <3>1. Len(f) = 3
        BY <1>7
      <3>2. i = 3 - n + 1
        BY <3>1
      <3> HIDE DEF i, n
      <3> QED
        BY <2>1, <3>2
    <2> HIDE DEF i, n
    <2>3. at[t] = "sent" => (n = 1 <=> i = 3) /\ (n = 2 => i = 2)
      BY <2>1, <2>2
    <2> QED
      BY <2>3 DEF n
  <1> HIDE DEF i
  <1> QED
    BY <1>4, <1>7, <1>8, <1>9

\* What is typed of the places, the scripts, the ids and the link.
ThreadsTyped ==
  LinkTyped(Messages) /\ Placed /\ ScriptsPlaced /\ IdsHeld /\ MessagesHaveIds

\* A thread that moves says what is said where it goes.
LEMMA OwnStepTyped ==
  ASSUME Typed, NEW t \in Threads, NEW to \in Places, OwnStep(t, to),
         t \in GetThreads => to \in GetPlaces, t \in Trainers => to \in TrainerPlaces,
         t = Server => to \in ServerPlaces, t = Listener => to \in ListenerPlaces
  PROVE  ThreadsTyped'
  <1>1. at \in [Threads -> Places] /\ at' = [at EXCEPT ![t] = to] /\ script[t] = <<>>
    BY DEF Typed, Placed, OwnStep, Goto, Idle
  <1>2. Placed'
    BY <1>1, Kin DEF Typed, Placed
  <1>3. Called(to) \in Seq(ScriptStep) /\ script \in [Threads -> Seq(ScriptStep)]
    BY CalledTyped DEF Typed, LinkTyped, EndsTyped
  <1>4. LinkTyped(Messages)'
    BY <1>3, StartTyped, LinkTypedUnchanged DEF Typed, OwnStep, OffLink, Says
  <1>5. /\ \/ script' = [script EXCEPT ![t] = Called(to)]
           \/ script' = script /\ to # "sent"
        /\ UNCHANGED <<got, to_broker, published>>
    BY DEF OwnStep, OffLink, Says, Start, link, ends, stream, broker
  <1>6. ScriptsPlaced'
    BY <1>1, <1>3, <1>5, NothingLeft DEF Typed, ScriptsPlaced
  <1>7. IdsHeld'
    <2>1. Len(Called("sent")) = 3
      BY DEF Called, send_pokemon_message
    <2> QED
      <3> SUFFICES ASSUME NEW u \in Threads, at'[u] = "sent", Len(script'[u]) <= 1
                   PROVE  got'[u] \in Nat
        BY DEF IdsHeld
      <3>1. CASE u = t
        <4>1. to = "sent"
          BY <1>1, <3>1
        <4>2. script'[t] = Called(to)
          BY <1>3, <1>5, <4>1
        <4>3. Len(script'[u]) = 3
          BY <2>1, <3>1, <4>1, <4>2
        <4> QED
          BY <4>3
      <3>2. CASE u # t
        <4>1. at[u] = "sent" /\ script'[u] = script[u]
          BY <1>1, <1>3, <1>5, <3>2
        <4> QED
          BY <1>5, <4>1 DEF Typed, IdsHeld
      <3> QED
        BY <3>1, <3>2
  <1>8. MessagesHaveIds'
    BY <1>5 DEF Typed, MessagesHaveIds
  <1> QED
    BY <1>2, <1>4, <1>6, <1>7, <1>8 DEF ThreadsTyped

\* A message is sent with the id that its thread has got.
LEMMA SendThreadsTyped ==
  ASSUME Typed, NEW t \in Threads, SendWord(t), UNCHANGED at
  PROVE  ThreadsTyped'
  <1>1. /\ ~Idle(t) /\ Head(script[t]).op = "send"
        /\ script' = [script EXCEPT ![t] = Tail(script[t])]
        /\ UNCHANGED <<got, published>>
        /\ to_broker' = Append(to_broker, Word(t)) \/ UNCHANGED to_broker
    BY DEF SendWord, broker
  <1>2. /\ script \in [Threads -> Seq(ScriptStep)] /\ script[t] # <<>> /\ at[t] \in Places
    BY <1>1 DEF Typed, LinkTyped, EndsTyped, Placed, Idle
  <1>3. script'[t] = Tail(script[t]) /\ \A u \in Threads \ {t} : script'[u] = script[u]
    BY <1>1, <1>2
  <1>4. Len(script[t]) \in Nat \ {0} /\ Len(Tail(script[t])) = Len(script[t]) - 1
    BY <1>2, HeadAndTail
  <1>5. LinkTyped(Messages)' /\ Placed'
    BY SendTyped DEF Typed, Placed
  <1>6. ScriptsPlaced'
    <2>1. LeftOf(Tail(script[t]), Called(at[t]))
      BY <1>2, TailLeft, CalledTyped DEF Typed, ScriptsPlaced
    <2> QED
      BY <1>3, <2>1 DEF Typed, ScriptsPlaced
  <1>7. IdsHeld'
    <2> SUFFICES ASSUME NEW u \in Threads, at[u] = "sent", Len(script'[u]) <= 1
                 PROVE  got[u] \in Nat
      BY <1>1 DEF IdsHeld
    <2>1. CASE u # t
      <3>1. script'[u] = script[u]
        BY <1>3, <2>1
      <3> QED
        BY <3>1 DEF Typed, IdsHeld
    <2>2. CASE u = t
      <3>1. Len(Tail(script[t])) <= 1
        BY <1>3, <2>2
      <3>2. Len(script[t]) # 2
        BY <1>1, <2>2, LastWordIsMessage DEF recv
      <3>3. Len(script[t]) <= 1
        <4> DEFINE n == Len(script[t])  l == Len(Tail(script[t]))
        <4>1. n \in Nat /\ n # 0 /\ l = n - 1 /\ l <= 1 /\ n # 2
          BY <1>4, <3>1, <3>2
        <4> HIDE DEF n, l
        <4>2. n <= 1
          BY <4>1
        <4> QED
          BY <4>2 DEF n
      <3> QED
        BY <2>2, <3>3 DEF Typed, IdsHeld
    <2> QED
      BY <2>1, <2>2
  <1>8. MessagesHaveIds'
    <2>1. Word(t).kind = "message" => Word(t).value \in Nat
      <3>1. ASSUME Head(script[t]).kind = "message" PROVE got[t] \in Nat
        <4>1. at[t] = "sent" /\ Len(script[t]) = 1
          BY <1>1, <3>1, LastWordIsMessage
        <4>2. Len(script[t]) <= 1
          BY <4>1
        <4> QED
          BY <4>1, <4>2 DEF Typed, IdsHeld
      <3>2. /\ Word(t).kind = Head(script[t]).kind
            /\ Word(t).kind = "message" => Word(t).value = got[t]
        BY DEF Word
      <3> QED
        BY <3>1, <3>2
    <2>2. Word(t) \in WordsOut(Messages) /\ to_broker \in Seq(WordsOut(Messages))
      BY <1>1, WordTyped DEF Typed, LinkTyped, StreamsTyped
    <2>3. CASE to_broker' = Append(to_broker, Word(t))
      <3>1. \A i \in DOMAIN to_broker' : to_broker'[i] = Word(t)
               \/ (i \in DOMAIN to_broker /\ to_broker'[i] = to_broker[i])
        BY <2>2, <2>3, WordAppended
      <3> QED
        BY <1>1, <2>1, <3>1 DEF Typed, MessagesHaveIds
    <2> QED
      BY <1>1, <2>3 DEF Typed, MessagesHaveIds
  <1> QED
    BY <1>5, <1>6, <1>7, <1>8 DEF ThreadsTyped

\* A thread that reads goes on with its script, and has a number when it has read an id.
LEMMA ReceiveThreadsTyped ==
  ASSUME Typed, NEW t \in Threads, ReceiveWord(t), UNCHANGED at
  PROVE  ThreadsTyped'
  <1>1. ~Idle(t) /\ Head(script[t]).op = "recv" /\ UNCHANGED <<to_broker, published>>
    BY DEF ReceiveWord, broker
  <1>2. script \in [Threads -> Seq(ScriptStep)] /\ script[t] # <<>> /\ at[t] \in Places
    BY <1>1 DEF Typed, LinkTyped, EndsTyped, Placed, Idle
  <1>3. LinkTyped(Messages)' /\ Placed' /\ MessagesHaveIds'
    BY <1>1, ReceiveTyped DEF Typed, Placed, MessagesHaveIds
  <1>4. CASE UNCHANGED <<script, got>>
    BY <1>3, <1>4 DEF Typed, ThreadsTyped, ScriptsPlaced, IdsHeld
  <1>5. CASE ~UNCHANGED <<script, got>>
    <2>1. /\ to_process # <<>> /\ Head(to_process).kind = Head(script[t]).kind
          /\ script' = [script EXCEPT ![t] = Tail(script[t])]
          /\ got' = [got EXCEPT ![t] = Head(to_process).value]
      BY <1>5 DEF ReceiveWord, Meant
    <2>2. script'[t] = Tail(script[t]) /\ \A u \in Threads \ {t} : script'[u] = script[u]
      BY <1>2, <2>1
    <2>3. got'[t] = Head(to_process).value /\ \A u \in Threads \ {t} : got'[u] = got[u]
      BY <2>1 DEF Typed, LinkTyped, StreamsTyped
    <2>4. Len(script[t]) \in Nat \ {0} /\ Len(Tail(script[t])) = Len(script[t]) - 1
      BY <1>2, HeadAndTail
    <2>5. ScriptsPlaced'
      <3>1. LeftOf(Tail(script[t]), Called(at[t]))
        BY <1>2, TailLeft, CalledTyped DEF Typed, ScriptsPlaced
      <3> QED
        BY <2>2, <3>1 DEF Typed, ScriptsPlaced
    <2>6. IdsHeld'
      <3> SUFFICES ASSUME NEW u \in Threads, at[u] = "sent", Len(script'[u]) <= 1
                   PROVE  got'[u] \in Nat
        BY DEF IdsHeld
      <3>1. CASE u # t
        <4>1. script'[u] = script[u] /\ got'[u] = got[u]
          BY <2>2, <2>3, <3>1
        <4> QED
          BY <4>1 DEF Typed, IdsHeld
      <3>2. CASE u = t
        <4>1. Len(Tail(script[t])) <= 1
          BY <2>2, <3>2
        <4>2. Len(script[t]) # 1
          BY <1>1, <3>2, LastWordIsMessage DEF send
        <4>3. Len(script[t]) = 2
          <5> DEFINE n == Len(script[t])  l == Len(Tail(script[t]))
          <5>1. n \in Nat /\ n # 0 /\ l = n - 1 /\ l <= 1 /\ n # 1
            BY <2>4, <4>1, <4>2
          <5> HIDE DEF n, l
          <5>2. n = 2
            BY <5>1
          <5> QED
            BY <5>2 DEF n
        <4>4. Head(script[t]) = recv("id")
          BY <1>1, <3>2, <4>3, LastWordIsMessage
        <4>5. Head(to_process).kind = "id"
          BY <2>1, <4>4 DEF recv
        <4>6. 1 \in DOMAIN to_process /\ Head(to_process) = to_process[1]
          BY <2>1, HeadAndTail DEF Typed, LinkTyped, StreamsTyped
        <4>7. Head(to_process).value \in Nat
          BY <4>5, <4>6 DEF Typed, LinkTyped, IdsAreNumbers
        <4> QED
          BY <2>3, <3>2, <4>7
      <3> QED
        BY <3>1, <3>2
    <2> QED
      BY <1>3, <2>5, <2>6 DEF ThreadsTyped
  <1> QED
    BY <1>4, <1>5

\* What the broker reads and forgets.
LEMMA BrokerThreadsTyped ==
  ASSUME Typed, BrokerStep \/ LoseBroker \/ LinkConnect, UNCHANGED at
  PROVE  ThreadsTyped'
  <1>1. UNCHANGED <<script, got>>
    BY BrokerKeepsEnds DEF LoseBroker, LinkConnect, ends
  <1>2. LinkTyped(Messages)' /\ Placed' /\ ScriptsPlaced' /\ IdsHeld'
    BY <1>1, LinkStepsTyped DEF Typed, Placed, ScriptsPlaced, IdsHeld
  <1>3. MessagesHaveIds'
    <2>1. CASE ReadHeader
      <3>1. to_broker \in Seq(WordsOut(Messages)) /\ to_broker # <<>>
        BY <2>1 DEF ReadHeader, Typed, LinkTyped, StreamsTyped
      <3>2. \A i \in DOMAIN Tail(to_broker) :
               i + 1 \in DOMAIN to_broker /\ Tail(to_broker)[i] = to_broker[i + 1]
        BY <3>1, HeadAndTail
      <3> QED
        BY <2>1, <3>2 DEF ReadHeader, Typed, MessagesHaveIds
    <2>2. CASE ReadRest
      <3>1. to_broker \in Seq(WordsOut(Messages)) /\ to_broker # <<>>
        BY <2>2 DEF ReadRest, Typed, LinkTyped, StreamsTyped
      <3>2. /\ Head(to_broker) = to_broker[1] /\ 1 \in DOMAIN to_broker
            /\ Head(to_broker) \in WordsOut(Messages)
            /\ \A i \in DOMAIN Tail(to_broker) :
                 i + 1 \in DOMAIN to_broker /\ Tail(to_broker)[i] = to_broker[i + 1]
        BY <3>1, HeadAndTail
      <3>3. published' = published
            \/ /\ published' = published \cup {<<Head(to_broker).by, Head(to_broker).value>>}
               /\ Head(to_broker).kind = "message"
        BY <2>2 DEF ReadRest
      <3>4. Head(to_broker).kind = "message" => Head(to_broker).value \in Nat
        BY <3>2 DEF Typed, MessagesHaveIds
      <3>5. Head(to_broker).by \in Threads
        BY <3>2 DEF WordsOut
      <3>6. published' \in SUBSET (Threads \X Nat)
        BY <3>3, <3>4, <3>5 DEF Typed, MessagesHaveIds
      <3> QED
        BY <2>2, <3>2, <3>6 DEF ReadRest, Typed, MessagesHaveIds
    <2>3. CASE LoseBroker
      BY <2>3 DEF LoseBroker, MessagesHaveIds
    <2>4. CASE Answer \/ BecomeReady \/ Processed \/ PushHeader \/ PushBody \/ LinkConnect
      <3>1. UNCHANGED <<to_broker, published>>
        BY <2>4 DEF Answer, BecomeReady, Processed, PushHeader, PushBody, LinkConnect, stream,
                    broker
      <3> QED
        BY <3>1 DEF Typed, MessagesHaveIds
    <2> QED
      BY <2>1, <2>2, <2>3, <2>4 DEF BrokerStep
  <1> QED
    BY <1>2, <1>3 DEF ThreadsTyped

\* What the broker takes in was published with an id.
LEMMA EnqueueThreadsTyped ==
  ASSUME Typed, NEW m \in Messages, NEW answered, Enqueue(m, answered), UNCHANGED at
  PROVE  ThreadsTyped'
  <1>1. LinkTyped(Messages)'
    BY EnqueueTyped DEF Typed
  <1>2. UNCHANGED <<script, got, to_broker>> /\ published' \subseteq published
    BY DEF Enqueue, stream, ends
  <1> QED
    BY <1>1, <1>2 DEF Typed, ThreadsTyped, Placed, ScriptsPlaced, IdsHeld, MessagesHaveIds

-----------------------------------------------------------------------------
(* Typing and connections are kept by every step *)

Aside == UNCHANGED <<at, locks, needs, has_broker_connection, awaiting, counts>>

\* The steps, by what they do to the link.
LEMMA NextCases ==
  ASSUME Next, Typed
  PROVE  \/ \E t \in Threads : SocketStep(t) /\ Aside
         \/ ListenerStep(Listener) /\ ~Connect(Listener)
         \/ Connect(Listener)
         \/ EndOfMessage(Server) \/ Guest(Server)
         \/ \E t \in GetThreads : GetStep(t)
         \/ \E t \in Trainers : TrainerStep(t) \/ Arrive(t)
         \/ \E c \in opening : SendGets(c)
         \/ (BrokerStep \/ LoseBroker) /\ Aside
         \/ NewPush
         \/ \E m \in published : CatchAnswered(m)
  BY DEF Next, ThreadStep, OnSocket, Aside

\* No connection is beyond those that the losses allow.
LEMMA OfferedRounds ==
  ASSUME Typed, Connections
  PROVE  /\ connection \in Nat /\ connection <= MaxLosses + 1
         /\ connection # 0 => connection \in Rounds
         /\ ~connected => connection + 1 \in Rounds
         /\ opening \subseteq Rounds /\ opening \subseteq 1..connection
  <1>1. connection \in Nat /\ losses \in Nat /\ losses <= MaxLosses /\ MaxLosses \in Nat
        /\ connection = losses + (IF connected THEN 1 ELSE 0)
        /\ opening \subseteq 1..connection
    BY LinkAssumption DEF Typed, LinkTyped, EndsTyped, Connections, Counters
  <1> QED
    BY <1>1 DEF Rounds

\* The GETs of a connection are created at their first place.
LEMMA SendGetsTyped ==
  ASSUME Typed, Connections, Births, NEW c \in opening, SendGets(c)
  PROVE  ThreadsTyped'
  <1>1. c \in Rounds
    BY OfferedRounds
  <1>2. /\ at \in [Threads -> Places]
        /\ at' = [t \in Threads |-> IF t \in Gets(c) THEN "lock" ELSE at[t]]
        /\ OffLink
    BY DEF SendGets, Typed, Placed
  <1>3. Gets(c) \subseteq GetThreads /\ \A t \in Gets(c) : at[t] = "off"
    <2> SUFFICES ASSUME NEW p \in Pokemons
                 PROVE  Get(p, c) \in GetThreads /\ at[Get(p, c)] = "off"
      BY DEF Gets
    <2> QED
      BY <1>1, Kin DEF Births
  <1>4. Placed'
    BY <1>2, <1>3, Kin DEF Typed, Placed, Places, GetPlaces
  <1>5. UNCHANGED <<script, got, to_broker, published>>
    BY <1>2 DEF OffLink, link, ends, stream, broker
  <1>6. \A t \in Threads : /\ Called(at'[t]) = Called(at[t])
                           /\ at'[t] = "sent" => at[t] = "sent"
    BY <1>2, <1>3 DEF Called
  <1>7. ScriptsPlaced' /\ IdsHeld' /\ MessagesHaveIds'
    BY <1>5, <1>6 DEF Typed, ScriptsPlaced, IdsHeld, MessagesHaveIds
  <1>8. LinkTyped(Messages)'
    BY <1>2, LinkTypedUnchanged DEF OffLink, Typed
  <1> QED
    BY <1>4, <1>7, <1>8 DEF ThreadsTyped

\* The places of each kind of thread are places.
LEMMA PlacesInPlaces ==
  /\ ListenerPlaces \subseteq Places /\ ServerPlaces \subseteq Places
  /\ GetPlaces \subseteq Places /\ TrainerPlaces \subseteq Places
  BY DEF ListenerPlaces, ServerPlaces, GetPlaces, TrainerPlaces, Places

\* Every step keeps the threads where their kind can be, with a script of that place.
LEMMA ThreadsStayTyped ==
  ASSUME Typed, Connections, Births, Next
  PROVE  ThreadsTyped'
  <1>1. CASE \E t \in Threads : SocketStep(t) /\ Aside
    BY <1>1, SendThreadsTyped, ReceiveThreadsTyped DEF SocketStep, Aside
  <1>2. CASE ListenerStep(Listener) /\ ~Connect(Listener)
    <2>1. PICK to \in ListenerPlaces : OwnStep(Listener, to)
      BY <1>2, ListenerMoves DEF Typed
    <2> QED
      BY <2>1, OwnStepTyped, PlacesInPlaces, Kin
  <1>3. CASE Connect(Listener)
    <2>1. LinkConnect /\ at' = [at EXCEPT ![Listener] = "subscribe"] /\ Idle(Listener)
      BY <1>3 DEF Connect, Goto, At
    <2>2. LinkTyped(Messages)' /\ UNCHANGED <<script, got, to_broker, published>>
      BY <2>1, ConnectTyped DEF Typed, LinkConnect, ends, broker
    <2>3. Placed'
      BY <2>1, Kin DEF Typed, Placed, ListenerPlaces, Places
    <2>4. ScriptsPlaced'
      <3>1. Called("subscribe") \in Seq(ScriptStep)
        BY CalledTyped DEF Places
      <3>2. LeftOf(<<>>, Called("subscribe"))
        BY <3>1, NothingLeft
      <3>3. script[Listener] = <<>>
        BY <2>1 DEF Idle
      <3> QED
        BY <2>1, <2>2, <3>2, <3>3 DEF Typed, ScriptsPlaced, Placed
    <2>5. IdsHeld' /\ MessagesHaveIds'
      BY <2>1, <2>2 DEF Typed, IdsHeld, MessagesHaveIds, Placed
    <2> QED
      BY <2>2, <2>3, <2>4, <2>5 DEF ThreadsTyped
  <1>4. CASE EndOfMessage(Server) \/ Guest(Server)
    <2>1. PICK to \in ServerPlaces : OwnStep(Server, to)
      BY <1>4, ServerMoves
    <2> QED
      BY <2>1, OwnStepTyped, PlacesInPlaces, Kin
  <1>5. CASE \E t \in GetThreads : GetStep(t)
    <2>1. PICK t \in GetThreads : GetStep(t)
      BY <1>5
    <2>2. PICK to \in GetPlaces : OwnStep(t, to)
      BY <2>1, GetMoves
    <2> QED
      BY <2>2, OwnStepTyped, PlacesInPlaces, Kin
  <1>6. CASE \E t \in Trainers : TrainerStep(t) \/ Arrive(t)
    <2>1. PICK t \in Trainers : TrainerStep(t) \/ Arrive(t)
      BY <1>6
    <2>2. PICK to \in TrainerPlaces : OwnStep(t, to)
      BY <2>1, TrainerMoves
    <2> QED
      BY <2>2, OwnStepTyped, PlacesInPlaces, Kin
  <1>7. CASE \E c \in opening : SendGets(c)
    BY <1>7, SendGetsTyped
  <1>8. CASE (BrokerStep \/ LoseBroker) /\ Aside
    BY <1>8, BrokerThreadsTyped DEF Aside
  <1>9. CASE NewPush
    <2>1. <<"APPEARED">> \in Messages
      BY DEF Messages
    <2>2. Enqueue(<<"APPEARED">>, {}) /\ UNCHANGED at
      BY <1>9 DEF NewPush
    <2> QED
      BY <2>1, <2>2, EnqueueThreadsTyped
  <1>10. CASE \E m \in published : CatchAnswered(m)
    <2>1. PICK m \in published : CatchAnswered(m)
      BY <1>10
    <2>2. <<"CAUGHT", m[2]>> \in Messages
      BY <2>1 DEF Messages, Typed, MessagesHaveIds
    <2>3. Enqueue(<<"CAUGHT", m[2]>>, {m}) /\ UNCHANGED at
      BY <2>1 DEF CatchAnswered, OnSocket
    <2> QED
      BY <2>2, <2>3, EnqueueThreadsTyped
  <1> QED
    BY <1>1, <1>2, <1>3, <1>4, <1>5, <1>6, <1>7, <1>8, <1>9, <1>10, NextCases

\* Counters and locks that are left alone stay typed.
LEMMA CountersUnchanged ==
  ASSUME Typed, connection' = connection, Aside
  PROVE  Counters'
  BY DEF Typed, Counters, Aside, locks, needs, counts

\* The listener keeps them typed.
LEMMA ListenerKeepsCounters ==
  ASSUME Typed, Births, ListenerStep(Listener)
  PROVE  Counters'
  <1> USE DEF Moves, Asks, Steps, At, OffLink, Says, locks, needs, counts, link, stream
  <1>0. Listener \in Threads /\ connection \in Nat
    BY Kin DEF Typed, LinkTyped, EndsTyped
  <1>1. CASE Restart(Listener)
    BY <1>1 DEF Restart, Typed, Counters
  <1>2. CASE Connect(Listener)
    BY <1>0, <1>2, TeamAssumption DEF Connect, LinkConnect, Typed, Counters
  <1>3. CASE Subscribe(Listener)
    BY <1>3, TeamAssumption DEF Subscribe, Typed, Counters
  <1>4. CASE NeedGets(Listener)
    BY <1>4 DEF NeedGets, Typed, Counters
  <1>5. CASE CloseGate(Listener)
    <2>1. connection # 0
      BY <1>5 DEF CloseGate, Births
    <2>2. opening' \subseteq 1..connection /\ UNCHANGED connection
      <3>1. opening' = opening \cup {connection} /\ UNCHANGED connection
        BY <1>5 DEF CloseGate
      <3>2. opening \subseteq 1..connection
        BY DEF Typed, Counters
      <3>3. connection \in 1..connection
        BY <1>0, <2>1
      <3> QED
        BY <3>1, <3>2, <3>3
    <2>3. all_gets_ready' \in BOOLEAN
      BY <1>5 DEF CloseGate
    <2> QED
      BY <1>5, <2>2, <2>3 DEF CloseGate, Typed, Counters
  <1>6. CASE PassGate(Listener)
    BY <1>6 DEF PassGate, Typed, Counters
  <1>7. CASE Peek(Listener)
    BY <1>7 DEF Peek, Typed, Counters
  <1>8. CASE LockBroker(Listener)
    BY <1>0, <1>8 DEF LockBroker, Locks, Typed, Counters
  <1>9. CASE Receive(Listener)
    BY <1>9 DEF Receive, Typed, Counters
  <1>10. CASE KeepBroker(Listener)
    BY <1>10 DEF KeepBroker, Typed, Counters
  <1>11. CASE Acknowledge(Listener)
    BY <1>11 DEF Acknowledge, Typed, Counters
  <1>12. CASE Process(Listener)
    BY <1>12 DEF Process, Typed, Counters
  <1>13. CASE Processes(Listener)
    BY <1>13 DEF Processes, Typed, Counters
  <1>14. CASE NeedOver(Listener)
    BY <1>14 DEF NeedOver, Typed, Counters
  <1>15. CASE UnlockAfter(Listener)
    BY <1>15 DEF UnlockAfter, UnlockBroker, Typed, Counters
  <1>16. CASE OpenAfter(Listener)
    BY <1>16 DEF OpenAfter, OpenGate, Typed, Counters
  <1> QED
    BY <1>1, <1>2, <1>3, <1>4, <1>5, <1>6, <1>7, <1>8, <1>9, <1>10, <1>11, <1>12, <1>13, <1>14,
       <1>15, <1>16
    DEF ListenerStep, EndOfMessage

\* And so does every step.
LEMMA CountersKept ==
  ASSUME Typed, Births, Next
  PROVE  Counters'
  <1> USE DEF Moves, Asks, Steps, At, OffLink, Says, locks, needs, counts, link, stream
  <1>0. /\ Server \in Threads /\ connection \in Nat /\ losses \in Nat
        /\ \A t \in GetThreads \cup Trainers : t \in Threads
    BY Kin DEF Typed, LinkTyped, EndsTyped
  <1>1. CASE \E t \in Threads : SocketStep(t) /\ Aside
    <2>1. UNCHANGED connection /\ Aside
      BY <1>1 DEF SocketStep, SendWord, ReceiveWord
    <2> QED
      BY <2>1, CountersUnchanged
  <1>2. CASE ListenerStep(Listener)
    BY <1>2, ListenerKeepsCounters
  <1>3. CASE Guest(Server)
    <2>1. guests' \in 0..MaxTroubles
      <3>1. guests \in 0..MaxTroubles /\ MaxTroubles \in Nat
        BY TeamAssumption DEF Typed, Counters
      <3>2. guests + losses < MaxTroubles /\ guests' = guests + 1
        BY <1>3 DEF Guest
      <3> QED
        BY <1>0, <3>1, <3>2
    <2> QED
      BY <1>3, <2>1 DEF Guest, Typed, Counters
  <1>4. CASE EndOfMessage(Server)
    <2>1. CASE NeedOver(Server)
      BY <2>1 DEF NeedOver, Typed, Counters
    <2>2. CASE UnlockAfter(Server)
      BY <2>2 DEF UnlockAfter, UnlockBroker, Typed, Counters
    <2>3. CASE OpenAfter(Server)
      BY <2>3 DEF OpenAfter, OpenGate, Typed, Counters
    <2> QED
      BY <1>4, <2>1, <2>2, <2>3 DEF EndOfMessage
  <1>5. ASSUME NEW t \in GetThreads \cup Trainers, LockAndSend(t) \/ Unlock(t)
        PROVE  Counters'
    <2>1. CASE LockAndSend(t)
      BY <1>0, <2>1 DEF LockAndSend, Locks, Typed, Counters
    <2>2. CASE Unlock(t)
      BY <2>2 DEF Unlock, UnlockBroker, Typed, Counters
    <2> QED
      BY <1>5, <2>1, <2>2
  <1>6. ASSUME NEW t \in GetThreads, CountGet(t) \/ GetsOver(t) \/ OpenForListener(t)
        PROVE  Counters'
    <2>1. CASE CountGet(t)
      <3>1. gets_left' = gets_left - 1 /\ UNCHANGED <<locks, internal_broker_need, opening, awaiting,
                                                      counts, has_broker_connection, connection>>
        BY <2>1 DEF CountGet
      <3>2. Cardinality(Pokemons) \in Nat
        BY FS_CardinalityType, TeamAssumption
      <3> QED
        BY <3>1, <3>2 DEF Typed, Counters
    <2>2. CASE GetsOver(t)
      BY <2>2 DEF GetsOver, Typed, Counters
    <2>3. CASE OpenForListener(t)
      BY <2>3 DEF OpenForListener, OpenGate, Typed, Counters
    <2> QED
      BY <1>6, <2>1, <2>2, <2>3
  <1>7. ASSUME NEW t \in Trainers, Await(t) \/ Arrive(t)
        PROVE  Counters'
    <2>1. CASE Await(t)
      <3>1. got[t] \in Nat
        <4>1. at[t] = "sent" /\ Len(script[t]) = 0
          BY <2>1 DEF Await, Idle
        <4> QED
          BY <1>0, <4>1 DEF Typed, IdsHeld
      <3> QED
        BY <2>1, <3>1 DEF Await, Typed, Counters
    <2>2. CASE Arrive(t)
      BY <2>2 DEF Arrive, Typed, Counters
    <2> QED
      BY <1>7, <2>1, <2>2
  <1>8. CASE \E c \in opening : SendGets(c)
    <2>1. Cardinality(Pokemons) \in Nat
      BY FS_CardinalityType, TeamAssumption
    <2> QED
      BY <1>8, <2>1 DEF SendGets, Typed, Counters
  <1>9. CASE (BrokerStep \/ LoseBroker) /\ Aside
    <2>1. UNCHANGED connection
      BY <1>9, BrokerKeepsEnds DEF LoseBroker
    <2> QED
      BY <1>9, <2>1, CountersUnchanged
  <1>10. CASE NewPush
    BY <1>10, TeamAssumption DEF NewPush, Enqueue, Typed, Counters
  <1>11. CASE \E m \in published : CatchAnswered(m)
    <2>1. UNCHANGED connection /\ Aside
      BY <1>11 DEF CatchAnswered, OnSocket, Enqueue, Aside
    <2> QED
      BY <2>1, CountersUnchanged
  <1> QED
    BY <1>1, <1>2, <1>3, <1>4, <1>5, <1>6, <1>7, <1>8, <1>9, <1>10, <1>11, NextCases
    DEF GetStep, TrainerStep, ListenerStep

\* A step of a thread at its own place leaves the connection and the broker as they are.
LEMMA OwnStepOffBroker ==
  ASSUME NEW t, NEW to, OwnStep(t, to)
  PROVE  UNCHANGED <<connected, connection, stream, got, broker, out_of_step, dead, losses>>
  BY DEF OwnStep, OffLink, Says, link, ends

\* A step off the link neither connects nor loses anything.
LEMMA OwnStepKeepsConnections ==
  ASSUME Connections, NEW t, NEW to, OwnStep(t, to)
  PROVE  Connections'
  BY OwnStepOffBroker DEF Connections, stream, broker

\* A connection is counted when it is made, a loss when it happens.
LEMMA LinkKeepsConnections ==
  ASSUME Typed, Connections, BrokerStep \/ LoseBroker \/ LinkConnect \/ \E t \in Threads : SocketStep(t)
  PROVE  Connections'
  <1>0. connected \in BOOLEAN /\ losses \in Nat /\ MaxLosses \in Nat
    BY LinkAssumption DEF Typed, LinkTyped, EndsTyped
  <1>1. CASE \E t \in Threads : SocketStep(t)
    BY <1>1 DEF SocketStep, SendWord, ReceiveWord, Reaches, Connections, broker
  <1>2. CASE LoseBroker
    BY <1>0, <1>2 DEF LoseBroker, Connections
  <1>3. CASE LinkConnect
    BY <1>0, <1>3 DEF LinkConnect, Connections, broker
  <1>4. CASE ReadHeader
    BY <1>4 DEF ReadHeader, Connections
  <1>5. CASE ReadRest
    BY <1>5 DEF ReadRest, Serving, ServeNext, Connections
  <1>6. CASE Answer \/ BecomeReady \/ Processed
    <2>1. serving # <<>> /\ UNCHANGED <<connected, connection, losses>>
      BY <1>6 DEF Answer, BecomeReady, Processed, Serving
    <2> QED
      BY <2>1 DEF Connections
  <1>7. CASE PushHeader \/ PushBody
    BY <1>7 DEF PushHeader, PushBody, Connections
  <1> QED
    BY <1>1, <1>2, <1>3, <1>4, <1>5, <1>6, <1>7 DEF BrokerStep

\* What the broker takes in is of no connection.
LEMMA EnqueueKeepsConnections ==
  ASSUME Connections, NEW m, NEW answered, Enqueue(m, answered)
  PROVE  Connections'
  BY DEF Enqueue, Connections, stream

\* So every step keeps the count of connections.
LEMMA ConnectionsKept ==
  ASSUME Typed, Connections, Next
  PROVE  Connections'
  <1>1. CASE \E t \in Threads : SocketStep(t) /\ Aside
    BY <1>1, LinkKeepsConnections
  <1>2. CASE ListenerStep(Listener) /\ ~Connect(Listener)
    BY <1>2, ListenerMoves, OwnStepKeepsConnections DEF Typed
  <1>3. CASE Connect(Listener)
    BY <1>3, LinkKeepsConnections DEF Connect
  <1>4. CASE EndOfMessage(Server) \/ Guest(Server)
    BY <1>4, ServerMoves, OwnStepKeepsConnections
  <1>5. CASE \E t \in GetThreads : GetStep(t)
    BY <1>5, GetMoves, OwnStepKeepsConnections
  <1>6. CASE \E t \in Trainers : TrainerStep(t) \/ Arrive(t)
    BY <1>6, TrainerMoves, OwnStepKeepsConnections
  <1>7. CASE \E c \in opening : SendGets(c)
    BY <1>7 DEF SendGets, OffLink, link, stream, broker, Connections
  <1>8. CASE (BrokerStep \/ LoseBroker) /\ Aside
    BY <1>8, LinkKeepsConnections
  <1>9. CASE NewPush
    BY <1>9, EnqueueKeepsConnections DEF NewPush
  <1>10. CASE \E m \in published : CatchAnswered(m)
    BY <1>10, EnqueueKeepsConnections DEF CatchAnswered, OnSocket
  <1> QED
    BY <1>1, <1>2, <1>3, <1>4, <1>5, <1>6, <1>7, <1>8, <1>9, <1>10, NextCases

\* Only the listener goes on to a subscription and to the gate, and no GET is unborn.
LEMMA BirthsUndisturbed ==
  ASSUME Typed, Connections, Births, NEW t \in Threads, NEW to, at' = [at EXCEPT ![t] = to],
         UNCHANGED <<connection, opening>>,
         t \in GetThreads => at[t] # "off",
         t = Listener =>
           /\ to \in {"subscribe", "close gate"} => at[t] \in {"subscribe", "close gate"}
           /\ at[t] \in {"restart", "connect"} => to \in {"restart", "connect"}
  PROVE  Births'
  <1>1. at \in [Threads -> Places] /\ Listener \in Threads
    BY Kin DEF Typed, Placed
  <1>2. at'[t] = to /\ \A u \in Threads \ {t} : at'[u] = at[u]
    BY <1>1
  <1>3. \A p \in Pokemons, d \in Rounds : at[Get(p, d)] = "off" => at'[Get(p, d)] = "off"
    BY <1>2, Kin
  <1>4. \A p \in Pokemons, d \in Rounds : d > connection' \/ d \in opening' =>
           at'[Get(p, d)] = "off"
    BY <1>3 DEF Births
  <1>5. ASSUME at'[Listener] \in {"subscribe", "close gate"}
        PROVE  connection \notin opening /\ \A p \in Pokemons : at'[Get(p, connection)] = "off"
    <2>1. at[Listener] \in {"subscribe", "close gate"}
      BY <1>1, <1>2, <1>5
    <2>2. connection \in Rounds /\ connection \notin opening
          /\ \A p \in Pokemons : at[Get(p, connection)] = "off"
      BY <2>1, OfferedRounds DEF Births
    <2> QED
      BY <1>3, <2>2
  <1>6. at'[Listener] \notin {"restart", "connect"} => connection # 0
    BY <1>1, <1>2 DEF Births
  <1> QED
    BY <1>4, <1>5, <1>6 DEF Births

\* The listener has GETs created only for the connection it has.
LEMMA ListenerKeepsBirths ==
  ASSUME Typed, Connections, Births, ListenerStep(Listener), ~Connect(Listener),
         ~CloseGate(Listener)
  PROVE  Births'
  <1> USE DEF Moves, Asks, Steps, At, Goto
  <1>0. Listener \in Threads /\ Listener \notin GetThreads
    BY Kin
  <1>1. UNCHANGED <<connection, opening>>
    <2>1. UNCHANGED connection
      BY ListenerMoves, OwnStepOffBroker DEF Typed
    <2>2. UNCHANGED opening
      BY DEF ListenerStep, Restart, Subscribe, NeedGets, PassGate, Peek, LockBroker, Receive,
             KeepBroker, Acknowledge, Process, Processes, EndOfMessage, NeedOver, UnlockAfter,
             OpenAfter, needs
    <2> QED
      BY <2>1, <2>2
  <1>2. CASE Subscribe(Listener)
    BY <1>1, <1>2 DEF Subscribe, Births
  <1>3. CASE NeedGets(Listener)
    <2>1. at[Listener] = "subscribe" /\ at' = [at EXCEPT ![Listener] = "close gate"]
      BY <1>3 DEF NeedGets
    <2> QED
      BY <1>0, <1>1, <2>1, BirthsUndisturbed
  <1>4. CASE Restart(Listener)
    <2>1. at' = [at EXCEPT ![Listener] = "connect"]
      BY <1>4 DEF Restart
    <2> QED
      BY <1>0, <1>1, <2>1, BirthsUndisturbed
  <1>5. CASE ~Subscribe(Listener) /\ ~NeedGets(Listener) /\ ~Restart(Listener)
    <2>1. PICK to \in ListenerPlaces \ {"subscribe", "close gate"} :
            at' = [at EXCEPT ![Listener] = to] /\ at[Listener] \notin {"restart", "connect"}
      BY <1>5
      DEF ListenerPlaces, ListenerStep, PassGate, Peek, LockBroker, Receive,
          KeepBroker, Acknowledge, Process, Processes, EndOfMessage, NeedOver, UnlockAfter,
          OpenAfter
    <2> QED
      BY <1>0, <1>1, <2>1, BirthsUndisturbed
  <1> QED
    BY <1>2, <1>3, <1>4, <1>5

\* So no GET is there before its connection.
LEMMA BirthsKept ==
  ASSUME Typed, Connections, Births, Next
  PROVE  Births'
  <1>0. /\ Listener \in Threads /\ Server \in Threads /\ Server # Listener
        /\ at \in [Threads -> Places]
        /\ \A t \in GetThreads \cup Trainers : t \in Threads /\ t # Listener
        /\ \A t \in Trainers \cup {Server, Listener} : t \notin GetThreads
    BY Kin DEF Typed, Placed
  <1>1. ASSUME UNCHANGED <<at, connection, opening>>
        PROVE  Births'
    BY <1>1 DEF Births
  <1>2. CASE \E t \in Threads : SocketStep(t) /\ Aside
    BY <1>1, <1>2 DEF SocketStep, SendWord, ReceiveWord, Aside, needs
  <1>3. CASE ListenerStep(Listener) /\ ~Connect(Listener) /\ ~CloseGate(Listener)
    BY <1>3, ListenerKeepsBirths
  <1>4. CASE CloseGate(Listener)
    <2>1. /\ at[Listener] = "close gate" /\ at' = [at EXCEPT ![Listener] = "gate"]
          /\ opening' = opening \cup {connection} /\ UNCHANGED connection
      BY <1>4 DEF CloseGate, Moves, Steps, At, Goto, OffLink, link
    <2>2. /\ \A u \in Threads \ {Listener} : at'[u] = at[u]
          /\ at'[Listener] = "gate"
      BY <1>0, <2>1
    <2>3. connection # 0 /\ \A p \in Pokemons : at[Get(p, connection)] = "off"
      BY <2>1 DEF Births
    <2>4. \A p \in Pokemons, d \in Rounds : at'[Get(p, d)] = at[Get(p, d)]
      BY <1>0, <2>2, Kin
    <2> QED
      BY <2>1, <2>2, <2>3, <2>4 DEF Births
  <1>5. CASE Connect(Listener)
    <2>1. /\ at' = [at EXCEPT ![Listener] = "subscribe"] /\ UNCHANGED opening
          /\ connection' = connection + 1 /\ ~connected
      BY <1>5 DEF Connect, Goto, LinkConnect, needs
    <2>2. /\ connection \in Nat /\ connection + 1 \in Rounds /\ opening \subseteq 1..connection
      BY <2>1, OfferedRounds
    <2>3. \A p \in Pokemons, d \in Rounds : at'[Get(p, d)] = at[Get(p, d)]
      BY <1>0, <2>1, Kin
    <2>4. ASSUME NEW p \in Pokemons, NEW d \in Rounds, d > connection' \/ d \in opening'
          PROVE  at'[Get(p, d)] = "off"
      <3>1. d > connection \/ d \in opening
        BY <2>1, <2>2, <2>4 DEF Rounds
      <3> QED
        BY <2>3, <3>1 DEF Births
    <2>5. connection' \notin opening' /\ connection' # 0
      BY <2>1, <2>2
    <2>6. \A p \in Pokemons : at'[Get(p, connection')] = "off"
      <3>1. connection + 1 > connection
        BY <2>2
      <3>2. \A p \in Pokemons : at[Get(p, connection + 1)] = "off"
        BY <2>2, <3>1 DEF Births
      <3> QED
        BY <2>1, <2>2, <2>3, <3>2
    <2> QED
      BY <2>4, <2>5, <2>6 DEF Births
  <1>6. CASE EndOfMessage(Server) \/ Guest(Server)
    <2>1. PICK to \in ServerPlaces : OwnStep(Server, to)
      BY <1>6, ServerMoves
    <2>2. UNCHANGED opening
      BY <1>6 DEF EndOfMessage, NeedOver, UnlockAfter, OpenAfter, Guest, needs
    <2> QED
      BY <1>0, <2>1, <2>2, OwnStepOffBroker, BirthsUndisturbed DEF OwnStep, Goto
  <1>7. CASE \E t \in GetThreads : GetStep(t)
    <2>1. PICK t \in GetThreads : GetStep(t)
      BY <1>7
    <2>2. PICK to \in GetPlaces : OwnStep(t, to)
      BY <2>1, GetMoves
    <2>3. UNCHANGED opening /\ at[t] # "off"
      BY <2>1 DEF GetStep, LockAndSend, CountGet, GetsOver, OpenForListener, Unlock, needs, Moves,
                  Asks, Steps, At
    <2> QED
      BY <1>0, <2>2, <2>3, OwnStepOffBroker, BirthsUndisturbed DEF OwnStep, Goto
  <1>8. CASE \E t \in Trainers : TrainerStep(t) \/ Arrive(t)
    <2>1. PICK t \in Trainers : TrainerStep(t) \/ Arrive(t)
      BY <1>8
    <2>2. PICK to \in TrainerPlaces : OwnStep(t, to)
      BY <2>1, TrainerMoves
    <2>3. UNCHANGED opening
      BY <2>1 DEF TrainerStep, LockAndSend, Await, Unlock, Arrive, needs
    <2> QED
      BY <1>0, <2>2, <2>3, OwnStepOffBroker, BirthsUndisturbed DEF OwnStep, Goto
  <1>9. CASE \E c \in opening : SendGets(c)
    <2>1. PICK c \in opening : SendGets(c)
      BY <1>9
    <2>2. /\ opening' = opening \ {c} /\ UNCHANGED connection
          /\ at' = [t \in Threads |-> IF t \in Gets(c) THEN "lock" ELSE at[t]]
      BY <2>1 DEF SendGets, OffLink, link
    <2>3. c \in 1..connection /\ connection \in Nat
      BY OfferedRounds
    <2>4. \A p \in Pokemons, d \in Rounds : d # c => at'[Get(p, d)] = at[Get(p, d)]
      BY <1>0, <2>2, Kin, GetsDiffer DEF Gets
    <2>5. at'[Listener] = at[Listener]
      <3>1. Listener \notin Gets(c)
        BY <1>0, OfferedRounds, Kin DEF Gets
      <3> QED
        BY <1>0, <2>2, <3>1
    <2>6. ASSUME NEW p \in Pokemons, NEW d \in Rounds, d > connection' \/ d \in opening'
          PROVE  at'[Get(p, d)] = "off"
      <3>1. d # c
        BY <2>2, <2>3, <2>6 DEF Rounds
      <3>2. d > connection \/ d \in opening
        BY <2>2, <2>6
      <3> QED
        BY <2>4, <3>1, <3>2 DEF Births
    <2>7. ASSUME at'[Listener] \in {"subscribe", "close gate"}
          PROVE  connection' \notin opening' /\ \A p \in Pokemons : at'[Get(p, connection')] = "off"
      <3>1. connection \notin opening /\ \A p \in Pokemons : at[Get(p, connection)] = "off"
        BY <2>5, <2>7 DEF Births
      <3>2. connection # c /\ connection \in Rounds
        BY <2>3, <3>1, OfferedRounds
      <3> QED
        BY <2>2, <2>4, <3>1, <3>2
    <2> QED
      BY <2>2, <2>5, <2>6, <2>7 DEF Births
  <1>10. CASE (BrokerStep \/ LoseBroker) /\ Aside
    BY <1>1, <1>10, BrokerKeepsEnds DEF LoseBroker, Aside, needs
  <1>11. CASE NewPush
    BY <1>1, <1>11, EnqueueKeepsEnds DEF NewPush, needs
  <1>12. CASE \E m \in published : CatchAnswered(m)
    BY <1>1, <1>12, EnqueueKeepsEnds DEF CatchAnswered, OnSocket, needs
  <1> QED
    BY <1>2, <1>3, <1>4, <1>5, <1>6, <1>7, <1>8, <1>9, <1>10, <1>11, <1>12, NextCases

-----------------------------------------------------------------------------
(* The gate, as long as the server thread unlocks nobody's mutex *)

\* Once a trainer or the server has touched the GETs' gate this stays known.
LEMMA MeddledForGood ==
  ASSUME Next, Typed, meddled
  PROVE  meddled'
  <1> USE DEF Moves, Asks, Steps, locks, Locks, UnlockBroker, OpenGate
  <1>1. CASE ListenerStep(Listener)
    BY <1>1 DEF ListenerStep, Restart, Connect, Subscribe, NeedGets, CloseGate, PassGate, Peek,
                LockBroker, Receive, KeepBroker, Acknowledge, Process, Processes, EndOfMessage,
                NeedOver, UnlockAfter, OpenAfter
  <1>2. CASE EndOfMessage(Server) \/ Guest(Server)
    BY <1>2 DEF EndOfMessage, NeedOver, UnlockAfter, OpenAfter, Guest
  <1>3. CASE \E t \in GetThreads : GetStep(t)
    BY <1>3 DEF GetStep, LockAndSend, CountGet, GetsOver, OpenForListener, Unlock
  <1>4. CASE \E t \in Trainers : TrainerStep(t) \/ Arrive(t)
    BY <1>4 DEF TrainerStep, LockAndSend, Await, Unlock, Arrive
  <1>5. CASE \E c \in opening : SendGets(c)
    BY <1>5 DEF SendGets
  <1>6. CASE NewPush \/ Aside
    BY <1>6 DEF NewPush, Aside
  <1>7. CASE \E m \in published : CatchAnswered(m)
    BY <1>7 DEF CatchAnswered, OnSocket
  <1> QED
    BY <1>1, <1>2, <1>3, <1>4, <1>5, <1>6, <1>7, NextCases DEF ListenerStep

\* Where the thread of a GET is, for the gate.
SameStage(p, d) ==
  /\ at'[Get(p, d)] \in Over <=> at[Get(p, d)] \in Over
  /\ at'[Get(p, d)] \in {"lock", "sent"} <=> at[Get(p, d)] \in {"lock", "sent"}
  /\ at'[Get(p, d)] \in {"ready", "open"} <=> at[Get(p, d)] \in {"ready", "open"}
  /\ at'[Get(p, d)] = "off" <=> at[Get(p, d)] = "off"

SameGate ==
  /\ UNCHANGED <<connection, opening, gets_left, all_gets_ready>>
  /\ \A p \in Pokemons, d \in Rounds : SameStage(p, d)
  /\ all_gets_ready => UNCHANGED at[Listener]
  /\ at[Listener] \in {"subscribe", "close gate"} <=> at'[Listener] \in {"subscribe", "close gate"}

\* A step that leaves the gate and the GETs alone keeps it as it was.
LEMMA GatesUndisturbed ==
  ASSUME Typed, Connections, Gates, SameGate
  PROVE  Gates'
  <1>1. CASE connection = 0
    BY <1>1 DEF Gates, SameGate, SameStage
  <1>2. CASE connection # 0
    <2>1. connection \in Rounds
      BY <1>2, OfferedRounds
    <2>2. Left' = Left
      BY <2>1 DEF Left, SameGate, SameStage
    <2>3. Counting => Counting'
      BY <2>1, <2>2 DEF Counting, SameGate, SameStage
    <2>4. Opening => Opening'
      BY <2>1 DEF Opening, SameGate, SameStage
    <2>5. \A p \in Pokemons, d \in Rounds : d < connection' => at'[Get(p, d)] \in Over
      BY DEF Gates, SameGate, SameStage
    <2>6. all_gets_ready' => at'[Listener] = "gate" /\ connection' # 0 /\ (Opening' \/ Counting')
      BY <2>3, <2>4 DEF Gates, SameGate
    <2>7. /\ ~all_gets_ready' => opening' = {}
          /\ gets_left' >= 0
      BY DEF Gates, SameGate
    <2>8. at'[Listener] \notin {"subscribe", "close gate"} /\ ~all_gets_ready' /\ connection' # 0 =>
            \A p \in Pokemons : at'[Get(p, connection')] \in Over
      BY <2>1 DEF Gates, SameGate, SameStage
    <2> QED
      BY <2>5, <2>6, <2>7, <2>8 DEF Gates
  <1> QED
    BY <1>1, <1>2

\* A step that moves neither the GETs nor the listener's gate.
LEMMA GatesAside ==
  ASSUME Typed, Connections, Gates, NEW t \in Threads \ (GetThreads \cup {Listener}), NEW to,
         at' = [at EXCEPT ![t] = to], UNCHANGED <<connection, opening, gets_left, all_gets_ready>>
  PROVE  Gates'
  <1>1. at \in [Threads -> Places]
    BY DEF Typed, Placed
  <1>2. UNCHANGED at[Listener] /\ \A p \in Pokemons, d \in Rounds : UNCHANGED at[Get(p, d)]
    BY <1>1, Kin
  <1>3. SameGate
    BY <1>2 DEF SameGate, SameStage
  <1> QED
    BY <1>3, GatesUndisturbed

\* The listener's other steps are taken with the gate open, or change nothing of it.
LEMMA ListenerKeepsGates ==
  ASSUME Typed, Connections, Births, Gates, ListenerStep(Listener)
  PROVE  Gates'
  <1> USE DEF Moves, Asks, Steps, At, Goto, OffLink, Says, locks, needs, link
  <1>0. Listener \in Threads /\ Listener \notin GetThreads /\ at \in [Threads -> Places]
        /\ all_gets_ready \in BOOLEAN
    BY Kin DEF Typed, Placed, Counters
  <1>1. ASSUME UNCHANGED at[Listener] \/ (at[Listener] # "gate" \/ ~all_gets_ready),
               \E to : at' = [at EXCEPT ![Listener] = to],
               UNCHANGED <<connection, opening, gets_left, all_gets_ready>>,
               at[Listener] \in {"subscribe", "close gate"} <=>
                 at'[Listener] \in {"subscribe", "close gate"}
        PROVE  Gates'
    <2>1. \A p \in Pokemons, d \in Rounds : UNCHANGED at[Get(p, d)]
      BY <1>0, <1>1, Kin
    <2>2. all_gets_ready => UNCHANGED at[Listener]
      BY <1>1 DEF Gates
    <2>3. SameGate
      BY <1>1, <2>1, <2>2 DEF SameGate, SameStage
    <2> QED
      BY <2>3, GatesUndisturbed
  <1>2. CASE Connect(Listener)
    <2>1. /\ at[Listener] = "connect" /\ at' = [at EXCEPT ![Listener] = "subscribe"]
          /\ connection' = connection + 1 /\ ~connected
          /\ UNCHANGED <<all_gets_ready, opening, gets_left>>
      BY <1>2 DEF Connect, LinkConnect
    <2>2. connection \in Nat /\ connection + 1 \in Rounds
      BY <2>1, OfferedRounds
    <2>3. ~all_gets_ready /\ opening = {} /\ at'[Listener] = "subscribe"
      BY <1>0, <2>1 DEF Gates
    <2>4. \A p \in Pokemons, d \in Rounds : UNCHANGED at[Get(p, d)]
      BY <1>0, <2>1, Kin
    <2>5. ASSUME NEW p \in Pokemons, NEW d \in Rounds, d < connection'
          PROVE  at'[Get(p, d)] \in Over
      <3>1. d < connection \/ (d = connection /\ connection # 0)
        BY <2>1, <2>2, <2>5 DEF Rounds
      <3>2. at[Get(p, d)] \in Over
        BY <2>1, <2>3, <3>1 DEF Gates
      <3> QED
        BY <2>4, <3>2
    <2> QED
      BY <2>1, <2>3, <2>5 DEF Gates
  <1>3. CASE CloseGate(Listener)
    <2>1. /\ at[Listener] = "close gate" /\ at' = [at EXCEPT ![Listener] = "gate"]
          /\ ~all_gets_ready /\ all_gets_ready' = TRUE /\ opening' = opening \cup {connection}
          /\ UNCHANGED <<connection, gets_left>>
      BY <1>3 DEF CloseGate
    <2>2. \A p \in Pokemons, d \in Rounds : UNCHANGED at[Get(p, d)]
      BY <1>0, <2>1, Kin
    <2>3. connection \in Rounds /\ \A p \in Pokemons : at[Get(p, connection)] = "off"
      BY <2>1, OfferedRounds DEF Births
    <2>4. Opening'
      BY <2>1, <2>2, <2>3 DEF Opening, Gates
    <2>5. connection # 0 /\ at'[Listener] = "gate"
      BY <1>0, <2>1 DEF Births
    <2> QED
      BY <2>1, <2>2, <2>4, <2>5 DEF Gates
  <1>4. CASE Restart(Listener)
    BY <1>0, <1>1, <1>4 DEF Restart
  <1>5. CASE Subscribe(Listener)
    <2>1. at' = [at EXCEPT ![Listener] = "subscribe"] /\ UNCHANGED at
      BY <1>0, <1>5 DEF Subscribe
    <2> QED
      BY <1>0, <1>1, <1>5, <2>1 DEF Subscribe
  <1>6. CASE NeedGets(Listener)
    BY <1>0, <1>1, <1>6 DEF NeedGets
  <1>7. CASE PassGate(Listener)
    BY <1>0, <1>1, <1>7 DEF PassGate
  <1>8. CASE Peek(Listener)
    BY <1>0, <1>1, <1>8 DEF Peek
  <1>9. CASE LockBroker(Listener)
    BY <1>0, <1>1, <1>9 DEF LockBroker, Locks
  <1>10. CASE Receive(Listener)
    BY <1>0, <1>1, <1>10 DEF Receive
  <1>11. CASE KeepBroker(Listener)
    BY <1>0, <1>1, <1>11 DEF KeepBroker
  <1>12. CASE Acknowledge(Listener)
    BY <1>0, <1>1, <1>12 DEF Acknowledge
  <1>13. CASE Process(Listener)
    BY <1>0, <1>1, <1>13 DEF Process
  <1>14. CASE Processes(Listener)
    BY <1>0, <1>1, <1>14 DEF Processes
  <1>15. CASE NeedOver(Listener)
    BY <1>0, <1>1, <1>15 DEF NeedOver
  <1>16. CASE UnlockAfter(Listener)
    BY <1>0, <1>1, <1>16 DEF UnlockAfter, UnlockBroker
  <1>17. CASE OpenAfter(Listener)
    <2>1. at[Listener] = "open gate" /\ at' = [at EXCEPT ![Listener] = "gate"]
          /\ all_gets_ready' = FALSE /\ UNCHANGED <<connection, opening, gets_left>>
      BY <1>17 DEF OpenAfter, OpenGate
    <2>2. ~all_gets_ready
      BY <2>1 DEF Gates
    <2> QED
      BY <1>0, <1>1, <2>1, <2>2
  <1> QED
    BY <1>2, <1>3, <1>4, <1>5, <1>6, <1>7, <1>8, <1>9, <1>10, <1>11, <1>12, <1>13, <1>14, <1>15,
       <1>16, <1>17
    DEF ListenerStep, EndOfMessage

\* A GET on its way is of the present connection, and the gate is closed for it.
LEMMA OnItsWay ==
  ASSUME Typed, Connections, Births, Gates, NEW p \in Pokemons, NEW d \in Rounds,
         at[Get(p, d)] \in {"lock", "sent", "ready", "open"}
  PROVE  d = connection /\ all_gets_ready /\ Counting
  <1>1. at[Get(p, d)] \notin Over /\ at[Get(p, d)] # "off"
    BY DEF Over
  <1>2. connection \in Nat
    BY OfferedRounds
  <1>3. d = connection
    <2>1. ~(d < connection) /\ ~(d > connection)
      BY <1>1 DEF Gates, Births
    <2> QED
      BY <1>2, <2>1 DEF Rounds
  <1>4. connection # 0
    BY <1>3 DEF Rounds
  <1>5. all_gets_ready
    BY <1>1, <1>3, <1>4 DEF Gates, Births
  <1>6. ~Opening
    BY <1>1, <1>3 DEF Opening
  <1> QED
    BY <1>3, <1>5, <1>6 DEF Gates

\* Each GET counts itself once, and the last of them opens the gate.
LEMMA GetKeepsGates ==
  ASSUME Typed, Connections, Births, Gates, NEW t \in GetThreads, GetStep(t)
  PROVE  Gates'
  <1> USE DEF Moves, Asks, Steps, At, Goto, OffLink, Says, locks, needs, link
  <1>1. PICK p \in Pokemons, d \in Rounds : t = Get(p, d)
    BY Kin
  <1>2. at \in [Threads -> Places] /\ t \in Threads /\ t # Listener /\ t # Server
    BY Kin DEF Typed, Placed
  <1>3. UNCHANGED connection
    BY GetMoves, OwnStepOffBroker
  <1>4. ASSUME NEW to, at' = [at EXCEPT ![t] = to]
        PROVE  /\ at'[t] = to /\ at'[Listener] = at[Listener]
               /\ \A q \in Pokemons, e \in Rounds :
                    (q # p \/ e # d) => at'[Get(q, e)] = at[Get(q, e)]
    <2>1. \A q \in Pokemons, e \in Rounds : (q # p \/ e # d) => Get(q, e) # t
      BY <1>1, GetsDiffer
    <2> QED
      BY <1>2, <1>4, <2>1, Kin
  <1>5. ASSUME NEW to, at' = [at EXCEPT ![t] = to],
               <<at[t], to>> \in {<<"lock", "sent">>, <<"ready", "open">>, <<"unlock", "done">>},
               UNCHANGED <<opening, gets_left, all_gets_ready>>
        PROVE  Gates'
    <2>1. SameStage(p, d)
      BY <1>1, <1>4, <1>5 DEF SameStage, Over
    <2>2. \A q \in Pokemons, e \in Rounds : SameStage(q, e)
      BY <1>4, <1>5, <2>1 DEF SameStage
    <2>3. SameGate
      BY <1>3, <1>4, <1>5, <2>2 DEF SameGate
    <2> QED
      BY <2>3, GatesUndisturbed
  <1>6. CASE LockAndSend(t)
    BY <1>5, <1>6 DEF LockAndSend, Locks
  <1>7. CASE GetsOver(t)
    BY <1>5, <1>7 DEF GetsOver
  <1>8. CASE Unlock(t)
    BY <1>5, <1>8 DEF Unlock, UnlockBroker
  <1>9. CASE CountGet(t)
    <2>1. /\ at[t] = "sent" /\ at' = [at EXCEPT ![t] = IF LastGet THEN "ready" ELSE "unlock"]
          /\ gets_left' = gets_left - 1 /\ UNCHANGED <<opening, all_gets_ready>>
      BY <1>9 DEF CountGet
    <2>2. d = connection /\ all_gets_ready /\ Counting
      BY <1>1, <2>1, OnItsWay
    <2>3. /\ at'[t] = (IF LastGet THEN "ready" ELSE "unlock") /\ at'[Listener] = at[Listener]
          /\ \A q \in Pokemons, e \in Rounds :
               (q # p \/ e # d) => at'[Get(q, e)] = at[Get(q, e)]
      BY <1>4, <2>1
    <2>4. Left' = Left \ {p} /\ p \in Left
      BY <1>1, <1>3, <2>1, <2>2, <2>3 DEF Left
    <2>5. IsFiniteSet(Left)
      BY FS_Subset, TeamAssumption DEF Left
    <2>6. /\ Cardinality(Left') = Cardinality(Left) - 1
          /\ Cardinality(Left) \in Nat /\ Cardinality(Left') \in Nat
      <3>1. /\ Cardinality(Left \ {p}) = IF p \in Left THEN Cardinality(Left) - 1 ELSE Cardinality(Left)
            /\ IsFiniteSet(Left \ {p})
        BY <2>5, FS_RemoveElement
      <3>2. Cardinality(Left) \in Nat /\ Cardinality(Left \ {p}) \in Nat
        BY <2>5, <3>1, FS_CardinalityType
      <3> QED
        BY <2>4, <3>1, <3>2
    <2>7. gets_left' = Cardinality(Left') /\ gets_left' >= 0
      BY <2>1, <2>2, <2>6 DEF Counting
    <2>8. \A q \in Pokemons \ {p} : at[Get(q, d)] \notin {"ready", "open"}
      BY <1>1, <2>1, <2>2 DEF Counting, Over
    <2>9. ASSUME LastGet
          PROVE  \A q \in Pokemons \ {p} : at[Get(q, d)] \in Over
      <3>1. Cardinality(Left) = 1
        BY <2>2, <2>9 DEF Counting, LastGet
      <3>2. \A q \in Left : q = p
        BY <2>4, <2>5, <3>1, FS_Singleton
      <3> SUFFICES ASSUME NEW q \in Pokemons \ {p} PROVE at[Get(q, d)] \in Over
        OBVIOUS
      <3>3. at[Get(q, d)] \notin {"lock", "sent"}
        BY <2>2, <3>2 DEF Left
      <3>4. at[Get(q, d)] # "off" /\ Get(q, d) \in GetThreads
        BY <2>2, Kin DEF Counting
      <3> QED
        BY <2>8, <3>3, <3>4 DEF Over, GetPlaces, Typed, Placed
    <2>10. \A q \in Pokemons : at'[Get(q, d)] # "off"
      BY <1>1, <2>2, <2>3 DEF Counting
    <2>11. ASSUME NEW q \in Pokemons, at'[Get(q, d)] \in {"ready", "open"}
           PROVE  \A r \in Pokemons \ {q} : at'[Get(r, d)] \in Over
      <3>1. q = p /\ LastGet
        BY <1>1, <2>3, <2>8, <2>11
      <3> QED
        BY <2>3, <2>9, <3>1
    <2>12. Counting'
      BY <1>3, <2>1, <2>2, <2>7, <2>10, <2>11 DEF Counting
    <2>13. \A q \in Pokemons, e \in Rounds : e < connection' => at'[Get(q, e)] \in Over
      <3>1. connection \in Nat
        BY OfferedRounds
      <3> QED
        BY <1>3, <2>2, <2>3, <3>1 DEF Gates, Rounds
    <2> QED
      BY <1>3, <2>1, <2>2, <2>3, <2>7, <2>12, <2>13 DEF Gates
  <1>10. CASE OpenForListener(t)
    <2>1. /\ at[t] = "open" /\ at' = [at EXCEPT ![t] = "unlock"]
          /\ all_gets_ready' = FALSE /\ UNCHANGED <<opening, gets_left>>
      BY <1>10 DEF OpenForListener, OpenGate
    <2>2. d = connection /\ all_gets_ready /\ Counting
      BY <1>1, <2>1, OnItsWay
    <2>3. /\ at'[t] = "unlock" /\ at'[Listener] = at[Listener]
          /\ \A q \in Pokemons, e \in Rounds :
               (q # p \/ e # d) => at'[Get(q, e)] = at[Get(q, e)]
      BY <1>4, <2>1
    <2>4. \A q \in Pokemons : at'[Get(q, d)] \in Over
      BY <1>1, <2>1, <2>2, <2>3 DEF Counting, Over
    <2>5. \A q \in Pokemons, e \in Rounds : e < connection' => at'[Get(q, e)] \in Over
      <3>1. connection \in Nat
        BY OfferedRounds
      <3> QED
        BY <1>3, <2>2, <2>3, <3>1 DEF Gates, Rounds
    <2> QED
      BY <1>3, <2>1, <2>2, <2>4, <2>5 DEF Gates, Counting
  <1> QED
    BY <1>6, <1>7, <1>8, <1>9, <1>10 DEF GetStep

\* The creation of the GETs sets the count to their number.
LEMMA SendGetsKeepsGates ==
  ASSUME Typed, Connections, Gates, NEW c \in opening, SendGets(c)
  PROVE  Gates'
  <1>1. /\ opening' = opening \ {c} /\ gets_left' = Cardinality(Pokemons)
        /\ at' = [t \in Threads |-> IF t \in Gets(c) THEN "lock" ELSE at[t]]
        /\ UNCHANGED <<connection, all_gets_ready>>
    BY DEF SendGets, OffLink, link, locks
  <1>2. all_gets_ready /\ Opening /\ c = connection /\ connection \in Rounds
    <2>1. all_gets_ready /\ ~Counting
      BY DEF Gates, Counting
    <2> QED
      BY <2>1, OfferedRounds DEF Gates, Opening
  <1>3. /\ \A p \in Pokemons : at'[Get(p, c)] = "lock"
        /\ \A p \in Pokemons, d \in Rounds : d # c => at'[Get(p, d)] = at[Get(p, d)]
    BY <1>1, <1>2, Kin, GetsDiffer DEF Gets
  <1>4. at'[Listener] = at[Listener]
    <2>1. Listener \notin Gets(c) /\ Listener \in Threads
      BY <1>2, Kin DEF Gets
    <2> QED
      BY <1>1, <2>1
  <1>5. Left' = Pokemons
    BY <1>1, <1>2, <1>3 DEF Left
  <1>6. Counting'
    BY <1>1, <1>2, <1>3, <1>5 DEF Counting, Opening
  <1>7. Cardinality(Pokemons) \in Nat
    BY FS_CardinalityType, TeamAssumption
  <1>8. \A p \in Pokemons, d \in Rounds : d < connection' => at'[Get(p, d)] \in Over
    <2>1. \A d \in Rounds : d < connection => d # connection
      BY <1>2 DEF Rounds
    <2> QED
      BY <1>1, <1>2, <1>3, <2>1 DEF Gates
  <1> QED
    BY <1>1, <1>2, <1>4, <1>6, <1>7, <1>8 DEF Gates

\* So, if no one meddles, the gate is closed as long as a GET is under way.
LEMMA GatesKept ==
  ASSUME Typed, Connections, Births, Gates, Next, ~meddled'
  PROVE  Gates'
  <1> USE DEF Moves, Asks, Steps, At, Goto, locks, needs
  <1>0. /\ Server \in Threads \ (GetThreads \cup {Listener}) /\ all_gets_ready \in BOOLEAN
        /\ \A t \in Trainers : t \in Threads \ (GetThreads \cup {Listener}) /\ t # Server
    BY Kin DEF Typed, Counters
  <1>1. ASSUME UNCHANGED <<at, connection, opening, gets_left, all_gets_ready>>
        PROVE  Gates'
    <2>1. SameGate
      BY <1>1 DEF SameGate, SameStage
    <2> QED
      BY <2>1, GatesUndisturbed
  <1>2. CASE \E t \in Threads : SocketStep(t) /\ Aside
    BY <1>1, <1>2 DEF SocketStep, SendWord, ReceiveWord, Aside
  <1>3. CASE ListenerStep(Listener)
    BY <1>3, ListenerKeepsGates
  <1>4. CASE EndOfMessage(Server) \/ Guest(Server)
    <2>1. PICK to \in ServerPlaces : OwnStep(Server, to)
      BY <1>4, ServerMoves
    <2>2. UNCHANGED <<opening, gets_left>>
      BY <1>4 DEF EndOfMessage, NeedOver, UnlockAfter, OpenAfter, Guest
    <2>3. UNCHANGED all_gets_ready
      BY <1>0, <1>4
      DEF EndOfMessage, NeedOver, UnlockAfter, OpenAfter, Guest, UnlockBroker, OpenGate
    <2> QED
      BY <1>0, <2>1, <2>2, <2>3, OwnStepOffBroker, GatesAside DEF OwnStep
  <1>5. CASE \E t \in GetThreads : GetStep(t)
    BY <1>5, GetKeepsGates
  <1>6. CASE \E t \in Trainers : TrainerStep(t) \/ Arrive(t)
    <2>1. PICK t \in Trainers : TrainerStep(t) \/ Arrive(t)
      BY <1>6
    <2>2. PICK to \in TrainerPlaces : OwnStep(t, to)
      BY <2>1, TrainerMoves
    <2>3. UNCHANGED <<opening, gets_left, all_gets_ready>>
      BY <2>1 DEF TrainerStep, LockAndSend, Await, Unlock, Arrive, Locks, UnlockBroker
    <2> QED
      BY <1>0, <2>2, <2>3, OwnStepOffBroker, GatesAside DEF OwnStep
  <1>7. CASE \E c \in opening : SendGets(c)
    BY <1>7, SendGetsKeepsGates
  <1>8. CASE (BrokerStep \/ LoseBroker) /\ Aside
    BY <1>1, <1>8, BrokerKeepsEnds DEF LoseBroker, Aside
  <1>9. CASE NewPush
    BY <1>1, <1>9, EnqueueKeepsEnds DEF NewPush
  <1>10. CASE \E m \in published : CatchAnswered(m)
    BY <1>1, <1>10, EnqueueKeepsEnds DEF CatchAnswered, OnSocket
  <1> QED
    BY <1>2, <1>3, <1>4, <1>5, <1>6, <1>7, <1>8, <1>9, <1>10, NextCases DEF ListenerStep

-----------------------------------------------------------------------------
(* The words of the GETs on their way to the broker *)

\* What a thread does next on the socket is a step of the function it has called.
LEMMA NextOfCalled ==
  ASSUME Typed, NEW t \in Threads, ~Idle(t)
  PROVE  at[t] \in Places /\ \E i \in DOMAIN Called(at[t]) : Head(script[t]) = Called(at[t])[i]
  <1>1. script[t] \in Seq(ScriptStep) /\ script[t] # <<>> /\ at[t] \in Places
    BY DEF Typed, LinkTyped, EndsTyped, Idle, Placed
  <1>2. Len(script[t]) \in Nat \ {0} /\ Head(script[t]) = script[t][1] /\ 1 \in DOMAIN script[t]
    BY <1>1, HeadAndTail
  <1> DEFINE f == Called(at[t])
  <1> DEFINE i == Len(f) - Len(script[t]) + 1
  <1>3. f \in Seq(ScriptStep)
    BY <1>1, CalledTyped
  <1>4. Len(script[t]) <= Len(f) /\ Head(script[t]) = f[i]
    BY <1>2 DEF Typed, ScriptsPlaced, LeftOf
  <1>5. Len(f) \in Nat /\ DOMAIN f = 1..Len(f)
    BY <1>3
  <1>6. i \in DOMAIN f
    BY <1>2, <1>4, <1>5
  <1> QED
    BY <1>1, <1>4, <1>6

\* Only the last GET sends READY_TO_RECIEVE.
LEMMA ReadySaidAtReady ==
  ASSUME NEW place \in Places, NEW i \in DOMAIN Called(place),
         Called(place)[i].kind = "READY_TO_RECIEVE"
  PROVE  place = "ready"
  <1> USE DEF send, recv
  <1>1. CASE place = "sent"
    BY <1>1 DEF Called, send_pokemon_message
  <1>2. CASE place = "subscribe"
    BY <1>2 DEF Called, subscribe_to_queue
  <1>3. CASE place = "received"
    <2>1. Called(place) = <<recv("header"), recv("body")>>
      BY <1>3 DEF Called, receive_pokemon_message
    <2> QED
      BY <2>1
  <1>4. CASE place = "need"
    BY <1>4 DEF Called, send_message_acknowledge
  <1>5. CASE place = "need over"
    <2>1. Called(place) = <<send("PROCESSED")>>
      BY <1>5 DEF Called, already_processed
    <2> QED
      BY <2>1
  <1>6. CASE place \notin {"sent", "subscribe", "received", "need", "need over", "ready"}
    <2>1. Called(place) = <<>>
      BY <1>6 DEF Called
    <2> QED
      BY <2>1
  <1> QED
    BY <1>1, <1>2, <1>3, <1>4, <1>5, <1>6

\* Only who declares the team ready says so.
LEMMA ReadyWord ==
  ASSUME Typed, NEW t \in Threads, ~Idle(t), Head(script[t]).kind = "READY_TO_RECIEVE"
  PROVE  at[t] = "ready"
  BY NextOfCalled, ReadySaidAtReady

\* A step of a thread that has done with the socket.
LEMMA OwnStepKeepsWords ==
  ASSUME Typed, Connections, Words, NEW t \in Threads, NEW to \in Places, OwnStep(t, to),
         t \in GetThreads => to \in GetPlaces,
         \A p \in Pokemons, d \in Rounds : t = Get(p, d) =>
           (to \in {"sent", "ready"} => d = connection) /\ (to \notin {"off", "lock", "sent"} => HasSent(t))
  PROVE  Words'
  <1>1. /\ at \in [Threads -> Places] /\ at' = [at EXCEPT ![t] = to] /\ script[t] = <<>>
        /\ script \in [Threads -> Seq(ScriptStep)] /\ socket \in [Threads -> Nat]
    BY DEF Typed, LinkTyped, EndsTyped, Placed, OwnStep, Goto, Idle
  <1>2. UNCHANGED <<connected, connection, to_broker, serving, published>>
    BY OwnStepOffBroker DEF stream, broker
  <1>3. \/ to # "sent" /\ UNCHANGED <<script, socket>>
        \/ /\ script' = [script EXCEPT ![t] = Called(to)]
           /\ socket' = [socket EXCEPT ![t] = connection]
    BY DEF OwnStep, OffLink, Says, Start, link, ends
  <1>4. \A u \in Threads \ {t} : UNCHANGED <<script[u], socket[u], at[u]>>
    BY <1>1, <1>3
  <1>5. /\ at'[t] = to
        /\ \/ to # "sent" /\ UNCHANGED <<script[t], socket[t]>>
           \/ script'[t] = Called(to) /\ socket'[t] = connection
    BY <1>1, <1>3
  <1>6. /\ \A p, i : SaidBefore(p, i)' <=> SaidBefore(p, i)
        /\ \A p : Published(p)' <=> Published(p)
    BY <1>2 DEF SaidBefore, Published
  <1>7. ASSUME NEW p \in Pokemons, NEW d \in Rounds, script'[Get(p, d)] # <<>>
        PROVE  socket'[Get(p, d)] = d
    <2>1. CASE Get(p, d) = t
      <3>1. script'[t] = Called(to) /\ socket'[t] = connection
        BY <1>1, <1>5, <1>7, <2>1
      <3>2. to \in {"sent", "ready"}
        BY <1>7, <2>1, <3>1, Kin DEF Called, GetPlaces
      <3> QED
        BY <2>1, <3>1, <3>2
    <2>2. CASE Get(p, d) # t
      <3>1. UNCHANGED <<script[Get(p, d)], socket[Get(p, d)]>>
        BY <1>4, <2>2, Kin
      <3> QED
        BY <1>7, <3>1 DEF Words, Idle
    <2> QED
      BY <2>1, <2>2
  <1>8. ASSUME NEW p \in Pokemons, connected, HasSent(Get(p, connection))'
        PROVE  SaidBefore(p, Len(to_broker) + 1)
    <2>1. connection \in Rounds
      BY <1>8, OfferedRounds, LinkAssumption DEF Connections, Typed, LinkTyped, EndsTyped
    <2>2. HasSent(Get(p, connection))
      <3>1. CASE Get(p, connection) = t
        <4>1. to # "sent"
          <5>1. Called("sent") # <<>>
            BY DEF Called, send_pokemon_message
          <5>2. \/ at'[t] \in {"ready", "open"} \cup Over
                \/ at'[t] = "sent" /\ script'[t] = <<>>
            BY <1>2, <1>8, <3>1 DEF HasSent, Idle
          <5>3. "sent" \notin {"ready", "open"} \cup Over
            BY DEF Over
          <5> QED
            BY <1>5, <5>1, <5>2, <5>3
        <4>2. to \notin {"off", "lock", "sent"}
          BY <1>2, <1>5, <1>8, <3>1, <4>1 DEF HasSent, Over
        <4> QED
          BY <2>1, <3>1, <4>2
      <3>2. CASE Get(p, connection) # t
        <4>1. UNCHANGED <<script[Get(p, connection)], at[Get(p, connection)]>>
          BY <1>2, <1>4, <2>1, <3>2, Kin
        <4> QED
          BY <1>2, <1>8, <4>1 DEF HasSent, Idle
      <3> QED
        BY <3>1, <3>2
    <2> QED
      BY <1>8, <2>2 DEF Words
  <1>9. (connected => \A p \in Pokemons :
           HasSent(Get(p, connection)) => SaidBefore(p, Len(to_broker) + 1))'
    BY <1>2, <1>6, <1>8
  <1>10. (\A i \in DOMAIN to_broker : to_broker[i].kind = "READY_TO_RECIEVE" =>
           \A p \in Pokemons : SaidBefore(p, i))'
    BY <1>2, <1>6 DEF Words
  <1>11. (\A k \in DOMAIN serving : serving[k][2].op = "ready" => \A p \in Pokemons : Published(p))'
    BY <1>2, <1>6 DEF Words
  <1> QED
    BY <1>7, <1>9, <1>10, <1>11 DEF Words, Idle

\* A thread that has said its message has said it before whatever is said next.
LEMMA SendKeepsWords ==
  ASSUME Typed, Connections, Births, Gates, Words, NEW t \in Threads, SendWord(t), UNCHANGED at
  PROVE  Words'
  <1>1. /\ ~Idle(t) /\ Head(script[t]).op = "send"
        /\ script' = [script EXCEPT ![t] = Tail(script[t])]
        /\ UNCHANGED <<connected, connection, socket, serving, published>>
        /\ \/ Reaches(t) /\ to_broker' = Append(to_broker, Word(t))
           \/ ~Reaches(t) /\ UNCHANGED to_broker
    BY DEF SendWord, broker
  <1>2. /\ script \in [Threads -> Seq(ScriptStep)] /\ script[t] \in Seq(ScriptStep)
        /\ script[t] # <<>> /\ to_broker \in Seq(WordsOut(Messages))
        /\ Word(t) \in WordsOut(Messages)
    BY <1>1, WordTyped DEF Typed, LinkTyped, EndsTyped, StreamsTyped, Idle
  <1>3. /\ script'[t] = Tail(script[t]) /\ \A u \in Threads \ {t} : script'[u] = script[u]
        /\ Len(script[t]) \in Nat \ {0} /\ Len(Tail(script[t])) = Len(script[t]) - 1
    BY <1>1, <1>2, HeadAndTail
  <1>4. /\ Len(to_broker) \in Nat /\ DOMAIN to_broker = 1..Len(to_broker)
        /\ Reaches(t) => /\ Len(to_broker') = Len(to_broker) + 1
                         /\ DOMAIN to_broker' = 1..(Len(to_broker) + 1)
                         /\ to_broker'[Len(to_broker) + 1] = Word(t)
        /\ ~Reaches(t) => to_broker' = to_broker
        /\ \A i \in DOMAIN to_broker : i \in DOMAIN to_broker' /\ to_broker'[i] = to_broker[i]
    BY <1>1, <1>2, WordAppended
  <1>5. /\ \A p, i : SaidBefore(p, i) => SaidBefore(p, i)'
        /\ \A p : Published(p)' <=> Published(p)
    BY <1>1, <1>4 DEF SaidBefore, Published
  <1>6. \A p : SaidBefore(p, Len(to_broker) + 1) => SaidBefore(p, Len(to_broker) + 1)'
    <2> SUFFICES ASSUME NEW p, SaidBefore(p, Len(to_broker) + 1)
                 PROVE  SaidBefore(p, Len(to_broker) + 1)'
      OBVIOUS
    <2>1. CASE Published(p)
      BY <1>5, <2>1 DEF SaidBefore
    <2>2. CASE ~Published(p)
      <3>1. PICK j \in DOMAIN to_broker :
              to_broker[j].kind = "message" /\ to_broker[j].by = Get(p, connection)
        BY <2>2 DEF SaidBefore
      <3>2. j \in DOMAIN to_broker' /\ to_broker'[j] = to_broker[j] /\ j < Len(to_broker') + 1
        BY <1>4
      <3> QED
        BY <1>1, <3>1, <3>2 DEF SaidBefore
    <2> QED
      BY <2>1, <2>2
  <1>7. ASSUME NEW p \in Pokemons, NEW d \in Rounds, script'[Get(p, d)] # <<>>
        PROVE  socket'[Get(p, d)] = d
    <2>1. script[Get(p, d)] # <<>>
      BY <1>2, <1>3, <1>7, Kin
    <2> QED
      BY <1>1, <2>1 DEF Words, Idle
  <1>8. ASSUME NEW p \in Pokemons, connected, HasSent(Get(p, connection))'
        PROVE  SaidBefore(p, Len(to_broker) + 1)'
    <2>1. connection \in Rounds
      BY <1>8, OfferedRounds, LinkAssumption DEF Connections, Typed, LinkTyped, EndsTyped
    <2>2. CASE HasSent(Get(p, connection))
      <3>1. SaidBefore(p, Len(to_broker) + 1)
        BY <1>8, <2>2 DEF Words
      <3> QED
        BY <1>6, <3>1
    <2>3. CASE ~HasSent(Get(p, connection))
      <3>1. at[Get(p, connection)] = "sent" /\ script[Get(p, connection)] # <<>>
            /\ script'[Get(p, connection)] = <<>>
        BY <1>1, <1>8, <2>3 DEF HasSent, Idle
      <3>2. Get(p, connection) = t
        BY <1>3, <2>1, <3>1, Kin
      <3>3. Len(script[t]) = 1
        <4> DEFINE n == Len(script[t])
        <4>1. n \in Nat /\ n # 0 /\ n - 1 = 0
          <5>1. script'[t] = <<>>
            BY <3>1, <3>2
          <5>2. Len(script'[t]) = 0 /\ Len(script'[t]) = Len(script[t]) - 1
            BY <1>3, <5>1
          <5>3. Len(script[t]) \in Nat \ {0} /\ Len(script[t]) - 1 = 0
            BY <1>3, <5>2
          <5> QED
            BY <5>3
        <4> HIDE DEF n
        <4>2. n = 1
          BY <4>1
        <4> QED
          BY <4>2 DEF n
      <3>4. Head(script[t]) = send("message")
        BY <1>1, <3>1, <3>2, <3>3, LastWordIsMessage
      <3>5. Reaches(t)
        <4>1. socket[Get(p, connection)] = connection
          BY <2>1, <3>1 DEF Words, Idle
        <4> QED
          BY <1>8, <3>2, <4>1 DEF Reaches
      <3>6. Word(t).kind = "message" /\ Word(t).by = Get(p, connection)
        BY <3>2, <3>4 DEF Word, send
      <3>7. /\ Len(to_broker) + 1 \in DOMAIN to_broker' /\ Len(to_broker) + 1 < Len(to_broker') + 1
            /\ to_broker'[Len(to_broker) + 1] = Word(t)
        BY <1>4, <3>5
      <3> QED
        BY <1>1, <3>6, <3>7 DEF SaidBefore
    <2> QED
      BY <2>2, <2>3
  <1>9. ASSUME NEW i \in DOMAIN to_broker', to_broker'[i].kind = "READY_TO_RECIEVE",
               NEW p \in Pokemons
        PROVE  SaidBefore(p, i)'
    <2>1. CASE i \in DOMAIN to_broker
      <3>1. to_broker[i].kind = "READY_TO_RECIEVE"
        BY <1>4, <1>9, <2>1
      <3>2. SaidBefore(p, i)
        BY <2>1, <3>1 DEF Words
      <3> QED
        BY <1>5, <3>2
    <2>2. CASE i \notin DOMAIN to_broker
      <3>1. Reaches(t) /\ i = Len(to_broker) + 1 /\ Word(t).kind = "READY_TO_RECIEVE"
        BY <1>4, <1>9, <2>2
      <3>2. at[t] = "ready"
        BY <1>1, <3>1, ReadyWord DEF Word
      <3>3. PICK q \in Pokemons, d \in Rounds : t = Get(q, d)
        <4>1. t \in GetThreads
          BY <3>2, TeamAssumption DEF Threads, Typed, Placed, TrainerPlaces, ServerPlaces, ListenerPlaces
        <4> QED
          BY <4>1, Kin
      <3>4. d = connection /\ Counting
        BY <3>2, <3>3, OnItsWay
      <3>5. at[Get(p, connection)] \in {"ready"} \cup Over
        BY <3>2, <3>3, <3>4 DEF Counting
      <3>6. HasSent(Get(p, connection))
        BY <3>5 DEF HasSent
      <3>7. SaidBefore(p, Len(to_broker) + 1)
        BY <3>1, <3>6 DEF Words, Reaches
      <3> QED
        BY <1>5, <3>1, <3>7
    <2> QED
      BY <2>1, <2>2
  <1>10. (connected => \A p \in Pokemons :
           HasSent(Get(p, connection)) => SaidBefore(p, Len(to_broker) + 1))'
    BY <1>1, <1>8
  <1>11. (\A k \in DOMAIN serving : serving[k][2].op = "ready" => \A p \in Pokemons : Published(p))'
    BY <1>1, <1>5 DEF Words
  <1> QED
    BY <1>7, <1>9, <1>10, <1>11 DEF Words, Idle

\* A GET that has its id goes on to send its message before it can be over.
LEMMA ReceiveKeepsWords ==
  ASSUME Typed, Connections, Words, NEW t \in Threads, ReceiveWord(t), UNCHANGED at
  PROVE  Words'
  <1>1. /\ ~Idle(t) /\ Head(script[t]).op = "recv"
        /\ script' = [script EXCEPT ![t] = Tail(script[t])] \/ UNCHANGED script
        /\ UNCHANGED <<connected, connection, socket, serving, published, to_broker>>
    BY DEF ReceiveWord, broker
  <1>2. /\ script \in [Threads -> Seq(ScriptStep)] /\ script[t] \in Seq(ScriptStep)
        /\ script[t] # <<>>
    BY <1>1 DEF Typed, LinkTyped, EndsTyped, Idle
  <1>3. /\ script'[t] \in {script[t], Tail(script[t])}
        /\ \A u \in Threads \ {t} : script'[u] = script[u]
        /\ Len(script[t]) \in Nat \ {0} /\ Len(Tail(script[t])) = Len(script[t]) - 1
    BY <1>1, <1>2, HeadAndTail
  <1>4. /\ \A p, i : SaidBefore(p, i)' <=> SaidBefore(p, i)
        /\ \A p : Published(p)' <=> Published(p)
    BY <1>1 DEF SaidBefore, Published
  <1>5. ASSUME NEW p \in Pokemons, NEW d \in Rounds, script'[Get(p, d)] # <<>>
        PROVE  socket'[Get(p, d)] = d
    <2>1. script[Get(p, d)] # <<>>
      BY <1>2, <1>3, <1>5, Kin
    <2> QED
      BY <1>1, <2>1 DEF Words, Idle
  <1>6. ASSUME NEW p \in Pokemons, connected, HasSent(Get(p, connection))'
        PROVE  HasSent(Get(p, connection))
    <2>1. connection \in Rounds
      BY <1>6, OfferedRounds, LinkAssumption DEF Connections, Typed, LinkTyped, EndsTyped
    <2> SUFFICES ASSUME ~HasSent(Get(p, connection)) PROVE FALSE
      OBVIOUS
    <2>2. at[Get(p, connection)] = "sent" /\ script[Get(p, connection)] # <<>>
          /\ script'[Get(p, connection)] = <<>>
      BY <1>1, <1>6 DEF HasSent, Idle
    <2>3. Get(p, connection) = t
      BY <1>3, <2>1, <2>2, Kin
    <2>4. Len(script[t]) = 1
      <3> DEFINE n == Len(script[t])
      <3>1. n \in Nat /\ n # 0 /\ n - 1 = 0
        BY <1>2, <1>3, <2>2, <2>3
      <3> HIDE DEF n
      <3>2. n = 1
        BY <3>1
      <3> QED
        BY <3>2 DEF n
    <2>5. Head(script[t]) = send("message")
      BY <1>1, <2>2, <2>3, <2>4, LastWordIsMessage
    <2> QED
      BY <1>1, <2>5 DEF send
  <1>7. (connected => \A p \in Pokemons :
           HasSent(Get(p, connection)) => SaidBefore(p, Len(to_broker) + 1))'
    BY <1>1, <1>4, <1>6 DEF Words
  <1>8. (\A i \in DOMAIN to_broker : to_broker[i].kind = "READY_TO_RECIEVE" =>
           \A p \in Pokemons : SaidBefore(p, i))'
    BY <1>1, <1>4 DEF Words
  <1>9. (\A k \in DOMAIN serving : serving[k][2].op = "ready" => \A p \in Pokemons : Published(p))'
    BY <1>1, <1>4 DEF Words
  <1> QED
    BY <1>5, <1>7, <1>8, <1>9 DEF Words, Idle

\* What the broker has read off the stream it has got, if it is a message.
LEMMA SaidAfterRead ==
  ASSUME Typed, to_broker # <<>>, to_broker' = Tail(to_broker), UNCHANGED connection,
         published \subseteq published',
         Head(to_broker).kind = "message" => \E m \in published' : m[1] = Head(to_broker).by,
         NEW p, NEW i \in Nat, SaidBefore(p, i + 1)
  PROVE  SaidBefore(p, i)'
  <1>1. /\ Head(to_broker) = to_broker[1] /\ DOMAIN to_broker = 1..Len(to_broker)
        /\ Len(to_broker) \in Nat /\ DOMAIN Tail(to_broker) = 1..(Len(to_broker) - 1)
        /\ \A j \in DOMAIN Tail(to_broker) : Tail(to_broker)[j] = to_broker[j + 1]
    BY HeadAndTail DEF Typed, LinkTyped, StreamsTyped
  <1>2. CASE Published(p)
    BY <1>2 DEF Published, SaidBefore
  <1>3. CASE ~Published(p)
    <2>1. PICK j \in DOMAIN to_broker :
            j < i + 1 /\ to_broker[j].kind = "message" /\ to_broker[j].by = Get(p, connection)
      BY <1>3 DEF SaidBefore
    <2>2. CASE j = 1
      BY <1>1, <2>1, <2>2 DEF SaidBefore, Published
    <2>3. CASE j # 1
      <3>1. j - 1 \in DOMAIN Tail(to_broker) /\ j - 1 < i /\ Tail(to_broker)[j - 1] = to_broker[j]
        BY <1>1, <2>1, <2>3
      <3> QED
        BY <2>1, <3>1 DEF SaidBefore
    <2> QED
      BY <2>2, <2>3
  <1> QED
    BY <1>2, <1>3

\* What is kept of Words when the broker has read a word.
LEMMA ReadKeepsWords ==
  ASSUME Typed, Words, to_broker # <<>>, to_broker' = Tail(to_broker),
         UNCHANGED <<at, script, socket, connected, connection>>, published \subseteq published',
         Head(to_broker).kind = "message" => \E m \in published' : m[1] = Head(to_broker).by,
         \A k \in DOMAIN serving' : serving'[k][2].op = "ready" =>
           \A p \in Pokemons : Published(p)'
  PROVE  Words'
  <1>1. /\ DOMAIN to_broker = 1..Len(to_broker) /\ Len(to_broker) \in Nat \ {0}
        /\ Len(to_broker') = Len(to_broker) - 1
        /\ DOMAIN to_broker' = 1..(Len(to_broker) - 1)
        /\ \A j \in DOMAIN to_broker' : to_broker'[j] = to_broker[j + 1]
    BY HeadAndTail DEF Typed, LinkTyped, StreamsTyped
  <1>2. \A p \in Pokemons, d \in Rounds : (~Idle(Get(p, d)) => socket[Get(p, d)] = d)'
    BY DEF Words, Idle
  <1>3. ASSUME NEW p \in Pokemons, connected', HasSent(Get(p, connection))'
        PROVE  SaidBefore(p, Len(to_broker) + 1)'
    <2>1. SaidBefore(p, Len(to_broker) + 1)
      BY <1>3 DEF Words, HasSent, Idle
    <2>2. Len(to_broker') \in Nat /\ Len(to_broker') + 1 = Len(to_broker)
      BY <1>1
    <2>3. SaidBefore(p, (Len(to_broker') + 1) + 1)
      BY <2>1, <2>2
    <2> QED
      BY <2>2, <2>3, SaidAfterRead
  <1>4. ASSUME NEW i \in DOMAIN to_broker', to_broker'[i].kind = "READY_TO_RECIEVE",
               NEW p \in Pokemons
        PROVE  SaidBefore(p, i)'
    <2>1. i \in Nat /\ i + 1 \in DOMAIN to_broker /\ to_broker[i + 1].kind = "READY_TO_RECIEVE"
      BY <1>1, <1>4
    <2>2. SaidBefore(p, i + 1)
      BY <2>1 DEF Words
    <2> QED
      BY <2>1, <2>2, SaidAfterRead
  <1> QED
    BY <1>2, <1>3, <1>4 DEF Words

\* And when the broker reads nothing.
LEMMA WordsUndisturbed ==
  ASSUME Typed, Words, UNCHANGED <<at, script, socket, connected, connection, to_broker>>,
         \A p \in Pokemons : Published(p) => Published(p)',
         \A k \in DOMAIN serving' : \E n \in DOMAIN serving : serving'[k] = serving[n]
  PROVE  Words'
  <1>1. \A p \in Pokemons, i \in Nat : SaidBefore(p, i) => SaidBefore(p, i)'
    BY DEF SaidBefore
  <1>2. Len(to_broker) \in Nat /\ DOMAIN to_broker = 1..Len(to_broker)
    BY DEF Typed, LinkTyped, StreamsTyped
  <1>3. \A p \in Pokemons, d \in Rounds : (~Idle(Get(p, d)) => socket[Get(p, d)] = d)'
    BY DEF Words, Idle
  <1>4. (connected => \A p \in Pokemons :
           HasSent(Get(p, connection)) => SaidBefore(p, Len(to_broker) + 1))'
    BY <1>1, <1>2 DEF Words, HasSent, Idle
  <1>5. (\A i \in DOMAIN to_broker : to_broker[i].kind = "READY_TO_RECIEVE" =>
           \A p \in Pokemons : SaidBefore(p, i))'
    BY <1>1, <1>2 DEF Words
  <1>6. (\A k \in DOMAIN serving : serving[k][2].op = "ready" => \A p \in Pokemons : Published(p))'
    BY DEF Words
  <1> QED
    BY <1>3, <1>4, <1>5, <1>6 DEF Words

\* The broker reads what came first: the GETs' words before the declaration.
LEMMA HeaderKeepsWords ==
  ASSUME Typed, Words, ReadHeader, Running', UNCHANGED at
  PROVE  Words'
  <1>1. /\ to_broker # <<>> /\ to_broker' = Tail(to_broker) /\ Head(to_broker).kind \in Headers
        /\ serving' = [i \in DOMAIN Handler(Head(to_broker).kind) |->
                         <<Head(to_broker).by, Handler(Head(to_broker).kind)[i]>>]
        /\ UNCHANGED <<script, socket, connected, connection, published>>
    BY DEF ReadHeader, Running, ends
  <1>2. Head(to_broker) = to_broker[1] /\ 1 \in DOMAIN to_broker
        /\ DOMAIN to_broker = 1..Len(to_broker)
    BY <1>1, HeadAndTail DEF Typed, LinkTyped, StreamsTyped
  <1>3. Head(to_broker).kind # "message"
    BY <1>1 DEF Headers
  <1>4. ASSUME NEW k \in DOMAIN serving', serving'[k][2].op = "ready", NEW p \in Pokemons
        PROVE  Published(p)'
    <2>1. k \in DOMAIN Handler(Head(to_broker).kind)
          /\ Handler(Head(to_broker).kind)[k].op = "ready"
      BY <1>1, <1>4
    <2>2. Head(to_broker).kind = "READY_TO_RECIEVE"
      BY <1>1, <2>1, HandlersTyped
    <2>3. SaidBefore(p, 1)
      BY <1>2, <2>2 DEF Words
    <2>4. Published(p)
      BY <1>2, <2>3 DEF SaidBefore
    <2> QED
      BY <1>1, <2>4 DEF Published
  <1> QED
    BY <1>1, <1>3, <1>4, ReadKeepsWords

\* A message read is published, or still to be answered.
LEMMA RestKeepsWords ==
  ASSUME Typed, Words, ReadRest, Running', UNCHANGED at
  PROVE  Words'
  <1>1. /\ to_broker # <<>> /\ to_broker' = Tail(to_broker) /\ serving # <<>>
        /\ serving' = Tail(serving)
        /\ published' = IF Head(to_broker).kind = "message"
                        THEN published \cup {<<Head(to_broker).by, Head(to_broker).value>>}
                        ELSE published
        /\ UNCHANGED <<script, socket, connected, connection>>
    BY DEF ReadRest, Serving, ServeNext, Running, ends
  <1>2. published \subseteq published'
    BY <1>1
  <1>3. Head(to_broker).kind = "message" => \E m \in published' : m[1] = Head(to_broker).by
    <2> DEFINE m == <<Head(to_broker).by, Head(to_broker).value>>
    <2>1. m[1] = Head(to_broker).by
      OBVIOUS
    <2>2. Head(to_broker).kind = "message" => m \in published'
      BY <1>1
    <2> QED
      BY <2>1, <2>2
  <1>4. \A k \in DOMAIN Tail(serving) : k + 1 \in DOMAIN serving /\ Tail(serving)[k] = serving[k + 1]
    BY <1>1, HeadAndTail DEF Typed, LinkTyped, BrokerTyped
  <1>5. \A k \in DOMAIN serving' : serving'[k][2].op = "ready" => \A p \in Pokemons : Published(p)'
    <2> SUFFICES ASSUME NEW k \in DOMAIN Tail(serving), Tail(serving)[k][2].op = "ready",
                        NEW p \in Pokemons
                 PROVE  Published(p)'
      BY <1>1
    <2>1. k + 1 \in DOMAIN serving /\ serving[k + 1][2].op = "ready"
      BY <1>4
    <2>2. Published(p)
      BY <2>1 DEF Words
    <2> QED
      BY <1>1, <1>2, <2>2 DEF Published
  <1> QED
    BY <1>1, <1>2, <1>3, <1>5, ReadKeepsWords

\* So whatever the broker does, no declaration overtakes a GET.
LEMMA BrokerKeepsWords ==
  ASSUME Typed, Connections, Words, BrokerStep \/ LoseBroker, Running', UNCHANGED at
  PROVE  Words'
  <1>1. CASE ReadHeader
    BY <1>1, HeaderKeepsWords
  <1>2. CASE ReadRest
    BY <1>2, RestKeepsWords
  <1>3. CASE Answer \/ BecomeReady \/ Processed
    <2>1. /\ serving # <<>> /\ serving' = Tail(serving)
          /\ UNCHANGED <<script, socket, connected, connection, to_broker, published>>
      BY <1>3 DEF Answer, BecomeReady, Processed, Serving, ServeNext, ends, stream
    <2>2. \A k \in DOMAIN Tail(serving) : k + 1 \in DOMAIN serving /\ Tail(serving)[k] = serving[k + 1]
      BY <2>1, HeadAndTail DEF Typed, LinkTyped, BrokerTyped
    <2> QED
      BY <2>1, <2>2, WordsUndisturbed DEF Published
  <1>4. CASE PushHeader \/ PushBody
    <2>1. UNCHANGED <<script, socket, connected, connection, to_broker, published, serving>>
      BY <1>4 DEF PushHeader, PushBody, ends
    <2> QED
      BY <2>1, WordsUndisturbed DEF Published
  <1>5. CASE LoseBroker
    <2>1. /\ ~connected' /\ to_broker' = <<>> /\ serving' = <<>>
          /\ UNCHANGED <<script, socket, connection>>
      BY <1>5 DEF LoseBroker, ends
    <2> QED
      BY <2>1 DEF Words, Idle
  <1> QED
    BY <1>1, <1>2, <1>3, <1>4, <1>5 DEF BrokerStep

\* The broker takes in the answers of trainers' messages only, and of no GET.
LEMMA EnqueueKeepsWords ==
  ASSUME Typed, Words, NEW m, NEW answered, Enqueue(m, answered), UNCHANGED at,
         \A a \in answered : a[1] \notin GetThreads, connection \in Rounds
  PROVE  Words' /\ \A p \in Pokemons : Published(p) => Published(p)'
  <1>1. /\ published' = published \ answered
        /\ UNCHANGED <<script, socket, connected, connection, to_broker, serving>>
    BY DEF Enqueue, ends, stream
  <1>2. \A p \in Pokemons : Published(p) => Published(p)'
    BY <1>1, Kin DEF Published
  <1> QED
    BY <1>1, <1>2, WordsUndisturbed

\* A new connection has neither words nor GETs yet.
LEMMA ConnectKeepsWords ==
  ASSUME Typed, Connections, Births, Words, Connect(Listener)
  PROVE  Words'
  <1>1. /\ at' = [at EXCEPT ![Listener] = "subscribe"] /\ connection' = connection + 1
        /\ ~connected /\ UNCHANGED <<script, socket, to_broker, serving>>
    BY DEF Connect, Goto, LinkConnect, ends, broker
  <1>2. to_broker' = <<>> /\ serving' = <<>> /\ connection \in Nat /\ connection + 1 \in Rounds
    BY <1>1, OfferedRounds DEF Connections
  <1>3. \A p \in Pokemons : at'[Get(p, connection')] = "off"
    <2>0. connection + 1 > connection
      BY <1>2
    <2>1. \A p \in Pokemons : at[Get(p, connection + 1)] = "off"
      BY <1>2, <2>0 DEF Births
    <2>2. at \in [Threads -> Places]
      BY DEF Typed, Placed
    <2>3. \A p \in Pokemons :
            Get(p, connection + 1) \in Threads /\ Get(p, connection + 1) # Listener
      <3> SUFFICES ASSUME NEW p \in Pokemons
                   PROVE  Get(p, connection + 1) \in Threads /\ Get(p, connection + 1) # Listener
        OBVIOUS
      <3>1. Get(p, connection + 1) \in GetThreads
        BY <1>2, Kin
      <3> QED
        BY <3>1, Kin
    <2> QED
      BY <1>1, <2>1, <2>2, <2>3
  <1>4. \A p \in Pokemons : ~HasSent(Get(p, connection))'
    BY <1>3 DEF HasSent, Over
  <1> QED
    BY <1>1, <1>2, <1>4 DEF Words, Idle

\* Nothing moves in a process that has stopped.
LEMMA OnlyIfRunning == ASSUME Next, Typed PROVE Running
  <1>1. CASE ListenerStep(Listener) /\ ~Connect(Listener)
    BY <1>1, ListenerMoves DEF Typed, OwnStep
  <1>2. CASE EndOfMessage(Server) \/ Guest(Server)
    BY <1>2, ServerMoves DEF OwnStep
  <1>3. CASE \E t \in GetThreads : GetStep(t)
    BY <1>3, GetMoves DEF OwnStep
  <1>4. CASE \E t \in Trainers : TrainerStep(t) \/ Arrive(t)
    BY <1>4, TrainerMoves DEF OwnStep
  <1>5. CASE (BrokerStep \/ LoseBroker) /\ Aside
    BY <1>5 DEF BrokerStep, ReadHeader, ReadRest, Answer, BecomeReady, Processed, PushHeader,
                PushBody, LoseBroker, Serving
  <1>6. CASE (\E t \in Threads : SocketStep(t) /\ Aside) \/ Connect(Listener) \/ NewPush
    BY <1>6 DEF SocketStep, SendWord, ReceiveWord, Connect, At, NewPush, Enqueue
  <1>7. CASE (\E c \in opening : SendGets(c)) \/ \E m \in published : CatchAnswered(m)
    BY <1>7 DEF SendGets, CatchAnswered, OnSocket, Enqueue
  <1> QED
    BY <1>1, <1>2, <1>3, <1>4, <1>5, <1>6, <1>7, NextCases

\* The declaration is sent when all GETs have been.
LEMMA GetStepKeepsWords ==
  ASSUME Typed, Connections, Births, Gates, Words, NEW t \in GetThreads, GetStep(t)
  PROVE  Words'
  <1> USE DEF Moves, Asks, Steps, At, Goto
  <1>1. PICK to \in GetPlaces : OwnStep(t, to)
    BY GetMoves
  <1>2. t \in Threads /\ to \in Places /\ at \in [Threads -> Places]
    BY Kin, PlacesInPlaces DEF Typed, Placed
  <1>3. at'[t] = to
    BY <1>1, <1>2 DEF OwnStep
  <1>4. /\ to \in {"sent", "ready"} => at[t] \in {"lock", "sent"}
        /\ to \notin {"off", "lock", "sent"} => HasSent(t)
    BY <1>2, <1>3
    DEF GetStep, LockAndSend, CountGet, GetsOver, OpenForListener, Unlock, HasSent, Over
  <1>5. ASSUME NEW p \in Pokemons, NEW d \in Rounds, t = Get(p, d), to \in {"sent", "ready"}
        PROVE  d = connection
    BY <1>4, <1>5, OnItsWay
  <1> QED
    BY <1>1, <1>2, <1>4, <1>5, OwnStepKeepsWords

\* So every step of a process that goes on keeps the order of the words.
LEMMA WordsKept ==
  ASSUME Typed, Connections, Births, Gates, Words, Next, Running'
  PROVE  Words'
  <1>0. /\ Server \in Threads /\ Listener \in Threads
        /\ \A t \in Trainers \cup {Server, Listener} : t \notin GetThreads /\ t \in Threads
    BY Kin
  <1>1. ASSUME NEW t \in Trainers \cup {Server, Listener}, NEW to \in Places, OwnStep(t, to)
        PROVE  Words'
    BY <1>0, <1>1, Kin, OwnStepKeepsWords
  <1>2. CASE \E t \in Threads : SocketStep(t) /\ Aside
    BY <1>2, SendKeepsWords, ReceiveKeepsWords DEF SocketStep, Aside
  <1>3. CASE ListenerStep(Listener) /\ ~Connect(Listener)
    BY <1>1, <1>3, ListenerMoves, PlacesInPlaces DEF Typed
  <1>4. CASE Connect(Listener)
    BY <1>4, ConnectKeepsWords
  <1>5. CASE EndOfMessage(Server) \/ Guest(Server)
    BY <1>1, <1>5, ServerMoves, PlacesInPlaces
  <1>6. CASE \E t \in GetThreads : GetStep(t)
    BY <1>6, GetStepKeepsWords
  <1>7. CASE \E t \in Trainers : TrainerStep(t) \/ Arrive(t)
    BY <1>1, <1>7, TrainerMoves, PlacesInPlaces
  <1>8. CASE \E c \in opening : SendGets(c)
    <2>1. PICK c \in opening : SendGets(c)
      BY <1>8
    <2>2. /\ at' = [t \in Threads |-> IF t \in Gets(c) THEN "lock" ELSE at[t]]
          /\ UNCHANGED <<script, socket, connected, connection, to_broker, serving, published>>
      BY <2>1 DEF SendGets, OffLink, link, stream, ends, broker
    <2>3. ASSUME NEW p \in Pokemons, connected, HasSent(Get(p, connection))'
          PROVE  HasSent(Get(p, connection))
      <3>1. connection \in Rounds
        BY <2>3, OfferedRounds, LinkAssumption DEF Connections, Typed, LinkTyped, EndsTyped
      <3>2. Get(p, connection) \in Threads
        BY <3>1, Kin
      <3>3. at'[Get(p, connection)] \in {"lock", at[Get(p, connection)]}
        BY <2>2, <3>2
      <3>4. "lock" \notin {"ready", "open", "sent"} \cup Over
        BY DEF Over
      <3> QED
        BY <2>2, <2>3, <3>3, <3>4 DEF HasSent, Idle
    <2>4. /\ \A p, i : SaidBefore(p, i)' <=> SaidBefore(p, i)
          /\ \A p : Published(p)' <=> Published(p)
      BY <2>2 DEF SaidBefore, Published
    <2>5. (connected => \A p \in Pokemons :
             HasSent(Get(p, connection)) => SaidBefore(p, Len(to_broker) + 1))'
      BY <2>2, <2>3, <2>4 DEF Words
    <2> QED
      BY <2>2, <2>4, <2>5 DEF Words, Idle
  <1>9. CASE (BrokerStep \/ LoseBroker) /\ Aside
    BY <1>9, BrokerKeepsWords DEF Aside
  <1>10. ASSUME connected PROVE connection \in Rounds
    BY <1>10, OfferedRounds, LinkAssumption DEF Connections, Typed, LinkTyped, EndsTyped
  <1>11. CASE NewPush
    <2>1. Enqueue(<<"APPEARED">>, {}) /\ connected /\ UNCHANGED at
      BY <1>11 DEF NewPush, Enqueue
    <2> QED
      BY <1>10, <2>1, EnqueueKeepsWords
  <1>12. CASE \E m \in published : CatchAnswered(m)
    <2>1. PICK m \in published : CatchAnswered(m)
      BY <1>12
    <2>2. Enqueue(<<"CAUGHT", m[2]>>, {m}) /\ connected /\ UNCHANGED at /\ m[1] \in Trainers
      BY <2>1 DEF CatchAnswered, OnSocket, Enqueue
    <2> QED
      BY <1>0, <1>10, <2>2, EnqueueKeepsWords
  <1> QED
    BY <1>2, <1>3, <1>4, <1>5, <1>6, <1>7, <1>8, <1>9, <1>11, <1>12, NextCases

-----------------------------------------------------------------------------
(* The theorems *)

\* The broker becomes ready when it serves a READY_TO_RECIEVE, and the GETs come first.
LEMMA GetsFirstKept ==
  ASSUME Typed, Connections, Births, Words, GetsFirst, ~meddled, Next
  PROVE  GetsFirst'
  <1> USE DEF GetsFirst
  <1>1. ASSUME UNCHANGED <<ready, connection>>, published \subseteq published'
        PROVE  GetsFirst'
    BY <1>1
  <1>2. ASSUME NEW t, NEW to, OwnStep(t, to) PROVE GetsFirst'
    BY <1>1, <1>2, OwnStepOffBroker DEF broker
  <1>3. CASE \E t \in Threads : SocketStep(t) /\ Aside
    BY <1>1, <1>3 DEF SocketStep, SendWord, ReceiveWord, broker
  <1>4. CASE ListenerStep(Listener) /\ ~Connect(Listener)
    BY <1>2, <1>4, ListenerMoves DEF Typed
  <1>5. CASE Connect(Listener)
    BY <1>5 DEF Connect, LinkConnect, broker, Connections
  <1>6. CASE EndOfMessage(Server) \/ Guest(Server)
    BY <1>2, <1>6, ServerMoves
  <1>7. CASE \E t \in GetThreads : GetStep(t)
    BY <1>2, <1>7, GetMoves
  <1>8. CASE \E t \in Trainers : TrainerStep(t) \/ Arrive(t)
    BY <1>2, <1>8, TrainerMoves
  <1>9. CASE \E c \in opening : SendGets(c)
    BY <1>1, <1>9 DEF SendGets, OffLink, link, broker
  <1>10. CASE LoseBroker
    BY <1>10 DEF LoseBroker
  <1>11. CASE BrokerStep
    <2>1. CASE BecomeReady
      <3>1. 1 \in DOMAIN serving /\ serving[1][2].op = "ready" /\ UNCHANGED <<published, connection>>
        BY <2>1, HeadAndTail DEF BecomeReady, Serving, Typed, LinkTyped, BrokerTyped
      <3>2. \A p \in Pokemons : Published(p)
        BY <3>1 DEF Words
      <3> QED
        BY <3>1, <3>2 DEF Published
    <2>2. CASE ~BecomeReady
      BY <1>1, <1>11, <2>2 DEF BrokerStep, ReadHeader, ReadRest, Answer, Processed, PushHeader, PushBody
    <2> QED
      BY <2>1, <2>2
  <1>12. CASE NewPush
    <2>1. published' = published \ {} /\ UNCHANGED <<ready, connection>>
      BY <1>12 DEF NewPush, Enqueue
    <2> QED
      BY <1>1, <2>1
  <1>13. CASE \E m \in published : CatchAnswered(m)
    <2>1. PICK m \in published : CatchAnswered(m)
      BY <1>13
    <2>2. /\ Enqueue(<<"CAUGHT", m[2]>>, {m}) /\ UNCHANGED <<at, ready, connection>>
          /\ m[1] \in Trainers /\ connected
      BY <2>1 DEF CatchAnswered, OnSocket, Enqueue
    <2>3. connection \in Rounds
      BY <2>2, OfferedRounds, LinkAssumption DEF Connections, Typed, LinkTyped, EndsTyped
    <2>4. \A p \in Pokemons : Published(p) => Published(p)'
      BY <2>2, <2>3, Kin, EnqueueKeepsWords
    <2> QED
      BY <2>2, <2>4 DEF Published
  <1> QED
    BY <1>3, <1>4, <1>5, <1>6, <1>7, <1>8, <1>9, <1>10, <1>11, <1>12, <1>13, NextCases

\* At first nothing has been said.
LEMMA GetsInvInitially == Init => GetsInv
  <1> SUFFICES ASSUME Init PROVE GetsInv
    OBVIOUS
  <1>1. LinkTyped(Messages)
    BY LinkInitTyped DEF Init
  <1>2. at = [t \in Threads |-> IF t = Listener THEN "restart" ELSE "off"]
    BY DEF Init
  <1>3. Placed
    BY <1>2, Kin DEF Placed, Places, GetPlaces, TrainerPlaces, ServerPlaces, ListenerPlaces
  <1>4. ScriptsPlaced /\ IdsHeld
    <2>1. \A t \in Threads : script[t] = <<>> /\ at[t] \in {"restart", "off"}
      BY <1>2 DEF Init, LinkInit
    <2>2. Called("restart") = <<>> /\ Called("off") = <<>>
      BY DEF Called
    <2>3. LeftOf(<<>>, <<>>)
      <3>1. <<>> \in Seq(ScriptStep)
        OBVIOUS
      <3> QED
        BY <3>1, NothingLeft
    <2>4. ScriptsPlaced
      BY <2>1, <2>2, <2>3 DEF ScriptsPlaced
    <2>5. IdsHeld
      BY <2>1 DEF IdsHeld
    <2> QED
      BY <2>4, <2>5
  <1>5. MessagesHaveIds /\ Connections
    BY LinkAssumption DEF Init, LinkInit, MessagesHaveIds, Connections
  <1>6. Counters
    <2>1. Cardinality(Pokemons) \in Nat
      BY FS_CardinalityType, TeamAssumption
    <2>2. all_gets_ready \in BOOLEAN /\ meddled \in BOOLEAN /\ internal_broker_need \in BOOLEAN
          /\ has_broker_connection \in BOOLEAN
      BY DEF Init
    <2> QED
      <3>1. /\ broker_mutex = Nobody /\ gets_left = 0 /\ opening = {} /\ subscribed = 0
            /\ pushes = 0 /\ guests = 0
        BY DEF Init
      <3>2. awaiting \in [Trainers -> {NoId} \cup Nat]
        BY DEF Init
      <3>3. gets_left \in Int /\ gets_left <= Cardinality(Pokemons) /\ opening \subseteq 1..connection
        BY <2>1, <3>1
      <3>4. subscribed \in 0..Queues /\ pushes \in 0..MaxPushes /\ guests \in 0..MaxTroubles
        BY <3>1, TeamAssumption
      <3> QED
        BY <2>2, <3>1, <3>2, <3>3, <3>4 DEF Counters
  <1>7. Births
    BY <1>2, Kin DEF Init, LinkInit, Births
  <1>8. Gates
    <2>1. connection = 0 /\ ~all_gets_ready /\ opening = {} /\ gets_left = 0
      BY DEF Init, LinkInit
    <2>2. \A d \in Rounds : ~(d < 0)
      BY DEF Rounds
    <2> QED
      BY <2>1, <2>2 DEF Gates
  <1>9. GetsFirst
    BY DEF Init, LinkInit, GetsFirst
  <1>10. Words
    <2>1. \A p \in Pokemons, d \in Rounds : Idle(Get(p, d))
      BY Kin DEF Init, LinkInit, Idle
    <2> QED
      BY <2>1 DEF Init, LinkInit, Words
  <1> QED
    BY <1>1, <1>3, <1>4, <1>5, <1>6, <1>7, <1>8, <1>9, <1>10 DEF GetsInv, Typed

\* The invariant is inductive.
LEMMA GetsInvKept == GetsInv /\ [Next]_vars => GetsInv'
  <1> SUFFICES ASSUME GetsInv, [Next]_vars PROVE GetsInv'
    OBVIOUS
  <1>1. CASE UNCHANGED vars
    <2>1. UNCHANGED link /\ Aside
      BY <1>1 DEF vars, Aside
    <2>2. ThreadsTyped'
      BY <2>1, LinkTypedUnchanged
      DEF GetsInv, Typed, ThreadsTyped, Placed, ScriptsPlaced, IdsHeld, MessagesHaveIds, Aside,
          link, stream, ends, broker
    <2>3. Counters' /\ Births' /\ Connections'
      BY <2>1 DEF GetsInv, Typed, Counters, Births, Connections, Aside, locks, needs, counts, link,
                  stream, broker
    <2>4. (~meddled => Gates /\ GetsFirst)'
      BY <2>1 DEF GetsInv, Gates, Counting, Opening, Left, GetsFirst, Aside, locks, needs, link, broker
    <2>5. (~meddled /\ Running => Words)'
      <3>1. UNCHANGED <<connected, connection, to_broker, script, socket, serving, published,
                        out_of_step, dead, at, meddled>>
        BY <2>1 DEF Aside, locks, link, stream, ends, broker
      <3>2. /\ \A p, i : SaidBefore(p, i)' <=> SaidBefore(p, i)
            /\ \A p : Published(p)' <=> Published(p)
            /\ \A t : HasSent(t)' <=> HasSent(t)
        BY <3>1 DEF SaidBefore, Published, HasSent, Idle
      <3> QED
        BY <3>1, <3>2 DEF GetsInv, Words, Running, Idle
    <2> QED
      BY <2>2, <2>3, <2>4, <2>5 DEF GetsInv, Typed, ThreadsTyped
  <1>2. CASE Next
    <2>1. Typed' /\ Connections' /\ Births'
      BY <1>2, ThreadsStayTyped, CountersKept, ConnectionsKept, BirthsKept
      DEF GetsInv, Typed, ThreadsTyped
    <2>2. Running /\ (~meddled' => ~meddled)
      BY <1>2, OnlyIfRunning, MeddledForGood DEF GetsInv
    <2>3. ~meddled' => Gates' /\ GetsFirst'
      BY <1>2, <2>2, GatesKept, GetsFirstKept DEF GetsInv
    <2>4. ~meddled' /\ Running' => Words'
      BY <1>2, <2>2, WordsKept DEF GetsInv
    <2> QED
      BY <2>1, <2>3, <2>4 DEF GetsInv
  <1> QED
    BY <1>1, <1>2

\* Every variable of the Team's end keeps to its values, for any number of pokemons,
\* trainers and lost brokers: the counter of send_gets (319-348) falls below zero only if
\* the server thread has opened the gate while GETs were on their way.
THEOREM TypeCorrect == Spec => []TypeOK
  <1>1. GetsInv => TypeOK
    BY DEF GetsInv, Typed, Placed, Counters, Gates, TypeOK
  <1> QED
    BY <1>1, GetsInvInitially, GetsInvKept, PTL DEF Spec

\* The broker of a connection is told that the Team is ready only after it has got the
\* GETs of that connection, all of them (337-344), whatever was lost with the brokers before
\* and whoever else is on the socket.
THEOREM ReadyAfterTheGets == Spec => []GetsFirst
  <1>1. GetsInv => GetsFirst
    BY DEF GetsInv, GetsFirst
  <1> QED
    BY <1>1, GetsInvInitially, GetsInvKept, PTL DEF Spec

-----------------------------------------------------------------------------
(* The order of the words of all threads: who begins to speak ends, but for the *)
(* subscriptions, which go between                                              *)

Rests == {"message", "acknowledged"}
Subs  == {"NEW_SUBSCRIPTION", "queue"}

Speaks(w, t) == w.by = t /\ w.kind \notin Subs

\* In s no other thread speaks after i before t does, if it has not yet to.
Resumes(s, unsaid, t, i) ==
  /\ unsaid \/ \E j \in DOMAIN s : i < j /\ Speaks(s[j], t)
  /\ \A k \in DOMAIN s : i < k /\ s[k].by # t /\ s[k].kind \notin Subs =>
       \E j \in DOMAIN s : i < j /\ j < k /\ Speaks(s[j], t)

\* Without its first word a stream goes on as before.
LEMMA ResumesInTail ==
  ASSUME NEW W, NEW s \in Seq(W), s # <<>>, NEW o, NEW t, NEW i \in Nat, Resumes(s, o, t, i + 1)
  PROVE  Resumes(Tail(s), o, t, i)
  <1> DEFINE q == Tail(s)
  <1>1. /\ Len(s) \in Nat \ {0} /\ DOMAIN s = 1..Len(s)
        /\ DOMAIN q = 1..(Len(s) - 1)
        /\ \A k \in DOMAIN q : k + 1 \in DOMAIN s /\ q[k] = s[k + 1]
    BY HeadAndTail
  <1> HIDE DEF q
  <1>2. \A j \in DOMAIN s : i + 1 < j => j - 1 \in DOMAIN q /\ q[j - 1] = s[j] /\ i < j - 1
    <2> SUFFICES ASSUME NEW j \in DOMAIN s, i + 1 < j
                 PROVE  j - 1 \in DOMAIN q /\ q[j - 1] = s[j] /\ i < j - 1
      OBVIOUS
    <2>1. j - 1 \in DOMAIN q /\ (j - 1) + 1 = j /\ i < j - 1
      BY <1>1
    <2> QED
      BY <1>1, <2>1
  <1>3. o \/ \E j \in DOMAIN q : i < j /\ Speaks(q[j], t)
    <2> SUFFICES ASSUME ~o PROVE \E j \in DOMAIN q : i < j /\ Speaks(q[j], t)
      OBVIOUS
    <2>1. PICK j \in DOMAIN s : i + 1 < j /\ Speaks(s[j], t)
      BY DEF Resumes
    <2> QED
      BY <1>2, <2>1
  <1>4. ASSUME NEW k \in DOMAIN q, i < k, q[k].by # t, q[k].kind \notin Subs
        PROVE  \E j \in DOMAIN q : i < j /\ j < k /\ Speaks(q[j], t)
    <2>1. k \in Nat /\ k + 1 \in DOMAIN s /\ q[k] = s[k + 1] /\ i + 1 < k + 1
      BY <1>1, <1>4
    <2>2. PICK j \in DOMAIN s : i + 1 < j /\ j < k + 1 /\ Speaks(s[j], t)
      BY <1>4, <2>1 DEF Resumes
    <2>3. j - 1 < k
      BY <1>1, <2>1, <2>2
    <2> QED
      BY <1>2, <2>2, <2>3
  <1> QED
    BY <1>3, <1>4 DEF Resumes, q

\* With one more word it does, if that is a word of t or t had said its own.
LEMMA ResumesInAppend ==
  ASSUME NEW W, NEW s \in Seq(W), NEW e \in W, NEW o, NEW p, NEW t,
         NEW i \in 0..Len(s), Resumes(s, o, t, i),
         \/ e.kind \in Subs /\ p = o
         \/ Speaks(e, t)
         \/ e.kind \notin Subs /\ e.by # t /\ ~o
  PROVE  Resumes(Append(s, e), p, t, i)
  <1> DEFINE q == Append(s, e)
  <1>1. /\ Len(s) \in Nat /\ DOMAIN s = 1..Len(s)
        /\ DOMAIN q = 1..(Len(s) + 1) /\ q[Len(s) + 1] = e
        /\ \A k \in DOMAIN s : q[k] = s[k]
    BY WordAppended
  <1> HIDE DEF q
  <1>2. /\ \A k \in DOMAIN s : k \in DOMAIN q /\ k < Len(s) + 1
        /\ \A k \in DOMAIN q : k \in DOMAIN s \/ k = Len(s) + 1
        /\ Len(s) + 1 \in DOMAIN q /\ i < Len(s) + 1
    BY <1>1
  <1>3. ~o => \E j \in DOMAIN s : i < j /\ Speaks(s[j], t)
    BY DEF Resumes
  <1>4. p \/ \E j \in DOMAIN q : i < j /\ Speaks(q[j], t)
    <2>1. CASE e.kind \in Subs /\ p = o
      BY <1>1, <1>2, <1>3, <2>1
    <2>2. CASE Speaks(e, t)
      BY <1>1, <1>2, <2>2
    <2>3. CASE ~o
      BY <1>1, <1>2, <1>3, <2>3
    <2> QED
      BY <2>1, <2>2, <2>3
  <1>5. ASSUME NEW k \in DOMAIN q, i < k, q[k].by # t, q[k].kind \notin Subs
        PROVE  \E j \in DOMAIN q : i < j /\ j < k /\ Speaks(q[j], t)
    <2>1. CASE k \in DOMAIN s
      <3>1. PICK j \in DOMAIN s : i < j /\ j < k /\ Speaks(s[j], t)
        BY <1>1, <1>5, <2>1 DEF Resumes
      <3> QED
        BY <1>1, <1>2, <3>1
    <2>2. CASE k = Len(s) + 1
      <3>1. ~o
        BY <1>1, <1>5, <2>2 DEF Speaks
      <3>2. PICK j \in DOMAIN s : i < j /\ Speaks(s[j], t)
        BY <1>3, <3>1
      <3> QED
        BY <1>1, <1>2, <2>2, <3>2
    <2> QED
      BY <1>2, <2>1, <2>2
  <1> QED
    BY <1>4, <1>5 DEF Resumes, q

\* After its last word a stream says nothing.
LEMMA ResumesAtEnd ==
  ASSUME NEW W, NEW s \in Seq(W), NEW o, NEW t, o
  PROVE  Resumes(s, o, t, Len(s))
  <1>1. DOMAIN s = 1..Len(s) /\ Len(s) \in Nat
    OBVIOUS
  <1> QED
    BY <1>1 DEF Resumes

\* The thread has begun what it has yet to end.
Unended(t) == Unsaid(t) \in Rests

Ordered ==
  \A t \in Threads :
    /\ Begun(t) \in Rests => Resumes(to_broker, Unended(t), t, 0)
    /\ \A i \in DOMAIN to_broker : to_broker[i].by = t /\ Second(to_broker[i].kind) \in Rests =>
         Resumes(to_broker, Unended(t), t, i)

\* What says nothing and serves nothing changes no order.
LEMMA OrderUnchanged ==
  ASSUME Ordered, to_broker' = to_broker,
         \A t \in Threads :
           (Begun(t)' \in Rests => Begun(t)' = Begun(t)) /\ Unended(t)' = Unended(t)
  PROVE  Ordered'
  BY DEF Ordered

\* Nor does an empty stream.
LEMMA OrderOfNothing ==
  ASSUME to_broker' = <<>>, \A t \in Threads : Begun(t)' = NoKind
  PROVE  Ordered'
  <1>1. NoKind \notin Rests
    BY DEF NoKind, Rests
  <1>2. DOMAIN to_broker' = {}
    OBVIOUS
  <1> QED
    BY <1>1, <1>2 DEF Ordered

\* The words by their place in a function.
LEMMA RestsAndSubs ==
  ASSUME NEW k \in Kinds
  PROVE  /\ k \in Subs => Owes(Follows(k)) \notin Rests /\ Owes(k) \notin Rests
                          /\ Second(k) \notin Rests
         /\ Owes(Follows(k)) \in Rests /\ k \notin Receives => k \notin Rests
         /\ Second(k) \in Rests => Owes(Follows(k)) = Second(k) /\ k \notin Subs
         /\ Owes(k) \in Rests => k \in {"message", "acknowledged", "id"}
  <1> USE DEF Kinds, Subs, Rests, Owes, Follows, Second, Receives, NoKind
  <1>1. CASE k \in {"NEW_SUBSCRIPTION", "queue", "OK", "MESSAGE_ACK", "acknowledged"}
    BY <1>1
  <1>2. CASE k \in {"READY_TO_RECIEVE", "ready", "PROCESSED", "NEW_MESSAGE", "id", "message"}
    BY <1>2
  <1>3. CASE k \in {"header", "body"}
    BY <1>3
  <1> QED
    BY <1>1, <1>2, <1>3 DEF Kinds

\* A thread speaks when no other has begun, or asks for a subscription.
LEMMA SendKeepsOrder ==
  ASSUME LinkTyped(Messages), TurnInv(Messages), Ordered, NEW t \in Threads, SendWord(t),
         Phase(t) \in Subs \/ \A u \in Threads : u # t => ~Unended(u)
  PROVE  Ordered'
  <1> DEFINE k == Phase(t)
             w == Word(t)
  <1>1. /\ ~Idle(t) /\ Head(script[t]).op = "send"
        /\ script' = [script EXCEPT ![t] = Tail(@)]
        /\ UNCHANGED <<connected, connection, socket, serving>>
    BY DEF SendWord, broker
  <1>2. /\ k \in Kinds /\ Phase(t)' = Follows(k) /\ k \notin Receives
        /\ \A u \in Threads : u # t => Phase(u)' = Phase(u)
    <2>1. EndsTyped /\ Scripted
      BY DEF LinkTyped, TurnInv
    <2> QED
      BY <1>1, <2>1, PhaseMoves
  <1>3. \A u \in Threads : Begun(u)' = Begun(u) /\ (Reaches(u)' <=> Reaches(u))
    BY <1>1 DEF Begun, IsServed, Current, Reaches
  <1>4. \A u \in Threads : u # t => Unended(u)' = Unended(u)
    BY <1>2, <1>3 DEF Unended, Unsaid
  <1>5. NoKind \notin Rests
    BY DEF NoKind, Rests
  <1>6. CASE ~Reaches(t)
    <2>1. to_broker' = to_broker
      BY <1>6 DEF SendWord
    <2>2. Unsaid(t)' = Unsaid(t)
      BY <1>3, <1>6 DEF Unsaid
    <2>3. \A u \in Threads : Unended(u)' = Unended(u)
      BY <1>4, <2>2 DEF Unended
    <2> QED
      BY <1>3, <2>1, <2>3, OrderUnchanged
  <1>7. CASE Reaches(t)
    <2>1. to_broker' = Append(to_broker, w) /\ to_broker \in Seq(WordsOut(Messages))
      BY <1>7 DEF SendWord, LinkTyped, StreamsTyped
    <2>2. w \in WordsOut(Messages) /\ w.by = t /\ w.kind = k
      BY <1>1, WordTyped DEF Word, Phase
    <2>3. Unended(t)' = (Owes(Follows(k)) \in Rests) /\ Unended(t) = (Owes(k) \in Rests)
      BY <1>2, <1>3, <1>7 DEF Unended, Unsaid
    <2> HIDE DEF k, w
    <2>4. k \in Subs => Unended(t)' = Unended(t)
      BY <1>2, <2>3, RestsAndSubs
    <2>5. \A u \in Threads : \/ w.kind \in Subs /\ Unended(u)' = Unended(u)
                             \/ Speaks(w, u)
                             \/ w.kind \notin Subs /\ w.by # u /\ ~Unended(u)
      BY <1>4, <2>2, <2>4 DEF Speaks, k
    <2>6. ASSUME NEW u \in Threads, NEW i \in 0..Len(to_broker),
                 Resumes(to_broker, Unended(u), u, i)
          PROVE  Resumes(to_broker', Unended(u)', u, i)
      BY <2>1, <2>2, <2>5, <2>6, ResumesInAppend
    <2>7. /\ Len(to_broker) \in Nat /\ DOMAIN to_broker = 1..Len(to_broker)
          /\ DOMAIN to_broker' = 1..(Len(to_broker) + 1) /\ to_broker'[Len(to_broker) + 1] = w
          /\ Len(to_broker') = Len(to_broker) + 1 /\ to_broker' \in Seq(WordsOut(Messages))
          /\ \A i \in DOMAIN to_broker : to_broker'[i] = to_broker[i]
      BY <2>1, <2>2, WordAppended
    <2>8. ASSUME NEW u \in Threads, NEW i \in DOMAIN to_broker', to_broker'[i].by = u,
                 Second(to_broker'[i].kind) \in Rests
          PROVE  Resumes(to_broker', Unended(u)', u, i)
      <3>1. CASE i \in DOMAIN to_broker
        <4>1. Resumes(to_broker, Unended(u), u, i) /\ i \in 0..Len(to_broker)
          BY <2>7, <2>8, <3>1 DEF Ordered
        <4> QED
          BY <2>6, <4>1
      <3>2. CASE i = Len(to_broker')
        <4>1. u = t /\ Second(k) \in Rests
          BY <2>2, <2>7, <2>8, <3>2
        <4>2. Unended(t)'
          BY <1>2, <2>3, <4>1, RestsAndSubs
        <4> QED
          BY <2>7, <3>2, <4>1, <4>2, ResumesAtEnd
      <3> QED
        BY <2>7, <3>1, <3>2
    <2>9. \A u \in Threads : Begun(u)' \in Rests => Resumes(to_broker', Unended(u)', u, 0)
      <3>1. 0 \in 0..Len(to_broker)
        BY <2>7
      <3> QED
        BY <1>3, <2>6, <3>1 DEF Ordered
    <2> QED
      BY <2>8, <2>9 DEF Ordered
  <1> QED
    BY <1>6, <1>7

\* A thread reads a word: what it has yet to say it has still to say.
LEMMA ReceiveKeepsOrder ==
  ASSUME LinkTyped(Messages), TurnInv(Messages), Ordered, NEW t \in Threads, ReceiveWord(t),
         Running'
  PROVE  Ordered'
  <1>1. /\ ~Idle(t) /\ Head(script[t]).op = "recv"
        /\ script' = [script EXCEPT ![t] = Tail(@)]
        /\ UNCHANGED <<connected, connection, socket, serving, to_broker>>
    BY DEF ReceiveWord, Running, broker
  <1>2. /\ Phase(t) \in Kinds /\ Phase(t)' = Follows(Phase(t)) /\ Phase(t) \in Receives
        /\ \A u \in Threads : u # t => Phase(u)' = Phase(u)
    <2>1. EndsTyped /\ Scripted
      BY DEF LinkTyped, TurnInv
    <2> QED
      BY <1>1, <2>1, PhaseMoves
  <1>3. Owes(Follows(Phase(t))) = Owes(Phase(t))
    BY <1>2, Turns
  <1>4. \A u \in Threads : Begun(u)' = Begun(u) /\ (Reaches(u)' <=> Reaches(u))
    BY <1>1 DEF Begun, IsServed, Current, Reaches
  <1>5. \A u \in Threads : Unsaid(u)' = Unsaid(u)
    BY <1>2, <1>3, <1>4 DEF Unsaid
  <1> QED
    BY <1>1, <1>4, <1>5, OrderUnchanged DEF Unended

\* The broker takes the first word; of its thread it serves what it has begun.
LEMMA ReadKeepsOrder ==
  ASSUME LinkTyped(Messages), Ordered, to_broker # <<>>, to_broker' = Tail(to_broker),
         \A t \in Threads : Unended(t)' = Unended(t),
         \A t \in Threads : Begun(t)' \in Rests =>
           Head(to_broker).by = t /\ Second(Head(to_broker).kind) \in Rests
  PROVE  Ordered'
  <1>1. to_broker \in Seq(WordsOut(Messages))
    BY DEF LinkTyped, StreamsTyped
  <1>2. /\ Len(to_broker) \in Nat \ {0} /\ DOMAIN to_broker = 1..Len(to_broker)
        /\ Head(to_broker) = to_broker[1]
        /\ DOMAIN to_broker' = 1..(Len(to_broker) - 1)
        /\ \A i \in DOMAIN to_broker' :
             i + 1 \in DOMAIN to_broker /\ to_broker'[i] = to_broker[i + 1]
    BY <1>1, HeadAndTail
  <1>3. ASSUME NEW t \in Threads, NEW i \in Nat, Resumes(to_broker, Unended(t), t, i + 1)
        PROVE  Resumes(to_broker', Unended(t)', t, i)
    BY <1>1, <1>3, ResumesInTail
  <1>4. ASSUME NEW t \in Threads, Begun(t)' \in Rests
        PROVE  Resumes(to_broker', Unended(t)', t, 0)
    <2>1. 1 \in DOMAIN to_broker /\ to_broker[1].by = t /\ Second(to_broker[1].kind) \in Rests
      BY <1>2, <1>4
    <2>2. Resumes(to_broker, Unended(t), t, 1)
      BY <2>1 DEF Ordered
    <2>3. 0 \in Nat /\ 0 + 1 = 1
      OBVIOUS
    <2> QED
      BY <1>3, <2>2, <2>3
  <1>5. ASSUME NEW t \in Threads, NEW i \in DOMAIN to_broker', to_broker'[i].by = t,
               Second(to_broker'[i].kind) \in Rests
        PROVE  Resumes(to_broker', Unended(t)', t, i)
    <2>1. Resumes(to_broker, Unended(t), t, i + 1) /\ i \in Nat
      BY <1>2, <1>5 DEF Ordered
    <2> QED
      BY <1>3, <2>1
  <1> QED
    BY <1>4, <1>5 DEF Ordered

\* So whatever the broker does, the order stays.
LEMMA BrokerKeepsOrder ==
  ASSUME LinkTyped(Messages), TurnInv(Messages), Ordered, BrokerStep, Running'
  PROVE  Ordered'
  <1>1. UNCHANGED <<connected, connection, ends>>
    BY BrokerKeepsEnds
  <1>2. \A t \in Threads : Unended(t)' = Unended(t)
    BY <1>1, ServiceKeepsRest DEF Unended
  <1>3. NoKind \notin Rests
    BY DEF NoKind, Rests
  <1>4. CASE ReadHeader
    <2> DEFINE w == Head(to_broker)
    <2>1. to_broker # <<>> /\ to_broker' = Tail(to_broker) /\ serving = <<>>
      BY <1>4 DEF ReadHeader
    <2>2. w.kind \in Headers /\ w.by \in Threads
      BY <2>1, NextWord, HeadersComeFirst, WordsAreOfKinds
    <2>3. serving' = Remaining(w.by, First(w.kind)) /\ First(w.kind) \in Stages
          /\ Owes(First(w.kind)) = Second(w.kind)
      BY <1>4, <2>2, FirstTurns DEF ReadHeader
    <2>4. Current' = First(w.kind) /\ \A u : IsServed(u)' <=> u = w.by
      BY <2>2, <2>3, ServiceStarts
    <2>5. \A t \in Threads : Begun(t)' \in Rests => w.by = t /\ Second(w.kind) \in Rests
      BY <1>3, <2>3, <2>4 DEF Begun
    <2> QED
      BY <1>2, <2>1, <2>5, ReadKeepsOrder
  <1>5. CASE ReadRest
    <2>1. PICK t \in Threads, k \in Stages :
            /\ StepOf(k).op = "recv" /\ Current' = After(k)
            /\ \A u \in Threads : IsServed(u)' <=> u = t /\ After(k) # NoKind
      BY <1>5, RestTaken
    <2>2. Owes(After(k)) = NoKind
      BY <2>1, StageTurns
    <2>3. \A u \in Threads : Begun(u)' = NoKind
      BY <2>1, <2>2 DEF Begun
    <2>4. to_broker # <<>> /\ to_broker' = Tail(to_broker)
      BY <1>5 DEF ReadRest
    <2> QED
      BY <1>2, <1>3, <2>3, <2>4, ReadKeepsOrder
  <1>6. CASE Answer
    <2>1. PICK t \in Threads, k \in Stages :
            /\ StepOf(k).op = "send" /\ Current = k /\ Current' = After(k)
            /\ \A u \in Threads : IsServed(u) <=> u = t
            /\ \A u \in Threads : IsServed(u)' <=> u = t /\ After(k) # NoKind
      <3>1. \E t \in Threads, k \in Stages, w \in WordsBack(Messages) :
              /\ StepOf(k).op = "send" /\ w.to = t /\ w.kind = k
              /\ to_process' = Append(to_process, w)
              /\ Current = k /\ \A u : IsServed(u) <=> u = t
              /\ Handled' /\ Current' = After(k)
              /\ \A u \in Threads : IsServed(u)' <=> u = t /\ After(k) # NoKind
        BY <1>6, AnswerGiven
      <3> QED
        BY <3>1
    <2>2. Owes(After(k)) = Owes(k)
      BY <2>1, StageTurns
    <2>3. \A u \in Threads : Begun(u)' \in Rests => Begun(u)' = Begun(u)
      BY <1>3, <2>1, <2>2 DEF Begun
    <2>4. to_broker' = to_broker
      BY <1>6 DEF Answer
    <2> QED
      BY <1>2, <2>3, <2>4, OrderUnchanged
  <1>7. CASE BecomeReady \/ Processed
    <2>1. serving # <<>> /\ serving' = Tail(serving) /\ to_broker' = to_broker
          /\ (Serving("ready") \/ Serving("processed"))
      BY <1>7 DEF BecomeReady, Processed, ServeNext, Serving, stream
    <2>2. PICK t \in Threads, k \in Stages : Head(serving) = <<t, StepOf(k)>> /\ Current = k
      BY <2>1, ServiceShape DEF TurnInv
    <2>3. StepOf(k).op \in {"ready", "processed"}
      BY <2>1, <2>2 DEF Serving
    <2>4. After(k) = NoKind
      BY <2>3, StageTurns
    <2>5. \A u \in Threads : ~IsServed(u)'
      BY <2>1, <2>2, <2>4, ServiceMoves DEF TurnInv
    <2>6. \A u \in Threads : Begun(u)' = NoKind
      BY <2>5 DEF Begun
    <2> QED
      BY <1>2, <1>3, <2>1, <2>6, OrderUnchanged
  <1>8. CASE PushHeader \/ PushBody
    <2>1. UNCHANGED <<to_broker, serving>>
      BY <1>8 DEF PushHeader, PushBody
    <2>2. \A u \in Threads : Begun(u)' = Begun(u)
      BY <2>1 DEF Begun, IsServed, Current
    <2> QED
      BY <1>2, <2>1, <2>2, OrderUnchanged
  <1> QED
    BY <1>4, <1>5, <1>6, <1>7, <1>8 DEF BrokerStep

-----------------------------------------------------------------------------
(* broker_mutex, and who speaks under it *)

\* Between the lock and the unlock of a thread that locks what it unlocks.
Inside ==
  {"test need", "received", "need", "processed", "need over", "unlock broker",
   "sent", "ready", "open", "unlock"}

MutexHeld == \A t \in Threads \ {Server} : at[t] \in Inside => broker_mutex = t

\* A thread that goes in without the mutex was in already.
LEMMA MutexStays ==
  ASSUME Typed, MutexHeld, NEW t \in Threads, NEW to, Goto(t, to), UNCHANGED broker_mutex,
         t # Server /\ to \in Inside => at[t] \in Inside
  PROVE  MutexHeld'
  <1>1. at \in [Threads -> Places]
    BY DEF Typed, Placed
  <1>2. at'[t] = to /\ \A u \in Threads : u # t => at'[u] = at[u]
    BY <1>1 DEF Goto
  <1> QED
    BY <1>2 DEF MutexHeld

\* Who takes it finds no one in.
LEMMA MutexTaken ==
  ASSUME Typed, MutexHeld, NEW t \in Threads, NEW to, Goto(t, to), Locks(t)
  PROVE  MutexHeld'
  <1>1. at \in [Threads -> Places] /\ Nobody \notin Threads
    BY TeamAssumption DEF Typed, Placed
  <1>2. at'[t] = to /\ \A u \in Threads : u # t => at'[u] = at[u]
    BY <1>1 DEF Goto
  <1>3. \A u \in Threads \ {Server} : at[u] \notin Inside
    BY <1>1 DEF MutexHeld, Locks
  <1> QED
    BY <1>2, <1>3 DEF MutexHeld, Locks

\* Who gives it back was in alone, unless it is the server thread that meddles.
LEMMA MutexReleased ==
  ASSUME Typed, MutexHeld, NEW t \in Threads, NEW to, Goto(t, to), UnlockBroker(t), ~meddled',
         to \notin Inside
  PROVE  MutexHeld'
  <1>1. at \in [Threads -> Places] /\ Nobody \notin Threads
    BY TeamAssumption DEF Typed, Placed
  <1>2. at'[t] = to /\ \A u \in Threads : u # t => at'[u] = at[u]
    BY <1>1 DEF Goto
  <1>3. broker_mutex \in {t, Nobody}
    BY DEF UnlockBroker
  <1>4. \A u \in Threads \ {Server} : u # t => at[u] \notin Inside
    BY <1>1, <1>3 DEF MutexHeld
  <1> QED
    BY <1>2, <1>4 DEF MutexHeld

\* The listener goes in with LockBroker, and out to wait at its gate or with UnlockAfter.
LEMMA ListenerKeepsMutex ==
  ASSUME Typed, MutexHeld, ListenerStep(Listener), ~meddled'
  PROVE  MutexHeld'
  <1> USE DEF Moves, Asks, Steps, At, Inside, locks
  <1>0. Listener \in Threads /\ Listener # Server
    BY Kin
  <1>1. CASE Restart(Listener)
    BY <1>0, <1>1, MutexStays DEF Restart
  <1>2. CASE Connect(Listener)
    BY <1>0, <1>2, MutexStays DEF Connect
  <1>3. CASE Subscribe(Listener)
    BY <1>3 DEF Subscribe, MutexHeld
  <1>4. CASE NeedGets(Listener)
    BY <1>0, <1>4, MutexStays DEF NeedGets
  <1>5. CASE CloseGate(Listener)
    BY <1>0, <1>5, MutexStays DEF CloseGate
  <1>6. CASE PassGate(Listener)
    BY <1>0, <1>6, MutexStays DEF PassGate
  <1>7. CASE Peek(Listener)
    BY <1>0, <1>7, MutexStays DEF Peek
  <1>8. CASE LockBroker(Listener)
    BY <1>0, <1>8, MutexTaken DEF LockBroker
  <1>9. CASE Receive(Listener)
    BY <1>0, <1>9, MutexStays DEF Receive
  <1>10. CASE KeepBroker(Listener)
    BY <1>0, <1>10, MutexStays DEF KeepBroker
  <1>11. CASE Acknowledge(Listener)
    BY <1>0, <1>11, MutexStays DEF Acknowledge
  <1>12. CASE Process(Listener)
    BY <1>0, <1>12, MutexStays DEF Process
  <1>13. CASE Processes(Listener)
    BY <1>0, <1>13, MutexStays DEF Processes
  <1>14. CASE NeedOver(Listener)
    BY <1>0, <1>14, MutexStays DEF NeedOver
  <1>15. CASE UnlockAfter(Listener)
    BY <1>0, <1>15, MutexReleased DEF UnlockAfter
  <1>16. CASE OpenAfter(Listener)
    BY <1>0, <1>16, MutexStays DEF OpenAfter, OpenGate
  <1> QED
    BY <1>1, <1>2, <1>3, <1>4, <1>5, <1>6, <1>7, <1>8, <1>9, <1>10, <1>11, <1>12, <1>13,
       <1>14, <1>15, <1>16
    DEF ListenerStep, EndOfMessage

\* So every step that does not meddle keeps it with the thread that is in.
LEMMA MutexKept ==
  ASSUME Typed, MutexHeld, Next, ~meddled'
  PROVE  MutexHeld'
  <1> USE DEF Moves, Asks, Steps, At, Inside, locks
  <1>0. /\ Server \in Threads
        /\ \A t \in GetThreads \cup Trainers : t \in Threads /\ t # Server
    BY Kin
  <1>1. ASSUME UNCHANGED <<at, broker_mutex>> PROVE MutexHeld'
    BY <1>1 DEF MutexHeld
  <1>2. CASE (\E t \in Threads : SocketStep(t) /\ Aside) \/ ((BrokerStep \/ LoseBroker) /\ Aside)
    BY <1>1, <1>2 DEF Aside
  <1>3. CASE ListenerStep(Listener)
    BY <1>3, ListenerKeepsMutex
  <1>4. CASE EndOfMessage(Server) \/ Guest(Server)
    <2>1. CASE Guest(Server)
      BY <1>0, <2>1, MutexStays DEF Guest
    <2>2. CASE NeedOver(Server)
      BY <1>0, <2>2, MutexStays DEF NeedOver
    <2>3. CASE UnlockAfter(Server)
      BY <1>0, <2>3, MutexReleased DEF UnlockAfter
    <2>4. CASE OpenAfter(Server)
      BY <1>0, <2>4, MutexStays DEF OpenAfter, OpenGate
    <2> QED
      BY <1>4, <2>1, <2>2, <2>3, <2>4 DEF EndOfMessage
  <1>5. ASSUME NEW t \in GetThreads \cup Trainers, LockAndSend(t) PROVE MutexHeld'
    BY <1>0, <1>5, MutexTaken DEF LockAndSend
  <1>6. ASSUME NEW t \in GetThreads \cup Trainers, Unlock(t) PROVE MutexHeld'
    BY <1>0, <1>6, MutexReleased DEF Unlock
  <1>7. CASE \E t \in GetThreads : GetStep(t)
    <2>1. PICK t \in GetThreads : GetStep(t)
      BY <1>7
    <2>2. CASE CountGet(t)
      BY <1>0, <2>2, MutexStays DEF CountGet
    <2>3. CASE GetsOver(t)
      BY <1>0, <2>3, MutexStays DEF GetsOver
    <2>4. CASE OpenForListener(t)
      BY <1>0, <2>4, MutexStays DEF OpenForListener, OpenGate
    <2> QED
      BY <1>5, <1>6, <2>1, <2>2, <2>3, <2>4 DEF GetStep
  <1>8. CASE \E t \in Trainers : TrainerStep(t) \/ Arrive(t)
    <2>1. PICK t \in Trainers : TrainerStep(t) \/ Arrive(t)
      BY <1>8
    <2>2. CASE Await(t)
      BY <1>0, <2>2, MutexStays DEF Await
    <2>3. CASE Arrive(t)
      <3>1. \E to \in {"lock", "done"} : Goto(t, to) /\ UNCHANGED broker_mutex
        BY <2>3 DEF Arrive
      <3> QED
        BY <1>0, <3>1, MutexStays
    <2> QED
      BY <1>5, <1>6, <2>1, <2>2, <2>3 DEF TrainerStep
  <1>9. CASE \E c \in opening : SendGets(c)
    <2>1. /\ \A t \in Threads : at'[t] \in {"lock", at[t]}
          /\ UNCHANGED broker_mutex
      BY <1>9 DEF SendGets
    <2> QED
      BY <2>1 DEF MutexHeld
  <1>10. CASE NewPush
    BY <1>1, <1>10 DEF NewPush
  <1>11. CASE \E m \in published : CatchAnswered(m)
    BY <1>1, <1>11 DEF CatchAnswered, OnSocket
  <1> QED
    BY <1>2, <1>3, <1>4, <1>7, <1>8, <1>9, <1>10, <1>11, NextCases DEF ListenerStep

\* What is said or read at a place.
Utters(place) ==
  CASE place = "subscribe" -> {"NEW_SUBSCRIPTION", "queue", "OK"}
    [] place = "received"  -> {"header", "body"}
    [] place = "need"      -> {"MESSAGE_ACK", "acknowledged"}
    [] place = "need over" -> {"PROCESSED"}
    [] place = "sent"      -> {"NEW_MESSAGE", "id", "message"}
    [] place = "ready"     -> {"READY_TO_RECIEVE", "ready"}
    [] OTHER               -> {}

\* The functions that are called are the library's, with those words.
LEMMA CalledUtters ==
  ASSUME NEW place \in Places
  PROVE  /\ place \in Spoken => Called(place) \in Functions
         /\ Called(place) # <<>> => place \in Spoken
         /\ \A i \in DOMAIN Called(place) : Called(place)[i].kind \in Utters(place)
  <1> USE DEF send, recv, Spoken, Functions
  <1>1. CASE place = "sent"
    BY <1>1 DEF Called, Utters, send_pokemon_message
  <1>2. CASE place = "subscribe"
    BY <1>2 DEF Called, Utters, subscribe_to_queue
  <1>3. CASE place = "received"
    <2>1. Called(place) = <<recv("header"), recv("body")>> /\ Utters(place) = {"header", "body"}
      BY <1>3 DEF Called, Utters, receive_pokemon_message
    <2> QED
      BY <1>3, <2>1 DEF receive_pokemon_message
  <1>4. CASE place = "need"
    BY <1>4 DEF Called, Utters, send_message_acknowledge
  <1>5. CASE place = "need over"
    <2>1. Called(place) = <<send("PROCESSED")>> /\ Utters(place) = {"PROCESSED"}
      BY <1>5 DEF Called, Utters, already_processed
    <2>2. \A i \in DOMAIN <<send("PROCESSED")>> : <<send("PROCESSED")>>[i].kind = "PROCESSED"
      OBVIOUS
    <2>3. already_processed = <<send("PROCESSED")>> /\ already_processed \in Functions
      BY DEF already_processed
    <2> QED
      BY <1>5, <2>1, <2>2, <2>3
  <1>6. CASE place = "ready"
    BY <1>6 DEF Called, Utters, ready_to_recieve
  <1>7. CASE place \notin Spoken
    <2>1. Called(place) = <<>>
      BY <1>7 DEF Called
    <2>2. DOMAIN Called(place) = {}
      BY <2>1
    <2> QED
      BY <1>7, <2>1, <2>2
  <1> QED
    BY <1>1, <1>2, <1>3, <1>4, <1>5, <1>6, <1>7

\* So what a thread has to say or to read tells where it is.
LEMMA SaidThere ==
  ASSUME Typed, NEW t \in Threads
  PROVE  Phase(t) \in Utters(at[t]) \cup {NoKind} /\ (~Idle(t) => at[t] \in Spoken)
  <1>1. CASE Idle(t)
    BY <1>1 DEF Phase
  <1>2. CASE ~Idle(t)
    <2>1. PICK i \in DOMAIN Called(at[t]) : Head(script[t]) = Called(at[t])[i]
      BY <1>2, NextOfCalled
    <2>2. at[t] \in Places /\ Called(at[t]) # <<>>
      BY <1>2, <2>1, NextOfCalled
    <2> QED
      BY <1>2, <2>1, <2>2, CalledUtters DEF Phase
  <1> QED
    BY <1>1, <1>2

\* Who is on the socket has broker_mutex, unless it is the listener that subscribes.
LEMMA SpeaksInside ==
  ASSUME Typed, Idle(Server), MutexHeld, NEW t \in Threads, ~Idle(t)
  PROVE  broker_mutex = t \/ (t = Listener /\ at[Listener] = "subscribe")
  <1>1. at[t] \in Spoken /\ t # Server
    BY SaidThere
  <1>2. at[t] = "subscribe" => t = Listener
    <2>1. \A u \in GetThreads \cup Trainers : at[u] # "subscribe"
      BY DEF Typed, Placed, GetPlaces, TrainerPlaces
    <2> QED
      BY <1>1, <2>1, TeamAssumption DEF Threads
  <1>3. at[t] # "subscribe" => at[t] \in Inside
    BY <1>1 DEF Spoken, Inside
  <1> QED
    BY <1>1, <1>2, <1>3 DEF MutexHeld

-----------------------------------------------------------------------------
(* The steps of the Team, by what they do to the link *)

\* The listener subscribes after it has connected, and then goes on subscribing.
LEMMA SubscribesOnce ==
  ASSUME Typed, Next, ~Connect(Listener), at'[Listener] = "subscribe"
  PROVE  at[Listener] = "subscribe"
  <1> USE DEF Moves, Asks, Steps, At, Goto
  <1>0. /\ at \in [Threads -> Places] /\ Listener \in Threads /\ Listener # Server
        /\ \A t \in GetThreads \cup Trainers : t # Listener
    BY Kin DEF Typed, Placed
  <1>1. CASE ListenerStep(Listener)
    <2>1. Subscribe(Listener)
      BY <1>0, <1>1
      DEF ListenerStep, Restart, NeedGets, CloseGate, PassGate, Peek, LockBroker, Receive,
          KeepBroker, Acknowledge, Process, Processes, EndOfMessage, NeedOver, UnlockAfter,
          OpenAfter
    <2> QED
      BY <2>1 DEF Subscribe
  <1>2. ASSUME NEW t \in Threads \ {Listener}, NEW to, OwnStep(t, to)
        PROVE  at'[Listener] = at[Listener]
    BY <1>0, <1>2 DEF OwnStep
  <1>3. CASE EndOfMessage(Server) \/ Guest(Server)
    BY <1>0, <1>2, <1>3, Kin, ServerMoves
  <1>4. CASE \E t \in GetThreads : GetStep(t)
    BY <1>2, <1>4, Kin, GetMoves
  <1>5. CASE \E t \in Trainers : TrainerStep(t) \/ Arrive(t)
    BY <1>2, <1>5, Kin, TrainerMoves
  <1>6. CASE \E c \in opening : SendGets(c)
    <2>1. at'[Listener] \in {"lock", at[Listener]}
      BY <1>0, <1>6 DEF SendGets
    <2> QED
      BY <2>1
  <1>7. CASE NewPush \/ Aside
    BY <1>7 DEF NewPush, Aside
  <1>8. CASE \E m \in published : CatchAnswered(m)
    BY <1>8 DEF CatchAnswered, OnSocket
  <1> QED
    BY <1>1, <1>3, <1>4, <1>5, <1>6, <1>7, <1>8, NextCases

\* The steps off the socket, the new connection, and the steps on it.
LEMMA LinkCases ==
  ASSUME Typed, Next
  PROVE  \/ \E t \in Threads, to \in Places :
              /\ OwnStep(t, to)
              /\ t = Server => OffLink
              /\ to = "received" => t = Listener
         \/ Connect(Listener)
         \/ \E c \in opening : SendGets(c)
         \/ \E t \in Threads : SocketStep(t) /\ UNCHANGED at
         \/ (BrokerStep \/ LoseBroker) /\ UNCHANGED at
         \/ \E m, answered : Enqueue(m, answered) /\ UNCHANGED at
  <1> DEFINE Own == \E t \in Threads, to \in Places :
                      /\ OwnStep(t, to)
                      /\ t = Server => OffLink
                      /\ to = "received" => t = Listener
  <1>0. Listener \in Threads /\ Server \in Threads /\ Server # Listener
        /\ \A t \in GetThreads \cup Trainers : t \in Threads /\ t # Server
    BY Kin
  <1>1. CASE ListenerStep(Listener) /\ ~Connect(Listener)
    <2>1. PICK to \in ListenerPlaces : OwnStep(Listener, to)
      BY <1>1, ListenerMoves DEF Typed
    <2> QED
      BY <1>0, <2>1, PlacesInPlaces
  <1>2. CASE EndOfMessage(Server) \/ Guest(Server)
    <2>1. PICK to \in ServerPlaces : OwnStep(Server, to)
      BY <1>2, ServerMoves
    <2>2. OffLink
      BY <1>2 DEF EndOfMessage, NeedOver, UnlockAfter, OpenAfter, Guest, Moves
    <2>3. to # "received"
      BY DEF ServerPlaces
    <2> QED
      BY <1>0, <2>1, <2>2, <2>3, PlacesInPlaces
  <1>3. CASE \E t \in GetThreads : GetStep(t)
    <2>1. PICK t \in GetThreads, to \in GetPlaces : OwnStep(t, to)
      BY <1>3, GetMoves
    <2>2. to # "received"
      BY DEF GetPlaces
    <2> QED
      BY <1>0, <2>1, <2>2, PlacesInPlaces
  <1>4. CASE \E t \in Trainers : TrainerStep(t) \/ Arrive(t)
    <2>1. PICK t \in Trainers, to \in TrainerPlaces : OwnStep(t, to)
      BY <1>4, TrainerMoves
    <2>2. to # "received"
      BY DEF TrainerPlaces
    <2> QED
      BY <1>0, <2>1, <2>2, PlacesInPlaces
  <1>5. CASE NewPush
    BY <1>5 DEF NewPush
  <1>6. CASE \E m \in published : CatchAnswered(m)
    BY <1>6 DEF CatchAnswered, OnSocket
  <1>7. Aside => UNCHANGED at
    BY DEF Aside
  <1> QED
    BY <1>1, <1>2, <1>3, <1>4, <1>5, <1>6, <1>7, NextCases

\* What a thread starts to say where it goes is a function of the library.
LEMMA OwnStepSays ==
  ASSUME NEW t \in Threads, NEW to \in Places, OwnStep(t, to)
  PROVE  \/ OffLink
         \/ /\ Says(t, Called(to)) /\ Called(to) \in Functions
            /\ Head(Called(to)).kind \in Utters(to)
  <1>1. OffLink \/ (Says(t, Called(to)) /\ Called(to) \in Functions)
    BY CalledUtters DEF OwnStep
  <1>2. Called(to) \in Functions => 1 \in DOMAIN Called(to) /\ Head(Called(to)) = Called(to)[1]
    <2> SUFFICES ASSUME Called(to) \in Functions
                 PROVE  1 \in DOMAIN Called(to) /\ Head(Called(to)) = Called(to)[1]
      OBVIOUS
    <2> DEFINE f == Called(to)
    <2>1. f \in Seq(ScriptStep) /\ f # <<>>
      BY FunctionsWhole
    <2> HIDE DEF f
    <2>2. 1 \in DOMAIN f /\ Head(f) = f[1]
      BY <2>1, HeadAndTail
    <2> QED
      BY <2>2 DEF f
  <1> QED
    BY <1>1, <1>2, CalledUtters

\* It has nothing to say that another has begun.
LEMMA OwnStepKeepsTurn ==
  ASSUME LinkTyped(Messages), TurnInv(Messages), NEW t \in Threads, NEW to \in Places,
         OwnStep(t, to), to = "received" => t = Listener
  PROVE  TurnInv(Messages)' /\ (Ordered => Ordered')
  <1>1. CASE OffLink
    <2>1. UNCHANGED <<connected, connection, ends, to_broker, to_process, serving, pushing, ready>>
      BY <1>1 DEF OffLink, link, stream, broker
    <2>2. TurnInv(Messages)'
      BY <2>1, TurnUnchanged
    <2>3. \A u \in Threads : Begun(u)' = Begun(u) /\ Unended(u)' = Unended(u)
      BY <2>1 DEF Begun, IsServed, Current, Unended, Unsaid, Reaches, Phase, Idle, ends
    <2> QED
      BY <2>1, <2>2, <2>3, OrderUnchanged
  <1>2. CASE ~OffLink
    <2> DEFINE s == Called(to)
    <2>1. Says(t, s) /\ s \in Functions /\ Head(s).kind \in Utters(to)
      BY <1>2, OwnStepSays
    <2>2. Head(s).kind = "header" => to = "received"
      BY <2>1 DEF Utters
    <2> HIDE DEF s
    <2>3. /\ Start(t, s) /\ Idle(t)
          /\ UNCHANGED <<connected, connection, stream, got, broker, out_of_step, dead, losses>>
      BY <2>1 DEF Says, OwnStep
    <2>4. TurnInv(Messages)'
      BY <2>1, <2>2, <2>3, StartKeepsTurn
    <2>5. /\ Phase(t) = NoKind /\ Phase(t)' \in Openings
          /\ \A u \in Threads : u # t => Phase(u)' = Phase(u)
      BY <2>1, <2>3, PhaseStarts DEF LinkTyped, TurnInv, Phase
    <2>6. \A u \in Threads : u # t => socket'[u] = socket[u]
      BY <2>3 DEF Start, LinkTyped, EndsTyped
    <2>7. \A x \in Openings : Owes(x) = NoKind
      BY DEF Openings, Headers, Owes, NoKind
    <2>8. \A u \in Threads : Unsaid(u)' = Unsaid(u)
      <3>1. Unsaid(t)' = NoKind /\ Unsaid(t) = NoKind
        BY <2>5, <2>7, NothingOwed DEF Unsaid
      <3>2. ASSUME NEW u \in Threads, u # t PROVE Unsaid(u)' = Unsaid(u)
        BY <2>3, <2>5, <2>6, <3>2 DEF Unsaid, Reaches
      <3> QED
        BY <3>1, <3>2
    <2>9. UNCHANGED <<to_broker, serving>> /\ \A u \in Threads : Begun(u)' = Begun(u)
      BY <2>3 DEF stream, broker, Begun, IsServed, Current
    <2> QED
      BY <2>4, <2>8, <2>9, OrderUnchanged DEF Unended
  <1> QED
    BY <1>1, <1>2

\* So every step of a process that goes on keeps the two ends in step.
LEMMA TurnKept ==
  ASSUME Typed, TurnInv(Messages), Next, Running'
  PROVE  TurnInv(Messages)'
  <1>0. LinkTyped(Messages) /\ Nothing \notin Messages
    BY DEF Typed, Messages, Nothing
  <1>1. CASE \E t \in Threads, to \in Places : OwnStep(t, to) /\ (to = "received" => t = Listener)
    BY <1>0, <1>1, OwnStepKeepsTurn
  <1>2. CASE Connect(Listener)
    BY <1>0, <1>2, ConnectKeepsTurn DEF Connect, At
  <1>3. CASE \E c \in opening : SendGets(c)
    BY <1>3, TurnUnchanged DEF SendGets, OffLink, link, stream, broker
  <1>4. CASE \E t \in Threads : SocketStep(t)
    BY <1>0, <1>4, SendKeepsTurn, ReceiveKeepsTurn DEF SocketStep
  <1>5. CASE BrokerStep
    BY <1>0, <1>5, HeaderKeepsTurn, RestKeepsTurn, AnswerKeepsTurn, FlagsKeepTurn, PushKeepsTurn
    DEF BrokerStep
  <1>6. CASE LoseBroker
    BY <1>0, <1>6, LoseKeepsTurn
  <1>7. CASE \E m, answered : Enqueue(m, answered)
    BY <1>7, TurnUnchanged DEF Enqueue, stream
  <1> QED
    BY <1>1, <1>2, <1>3, <1>4, <1>5, <1>6, <1>7, LinkCases

\* The server thread is never on the socket.
LEMMA ServerStaysOff ==
  ASSUME Typed, Idle(Server), Next
  PROVE  Idle(Server)'
  <1>0. Server \in Threads /\ script \in [Threads -> Seq(ScriptStep)]
    BY Kin DEF Typed, LinkTyped, EndsTyped
  <1>1. ASSUME UNCHANGED script PROVE Idle(Server)'
    BY <1>1 DEF Idle
  <1>2. CASE \E t \in Threads, to \in Places : OwnStep(t, to) /\ (t = Server => OffLink)
    <2>1. PICK t \in Threads, to \in Places : OwnStep(t, to) /\ (t = Server => OffLink)
      BY <1>2
    <2>2. CASE OffLink
      BY <1>1, <2>2 DEF OffLink, link, ends
    <2>3. CASE ~OffLink
      <3>1. t # Server /\ script' = [script EXCEPT ![t] = Called(to)]
        BY <2>1, <2>3 DEF OwnStep, Says, Start
      <3> QED
        BY <1>0, <3>1 DEF Idle
    <2> QED
      BY <2>2, <2>3
  <1>3. CASE Connect(Listener) \/ (\E c \in opening : SendGets(c))
    BY <1>1, <1>3 DEF Connect, LinkConnect, SendGets, OffLink, link, ends
  <1>4. CASE \E t \in Threads : SocketStep(t)
    <2>1. PICK t \in Threads : SocketStep(t)
      BY <1>4
    <2>2. t # Server
      BY <2>1 DEF SocketStep, SendWord, ReceiveWord
    <2>3. script' = script \/ script' = [script EXCEPT ![t] = Tail(@)]
      BY <2>1 DEF SocketStep, SendWord, ReceiveWord
    <2> QED
      BY <1>0, <2>2, <2>3 DEF Idle
  <1>5. CASE BrokerStep \/ LoseBroker \/ \E m, answered : Enqueue(m, answered)
    BY <1>1, <1>5, BrokerKeepsEnds DEF LoseBroker, Enqueue, ends
  <1> QED
    BY <1>2, <1>3, <1>4, <1>5, LinkCases

\* Who speaks does so when no other has begun, and so the order is kept.
LEMMA OrderKept ==
  ASSUME Typed, Connections, Idle(Server), MutexHeld, TurnInv(Messages), Ordered, Next, Running'
  PROVE  Ordered'
  <1>0. LinkTyped(Messages)
    BY DEF Typed
  <1>1. CASE \E t \in Threads, to \in Places : OwnStep(t, to) /\ (to = "received" => t = Listener)
    BY <1>0, <1>1, OwnStepKeepsTurn
  <1>2. CASE Connect(Listener) \/ LoseBroker
    <2>1. to_broker' = <<>> /\ serving' = <<>>
      BY <1>2 DEF Connect, LinkConnect, LoseBroker, Connections, broker
    <2>2. \A t \in Threads : Begun(t)' = NoKind
      BY <2>1 DEF Begun, IsServed
    <2> QED
      BY <2>1, <2>2, OrderOfNothing
  <1>3. ASSUME UNCHANGED <<connected, connection, ends, to_broker, serving>> PROVE Ordered'
    <2>1. \A t \in Threads : Begun(t)' = Begun(t) /\ Unended(t)' = Unended(t)
      BY <1>3 DEF Begun, IsServed, Current, Unended, Unsaid, Reaches, Phase, Idle, ends
    <2> QED
      BY <1>3, <2>1, OrderUnchanged
  <1>4. CASE \E c \in opening : SendGets(c)
    BY <1>3, <1>4 DEF SendGets, OffLink, link, stream, broker
  <1>5. CASE \E m, answered : Enqueue(m, answered)
    BY <1>3, <1>5 DEF Enqueue, stream
  <1>6. CASE BrokerStep
    BY <1>0, <1>6, BrokerKeepsOrder
  <1>7. CASE \E t \in Threads : SocketStep(t)
    <2>1. PICK t \in Threads : SocketStep(t)
      BY <1>7
    <2>2. CASE ReceiveWord(t)
      BY <1>0, <2>2, ReceiveKeepsOrder
    <2>3. CASE SendWord(t)
      <3>1. ~Idle(t) /\ Phase(t) \notin Receives
        <4>1. /\ ~Idle(t) /\ Head(script[t]).op = "send"
              /\ script' = [script EXCEPT ![t] = Tail(@)] /\ EndsTyped /\ Scripted
          BY <2>3 DEF SendWord, Typed, LinkTyped, TurnInv
        <4> QED
          BY <4>1, PhaseMoves
      <3>2. ASSUME NEW u \in Threads, u # t, Unended(u) PROVE Phase(t) \in Subs
        <4>1. Phase(u) # NoKind /\ Owes(Phase(u)) \in Rests
          <5>1. NoKind \notin Rests
            BY DEF NoKind, Rests
          <5> QED
            BY <3>2, <5>1, NothingOwed DEF Unended, Unsaid
        <4>2. ~Idle(u) /\ Phase(u) \in Utters(at[u])
          BY <4>1, SaidThere DEF Phase
        <4>3. at[u] # "subscribe"
          BY <4>1, <4>2 DEF Utters, Owes, Rests, NoKind
        <4>4. broker_mutex = u
          BY <4>2, <4>3, SpeaksInside
        <4>5. at[t] = "subscribe"
          BY <3>1, <3>2, <4>4, SpeaksInside
        <4>6. Phase(t) \in Utters("subscribe")
          BY <3>1, <4>5, SaidThere, PhaseTyped DEF Typed, LinkTyped, TurnInv
        <4> QED
          BY <3>1, <4>6 DEF Utters, Receives, Subs
      <3> QED
        BY <1>0, <2>3, <3>2, SendKeepsOrder
    <2> QED
      BY <2>1, <2>2, <2>3 DEF SocketStep
  <1> QED
    BY <1>1, <1>2, <1>4, <1>5, <1>6, <1>7, LinkCases

-----------------------------------------------------------------------------
(* While the listener subscribes, the broker has nothing to deliver *)

FromBroker == {w \in WordsBack(Messages) : w.to = Broker}
Readies    == {w \in WordsOut(Messages) : w.kind = "READY_TO_RECIEVE"}

Quiet ==
  /\ ~Awake /\ Current # "ready"
  /\ NoneIn(to_process, FromBroker) /\ NoneIn(to_broker, Readies)

Silent == at[Listener] = "subscribe" => Quiet

\* A thread says anything but that the Team is ready, or reads.
LEMMA SocketKeepsQuiet ==
  ASSUME LinkTyped(Messages), Quiet, NEW t \in Threads, SocketStep(t),
         Phase(t) # "READY_TO_RECIEVE"
  PROVE  Quiet'
  <1>1. UNCHANGED <<serving, ready, pushing>>
    BY DEF SocketStep, SendWord, ReceiveWord, broker
  <1>2. Awake' = Awake /\ Current' = Current
    BY <1>1 DEF Awake, Current
  <1>3. to_broker \in Seq(WordsOut(Messages)) /\ to_process \in Seq(WordsBack(Messages))
    BY DEF LinkTyped, StreamsTyped
  <1>4. NoneIn(to_process', FromBroker)
    <2>1. to_process' = to_process \/ (to_process # <<>> /\ to_process' = Tail(to_process))
      BY DEF SocketStep, SendWord, ReceiveWord
    <2>2. to_process # <<>> => NoneIn(Tail(to_process), FromBroker)
      BY <1>3, TokensOfTail DEF Quiet
    <2> QED
      BY <2>1, <2>2 DEF Quiet
  <1>5. NoneIn(to_broker', Readies)
    <2>1. to_broker' = to_broker
          \/ (SendWord(t) /\ ~Idle(t) /\ to_broker' = Append(to_broker, Word(t)))
      BY DEF SocketStep, SendWord, ReceiveWord
    <2>2. ASSUME SendWord(t), ~Idle(t) PROVE NoneIn(Append(to_broker, Word(t)), Readies)
      <3>1. Word(t) \in WordsOut(Messages) /\ Word(t).kind = Phase(t)
        BY <2>2, WordTyped DEF Word, Phase
      <3>2. Word(t) \notin Readies
        BY <3>1 DEF Readies
      <3> QED
        BY <1>3, <3>1, <3>2, TokensOfAppend DEF Quiet
    <2> QED
      BY <2>1, <2>2 DEF Quiet
  <1> QED
    BY <1>2, <1>4, <1>5 DEF Quiet

\* The broker serves what it was asked, and is not told to deliver.
LEMMA BrokerKeepsQuiet ==
  ASSUME LinkTyped(Messages), TurnInv(Messages), Quiet, BrokerStep, Running'
  PROVE  Quiet'
  <1>1. to_broker \in Seq(WordsOut(Messages)) /\ to_process \in Seq(WordsBack(Messages))
    BY DEF LinkTyped, StreamsTyped
  <1>2. ~ready /\ pushing = Nothing /\ Current \notin {"ready", "become ready"}
    BY DEF Quiet, Awake
  <1>3. NoKind \notin {"ready", "become ready"}
    BY DEF NoKind
  <1>4. to_broker # <<>> => NoneIn(Tail(to_broker), Readies) /\ Head(to_broker) \notin Readies
    BY <1>1, TokensOfTail DEF Quiet
  <1>5. CASE ReadHeader
    <2> DEFINE w == Head(to_broker)
    <2>1. /\ to_broker # <<>> /\ to_broker' = Tail(to_broker) /\ serving = <<>>
          /\ UNCHANGED <<to_process, ready, pushing>>
      BY <1>5 DEF ReadHeader
    <2>2. w.kind \in Headers /\ w.by \in Threads /\ w \in WordsOut(Messages)
      BY <2>1, NextWord, HeadersComeFirst, WordsAreOfKinds
    <2>3. w.kind # "READY_TO_RECIEVE"
      BY <1>4, <2>1, <2>2 DEF Readies
    <2>4. serving' = Remaining(w.by, First(w.kind)) /\ First(w.kind) \in Stages
          /\ First(w.kind) \notin {"ready", "become ready"}
      BY <1>5, <2>2, <2>3, FirstTurns DEF ReadHeader
    <2>5. Current' = First(w.kind)
      BY <2>2, <2>4, ServiceStarts
    <2> QED
      BY <1>2, <1>4, <2>1, <2>4, <2>5 DEF Quiet, Awake
  <1>6. CASE ReadRest
    <2>1. /\ to_broker # <<>> /\ to_broker' = Tail(to_broker)
          /\ UNCHANGED <<to_process, ready, pushing>>
      BY <1>6 DEF ReadRest
    <2>2. PICK k \in Stages : Current = k /\ Current' = After(k)
      BY <1>6, RestTaken
    <2>3. Current' \notin {"ready", "become ready"}
      BY <1>2, <2>2, StageTurns
    <2> QED
      BY <1>2, <1>4, <2>1, <2>3 DEF Quiet, Awake
  <1>7. CASE Answer
    <2>1. PICK t \in Threads, k \in Stages, w \in WordsBack(Messages) :
            /\ w.to = t /\ to_process' = Append(to_process, w)
            /\ Current = k /\ Current' = After(k)
      <3>1. \E t \in Threads, k \in Stages, w \in WordsBack(Messages) :
              /\ StepOf(k).op = "send" /\ w.to = t /\ w.kind = k
              /\ to_process' = Append(to_process, w)
              /\ Current = k /\ \A u : IsServed(u) <=> u = t
              /\ Handled' /\ Current' = After(k)
              /\ \A u \in Threads : IsServed(u)' <=> u = t /\ After(k) # NoKind
        BY <1>7, AnswerGiven
      <3> QED
        BY <3>1
    <2>2. Current' \notin {"ready", "become ready"}
      BY <1>2, <2>1, StageTurns
    <2>3. w \notin FromBroker
      BY <2>1, LinkAssumption DEF FromBroker, Threads
    <2>4. NoneIn(Append(to_process, w), FromBroker)
      BY <1>1, <2>3, TokensOfAppend DEF Quiet
    <2>5. UNCHANGED <<to_broker, ready, pushing>>
      BY <1>7 DEF Answer
    <2> QED
      BY <1>2, <2>1, <2>2, <2>4, <2>5 DEF Quiet, Awake
  <1>8. CASE BecomeReady \/ Processed
    <2>1. serving # <<>> /\ serving' = Tail(serving)
          /\ UNCHANGED <<to_broker, to_process, pushing>>
      BY <1>8 DEF BecomeReady, Processed, ServeNext, Serving, stream
    <2>2. PICK t \in Threads, k \in Stages : Head(serving) = <<t, StepOf(k)>> /\ Current = k
      BY <2>1, ServiceShape DEF TurnInv
    <2>3. ~BecomeReady
      <3>1. BecomeReady => StepOf(k).op = "ready"
        BY <2>2 DEF BecomeReady, Serving
      <3> QED
        BY <1>2, <2>2, <3>1, StageTurns
    <2>4. ready' = ready
      BY <1>8, <2>3 DEF Processed
    <2>5. Current' = After(k)
      BY <2>1, <2>2, ServiceMoves DEF TurnInv
    <2>6. Current' \notin {"ready", "become ready"}
      BY <1>2, <2>2, <2>5, StageTurns
    <2> QED
      BY <1>2, <2>1, <2>4, <2>6 DEF Quiet, Awake
  <1>9. CASE PushHeader \/ PushBody
    BY <1>2, <1>9 DEF PushHeader, PushBody
  <1> QED
    BY <1>5, <1>6, <1>7, <1>8, <1>9 DEF BrokerStep

\* A new connection begins in silence, and none of its GETs is there to break it.
LEMMA SilentKept ==
  ASSUME Typed, Connections, Births, Gates, TurnInv(Messages), Silent, Next, Running'
  PROVE  Silent'
  <1>0. LinkTyped(Messages)
    BY DEF Typed
  <1>1. CASE Connect(Listener)
    <2>1. to_process' = <<>> /\ ~connected /\ UNCHANGED <<to_broker, serving, ready, pushing>>
      BY <1>1 DEF Connect, LinkConnect, broker
    <2>2. to_broker' = <<>> /\ serving' = <<>> /\ ~ready' /\ pushing' = Nothing
      BY <2>1 DEF TurnInv, LeftNothing
    <2>3. Current' = NoKind
      BY <2>2 DEF Current
    <2>4. NoneIn(to_process', FromBroker) /\ NoneIn(to_broker', Readies)
      BY <2>1, <2>2, NoneInEmpty
    <2> QED
      BY <2>2, <2>3, <2>4 DEF Silent, Quiet, Awake, NoKind
  <1>2. CASE ~Connect(Listener)
    <2> SUFFICES ASSUME at'[Listener] = "subscribe" PROVE Quiet'
      BY DEF Silent
    <2>1. at[Listener] = "subscribe" /\ Quiet
      BY <1>2, SubscribesOnce DEF Silent
    <2>2. ASSUME UNCHANGED <<to_broker, to_process, serving, ready, pushing>> PROVE Quiet'
      BY <2>1, <2>2 DEF Quiet, Awake, Current
    <2>3. CASE \E t \in Threads, to \in Places : OwnStep(t, to)
      BY <2>2, <2>3, OwnStepOffBroker DEF stream, broker
    <2>4. CASE \E c \in opening : SendGets(c)
      BY <2>2, <2>4 DEF SendGets, OffLink, link, stream, broker
    <2>5. CASE \E m, answered : Enqueue(m, answered)
      BY <2>2, <2>5 DEF Enqueue, stream
    <2>6. CASE BrokerStep
      BY <1>0, <2>1, <2>6, BrokerKeepsQuiet
    <2>7. CASE LoseBroker
      <3>1. /\ to_broker' = <<>> /\ serving' = <<>> /\ ~ready' /\ pushing' = Nothing
            /\ UNCHANGED to_process
        BY <2>7 DEF LoseBroker
      <3>2. Current' = NoKind /\ NoneIn(to_broker', Readies)
        BY <3>1, NoneInEmpty DEF Current
      <3> QED
        BY <2>1, <3>1, <3>2 DEF Quiet, Awake, NoKind
    <2>8. CASE \E t \in Threads : SocketStep(t)
      <3>1. PICK t \in Threads : SocketStep(t)
        BY <2>8
      <3>2. SUFFICES ASSUME Phase(t) = "READY_TO_RECIEVE" PROVE FALSE
        BY <1>0, <2>1, <3>1, SocketKeepsQuiet
      <3>3. at[t] = "ready"
        BY <3>2, ReadyWord DEF Phase, NoKind
      <3>4. t \in GetThreads
        <4>1. \A u \in Trainers \cup {Server, Listener} : at[u] # "ready"
          BY DEF Typed, Placed, TrainerPlaces, ServerPlaces, ListenerPlaces
        <4> QED
          BY <3>3, <4>1, TeamAssumption DEF Threads
      <3>5. all_gets_ready
        BY <3>3, <3>4, Kin, OnItsWay
      <3> QED
        BY <2>1, <3>5 DEF Gates
    <2> QED
      BY <1>2, <2>3, <2>4, <2>5, <2>6, <2>7, <2>8, LinkCases
  <1> QED
    BY <1>1, <1>2

-----------------------------------------------------------------------------
(* Where the words of two threads cross *)

SpeakInv ==
  /\ GetsInv /\ Idle(Server)
  /\ ~meddled => MutexHeld
  /\ Running => TurnInv(Messages)
  /\ ~meddled /\ Running => Ordered /\ Silent

\* It holds at first, when no one speaks ...
LEMMA SpeakInvInitially == Init => SpeakInv
  <1> SUFFICES ASSUME Init PROVE SpeakInv
    OBVIOUS
  <1>1. GetsInv /\ TurnInv(Messages)
    BY GetsInvInitially, FirstTurn DEF Init
  <1>2. Idle(Server)
    BY Kin DEF Init, LinkInit, Idle
  <1>3. /\ \A t \in Threads : at[t] = IF t = Listener THEN "restart" ELSE "off"
        /\ to_broker = <<>> /\ serving = <<>>
    BY DEF Init, LinkInit
  <1>4. MutexHeld
    BY <1>3 DEF MutexHeld, Inside
  <1>5. Ordered
    <2>1. NoKind \notin Rests
      BY DEF NoKind, Rests
    <2>2. DOMAIN to_broker = {} /\ \A t \in Threads : Begun(t) = NoKind
      BY <1>3 DEF Begun, IsServed
    <2> QED
      BY <2>1, <2>2 DEF Ordered
  <1>6. Silent
    BY <1>3 DEF Silent, Threads
  <1> QED
    BY <1>1, <1>2, <1>4, <1>5, <1>6 DEF SpeakInv

\* ... and every step keeps it.
LEMMA SpeakInvKept == SpeakInv /\ [Next]_vars => SpeakInv'
  <1> SUFFICES ASSUME SpeakInv, [Next]_vars PROVE SpeakInv'
    OBVIOUS
  <1>1. GetsInv'
    BY GetsInvKept DEF SpeakInv
  <1>2. CASE UNCHANGED vars
    <2>1. UNCHANGED <<at, broker_mutex, meddled, connected, connection, ends, to_broker,
                      to_process, serving, pushing, ready, out_of_step, dead>>
      BY <1>2 DEF vars, locks, link, stream, broker
    <2>2. \A t \in Threads : Begun(t)' = Begun(t) /\ Unended(t)' = Unended(t)
      BY <2>1 DEF Begun, IsServed, Current, Unended, Unsaid, Reaches, Phase, Idle, ends
    <2>3. Ordered => Ordered'
      BY <2>1, <2>2, OrderUnchanged
    <2>4. TurnInv(Messages) => TurnInv(Messages)'
      BY <2>1, TurnUnchanged
    <2>5. Silent => Silent'
      BY <2>1 DEF Silent, Quiet, Awake, Current
    <2>6. (MutexHeld => MutexHeld') /\ Idle(Server)' /\ (Running' => Running)
      BY <2>1 DEF MutexHeld, SpeakInv, Idle, Running, ends
    <2> QED
      BY <1>1, <2>1, <2>3, <2>4, <2>5, <2>6 DEF SpeakInv
  <1>3. CASE Next
    <2>1. Typed /\ Connections /\ Births /\ Idle(Server)
      BY DEF SpeakInv, GetsInv
    <2>2. Running /\ (~meddled' => ~meddled)
      BY <1>3, <2>1, OnlyIfRunning, MeddledForGood
    <2>3. TurnInv(Messages) /\ (~meddled => Gates /\ MutexHeld /\ Ordered /\ Silent)
      BY <2>2 DEF SpeakInv, GetsInv
    <2>4. Idle(Server)'
      BY <1>3, <2>1, ServerStaysOff
    <2>5. ~meddled' => MutexHeld'
      BY <1>3, <2>1, <2>2, <2>3, MutexKept
    <2>6. Running' => TurnInv(Messages)'
      BY <1>3, <2>1, <2>3, TurnKept
    <2>7. ~meddled' /\ Running' => Ordered'
      BY <1>3, <2>1, <2>2, <2>3, OrderKept
    <2>8. ~meddled' /\ Running' => Silent'
      BY <1>3, <2>1, <2>2, <2>3, SilentKept
    <2> QED
      BY <1>1, <2>4, <2>5, <2>6, <2>7, <2>8 DEF SpeakInv
  <1> QED
    BY <1>2, <1>3

\* Of two threads that use the socket one is not the listener.
LEMMA OneOfOthers ==
  ASSUME NEW t \in Threads, NEW u \in Threads, t # u, Using(t), Using(u)
  PROVE  \E o \in Others : Using(o)
  BY DEF Threads

\* Of two threads on the socket one is the listener that subscribes.
LEMMA TwoSpeak ==
  ASSUME Typed, Idle(Server), MutexHeld, NEW t \in Threads, NEW u \in Threads, t # u,
         ~Idle(t), ~Idle(u)
  PROVE  at[Listener] = "subscribe"
  BY SpeaksInside

\* Who awaits the answer to a subscription is the listener that subscribes.
LEMMA OnlyListenerSubscribes ==
  ASSUME Typed, NEW t \in Threads, Awaits(Phase(t)) = "OK"
  PROVE  at[Listener] = "subscribe"
  <1>1. Phase(t) \in {"OK", "queue"}
    BY DEF Awaits, NoKind
  <1>2. at[t] = "subscribe"
    <2>1. Phase(t) \in Utters(at[t])
      BY <1>1, SaidThere DEF NoKind
    <2> QED
      BY <1>1, <2>1 DEF Utters
  <1>3. \A u \in GetThreads \cup Trainers \cup {Server} : at[u] # "subscribe"
    BY DEF Typed, Placed, GetPlaces, TrainerPlaces, ServerPlaces
  <1> QED
    BY <1>2, <1>3, TeamAssumption DEF Threads

\* A thread takes the word of another.
LEMMA ReceiveInStep ==
  ASSUME Typed, Idle(Server), MutexHeld, TurnInv(Messages), Silent, NEW t \in Threads,
         ReceiveWord(t), out_of_step'
  PROVE  Crossing
  <1> DEFINE w == Head(to_process)
  <1>1. LinkTyped(Messages) /\ Pushed(Messages)
    BY DEF Typed, TurnInv
  <1>2. /\ ~Idle(t) /\ to_process # <<>> /\ Phase(t) \in Receives
        /\ \/ w.to \in Threads \ {t} /\ ~Idle(w.to)
           \/ w.to = Broker /\ (t = Listener => Phase(t) \notin {"header", "body"})
    BY <1>1, ReceiveCrosses
  <1>3. w \in WordsBack(Messages) /\ 1 \in DOMAIN to_process /\ w = to_process[1]
    BY <1>1, <1>2, NextDelivery, HeadAndTail DEF LinkTyped, StreamsTyped
  <1>4. CASE w.to \in Threads \ {t} /\ ~Idle(w.to)
    <2>1. PICK u \in Threads : u = w.to /\ u # t /\ ~Idle(u)
      BY <1>4
    <2>2. Using(t) /\ Using(u)
      BY <1>2, <2>1 DEF Using
    <2> QED
      BY <1>2, <2>1, <2>2, TwoSpeak, OneOfOthers DEF Crossing
  <1>5. CASE w.to = Broker
    <2>1. w.kind \in {"header", "body"}
      BY <1>1, <1>2, <1>5, NextDelivery DEF Half
    <2>2. Delivering
      BY <1>3, <2>1 DEF Delivering
    <2>3. t # Listener
      <3> SUFFICES ASSUME t = Listener PROVE FALSE
        OBVIOUS
      <3>0. Phase(t) \in {"OK", "ready", "id"}
        BY <1>2, <1>5, LinkAssumption DEF Receives, Threads
      <3>1. Phase(t) \in {"OK", "ready", "id"} /\ Phase(t) \in Utters(at[t])
        BY <3>0, SaidThere DEF NoKind
      <3>2. at[t] \notin {"sent", "ready"}
        BY DEF Typed, Placed, ListenerPlaces
      <3>3. at[Listener] = "subscribe"
        BY <3>1, <3>2 DEF Utters
      <3>4. ~NoneIn(to_process, FromBroker)
        BY <1>3, <1>5 DEF NoneIn, FromBroker
      <3> QED
        BY <3>3, <3>4 DEF Silent, Quiet
    <2> QED
      BY <1>2, <2>2, <2>3 DEF Crossing, Using, Threads
  <1> QED
    BY <1>2, <1>4, <1>5

\* The broker takes a word of another thread than it serves.
LEMMA RestInStep ==
  ASSUME Typed, Idle(Server), TurnInv(Messages), Ordered, ReadRest, out_of_step'
  PROVE  Crossing
  <1> DEFINE w == Head(to_broker)
  <1>0. LinkTyped(Messages)
    BY DEF Typed
  <1>1. /\ Serving("recv") /\ serving # <<>> /\ to_broker # <<>>
        /\ ~(w.kind = Head(serving)[2].kind /\ w.by = Head(serving)[1])
    BY DEF ReadRest, Serving, Running
  <1>2. PICK t \in Threads, k \in Stages :
          /\ Head(serving) = <<t, StepOf(k)>> /\ Current = k
          /\ \A u : IsServed(u) <=> u = t
    BY <1>1, ServiceShape DEF TurnInv
  <1>3. /\ StepOf(k).op = "recv" /\ Owes(k) = k /\ k # NoKind
        /\ k \in {"queue", "message", "acknowledged"}
    <2>1. StepOf(k).op = "recv"
      BY <1>1, <1>2 DEF Serving
    <2>2. k \in {"queue", "message", "acknowledged"}
      BY <2>1 DEF StepOf, Stages, send
    <2> QED
      BY <2>1, <2>2, StageTurns
  <1>4. PICK u \in Threads : w.by = u /\ u # t
    BY <1>0, <1>1, <1>2, RestComesNext
  <1>5. /\ to_broker \in Seq(WordsOut(Messages)) /\ w \in WordsOut(Messages)
        /\ 1 \in DOMAIN to_broker /\ w = to_broker[1]
        /\ \A i \in DOMAIN to_broker : i \in Nat
    BY <1>0, <1>1, HeadAndTail DEF LinkTyped, StreamsTyped
  <1>6. Using(t) /\ Using(u)
    BY <1>1, <1>2, <1>4, <1>5 DEF Using
  <1>7. \A v \in Threads :
          AskedIn(Messages, v, to_broker, to_process, Answering(v), Awaits(Phase(v)))
    BY DEF TurnInv, Asked
  <1>8. at[Listener] = "subscribe"
    <2>1. CASE k = "queue"
      <3>1. Answering(t) = "OK"
        BY <1>2, <2>1 DEF Answering, Awaits
      <3>2. "OK" # NoKind
        BY DEF NoKind
      <3>3. Awaits(Phase(t)) = "OK"
        BY <1>7, <3>1, <3>2 DEF AskedIn
      <3> QED
        BY <3>3, OnlyListenerSubscribes
    <2>2. CASE k \in Rests
      <3>1. Begun(t) = k
        BY <1>2, <1>3 DEF Begun
      <3>2. Resumes(to_broker, Unended(t), t, 0)
        BY <2>2, <3>1 DEF Ordered
      <3>3. w.kind \in Subs
        <4> SUFFICES ASSUME w.kind \notin Subs PROVE FALSE
          OBVIOUS
        <4>1. \E j \in DOMAIN to_broker : 0 < j /\ j < 1
          BY <1>4, <1>5, <3>2 DEF Resumes
        <4> QED
          BY <1>5, <4>1
      <3>4. w.kind \in Headers
        <4>1. \E m \in Lanes : OutStep(u, Begun(u), w, m)
          BY <1>0, <1>1, NextWord
        <4>2. Begun(u) = NoKind
          BY <1>2, <1>4 DEF Begun
        <4> QED
          BY <1>4, <4>1, <4>2 DEF OutStep
      <3>5. w.kind = "NEW_SUBSCRIPTION" /\ Answered(w.kind) = "OK" /\ "OK" # NoKind
        BY <3>3, <3>4 DEF Subs, Headers, Answered, NoKind
      <3>6. w \notin QuestionsBut(Messages, u, Awaits(Phase(u)))
        BY <1>5, <1>7 DEF AskedIn, NoneIn
      <3>7. Awaits(Phase(u)) = "OK"
        BY <1>4, <1>5, <3>5, <3>6 DEF QuestionsBut, Questions
      <3> QED
        BY <3>7, OnlyListenerSubscribes
    <2> QED
      BY <1>3, <2>1, <2>2 DEF Rests
  <1> QED
    BY <1>4, <1>6, <1>8, OneOfOthers DEF Crossing

\* broker_mutex keeps the words of the threads apart (327, 408, 845): for any number of
\* pokemons, trainers, queues and messages, and however often the broker dies, a word is
\* taken for another only where a delivery or the subscriptions of a new connection cross
\* those of a GET or of a trainer, or after the server thread has unlocked it (242).
THEOREM ThreadsStayInStep == Spec => InStep
  <1>1. ASSUME SpeakInv, [Next]_vars
        PROVE  [out_of_step' => out_of_step \/ meddled \/ Crossing]_vars
    <2> SUFFICES ASSUME Next, out_of_step', ~out_of_step, ~meddled PROVE Crossing
      BY <1>1
    <2>1. Typed /\ Idle(Server) /\ MutexHeld /\ LinkTyped(Messages)
      BY <1>1 DEF SpeakInv, GetsInv, Typed
    <2>2. Running
      BY <2>1, OnlyIfRunning
    <2>3. TurnInv(Messages) /\ Ordered /\ Silent
      BY <1>1, <2>2 DEF SpeakInv
    <2>4. ASSUME out_of_step' = out_of_step PROVE FALSE
      BY <2>4
    <2>5. CASE \E t \in Threads, to \in Places : OwnStep(t, to)
      BY <2>4, <2>5, OwnStepOffBroker
    <2>6. CASE Connect(Listener) \/ LoseBroker \/ \E m, answered : Enqueue(m, answered)
      BY <2>4, <2>6 DEF Connect, LinkConnect, LoseBroker, Enqueue
    <2>7. CASE \E c \in opening : SendGets(c)
      BY <2>4, <2>7 DEF SendGets, OffLink, link
    <2>8. CASE \E t \in Threads : SocketStep(t)
      <3>1. PICK t \in Threads : ReceiveWord(t)
        BY <2>4, <2>8 DEF SocketStep, SendWord
      <3> QED
        BY <2>1, <2>3, <3>1, ReceiveInStep
    <2>9. CASE BrokerStep
      <3>1. CASE ReadHeader
        <4>1. Head(to_broker).kind \in Headers
          BY <2>1, <2>3, <3>1, HeadersComeFirst DEF ReadHeader
        <4> QED
          BY <2>4, <3>1, <4>1 DEF ReadHeader
      <3>2. CASE ReadRest
        BY <2>1, <2>3, <3>2, RestInStep
      <3>3. CASE Answer \/ BecomeReady \/ Processed \/ PushHeader \/ PushBody
        BY <2>4, <3>3 DEF Answer, BecomeReady, Processed, PushHeader, PushBody
      <3> QED
        BY <2>9, <3>1, <3>2, <3>3 DEF BrokerStep
    <2> QED
      BY <2>1, <2>5, <2>6, <2>7, <2>8, <2>9, LinkCases
  <1>2. SpeakInv /\ [Next]_vars => [out_of_step' => out_of_step \/ meddled \/ Crossing]_vars
    BY <1>1
  <1> QED
    BY <1>2, SpeakInvInitially, SpeakInvKept, PTL DEF Spec, InStep

-----------------------------------------------------------------------------
(* The ids in a sequence of words; F gives the id of the words that carry one *)

Ids(s, F) == {F[s[i]] : i \in {j \in DOMAIN s : s[j] \in DOMAIN F}}

OnceIn(s, F) ==
  \A i, j \in DOMAIN s :
    s[i] \in DOMAIN F /\ s[j] \in DOMAIN F /\ F[s[i]] = F[s[j]] => i = j

\* A sequence that loses its first word loses that word's id.
LEMMA IdsOfTail ==
  ASSUME NEW W, NEW s \in Seq(W), s # <<>>, NEW F
  PROVE  /\ Ids(Tail(s), F) \subseteq Ids(s, F)
         /\ OnceIn(s, F) => OnceIn(Tail(s), F)
         /\ Head(s) \in DOMAIN F => F[Head(s)] \in Ids(s, F)
         /\ Head(s) \in DOMAIN F /\ OnceIn(s, F) => F[Head(s)] \notin Ids(Tail(s), F)
  <1> DEFINE q == Tail(s)
  <1>1. /\ Len(s) \in Nat \ {0} /\ DOMAIN s = 1..Len(s) /\ Head(s) = s[1]
        /\ DOMAIN q = 1..(Len(s) - 1)
        /\ \A i \in DOMAIN q : i + 1 \in DOMAIN s /\ q[i] = s[i + 1]
    BY HeadAndTail
  <1>2. 1 \in DOMAIN s /\ \A i \in DOMAIN q : i \in Nat /\ i # 0
    BY <1>1
  <1> HIDE DEF q
  <1>3. Ids(q, F) \subseteq Ids(s, F)
    BY <1>1 DEF Ids
  <1>4. Head(s) \in DOMAIN F => F[Head(s)] \in Ids(s, F)
    BY <1>1, <1>2 DEF Ids
  <1>5. ASSUME OnceIn(s, F) PROVE OnceIn(q, F)
    <2> SUFFICES ASSUME NEW i \in DOMAIN q, NEW j \in DOMAIN q,
                        q[i] \in DOMAIN F, q[j] \in DOMAIN F, F[q[i]] = F[q[j]]
                 PROVE  i = j
      BY DEF OnceIn
    <2>1. i + 1 = j + 1
      BY <1>1, <1>5 DEF OnceIn
    <2> QED
      BY <1>2, <2>1
  <1>6. ASSUME OnceIn(s, F), Head(s) \in DOMAIN F PROVE F[Head(s)] \notin Ids(q, F)
    <2> SUFFICES ASSUME NEW i \in DOMAIN q, q[i] \in DOMAIN F, F[q[i]] = F[Head(s)]
                 PROVE  FALSE
      BY DEF Ids
    <2>1. i + 1 = 1
      BY <1>1, <1>2, <1>6 DEF OnceIn
    <2> QED
      BY <1>2, <2>1
  <1> QED
    BY <1>3, <1>4, <1>5, <1>6 DEF q

\* A sequence that gets a word gets its id.
LEMMA IdsOfAppend ==
  ASSUME NEW W, NEW s \in Seq(W), NEW e \in W, NEW F
  PROVE  /\ e \notin DOMAIN F =>
              Ids(Append(s, e), F) = Ids(s, F) /\ (OnceIn(s, F) => OnceIn(Append(s, e), F))
         /\ Ids(Append(s, e), F) \subseteq Ids(s, F) \cup {F[e]}
         /\ F[e] \notin Ids(s, F) /\ OnceIn(s, F) => OnceIn(Append(s, e), F)
  <1> DEFINE q == Append(s, e)
  <1>1. /\ Len(s) \in Nat /\ DOMAIN s = 1..Len(s)
        /\ DOMAIN q = 1..(Len(s) + 1) /\ q[Len(s) + 1] = e
        /\ \A i \in DOMAIN s : q[i] = s[i]
    BY WordAppended
  <1> HIDE DEF q
  <1>2. /\ \A i \in DOMAIN q : (i \in DOMAIN s /\ q[i] = s[i]) \/ (i = Len(s) + 1 /\ q[i] = e)
        /\ DOMAIN s \subseteq DOMAIN q
    BY <1>1
  <1>3. Ids(q, F) \subseteq Ids(s, F) \cup {F[e]}
    BY <1>2 DEF Ids
  <1>4. ASSUME e \notin DOMAIN F PROVE Ids(q, F) = Ids(s, F)
    BY <1>1, <1>2, <1>4 DEF Ids
  <1>5. ASSUME e \notin DOMAIN F \/ F[e] \notin Ids(s, F), OnceIn(s, F)
        PROVE  OnceIn(q, F)
    <2> SUFFICES ASSUME NEW i \in DOMAIN q, NEW j \in DOMAIN q,
                        q[i] \in DOMAIN F, q[j] \in DOMAIN F, F[q[i]] = F[q[j]]
                 PROVE  i = j
      BY DEF OnceIn
    <2>1. CASE i \in DOMAIN s /\ j \in DOMAIN s
      BY <1>1, <1>5, <2>1 DEF OnceIn
    <2>2. CASE i \notin DOMAIN s /\ j \notin DOMAIN s
      BY <1>2, <2>2
    <2>3. ASSUME NEW k \in DOMAIN s, q[k] \in DOMAIN F, F[q[k]] = F[e], e \in DOMAIN F
          PROVE  FALSE
      <3>1. s[k] \in DOMAIN F /\ F[s[k]] = F[e]
        BY <1>1, <2>3
      <3>2. F[s[k]] \in Ids(s, F)
        BY <3>1 DEF Ids
      <3> QED
        BY <1>5, <2>3, <3>1, <3>2
    <2> QED
      BY <1>2, <2>1, <2>2, <2>3
  <1> QED
    BY <1>3, <1>4, <1>5 DEF q

\* No word, no id.
LEMMA IdsOfNothing == ASSUME NEW F PROVE Ids(<<>>, F) = {} /\ OnceIn(<<>>, F)
  BY DEF Ids, OnceIn

-----------------------------------------------------------------------------
(* The answers to the CATCHes, each on its way to its trainer *)

Answers == {"CAUGHT"} \X Nat

\* The words that carry an id.
IdOfWord    == [w \in {x \in WordsBack(Messages) : x.kind = "id" /\ x.value \in Nat} |-> w.value]
IdOfMessage ==
  [w \in {x \in WordsOut(Messages) : x.kind = "message" /\ x.by \in Trainers} |-> w.value]
IdOfAnswer  == [m \in Answers |-> m[2]]
IdOfBody    ==
  [w \in {x \in WordsBack(Messages) : x.kind = "body" /\ x.value \in Answers} |-> w.value[2]]

\* The ids that the broker offers to who has asked for one.
Offered == Ids(to_process, IdOfWord)

\* The trainers that have got an id, and those that have it of the present broker.
HasId(r) ==
  socket[r] # 0 /\ (at[r] \in Over \/ (at[r] = "sent" /\ Len(script[r]) <= 1))

Numbered == {r \in Trainers : HasId(r) /\ socket[r] = connection}

Answerable(r) == Idle(r) /\ (at[r] = "sent" \/ awaiting[r] = got[r])

\* The ids of those that have sent their CATCH and are to be answered.
Open == {got[r] : r \in {x \in Numbered : Answerable(x)}}

\* Where an id can be on its way from the trainer to the listener.
Mailed  == Ids(to_broker, IdOfMessage)
Listed  == {m[2] : m \in {x \in published : x[1] \in Trainers}}
Queued  == Ids(outgoing, IdOfAnswer)
Leaving == IF pushing \in Answers THEN {pushing[2]} ELSE {}
Brought == Ids(to_process, IdOfBody)
Hands   == at[Listener] = "need" \/ (at[Listener] = "received" /\ Idle(Listener))
InHand  == IF Hands /\ got[Listener] \in Answers THEN {got[Listener][2]} ELSE {}

Stations == <<Mailed, Listed, Queued, Leaving, Brought, InHand>>

\* A trainer gets one id, no two get the same, and it waits for no other.
Numbers ==
  /\ \A r \in Trainers : HasId(r) => got[r] \in Nat
  /\ \A r \in Trainers : awaiting[r] # NoId =>
       awaiting[r] = got[r] /\ at[r] \in Over /\ socket[r] # 0
  /\ \A r, q \in Numbered : got[r] = got[q] => r = q

\* The broker gives each id once.
Fresh ==
  /\ OnceIn(to_process, IdOfWord)
  /\ \A r \in Numbered : got[r] \notin Offered
  /\ connected => /\ \A id \in Offered : id < last_message_id
                  /\ \A r \in Numbered : got[r] < last_message_id

\* An id is nowhere twice ...
Single ==
  /\ OnceIn(to_broker, IdOfMessage) /\ OnceIn(outgoing, IdOfAnswer)
  /\ OnceIn(to_process, IdOfBody)
  /\ \A m, n \in published : m[1] \in Trainers /\ n[1] \in Trainers /\ m[2] = n[2] => m = n

\* ... nor in two places.
Apart == \A j, k \in 1..6 : j # k => Stations[j] \cap Stations[k] = {}

Carried == \A k \in 1..6 : Stations[k] \subseteq Open

\* Who sends a CATCH does so on a connection; who has not sent it is on none.
Joined ==
  /\ has_broker_connection => connection # 0
  /\ \A r \in Trainers : /\ at[r] = "lock" => connection # 0
                         /\ at[r] \in {"off", "lock"} => socket[r] = 0
                         /\ at[r] \in {"sent", "unlock"} => socket[r] # 0

\* A broker that died has left nothing to deliver.
Forgotten == ~connected => published = {} /\ outgoing = <<>>

AnswerInv == Numbers /\ Fresh /\ Single /\ Apart /\ Carried /\ Forgotten

\* The six places, and no more.
LEMMA StationsAre ==
  /\ Stations[1] = Mailed /\ Stations[2] = Listed /\ Stations[3] = Queued
  /\ Stations[4] = Leaving /\ Stations[5] = Brought /\ Stations[6] = InHand
  /\ \A k \in 1..6 : k = 1 \/ k = 2 \/ k = 3 \/ k = 4 \/ k = 5 \/ k = 6
  BY DEF Stations

\* An id that goes nowhere, or is lost.
LEMMA StillApart ==
  ASSUME Apart, \A k \in 1..6 : Stations'[k] \subseteq Stations[k] /\ Stations'[k] \subseteq Open'
  PROVE  Apart' /\ Carried'
  BY DEF Apart, Carried

\* An id that comes to a place, and is nowhere else.
LEMMA PassedOn ==
  ASSUME Apart, Carried, Open \subseteq Open', NEW e \in Open', NEW k \in 1..6,
         \A j \in 1..6 : Stations'[j] \subseteq Stations[j] \cup {e},
         \A j \in 1..6 : j # k => e \notin Stations'[j]
  PROVE  Apart' /\ Carried'
  <1>1. Carried'
    BY DEF Carried
  <1>2. ASSUME NEW i \in 1..6, NEW j \in 1..6, i # j, NEW x \in Stations'[i], x \in Stations'[j]
        PROVE  FALSE
    <2>1. x # e
      BY <1>2
    <2>2. x \in Stations[i] /\ x \in Stations[j]
      BY <1>2, <2>1
    <2> QED
      BY <1>2, <2>2 DEF Apart
  <1> QED
    BY <1>1, <1>2 DEF Apart

\* An id in one place is in no other.
LEMMA NotElsewhere ==
  ASSUME Apart, NEW k \in 1..6, NEW e \in Stations[k]
  PROVE  \A j \in 1..6 : j # k => e \notin Stations[j]
  BY DEF Apart

-----------------------------------------------------------------------------
(* What does not concern the answers *)

\* The sequences of the link, and whose ids are in them.
LEMMA WordsTyped ==
  ASSUME Typed
  PROVE  /\ to_broker \in Seq(WordsOut(Messages)) /\ to_process \in Seq(WordsBack(Messages))
         /\ outgoing \in Seq(Messages) /\ last_message_id \in Nat
         /\ Offered \subseteq Nat
         /\ DOMAIN IdOfWord = {x \in WordsBack(Messages) : x.kind = "id" /\ x.value \in Nat}
         /\ DOMAIN IdOfBody = {x \in WordsBack(Messages) : x.kind = "body" /\ x.value \in Answers}
         /\ DOMAIN IdOfMessage =
              {x \in WordsOut(Messages) : x.kind = "message" /\ x.by \in Trainers}
         /\ DOMAIN IdOfAnswer = Answers
         /\ \A x \in DOMAIN IdOfWord : IdOfWord[x] = x.value
         /\ \A x \in DOMAIN IdOfBody : IdOfBody[x] = x.value[2]
         /\ \A x \in DOMAIN IdOfMessage : IdOfMessage[x] = x.value
         /\ \A x \in DOMAIN IdOfAnswer : IdOfAnswer[x] = x[2]
  <1>1. /\ DOMAIN IdOfWord = {x \in WordsBack(Messages) : x.kind = "id" /\ x.value \in Nat}
        /\ \A x \in DOMAIN IdOfWord : IdOfWord[x] = x.value
    BY DEF IdOfWord
  <1>2. Offered \subseteq Nat
    BY <1>1 DEF Offered, Ids
  <1>3. /\ DOMAIN IdOfBody = {x \in WordsBack(Messages) : x.kind = "body" /\ x.value \in Answers}
        /\ \A x \in DOMAIN IdOfBody : IdOfBody[x] = x.value[2]
    BY DEF IdOfBody
  <1>4. /\ DOMAIN IdOfMessage =
             {x \in WordsOut(Messages) : x.kind = "message" /\ x.by \in Trainers}
        /\ \A x \in DOMAIN IdOfMessage : IdOfMessage[x] = x.value
    BY DEF IdOfMessage
  <1>5. DOMAIN IdOfAnswer = Answers /\ \A x \in DOMAIN IdOfAnswer : IdOfAnswer[x] = x[2]
    BY DEF IdOfAnswer
  <1>6. /\ to_broker \in Seq(WordsOut(Messages)) /\ to_process \in Seq(WordsBack(Messages))
        /\ outgoing \in Seq(Messages) /\ last_message_id \in Nat
    BY DEF Typed, LinkTyped, StreamsTyped, BrokerTyped
  <1> QED
    BY <1>1, <1>2, <1>3, <1>4, <1>5, <1>6

\* What a trainer, its place and its script are, for the answers.
Steady(r) ==
  UNCHANGED <<at[r], got[r], script[r], socket[r], awaiting[r]>>

\* A step that leaves the trainers alone.
LEMMA TrainersAside ==
  ASSUME Numbers, UNCHANGED connection, \A r \in Trainers : Steady(r)
  PROVE  /\ Numbers' /\ Numbered' = Numbered /\ Open' = Open
         /\ \A r \in Trainers : got'[r] = got[r]
  <1>1. \A r \in Trainers : /\ at'[r] = at[r] /\ got'[r] = got[r] /\ script'[r] = script[r]
                            /\ socket'[r] = socket[r] /\ awaiting'[r] = awaiting[r]
    BY DEF Steady
  <1>2. \A r \in Trainers : HasId(r)' <=> HasId(r)
    BY <1>1 DEF HasId
  <1>3. Numbered' = Numbered
    BY <1>1, <1>2 DEF Numbered
  <1>4. \A r \in Trainers : Answerable(r)' <=> Answerable(r)
    BY <1>1 DEF Answerable, Idle
  <1>5. Open' = Open
    BY <1>1, <1>3, <1>4 DEF Open, Numbered
  <1>6. Numbers'
    BY <1>1, <1>2, <1>3 DEF Numbers, Numbered
  <1> QED
    BY <1>1, <1>3, <1>5, <1>6

\* No id more is offered or got.
LEMMA FreshStill ==
  ASSUME Fresh, OnceIn(to_process', IdOfWord), Offered' \subseteq Offered,
         \A r \in Numbered' : r \in Numbered /\ got'[r] = got[r],
         connected' => connected /\ last_message_id' = last_message_id
  PROVE  Fresh'
  BY DEF Fresh

\* A step that leaves alone what is on its way, and the trainers or all that they hold.
LEMMA NothingMoves ==
  ASSUME AnswerInv, Numbers', Open \subseteq Open',
         \A r \in Numbered' : r \in Numbered /\ got'[r] = got[r],
         InHand' \subseteq InHand,
         UNCHANGED <<to_broker, to_process, outgoing, pushing, published, connected,
                     last_message_id>>
  PROVE  AnswerInv'
  <1>1. /\ Mailed' = Mailed /\ Listed' = Listed /\ Queued' = Queued /\ Leaving' = Leaving
        /\ Brought' = Brought /\ Offered' = Offered
    BY DEF Mailed, Listed, Queued, Leaving, Brought, Offered
  <1>2. \A k \in 1..6 : Stations'[k] \subseteq Stations[k]
    BY <1>1 DEF Stations
  <1>3. Apart' /\ Carried'
    BY <1>2, StillApart DEF AnswerInv, Carried
  <1>4. Fresh'
    BY <1>1, FreshStill DEF AnswerInv, Fresh
  <1>5. Single' /\ Forgotten'
    BY DEF AnswerInv, Single, Forgotten
  <1> QED
    BY <1>3, <1>4, <1>5 DEF AnswerInv

\* The listener goes where it takes no message, or has the one it had.
LEMMA HandsMove ==
  ASSUME \/ ~Hands'
         \/ UNCHANGED <<at[Listener], script[Listener], got[Listener]>>
         \/ Hands /\ got'[Listener] = got[Listener]
  PROVE  InHand' \subseteq InHand
  <1>1. CASE ~Hands'
    BY <1>1 DEF InHand
  <1>2. CASE UNCHANGED <<at[Listener], script[Listener], got[Listener]>>
    BY <1>2 DEF InHand, Hands, Idle
  <1>3. CASE Hands /\ got'[Listener] = got[Listener]
    BY <1>3 DEF InHand
  <1> QED
    BY <1>1, <1>2, <1>3

-----------------------------------------------------------------------------
(* The steps off the socket *)

\* What is on its way, and what the listener has read.
Delivery ==
  <<to_broker, to_process, outgoing, pushing, published, connected, connection,
    last_message_id, got>>

\* A trainer that has an id keeps it and waits for its answer.
LEMMA OneTrainerMoves ==
  ASSUME Typed, AnswerInv, NEW t \in Trainers, \A r \in Trainers \ {t} : Steady(r),
         UNCHANGED Delivery, UNCHANGED <<at[Listener], script[Listener]>>,
         HasId(t)' <=> HasId(t),
         HasId(t) => socket'[t] = socket[t] /\ (Answerable(t) => Answerable(t)'),
         awaiting'[t] # NoId =>
           awaiting'[t] = got[t] /\ at'[t] \in Over /\ socket'[t] # 0
  PROVE  AnswerInv'
  <1>1. /\ UNCHANGED <<to_broker, to_process, outgoing, pushing, published, connected,
                       last_message_id, connection, got>>
        /\ UNCHANGED <<at[Listener], script[Listener], got[Listener]>>
    BY DEF Delivery
  <1>2. \A r \in Trainers : r # t =>
          /\ at'[r] = at[r] /\ script'[r] = script[r] /\ socket'[r] = socket[r]
          /\ awaiting'[r] = awaiting[r] /\ (Answerable(r)' <=> Answerable(r))
          /\ HasId(r)' <=> HasId(r)
    BY <1>1 DEF Steady, Answerable, Idle, HasId
  <1>3. Numbered' = Numbered
    BY <1>1, <1>2 DEF Numbered
  <1>4. Numbers'
    <2>1. \A r \in Trainers : HasId(r)' => got'[r] \in Nat
      BY <1>1, <1>2 DEF AnswerInv, Numbers
    <2>2. \A r \in Trainers : awaiting'[r] # NoId =>
            awaiting'[r] = got'[r] /\ at'[r] \in Over /\ socket'[r] # 0
      BY <1>1, <1>2 DEF AnswerInv, Numbers
    <2> QED
      BY <1>1, <1>3, <2>1, <2>2 DEF AnswerInv, Numbers
  <1>5. Open \subseteq Open'
    BY <1>1, <1>2, <1>3 DEF Open, Numbered
  <1>6. InHand' \subseteq InHand
    BY <1>1, HandsMove
  <1> QED
    BY <1>1, <1>3, <1>4, <1>5, <1>6, NothingMoves

\* A trainer on its way, that sends its CATCH, notes its id, and unlocks.
LEMMA TrainerKeepsAnswers ==
  ASSUME Typed, Joined, AnswerInv, NEW t \in Trainers, TrainerStep(t) \/ Arrive(t)
  PROVE  AnswerInv'
  <1>0. /\ t \in Threads /\ t # Listener /\ Listener \in Threads
        /\ \A r \in Trainers : r \in Threads
        /\ at \in [Threads -> Places] /\ awaiting \in [Trainers -> {NoId} \cup Nat]
        /\ script \in [Threads -> Seq(ScriptStep)] /\ socket \in [Threads -> Nat]
    BY Kin DEF Typed, Placed, Counters, LinkTyped, EndsTyped
  <1>1. PICK to \in TrainerPlaces : OwnStep(t, to)
    BY TrainerMoves
  <1>2. UNCHANGED Delivery
    BY <1>1, OwnStepOffBroker DEF Delivery, stream, broker
  <1>3. /\ at' = [at EXCEPT ![t] = to] /\ Idle(t)
        /\ \A r \in Threads \ {t} : script'[r] = script[r] /\ socket'[r] = socket[r]
    BY <1>0, <1>1 DEF OwnStep, Goto, OffLink, link, ends, Says, Start
  <1>4. \A r \in Trainers \ {t} : awaiting'[r] = awaiting[r]
    BY <1>0 DEF TrainerStep, LockAndSend, Await, Unlock, Arrive, Asks, Moves, Steps
  <1>5. UNCHANGED <<at[Listener], script[Listener]>> /\ \A r \in Trainers \ {t} : Steady(r)
    BY <1>0, <1>2, <1>3, <1>4 DEF Steady, Delivery
  <1>6. awaiting[t] # NoId => awaiting[t] = got[t] /\ at[t] \in Over /\ socket[t] # 0
    BY DEF AnswerInv, Numbers
  <1>7. at[t] \in {"off", "lock"} => ~HasId(t) /\ awaiting[t] = NoId /\ socket[t] = 0
    BY <1>6 DEF HasId, Over, Joined
  <1>8. CASE Arrive(t)
    <2>1. /\ at[t] = "off" /\ awaiting' = awaiting /\ UNCHANGED <<script, socket>>
      BY <1>8 DEF Arrive, Moves, Steps, At, OffLink, link, ends
    <2>2. ~HasId(t)' /\ ~HasId(t) /\ awaiting'[t] = NoId
      BY <1>7, <2>1 DEF HasId
    <2> QED
      BY <1>2, <1>5, <2>2, OneTrainerMoves
  <1>9. CASE LockAndSend(t)
    <2>1. /\ at[t] = "lock" /\ at'[t] = "sent" /\ awaiting' = awaiting
          /\ script'[t] = send_pokemon_message
      BY <1>0, <1>9 DEF LockAndSend, Asks, Steps, At, Goto, Says, Start
    <2>2. Len(send_pokemon_message) = 3
      BY DEF send_pokemon_message
    <2>3. ~HasId(t)' /\ ~HasId(t) /\ awaiting'[t] = NoId
      BY <1>7, <2>1, <2>2 DEF HasId, Over
    <2> QED
      BY <1>2, <1>5, <2>3, OneTrainerMoves
  <1>10. CASE Await(t)
    <2>1. /\ at[t] = "sent" /\ at'[t] = "unlock" /\ awaiting'[t] = got[t]
          /\ UNCHANGED <<script, socket, got>>
      BY <1>0, <1>10 DEF Await, At, Goto, OffLink, link, ends
    <2>2. Answerable(t)'
      BY <1>3, <2>1 DEF Answerable, Idle
    <2>3. HasId(t)' /\ HasId(t) /\ socket'[t] # 0 /\ at'[t] \in Over
      <3>1. Len(script[t]) = 0
        BY <1>3 DEF Idle
      <3> QED
        BY <2>1, <3>1 DEF HasId, Over, Joined
    <2> QED
      BY <1>2, <1>5, <2>1, <2>2, <2>3, OneTrainerMoves
  <1>11. CASE Unlock(t)
    <2>1. /\ at[t] = "unlock" /\ at'[t] = "done" /\ awaiting' = awaiting
          /\ UNCHANGED <<script, socket, got>>
      BY <1>0, <1>11 DEF Unlock, Moves, Steps, At, Goto, OffLink, link, ends
    <2>2. Answerable(t) => Answerable(t)'
      BY <2>1 DEF Answerable, Idle
    <2>3. HasId(t)' /\ HasId(t) /\ at'[t] \in Over
      BY <2>1 DEF HasId, Over, Joined
    <2> QED
      BY <1>2, <1>5, <1>6, <2>1, <2>2, <2>3, OneTrainerMoves
  <1> QED
    BY <1>8, <1>9, <1>10, <1>11 DEF TrainerStep

\* Another thread, where it does not come to hold a message.
LEMMA OtherKeepsAnswers ==
  ASSUME Typed, AnswerInv, NEW t \in Threads \ Trainers, NEW to, OwnStep(t, to),
         UNCHANGED awaiting, t = Listener => ~Hands' \/ Hands
  PROVE  AnswerInv'
  <1>0. /\ Listener \in Threads /\ \A r \in Trainers : r \in Threads
        /\ at \in [Threads -> Places]
        /\ script \in [Threads -> Seq(ScriptStep)] /\ socket \in [Threads -> Nat]
    BY Kin DEF Typed, Placed, LinkTyped, EndsTyped
  <1>1. UNCHANGED Delivery
    BY OwnStepOffBroker DEF Delivery, stream, broker
  <1>2. \A r \in Threads \ {t} :
          at'[r] = at[r] /\ script'[r] = script[r] /\ socket'[r] = socket[r]
    BY <1>0 DEF OwnStep, Goto, OffLink, link, ends, Says, Start
  <1>3. \A r \in Trainers : Steady(r)
    BY <1>0, <1>1, <1>2 DEF Steady, Delivery
  <1>4. InHand' \subseteq InHand
    BY <1>0, <1>1, <1>2, HandsMove DEF Delivery
  <1>5. UNCHANGED <<to_broker, to_process, outgoing, pushing, published, connected,
                    connection, last_message_id>>
    BY <1>1 DEF Delivery
  <1>6. /\ Numbers' /\ Numbered' = Numbered /\ Open' = Open
        /\ \A r \in Trainers : got'[r] = got[r]
    BY <1>3, <1>5, TrainersAside DEF AnswerInv
  <1> QED
    BY <1>4, <1>5, <1>6, NothingMoves DEF Numbered

\* The listener, that acknowledges the message it has received.
LEMMA ListenerKeepsAnswers ==
  ASSUME Typed, AnswerInv, ListenerStep(Listener), ~Connect(Listener), ~Process(Listener)
  PROVE  AnswerInv'
  <1> USE DEF Moves, Asks, Steps, At, Goto
  <1>0. /\ Listener \in Threads \ Trainers /\ Listener \in Threads
        /\ at \in [Threads -> Places] /\ script \in [Threads -> Seq(ScriptStep)]
    BY Kin DEF Typed, Placed, LinkTyped, EndsTyped
  <1>1. PICK to \in ListenerPlaces : OwnStep(Listener, to)
    BY ListenerMoves DEF Typed
  <1>2. CASE Receive(Listener)
    <2>1. script' = [script EXCEPT ![Listener] = receive_pokemon_message]
          /\ at' = [at EXCEPT ![Listener] = "received"] /\ awaiting' = awaiting
      BY <1>2 DEF Receive, Says, Start
    <2>2. script'[Listener] = receive_pokemon_message /\ at'[Listener] = "received"
      BY <1>0, <2>1
    <2>3. receive_pokemon_message # <<>>
      BY DEF receive_pokemon_message
    <2>4. ~Hands'
      BY <2>2, <2>3 DEF Hands, Idle
    <2> QED
      BY <1>0, <1>1, <2>1, <2>4, OtherKeepsAnswers
  <1>3. CASE Acknowledge(Listener)
    <2>1. Hands /\ awaiting' = awaiting
      BY <1>3 DEF Acknowledge, Hands
    <2> QED
      BY <1>0, <1>1, <2>1, OtherKeepsAnswers
  <1>4. CASE ~Receive(Listener) /\ ~Acknowledge(Listener)
    <2>1. /\ at'[Listener] \notin {"received", "need"}
          /\ awaiting' = awaiting
      BY <1>0, <1>4
      DEF ListenerStep, Restart, Subscribe, NeedGets, CloseGate, PassGate, Peek, LockBroker,
          KeepBroker, Processes, EndOfMessage, NeedOver, UnlockAfter, OpenAfter
    <2>2. ~Hands'
      BY <2>1 DEF Hands
    <2> QED
      BY <1>0, <1>1, <2>1, <2>2, OtherKeepsAnswers
  <1> QED
    BY <1>2, <1>3, <1>4

\* A CAUGHT that is processed is no longer on its way, and only its trainer forgets its id.
LEMMA ProcessKeepsAnswers ==
  ASSUME Typed, AnswerInv, Process(Listener)
  PROVE  AnswerInv'
  <1>0. /\ Listener \in Threads /\ \A r \in Trainers : r \in Threads /\ r # Listener
        /\ at \in [Threads -> Places] /\ awaiting \in [Trainers -> {NoId} \cup Nat]
    BY Kin DEF Typed, Placed, Counters
  <1>1. /\ at[Listener] = "need" /\ at' = [at EXCEPT ![Listener] = "processed"]
        /\ awaiting' = [r \in Trainers |->
             IF got[Listener] = <<"CAUGHT", awaiting[r]>> THEN NoId ELSE awaiting[r]]
        /\ UNCHANGED <<script, socket>> /\ UNCHANGED Delivery
    BY DEF Process, At, Goto, OffLink, link, ends, stream, broker, Delivery
  <1>2. UNCHANGED <<to_broker, to_process, outgoing, pushing, published, connected,
                    connection, last_message_id, got>>
    BY <1>1 DEF Delivery
  <1>3. Hands /\ ~Hands' /\ \A r \in Trainers : at'[r] = at[r]
    BY <1>0, <1>1 DEF Hands
  <1>4. Numbered' = Numbered /\ \A r \in Trainers : HasId(r)' <=> HasId(r)
    BY <1>1, <1>2, <1>3 DEF Numbered, HasId
  <1>5. \A r \in Trainers : awaiting'[r] \in {NoId, awaiting[r]}
    BY <1>1
  <1>6. Numbers'
    <2>1. \A r \in Trainers : HasId(r)' => got'[r] \in Nat
      BY <1>2, <1>4 DEF AnswerInv, Numbers
    <2>2. \A r \in Trainers : awaiting'[r] # NoId =>
            awaiting'[r] = got'[r] /\ at'[r] \in Over /\ socket'[r] # 0
      BY <1>1, <1>2, <1>3, <1>5 DEF AnswerInv, Numbers
    <2> QED
      BY <1>2, <1>4, <2>1, <2>2 DEF AnswerInv, Numbers
  <1>7. Fresh' /\ Single' /\ Forgotten'
    <2>1. Fresh'
      BY <1>2, <1>4, FreshStill DEF AnswerInv, Fresh, Offered, Numbered
    <2> QED
      BY <1>2, <2>1 DEF AnswerInv, Single, Forgotten
  <1>8. Mailed' = Mailed /\ Listed' = Listed /\ Queued' = Queued /\ Leaving' = Leaving
        /\ Brought' = Brought /\ InHand' = {}
    BY <1>2, <1>3 DEF Mailed, Listed, Queued, Leaving, Brought, InHand
  <1>9. ASSUME NEW k \in 1..6, NEW id \in Stations'[k] PROVE id \in Stations[k] /\ id \in Open'
    <2>1. id \in Stations[k] /\ k # 6
      BY <1>8, <1>9 DEF Stations
    <2>2. id \notin InHand
      BY <2>1, StationsAre, NotElsewhere DEF AnswerInv
    <2>3. PICK r \in Numbered : id = got[r] /\ Answerable(r)
      BY <2>1 DEF AnswerInv, Carried, Open
    <2>4. Idle(r)' /\ r \in Trainers /\ at'[r] = at[r] /\ got'[r] = got[r]
      BY <1>1, <1>2, <1>3, <2>3 DEF Numbered, Answerable, Idle
    <2>5. Answerable(r)' => id \in Open'
      <3>1. r \in Numbered'
        BY <1>4, <2>3
      <3> QED
        BY <2>3, <2>4, <3>1 DEF Open, Numbered
    <2>6. CASE at[r] = "sent"
      BY <2>1, <2>4, <2>5, <2>6 DEF Answerable, Idle
    <2>7. CASE awaiting[r] = got[r]
      <3>1. got[Listener] # <<"CAUGHT", awaiting[r]>>
        <4> SUFFICES ASSUME got[Listener] = <<"CAUGHT", id>> PROVE FALSE
          BY <2>3, <2>7
        <4>1. id \in Nat
          BY <2>3 DEF AnswerInv, Numbers, Numbered
        <4>2. got[Listener] \in Answers /\ got[Listener][2] = id
          BY <4>1 DEF Answers
        <4> QED
          BY <1>3, <2>2, <4>2 DEF InHand
      <3>2. awaiting'[r] = got'[r]
        BY <1>1, <2>4, <2>7, <3>1
      <3> QED
        BY <2>1, <2>4, <2>5, <3>2 DEF Answerable, Idle
    <2> QED
      BY <2>1, <2>3, <2>6, <2>7 DEF Answerable
  <1>10. Apart' /\ Carried'
    BY <1>9, StillApart DEF AnswerInv
  <1> QED
    BY <1>6, <1>7, <1>10 DEF AnswerInv

\* The GETs are other threads.
LEMMA SendGetsKeepsAnswers ==
  ASSUME Typed, Connections, AnswerInv, NEW c \in opening, SendGets(c)
  PROVE  AnswerInv'
  <1>0. /\ Listener \in Threads /\ \A r \in Trainers : r \in Threads
        /\ \A t \in Gets(c) : t \notin Trainers /\ t # Listener
    <2>1. c \in Rounds
      BY OfferedRounds
    <2>2. \A t \in Gets(c) : t \in GetThreads
      BY <2>1, Kin DEF Gets
    <2> QED
      BY <2>2, Kin
  <1>1. /\ UNCHANGED <<script, socket, awaiting>> /\ UNCHANGED Delivery
        /\ \A t \in Threads \ Gets(c) : at'[t] = at[t]
    BY DEF SendGets, OffLink, link, ends, stream, broker, Delivery
  <1>2. UNCHANGED <<to_broker, to_process, outgoing, pushing, published, connected,
                    connection, last_message_id, got>>
    BY <1>1 DEF Delivery
  <1>3. \A r \in Trainers : Steady(r)
    BY <1>0, <1>1, <1>2 DEF Steady
  <1>4. InHand' \subseteq InHand
    BY <1>0, <1>1, <1>2, HandsMove
  <1>5. Numbers' /\ Numbered' = Numbered /\ Open' = Open
    BY <1>2, <1>3, TrainersAside DEF AnswerInv
  <1> QED
    BY <1>2, <1>4, <1>5, NothingMoves

\* On a new connection there is neither an id nor an answer.
LEMMA ConnectKeepsAnswers ==
  ASSUME Typed, Connections, AnswerInv, LeftNothing, Connect(Listener)
  PROVE  AnswerInv'
  <1>0. /\ Listener \in Threads /\ \A r \in Trainers : r \in Threads /\ r # Listener
        /\ at \in [Threads -> Places] /\ socket \in [Threads -> Nat] /\ connection \in Nat
    BY Kin DEF Typed, Placed, LinkTyped, EndsTyped
  <1>1. /\ ~connected /\ connection' = connection + 1 /\ to_process' = <<>>
        /\ UNCHANGED <<to_broker, outgoing, pushing, published, script, socket, got, awaiting>>
        /\ at' = [at EXCEPT ![Listener] = "subscribe"]
    BY DEF Connect, LinkConnect, Goto, ends, broker
  <1>2. to_broker = <<>> /\ outgoing = <<>> /\ pushing = Nothing /\ published = {}
    BY <1>1 DEF LeftNothing, AnswerInv, Forgotten
  <1>3. Numbered' = {}
    <2>1. \A r \in Trainers : socket'[r] # connection'
      <3> SUFFICES ASSUME NEW r \in Trainers PROVE socket[r] # connection + 1
        BY <1>1
      <3>1. socket[r] \in Nat /\ socket[r] <= connection
        BY <1>0 DEF LeftNothing
      <3> QED
        BY <1>0, <3>1
    <2> QED
      BY <2>1 DEF Numbered
  <1>4. ~Hands'
    BY <1>0, <1>1 DEF Hands
  <1>5. Nothing \notin Answers
    BY DEF Nothing, Answers
  <1>6. Offered' = {} /\ OnceIn(to_process', IdOfWord)
    BY <1>1, IdsOfNothing DEF Offered
  <1>7. /\ Mailed' = {} /\ Listed' = {} /\ Queued' = {} /\ Leaving' = {} /\ Brought' = {}
        /\ InHand' = {}
    BY <1>1, <1>2, <1>4, <1>5, IdsOfNothing
    DEF Mailed, Listed, Queued, Leaving, Brought, InHand
  <1>8. \A k \in 1..6 : Stations'[k] = {}
    BY <1>7 DEF Stations
  <1>9. Apart' /\ Carried'
    BY <1>8, StillApart DEF AnswerInv
  <1>10. Single' /\ Forgotten'
    BY <1>1, <1>2, IdsOfNothing DEF Single, Forgotten
  <1>11. Fresh'
    BY <1>3, <1>6 DEF Fresh
  <1>12. Numbers'
    <2>1. \A r \in Trainers : at'[r] = at[r]
      BY <1>0, <1>1
    <2>2. \A r \in Trainers : HasId(r)' <=> HasId(r)
      BY <1>1, <2>1 DEF HasId
    <2> QED
      BY <1>1, <1>3, <2>1, <2>2 DEF AnswerInv, Numbers
  <1> QED
    BY <1>9, <1>10, <1>11, <1>12 DEF AnswerInv

-----------------------------------------------------------------------------
(* The steps on the socket *)

\* What is left of a script says which word is next.
LEMMA NextByLength ==
  ASSUME Typed, NEW t \in Threads, ~Idle(t)
  PROVE  /\ script[t] \in Seq(ScriptStep) /\ script[t] # <<>> /\ at[t] \in Places
         /\ Len(script[t]) \in Nat \ {0} /\ Len(script[t]) <= Len(Called(at[t]))
         /\ Len(Called(at[t])) \in Nat
         /\ Head(script[t]) = Called(at[t])[Len(Called(at[t])) - Len(script[t]) + 1]
  <1>1. script[t] \in Seq(ScriptStep) /\ script[t] # <<>> /\ at[t] \in Places
    BY DEF Typed, LinkTyped, EndsTyped, Idle, Placed
  <1>2. Len(script[t]) \in Nat \ {0} /\ Head(script[t]) = script[t][1] /\ 1 \in DOMAIN script[t]
    BY <1>1, HeadAndTail
  <1> DEFINE f == Called(at[t])
  <1>3. f \in Seq(ScriptStep)
    BY <1>1, CalledTyped
  <1>4. Len(script[t]) <= Len(f) /\ script[t][1] = f[Len(f) - Len(script[t]) + 1]
    BY <1>2 DEF Typed, ScriptsPlaced, LeftOf
  <1>5. Len(f) \in Nat
    BY <1>3
  <1> HIDE DEF f
  <1> QED
    BY <1>1, <1>2, <1>4, <1>5 DEF f

\* The listener receives a message whole, and then acknowledges it.
LEMMA HandsWords ==
  ASSUME Typed, ~Idle(Listener)
  PROVE  /\ at[Listener] = "received" =>
              /\ Head(script[Listener]).op = "recv"
              /\ Len(script[Listener]) = 1 => Head(script[Listener]).kind = "body"
         /\ at[Listener] = "need" => Head(script[Listener]).op = "send"
  <1> DEFINE f == Called(at[Listener])  n == Len(script[Listener])
  <1>1. /\ n \in Nat \ {0} /\ n <= Len(f) /\ Len(f) \in Nat
        /\ Head(script[Listener]) = f[Len(f) - n + 1]
    BY NextByLength, Kin
  <1>2. ASSUME at[Listener] = "received"
        PROVE  Len(f) = 2 /\ f[1] = recv("header") /\ f[2] = recv("body")
    BY <1>2 DEF Called, receive_pokemon_message
  <1>3. ASSUME at[Listener] = "need"
        PROVE  Len(f) = 2 /\ f[1] = send("MESSAGE_ACK") /\ f[2] = send("acknowledged")
    BY <1>3 DEF Called, send_message_acknowledge
  <1> HIDE DEF f, n
  <1>4. Len(f) = 2 => Len(f) - n + 1 = 3 - n /\ n \in {1, 2}
    BY <1>1
  <1>5. Len(f) = 2 => (n = 1 /\ Len(f) - n + 1 = 2) \/ (n = 2 /\ Len(f) - n + 1 = 1)
    BY <1>1, <1>4
  <1>6. recv("header").op = "recv" /\ recv("body").op = "recv" /\ recv("body").kind = "body"
        /\ send("MESSAGE_ACK").op = "send" /\ send("acknowledged").op = "send"
    BY DEF send, recv
  <1>7. at[Listener] = "received" =>
          /\ Head(script[Listener]) = recv("header") \/ Head(script[Listener]) = recv("body")
          /\ n = 1 => Head(script[Listener]) = recv("body")
    BY <1>1, <1>2, <1>5
  <1>8. at[Listener] = "need" =>
          Head(script[Listener]) \in {send("MESSAGE_ACK"), send("acknowledged")}
    BY <1>1, <1>3, <1>5
  <1> QED
    BY <1>6, <1>7, <1>8 DEF n

\* A trainer reads nothing but its id, and has nothing to do then but to send its CATCH.
LEMMA TrainerWords ==
  ASSUME Typed, NEW t \in Trainers, ~Idle(t)
  PROVE  /\ at[t] = "sent"
         /\ Head(script[t]).op = "recv" =>
              Head(script[t]).kind = "id" /\ Len(Tail(script[t])) <= 1 /\ Len(script[t]) > 1
         /\ Head(script[t]).op = "send" => (Len(Tail(script[t])) <= 1 <=> Len(script[t]) <= 1)
  <1>1. t \in Threads /\ at[t] \in TrainerPlaces
    BY Kin DEF Typed, Placed
  <1> DEFINE f == Called(at[t])  n == Len(script[t])
  <1>2. /\ n \in Nat \ {0} /\ n <= Len(f) /\ Len(f) \in Nat
        /\ Head(script[t]) = f[Len(f) - n + 1]
    BY <1>1, NextByLength
  <1>3. Len(Tail(script[t])) = n - 1
    BY <1>1, NextByLength, HeadAndTail
  <1>4. at[t] = "sent"
    <2>1. at[t] # "sent" => f = <<>>
      BY <1>1 DEF TrainerPlaces, Called
    <2>2. f # <<>>
      BY <1>2
    <2> QED
      BY <2>1, <2>2
  <1>5. Len(f) = 3 /\ f[1] = send("NEW_MESSAGE") /\ f[2] = recv("id") /\ f[3] = send("message")
    BY <1>4 DEF Called, send_pokemon_message
  <1> HIDE DEF f, n
  <1>6. \/ n = 3 /\ Len(f) - n + 1 = 1 /\ ~(n - 1 <= 1) /\ ~(n <= 1)
        \/ n = 2 /\ Len(f) - n + 1 = 2 /\ n - 1 <= 1 /\ n > 1
        \/ n = 1 /\ Len(f) - n + 1 = 3 /\ n - 1 <= 1 /\ n <= 1
    <2>1. n \in {1, 2, 3}
      BY <1>2, <1>5
    <2> QED
      BY <1>5, <2>1
  <1>7. send("NEW_MESSAGE").op = "send" /\ send("message").op = "send"
        /\ recv("id").op = "recv" /\ recv("id").kind = "id"
    BY DEF send, recv
  <1> QED
    BY <1>2, <1>3, <1>4, <1>5, <1>6, <1>7 DEF n

\* A word sent by another, or that is lost, carries no id of a trainer.
LEMMA SendKeepsAnswers ==
  ASSUME Typed, Joined, AnswerInv, NEW t \in Threads, SendWord(t), UNCHANGED <<at, awaiting>>
  PROVE  AnswerInv'
  <1>0. /\ Listener \in Threads /\ \A r \in Trainers : r \in Threads /\ r # Listener
        /\ script \in [Threads -> Seq(ScriptStep)]
    BY Kin DEF Typed, LinkTyped, EndsTyped
  <1>1. /\ ~Idle(t) /\ Head(script[t]).op = "send"
        /\ script' = [script EXCEPT ![t] = Tail(script[t])]
        /\ UNCHANGED <<connected, connection, to_process, socket, got, outgoing, pushing,
                       last_message_id, published>>
    BY DEF SendWord, broker
  <1>2. script[t] # <<>> /\ script[t] \in Seq(ScriptStep)
    BY <1>0, <1>1 DEF Idle
  <1>3. /\ script'[t] = Tail(script[t]) /\ Len(Tail(script[t])) = Len(script[t]) - 1
        /\ Len(script[t]) \in Nat
        /\ \A r \in Threads \ {t} : script'[r] = script[r]
    BY <1>0, <1>1, <1>2, HeadAndTail
  <1>4. Numbered' = Numbered /\ \A r \in Trainers : HasId(r)' <=> HasId(r)
    <2>1. \A r \in Trainers : r # t => (HasId(r)' <=> HasId(r))
      BY <1>0, <1>1, <1>3 DEF HasId
    <2>2. t \in Trainers => (HasId(t)' <=> HasId(t))
      <3>1. t \in Trainers => (Len(Tail(script[t])) <= 1 <=> Len(script[t]) <= 1)
        BY <1>1, TrainerWords
      <3> QED
        BY <1>1, <1>3, <3>1 DEF HasId
    <2> QED
      BY <1>1, <2>1, <2>2 DEF Numbered
  <1>5. \A r \in Numbered : Answerable(r) => Answerable(r)'
    <2> SUFFICES ASSUME NEW r \in Numbered, Answerable(r)
                 PROVE  Idle(r)' /\ (at'[r] = "sent" \/ awaiting'[r] = got'[r])
      BY DEF Answerable, Idle
    <2>1. r # t /\ r \in Threads
      BY <1>0, <1>1 DEF Answerable, Numbered
    <2>2. script'[r] = script[r]
      BY <1>3, <2>1
    <2> QED
      BY <1>1, <2>2 DEF Answerable, Idle
  <1>6. Open \subseteq Open'
    BY <1>1, <1>4, <1>5 DEF Open
  <1>7. Numbers'
    BY <1>1, <1>4 DEF AnswerInv, Numbers
  <1>8. InHand' \subseteq InHand
    <2>1. CASE t # Listener
      BY <1>0, <1>1, <1>3, <2>1, HandsMove
    <2>2. CASE t = Listener
      <3>1. at[Listener] # "received"
        BY <1>1, <2>2, HandsWords
      <3>2. Hands' => Hands
        BY <3>1 DEF Hands
      <3> QED
        BY <1>1, <3>2, HandsMove
    <2> QED
      BY <2>1, <2>2
  <1>9. CASE to_broker' = to_broker
    BY <1>1, <1>4, <1>6, <1>7, <1>8, <1>9, NothingMoves
  <1>10. CASE Reaches(t) /\ to_broker' = Append(to_broker, Word(t))
    <2> DEFINE w == Word(t)
    <2>1. /\ w \in WordsOut(Messages) /\ w.by = t /\ w.kind = Head(script[t]).kind
          /\ w.kind = "message" => w.value = got[t]
      BY <1>1, WordTyped DEF Typed, Word
    <2> HIDE DEF w
    <2>2. Fresh' /\ Forgotten'
      BY <1>1, <1>4, FreshStill DEF AnswerInv, Fresh, Offered, Forgotten
    <2>3. /\ Listed' = Listed /\ Queued' = Queued /\ Leaving' = Leaving /\ Brought' = Brought
      BY <1>1 DEF Listed, Queued, Leaving, Brought
    <2>4. to_broker \in Seq(WordsOut(Messages)) /\ to_broker' = Append(to_broker, w)
      BY <1>10, WordsTyped DEF w
    <2>5. CASE w \notin DOMAIN IdOfMessage
      <3>1. Mailed' = Mailed /\ OnceIn(to_broker', IdOfMessage)
        BY <2>1, <2>4, <2>5, IdsOfAppend DEF Mailed, AnswerInv, Single
      <3>2. \A k \in 1..6 : Stations'[k] \subseteq Stations[k]
        BY <1>8, <2>3, <3>1 DEF Stations
      <3>3. Apart' /\ Carried'
        BY <1>6, <3>2, StillApart DEF AnswerInv, Carried
      <3>4. Single'
        BY <1>1, <3>1 DEF AnswerInv, Single
      <3> QED
        BY <1>7, <2>2, <3>3, <3>4 DEF AnswerInv
    <2>6. CASE w \in DOMAIN IdOfMessage
      <3>1. w.kind = "message" /\ t \in Trainers /\ IdOfMessage[w] = got[t]
        BY <2>1, <2>6, WordsTyped
      <3>2. at[t] = "sent" /\ Len(script[t]) = 1
        BY <1>1, <2>1, <3>1, LastWordIsMessage
      <3>3. socket[t] # 0
        BY <3>1, <3>2 DEF Joined
      <3>4. t \in Numbered
        <4>1. HasId(t)
          BY <3>2, <3>3 DEF HasId
        <4> QED
          BY <1>10, <3>1, <4>1 DEF Numbered, Reaches
      <3>5. got[t] \notin Open
        <4> SUFFICES ASSUME NEW r \in Numbered, Answerable(r), got[r] = got[t] PROVE FALSE
          BY DEF Open
        <4>1. r = t
          BY <3>4 DEF AnswerInv, Numbers
        <4> QED
          BY <1>1, <4>1 DEF Answerable
      <3>6. Idle(t)'
        <4>1. Len(Tail(script[t])) = 0 /\ Tail(script[t]) \in Seq(ScriptStep)
          BY <1>2, <1>3, <3>2
        <4> DEFINE q == Tail(script[t])
        <4>2. q \in Seq(ScriptStep) /\ Len(q) = 0
          BY <4>1
        <4> HIDE DEF q
        <4>3. q = <<>>
          BY <4>2
        <4> QED
          BY <1>3, <4>3 DEF Idle, q
      <3>7. got[t] \in Open'
        BY <1>1, <1>4, <3>2, <3>4, <3>6 DEF Open, Answerable, Idle
      <3>8. \A k \in 1..6 : got[t] \notin Stations[k]
        BY <3>5 DEF AnswerInv, Carried
      <3>9. Mailed' \subseteq Mailed \cup {got[t]} /\ OnceIn(to_broker', IdOfMessage)
        BY <2>1, <2>4, <3>1, <3>8, StationsAre, IdsOfAppend DEF Mailed, AnswerInv, Single
      <3>10. \A k \in 1..6 : Stations'[k] \subseteq Stations[k] \cup {got[t]}
        BY <1>8, <2>3, <3>9 DEF Stations
      <3>11. \A k \in 1..6 : k # 1 => Stations'[k] \subseteq Stations[k]
        BY <1>8, <2>3 DEF Stations
      <3>12. Apart' /\ Carried'
        BY <1>6, <3>7, <3>8, <3>10, <3>11, PassedOn DEF AnswerInv
      <3>13. Single'
        BY <1>1, <3>9 DEF AnswerInv, Single
      <3> QED
        BY <1>7, <2>2, <3>12, <3>13 DEF AnswerInv
    <2> QED
      BY <2>5, <2>6
  <1> QED
    BY <1>9, <1>10 DEF SendWord

\* A word read from the socket takes its id with it.
LEMMA WordRead ==
  ASSUME Typed, AnswerInv, to_process # <<>>, to_process' = Tail(to_process)
  PROVE  /\ Offered' \subseteq Offered /\ OnceIn(to_process', IdOfWord)
         /\ Brought' \subseteq Brought /\ OnceIn(to_process', IdOfBody)
         /\ Head(to_process) \in WordsBack(Messages)
         /\ Head(to_process).kind = "id" =>
              /\ Head(to_process).value \in Offered
              /\ Head(to_process).value \notin Offered'
         /\ Head(to_process).kind = "body" /\ Head(to_process).value \in Answers =>
              /\ Head(to_process).value[2] \in Brought
              /\ Head(to_process).value[2] \notin Brought'
  <1> DEFINE w == Head(to_process)
  <1>1. to_process \in Seq(WordsBack(Messages)) /\ w \in WordsBack(Messages)
        /\ w = to_process[1] /\ 1 \in DOMAIN to_process
    BY WordsTyped, HeadAndTail
  <1>2. OnceIn(to_process, IdOfWord) /\ OnceIn(to_process, IdOfBody)
    BY DEF AnswerInv, Fresh, Single
  <1>3. w.kind = "id" => w.value \in Nat
    BY <1>1 DEF Typed, LinkTyped, IdsAreNumbers
  <1> HIDE DEF w
  <1>4. w.kind = "id" => w \in DOMAIN IdOfWord /\ IdOfWord[w] = w.value
    BY <1>1, <1>3, WordsTyped
  <1>5. w.kind = "body" /\ w.value \in Answers => w \in DOMAIN IdOfBody /\ IdOfBody[w] = w.value[2]
    BY <1>1, WordsTyped
  <1>6. /\ Offered' \subseteq Offered /\ OnceIn(to_process', IdOfWord)
        /\ w \in DOMAIN IdOfWord => IdOfWord[w] \in Offered /\ IdOfWord[w] \notin Offered'
    BY <1>1, <1>2, IdsOfTail DEF w, Offered
  <1>7. /\ Brought' \subseteq Brought /\ OnceIn(to_process', IdOfBody)
        /\ w \in DOMAIN IdOfBody => IdOfBody[w] \in Brought /\ IdOfBody[w] \notin Brought'
    BY <1>1, <1>2, IdsOfTail DEF w, Brought
  <1> QED
    BY <1>1, <1>4, <1>5, <1>6, <1>7 DEF w

\* A trainer that reads its id has one of its own.
LEMMA TrainerReads ==
  ASSUME Typed, AnswerInv, NEW t \in Trainers, ~Idle(t), Head(script[t]).op = "recv",
         to_process # <<>>, to_process' = Tail(to_process), socket[t] = connection,
         Head(to_process).kind = Head(script[t]).kind,
         script' = [script EXCEPT ![t] = Tail(script[t])],
         got' = [got EXCEPT ![t] = Head(to_process).value],
         UNCHANGED <<at, awaiting, connected, connection, to_broker, socket, outgoing, pushing,
                     last_message_id, published>>
  PROVE  AnswerInv'
  <1> DEFINE id == Head(to_process).value
  <1>0. /\ Listener \in Threads /\ t \in Threads /\ t # Listener
        /\ \A r \in Trainers : r \in Threads
        /\ script \in [Threads -> Seq(ScriptStep)] /\ got \in [Threads -> Values(Messages)]
    BY Kin DEF Typed, LinkTyped, EndsTyped, StreamsTyped
  <1>1. /\ at[t] = "sent" /\ Head(to_process).kind = "id" /\ Len(Tail(script[t])) <= 1
        /\ Len(script[t]) > 1
    BY TrainerWords
  <1>2. id \in Offered /\ id \notin Offered' /\ id \in Nat
    BY <1>1, WordRead, WordsTyped
  <1> HIDE DEF id
  <1>3. /\ got'[t] = id /\ script'[t] = Tail(script[t])
        /\ \A r \in Threads : r # t => got'[r] = got[r] /\ script'[r] = script[r]
    BY <1>0 DEF id
  <1>4. /\ \A r \in Trainers : r # t => (HasId(r)' <=> HasId(r))
        /\ ~HasId(t)
    <2>1. ~(Len(script[t]) <= 1)
      <3> DEFINE n == Len(script[t])
      <3>1. n \in Nat /\ n > 1
        BY <1>0, <1>1
      <3> HIDE DEF n
      <3>2. ~(n <= 1)
        BY <3>1
      <3> QED
        BY <3>2 DEF n
    <2> QED
      BY <1>0, <1>1, <1>3, <2>1 DEF HasId, Over
  <1>5. /\ Numbered' \subseteq Numbered \cup {t} /\ t \notin Numbered
        /\ \A r \in Numbered : r # t /\ r \in Numbered' /\ got'[r] = got[r]
    BY <1>0, <1>3, <1>4 DEF Numbered
  <1>6. Open \subseteq Open'
    <2> SUFFICES ASSUME NEW r \in Numbered, Answerable(r) PROVE got[r] \in Open'
      BY DEF Open
    <2>1. r \in Threads /\ r # t /\ r \in Numbered' /\ got'[r] = got[r] /\ script'[r] = script[r]
      BY <1>0, <1>3, <1>5 DEF Numbered
    <2>2. Answerable(r)'
      BY <2>1 DEF Answerable, Idle
    <2> QED
      BY <2>1, <2>2 DEF Open
  <1>7. \A r \in Numbered : got[r] # id /\ got[r] \notin Offered
    BY <1>2 DEF AnswerInv, Fresh
  <1>8. Numbers'
    <2>1. ASSUME NEW r \in Trainers, HasId(r)' PROVE got'[r] \in Nat
      BY <1>0, <1>2, <1>3, <1>4, <2>1 DEF AnswerInv, Numbers
    <2>2. ASSUME NEW r \in Trainers, awaiting'[r] # NoId
          PROVE  awaiting'[r] = got'[r] /\ at'[r] \in Over /\ socket'[r] # 0
      <3>1. awaiting[r] = got[r] /\ at[r] \in Over /\ socket[r] # 0
        BY <2>2 DEF AnswerInv, Numbers
      <3>2. r # t
        BY <1>1, <3>1 DEF Over
      <3> QED
        BY <1>0, <1>3, <3>1, <3>2
    <2>3. ASSUME NEW r \in Numbered', NEW q \in Numbered', got'[r] = got'[q] PROVE r = q
      <3>1. CASE r = t \/ q = t
        BY <1>3, <1>5, <1>7, <2>3, <3>1
      <3>2. CASE r # t /\ q # t
        BY <1>5, <2>3, <3>2 DEF AnswerInv, Numbers
      <3> QED
        BY <3>1, <3>2
    <2> QED
      BY <2>1, <2>2, <2>3 DEF Numbers
  <1>9. Offered' \subseteq Offered /\ OnceIn(to_process', IdOfWord)
        /\ Brought' \subseteq Brought /\ OnceIn(to_process', IdOfBody)
    BY WordRead
  <1>10. Fresh'
    <2>1. \A r \in Numbered' : got'[r] \notin Offered'
      BY <1>2, <1>3, <1>5, <1>7, <1>9
    <2>2. connected => /\ \A x \in Offered : x < last_message_id
                       /\ \A r \in Numbered : got[r] < last_message_id
      BY DEF AnswerInv, Fresh
    <2>3. connected' => \A r \in Numbered' : got'[r] < last_message_id'
      BY <1>2, <1>3, <1>5, <2>2
    <2> QED
      BY <1>9, <2>1, <2>2, <2>3 DEF Fresh
  <1>11. InHand' \subseteq InHand
    BY <1>0, <1>3, HandsMove
  <1>12. Mailed' = Mailed /\ Listed' = Listed /\ Queued' = Queued /\ Leaving' = Leaving
    BY DEF Mailed, Listed, Queued, Leaving
  <1>13. \A k \in 1..6 : Stations'[k] \subseteq Stations[k]
    BY <1>9, <1>11, <1>12 DEF Stations
  <1>14. Apart' /\ Carried'
    BY <1>6, <1>13, StillApart DEF AnswerInv, Carried
  <1>15. Single' /\ Forgotten'
    BY <1>9 DEF AnswerInv, Single, Forgotten
  <1> QED
    BY <1>8, <1>10, <1>14, <1>15 DEF AnswerInv

\* Who else reads has no id of it; the listener has the message in hand then.
LEMMA OtherReads ==
  ASSUME Typed, AnswerInv, NEW t \in Threads \ Trainers, ~Idle(t), Head(script[t]).op = "recv",
         to_process # <<>>, to_process' = Tail(to_process),
         Head(to_process).kind = Head(script[t]).kind,
         script' = [script EXCEPT ![t] = Tail(script[t])],
         got' = [got EXCEPT ![t] = Head(to_process).value],
         UNCHANGED <<at, awaiting, connected, connection, to_broker, socket, outgoing, pushing,
                     last_message_id, published>>
  PROVE  AnswerInv'
  <1> DEFINE w == Head(to_process)
  <1>0. /\ Listener \in Threads /\ \A r \in Trainers : r \in Threads
        /\ script \in [Threads -> Seq(ScriptStep)] /\ got \in [Threads -> Values(Messages)]
    BY Kin DEF Typed, LinkTyped, EndsTyped, StreamsTyped
  <1>1. /\ got'[t] = w.value /\ script'[t] = Tail(script[t])
        /\ \A r \in Threads : r # t => got'[r] = got[r] /\ script'[r] = script[r]
    BY <1>0
  <1>2. \A r \in Trainers : Steady(r)
    BY <1>0, <1>1 DEF Steady
  <1>3. /\ Numbers' /\ Numbered' = Numbered /\ Open' = Open
        /\ \A r \in Trainers : got'[r] = got[r]
    BY <1>2, TrainersAside DEF AnswerInv
  <1>4. Offered' \subseteq Offered /\ OnceIn(to_process', IdOfWord)
        /\ Brought' \subseteq Brought /\ OnceIn(to_process', IdOfBody)
    BY WordRead
  <1>5. Fresh'
    BY <1>3, <1>4, FreshStill DEF AnswerInv, Numbered
  <1>6. Single' /\ Forgotten'
    BY <1>4 DEF AnswerInv, Single, Forgotten
  <1>7. Mailed' = Mailed /\ Listed' = Listed /\ Queued' = Queued /\ Leaving' = Leaving
    BY DEF Mailed, Listed, Queued, Leaving
  <1>8. Apart' /\ Carried'
    <2>1. CASE InHand' \subseteq InHand
      <3>1. \A k \in 1..6 : Stations'[k] \subseteq Stations[k]
        BY <1>4, <1>7, <2>1 DEF Stations
      <3> QED
        BY <1>3, <3>1, StillApart DEF AnswerInv, Carried
    <2>2. CASE ~(InHand' \subseteq InHand)
      <3>1. t = Listener /\ Hands'
        BY <1>0, <1>1, <2>2, HandsMove
      <3>2. at[Listener] = "received" /\ Tail(script[t]) = <<>> /\ InHand = {}
        <4>1. at[Listener] # "need"
          BY <3>1, HandsWords
        <4>2. at[Listener] = "received" /\ Idle(Listener)'
          BY <3>1, <4>1 DEF Hands
        <4>3. ~Hands
          BY <3>1, <4>1 DEF Hands
        <4> QED
          BY <1>1, <3>1, <4>2, <4>3 DEF Idle, InHand
      <3>3. Len(script[t]) = 1
        <4> DEFINE s == script[t]  q == Tail(s)
        <4>1. Len(q) = Len(s) - 1 /\ Len(s) \in Nat
          BY <1>0, HeadAndTail DEF Idle
        <4>2. q = <<>>
          BY <3>2
        <4> HIDE DEF s, q
        <4>3. Len(s) = 1
          BY <4>1, <4>2
        <4> QED
          BY <4>3 DEF s
      <3>4. w.kind = "body"
        BY <3>1, <3>2, <3>3, HandsWords
      <3>5. w.value \in Answers /\ InHand' = {w.value[2]}
        <4>1. got'[Listener] = w.value
          BY <1>1, <3>1
        <4> QED
          BY <2>2, <3>1, <4>1 DEF InHand
      <3> DEFINE id == w.value[2]
      <3>6. id \in Brought /\ id \notin Brought'
        BY <3>4, <3>5, WordRead
      <3> HIDE DEF id, w
      <3>7. id \in Stations[5] /\ InHand' = {id}
        BY <3>5, <3>6, StationsAre DEF id
      <3>8. id \in Open'
        BY <1>3, <3>7 DEF AnswerInv, Carried
      <3>9. \A k \in 1..6 : Stations'[k] \subseteq Stations[k] \cup {id}
        BY <1>4, <1>7, <3>7 DEF Stations
      <3>10. \A k \in 1..6 : k # 5 => id \notin Stations[k]
        BY <3>7, NotElsewhere DEF AnswerInv
      <3>11. \A k \in 1..6 : k # 6 => id \notin Stations'[k]
        BY <1>7, <3>6, <3>10 DEF Stations
      <3> QED
        BY <1>3, <3>8, <3>9, <3>11, PassedOn DEF AnswerInv
    <2> QED
      BY <2>1, <2>2
  <1> QED
    BY <1>3, <1>5, <1>6, <1>8 DEF AnswerInv

\* So every thread that reads keeps them, be the word taken for what it is or not.
LEMMA ReceiveKeepsAnswers ==
  ASSUME Typed, AnswerInv, NEW t \in Threads, ReceiveWord(t), UNCHANGED <<at, awaiting>>
  PROVE  AnswerInv'
  <1>1. /\ ~Idle(t) /\ Head(script[t]).op = "recv"
        /\ UNCHANGED <<connected, connection, to_broker, socket, outgoing, pushing,
                       last_message_id, published>>
    BY DEF ReceiveWord, broker
  <1>2. CASE UNCHANGED <<script, got>>
    <2>1. \A r \in Trainers : Steady(r)
      BY <1>1, <1>2 DEF Steady
    <2>2. /\ Numbers' /\ Numbered' = Numbered /\ Open' = Open
          /\ \A r \in Trainers : got'[r] = got[r]
      BY <1>1, <2>1, TrainersAside DEF AnswerInv
    <2>3. InHand' \subseteq InHand
      BY <1>2, HandsMove
    <2>4. CASE to_process' = to_process
      BY <1>1, <2>2, <2>3, <2>4, NothingMoves DEF Numbered
    <2>5. CASE to_process # <<>> /\ to_process' = Tail(to_process)
      <3>1. Offered' \subseteq Offered /\ OnceIn(to_process', IdOfWord)
            /\ Brought' \subseteq Brought /\ OnceIn(to_process', IdOfBody)
        BY <2>5, WordRead
      <3>2. Mailed' = Mailed /\ Listed' = Listed /\ Queued' = Queued /\ Leaving' = Leaving
        BY <1>1 DEF Mailed, Listed, Queued, Leaving
      <3>3. \A k \in 1..6 : Stations'[k] \subseteq Stations[k]
        BY <2>3, <3>1, <3>2 DEF Stations
      <3>4. Apart' /\ Carried'
        BY <2>2, <3>3, StillApart DEF AnswerInv, Carried
      <3>5. Fresh'
        BY <1>1, <2>2, <3>1, FreshStill DEF AnswerInv, Numbered
      <3>6. Single' /\ Forgotten'
        BY <1>1, <3>1 DEF AnswerInv, Single, Forgotten
      <3> QED
        BY <2>2, <3>4, <3>5, <3>6 DEF AnswerInv
    <2> QED
      BY <2>4, <2>5 DEF ReceiveWord
  <1>3. CASE ~UNCHANGED <<script, got>>
    <2>1. /\ to_process # <<>> /\ to_process' = Tail(to_process) /\ socket[t] = connection
          /\ Head(to_process).kind = Head(script[t]).kind
          /\ script' = [script EXCEPT ![t] = Tail(script[t])]
          /\ got' = [got EXCEPT ![t] = Head(to_process).value]
      BY <1>3 DEF ReceiveWord, Meant
    <2> QED
      BY <1>1, <2>1, TrainerReads, OtherReads
  <1> QED
    BY <1>2, <1>3

-----------------------------------------------------------------------------
(* The steps of the broker *)

\* What the broker does leaves the trainers and the listener as they are.
LEMMA EndsAside ==
  ASSUME AnswerInv, UNCHANGED <<ends, at, awaiting, connection>>
  PROVE  /\ Numbers' /\ Numbered' = Numbered /\ Open' = Open
         /\ \A r \in Numbered' : r \in Numbered /\ got'[r] = got[r]
         /\ InHand' = InHand
  <1>1. UNCHANGED <<script, socket, got>>
    BY DEF ends
  <1>2. \A r \in Trainers : Steady(r)
    BY <1>1 DEF Steady
  <1>3. InHand' = InHand
    BY <1>1 DEF InHand, Hands, Idle
  <1> QED
    BY <1>1, <1>2, <1>3, TrainersAside DEF AnswerInv

\* A word that the broker reads takes its id with it.
LEMMA MailRead ==
  ASSUME Typed, AnswerInv, to_broker # <<>>, to_broker' = Tail(to_broker)
  PROVE  /\ Mailed' \subseteq Mailed /\ OnceIn(to_broker', IdOfMessage)
         /\ Head(to_broker) \in WordsOut(Messages)
         /\ Head(to_broker).kind = "message" /\ Head(to_broker).by \in Trainers =>
              /\ Head(to_broker).value \in Mailed
              /\ Head(to_broker).value \notin Mailed'
  <1> DEFINE w == Head(to_broker)
  <1>1. to_broker \in Seq(WordsOut(Messages)) /\ w \in WordsOut(Messages)
    BY WordsTyped, HeadAndTail
  <1> HIDE DEF w
  <1>2. w.kind = "message" /\ w.by \in Trainers =>
          w \in DOMAIN IdOfMessage /\ IdOfMessage[w] = w.value
    BY <1>1, WordsTyped
  <1>3. /\ Mailed' \subseteq Mailed /\ OnceIn(to_broker', IdOfMessage)
        /\ w \in DOMAIN IdOfMessage => IdOfMessage[w] \in Mailed /\ IdOfMessage[w] \notin Mailed'
    BY <1>1, IdsOfTail DEF w, Mailed, AnswerInv, Single
  <1> QED
    BY <1>1, <1>2, <1>3 DEF w

\* A CATCH is published with the id that is in it.
LEMMA ReadKeepsAnswers ==
  ASSUME Typed, Connections, AnswerInv, ReadHeader \/ ReadRest, UNCHANGED <<at, awaiting>>
  PROVE  AnswerInv'
  <1> DEFINE w == Head(to_broker)
  <1>1. /\ to_broker # <<>> /\ to_broker' = Tail(to_broker)
        /\ UNCHANGED <<connected, connection, to_process, ends, outgoing, pushing,
                       last_message_id>>
    BY DEF ReadHeader, ReadRest
  <1>2. /\ Numbers' /\ Numbered' = Numbered /\ Open' = Open
        /\ \A r \in Numbered' : r \in Numbered /\ got'[r] = got[r]
        /\ InHand' = InHand
    BY <1>1, EndsAside
  <1>3. /\ Mailed' \subseteq Mailed /\ OnceIn(to_broker', IdOfMessage)
        /\ w \in WordsOut(Messages)
        /\ w.kind = "message" /\ w.by \in Trainers => w.value \in Mailed /\ w.value \notin Mailed'
    BY <1>1, MailRead
  <1>4. Queued' = Queued /\ Leaving' = Leaving /\ Brought' = Brought /\ Offered' = Offered
    BY <1>1 DEF Queued, Leaving, Brought, Offered
  <1>5. Fresh'
    BY <1>1, <1>2, <1>4, FreshStill DEF AnswerInv, Fresh
  <1>6. connected
    BY <1>1 DEF Connections
  <1> HIDE DEF w
  <1>7. CASE UNCHANGED published
    <2>1. Listed' = Listed
      BY <1>7 DEF Listed
    <2>2. \A k \in 1..6 : Stations'[k] \subseteq Stations[k]
      BY <1>2, <1>3, <1>4, <2>1 DEF Stations
    <2>3. Apart' /\ Carried'
      BY <1>2, <2>2, StillApart DEF AnswerInv, Carried
    <2>4. Single' /\ Forgotten'
      BY <1>1, <1>3, <1>7 DEF AnswerInv, Single, Forgotten
    <2> QED
      BY <1>2, <1>5, <2>3, <2>4 DEF AnswerInv
  <1>8. CASE ~UNCHANGED published
    <2>1. w.kind = "message" /\ published' = published \cup {<<w.by, w.value>>}
      BY <1>8 DEF ReadHeader, ReadRest, w
    <2>2. Forgotten'
      BY <1>1, <1>6 DEF Forgotten
    <2>3. CASE w.by \notin Trainers
      <3>1. Listed' = Listed
        BY <2>1, <2>3 DEF Listed
      <3>2. \A k \in 1..6 : Stations'[k] \subseteq Stations[k]
        BY <1>2, <1>3, <1>4, <3>1 DEF Stations
      <3>3. Apart' /\ Carried'
        BY <1>2, <3>2, StillApart DEF AnswerInv, Carried
      <3>4. Single'
        BY <1>1, <1>3, <2>1, <2>3 DEF AnswerInv, Single
      <3> QED
        BY <1>2, <1>5, <2>2, <3>3, <3>4 DEF AnswerInv
    <2>4. CASE w.by \in Trainers
      <3> DEFINE id == w.value
      <3>1. id \in Mailed /\ id \notin Mailed'
        BY <1>3, <2>1, <2>4
      <3>2. \A k \in 1..6 : k # 1 => id \notin Stations[k]
        BY <3>1, StationsAre, NotElsewhere DEF AnswerInv
      <3>3. id \notin Listed
        BY <3>2, StationsAre
      <3>4. Listed' = Listed \cup {id}
        <4> DEFINE x == <<w.by, w.value>>
        <4>1. x[1] \in Trainers /\ x[2] = id /\ published' = published \cup {x}
          BY <2>1, <2>4
        <4> HIDE DEF x, id
        <4>2. Listed' = {m[2] : m \in {y \in published \cup {x} : y[1] \in Trainers}}
          BY <4>1 DEF Listed
        <4>3. \A v \in Listed' : v \in Listed \/ v = id
          BY <4>1, <4>2 DEF Listed
        <4>4. \A v \in Listed : v \in Listed'
          BY <4>2 DEF Listed
        <4>5. id \in Listed'
          BY <4>1, <4>2
        <4> QED
          BY <4>3, <4>4, <4>5
      <3>5. Single'
        <4>1. ASSUME NEW m \in published', NEW n \in published',
                     m[1] \in Trainers, n[1] \in Trainers, m[2] = n[2]
              PROVE  m = n
          <5>1. ASSUME NEW x \in published, x[1] \in Trainers, x[2] = id PROVE FALSE
            BY <3>3, <5>1 DEF Listed
          <5>2. CASE m \in published /\ n \in published
            BY <4>1, <5>2 DEF AnswerInv, Single
          <5>3. CASE m = <<w.by, w.value>> /\ n = <<w.by, w.value>>
            BY <5>3
          <5>4. CASE m \in published /\ n = <<w.by, w.value>>
            BY <4>1, <5>1, <5>4
          <5>5. CASE n \in published /\ m = <<w.by, w.value>>
            BY <4>1, <5>1, <5>5
          <5> QED
            BY <2>1, <4>1, <5>2, <5>3, <5>4, <5>5
        <4> QED
          BY <1>1, <1>3, <4>1 DEF AnswerInv, Single
      <3> HIDE DEF id
      <3>6. id \in Open'
        BY <1>2, <3>1, StationsAre DEF AnswerInv, Carried
      <3>7. \A k \in 1..6 : Stations'[k] \subseteq Stations[k] \cup {id}
        BY <1>2, <1>3, <1>4, <3>4 DEF Stations
      <3>8. \A k \in 1..6 : k # 2 => id \notin Stations'[k]
        BY <1>2, <1>4, <3>1, <3>2 DEF Stations
      <3>9. Apart' /\ Carried'
        BY <1>2, <3>6, <3>7, <3>8, PassedOn DEF AnswerInv
      <3> QED
        BY <1>2, <1>5, <2>2, <3>5, <3>9 DEF AnswerInv
    <2> QED
      BY <2>3, <2>4
  <1> QED
    BY <1>7, <1>8

\* An id that the broker offers is one that it has given to no one.
LEMMA AnswerKeepsAnswers ==
  ASSUME Typed, Connections, AnswerInv, Answer, UNCHANGED <<at, awaiting>>
  PROVE  AnswerInv'
  <1>1. /\ serving # <<>>
        /\ UNCHANGED <<connected, connection, to_broker, ends, outgoing, pushing, published>>
    BY DEF Answer, Serving
  <1>2. /\ Numbers' /\ Numbered' = Numbered /\ Open' = Open
        /\ \A r \in Numbered' : r \in Numbered /\ got'[r] = got[r]
        /\ InHand' = InHand
    BY <1>1, EndsAside
  <1>3. connected /\ last_message_id \in Nat /\ to_process \in Seq(WordsBack(Messages))
        /\ Offered \subseteq Nat
    BY <1>1, WordsTyped DEF Connections
  <1>4. PICK w \in WordsBack(Messages) :
          /\ to_process' = Append(to_process, w)
          /\ \/ w.kind = "id" /\ w.value = last_message_id
                /\ last_message_id' = last_message_id + 1
             \/ w.kind # "id" /\ w.value = Nothing /\ last_message_id' = last_message_id
    <2>1. serving \in Seq(Threads \X ServingStep)
      BY DEF Typed, LinkTyped, BrokerTyped
    <2>2. Head(serving) \in Threads \X ServingStep /\ Head(serving)[2].op = "send"
      BY <1>1, <2>1, HeadAndTail DEF Answer, Serving
    <2>3. Head(serving)[1] \in Threads /\ Head(serving)[2].kind \in Kinds
      BY <2>2 DEF ServingStep, ScriptStep
    <2> DEFINE t == Head(serving)[1]  kind == Head(serving)[2].kind
    <2>4. CASE kind = "id"
      <3>1. Reply(kind, t, last_message_id) \in WordsBack(Messages)
        BY <1>3, <2>3 DEF Reply, WordsBack, Values
      <3> QED
        BY <2>4, <3>1 DEF Answer, Reply, generate_message_id
    <2>5. CASE kind # "id"
      <3>1. Reply(kind, t, Nothing) \in WordsBack(Messages)
        BY <2>3 DEF Reply, WordsBack, Values
      <3> QED
        BY <2>5, <3>1 DEF Answer, Reply
    <2> QED
      BY <2>4, <2>5
  <1>5. w \notin DOMAIN IdOfBody
    <2>1. Nothing \notin Answers
      BY DEF Nothing, Answers
    <2>2. w.kind = "id" => w.kind # "body"
      OBVIOUS
    <2> QED
      BY <1>4, <2>1, <2>2, WordsTyped
  <1>6. Brought' = Brought /\ OnceIn(to_process', IdOfBody)
    BY <1>3, <1>4, <1>5, IdsOfAppend DEF Brought, AnswerInv, Single
  <1>7. Mailed' = Mailed /\ Listed' = Listed /\ Queued' = Queued /\ Leaving' = Leaving
    BY <1>1 DEF Mailed, Listed, Queued, Leaving
  <1>8. \A k \in 1..6 : Stations'[k] \subseteq Stations[k]
    BY <1>2, <1>6, <1>7 DEF Stations
  <1>9. Apart' /\ Carried'
    BY <1>2, <1>8, StillApart DEF AnswerInv, Carried
  <1>10. Single' /\ Forgotten'
    BY <1>1, <1>6 DEF AnswerInv, Single, Forgotten
  <1>11. /\ \A x \in Offered : x < last_message_id
         /\ \A r \in Numbered : got[r] < last_message_id /\ got[r] \in Nat
    BY <1>3 DEF AnswerInv, Fresh, Numbers, Numbered
  <1>12. Fresh'
    <2>1. CASE w.kind # "id"
      <3>1. w \notin DOMAIN IdOfWord
        BY <2>1, WordsTyped
      <3>2. Offered' = Offered /\ OnceIn(to_process', IdOfWord)
        BY <1>3, <1>4, <3>1, IdsOfAppend DEF Offered, AnswerInv, Fresh
      <3> QED
        BY <1>1, <1>2, <1>4, <2>1, <3>2, FreshStill DEF AnswerInv
    <2>2. CASE w.kind = "id"
      <3>1. w \in DOMAIN IdOfWord /\ IdOfWord[w] = last_message_id
        BY <1>3, <1>4, <2>2, WordsTyped
      <3>2. last_message_id \notin Offered
        BY <1>3, <1>11
      <3>3. Offered' \subseteq Offered \cup {last_message_id} /\ OnceIn(to_process', IdOfWord)
        BY <1>3, <1>4, <3>1, <3>2, IdsOfAppend DEF Offered, AnswerInv, Fresh
      <3>4. \A r \in Numbered' : got'[r] \notin Offered'
        <4> SUFFICES ASSUME NEW r \in Numbered' PROVE got'[r] \notin Offered'
          OBVIOUS
        <4>1. r \in Numbered /\ got'[r] = got[r]
          BY <1>2
        <4>2. got[r] \notin Offered /\ got[r] # last_message_id
          BY <1>3, <1>11, <4>1 DEF AnswerInv, Fresh
        <4> QED
          BY <3>3, <4>1, <4>2
      <3>5. last_message_id' = last_message_id + 1
        BY <1>4, <2>2
      <3>6. \A x \in Offered' : x < last_message_id'
        <4> SUFFICES ASSUME NEW x \in Offered' PROVE x < last_message_id + 1
          BY <3>5
        <4>1. CASE x = last_message_id
          BY <1>3, <4>1
        <4>2. CASE x \in Offered
          BY <1>3, <1>11, <4>2
        <4> QED
          BY <3>3, <4>1, <4>2
      <3>7. \A r \in Numbered' : got'[r] < last_message_id'
        <4> SUFFICES ASSUME NEW r \in Numbered' PROVE got[r] < last_message_id + 1
          BY <1>2, <3>5
        <4>1. got[r] < last_message_id /\ got[r] \in Nat
          BY <1>2, <1>11
        <4> QED
          BY <1>3, <4>1
      <3> QED
        BY <3>3, <3>4, <3>6, <3>7 DEF Fresh
    <2> QED
      BY <2>1, <2>2
  <1> QED
    BY <1>2, <1>9, <1>10, <1>12 DEF AnswerInv

\* The header of a delivery says nothing of the message that comes with it.
LEMMA PushHeaderKeepsAnswers ==
  ASSUME Typed, AnswerInv, PushHeader, UNCHANGED <<at, awaiting>>
  PROVE  AnswerInv'
  <1> DEFINE m == Head(outgoing)
             w == Reply("header", Broker, Nothing)
  <1>1. /\ outgoing # <<>> /\ pushing = Nothing /\ connected
        /\ pushing' = m /\ outgoing' = Tail(outgoing) /\ to_process' = Append(to_process, w)
        /\ UNCHANGED <<connected, connection, to_broker, ends, last_message_id, published>>
    BY DEF PushHeader
  <1>2. /\ Numbers' /\ Numbered' = Numbered /\ Open' = Open
        /\ \A r \in Numbered' : r \in Numbered /\ got'[r] = got[r]
        /\ InHand' = InHand
    BY <1>1, EndsAside
  <1>3. w \in WordsBack(Messages) /\ w.kind = "header"
    BY DEF Reply, WordsBack, Kinds, Values
  <1> HIDE DEF w
  <1>4. w \notin DOMAIN IdOfWord /\ w \notin DOMAIN IdOfBody
    BY <1>3, WordsTyped
  <1>5. /\ Brought' = Brought /\ OnceIn(to_process', IdOfBody)
        /\ Offered' = Offered /\ OnceIn(to_process', IdOfWord)
    <2>1. to_process \in Seq(WordsBack(Messages))
      BY WordsTyped
    <2> QED
      BY <1>1, <1>3, <1>4, <2>1, IdsOfAppend DEF Brought, Offered, AnswerInv, Single, Fresh
  <1>6. Fresh'
    BY <1>1, <1>2, <1>5, FreshStill DEF AnswerInv
  <1>7. /\ Queued' \subseteq Queued /\ OnceIn(outgoing', IdOfAnswer)
        /\ m \in Answers => m[2] \in Queued /\ m[2] \notin Queued'
    <2>1. /\ outgoing \in Seq(Messages) /\ DOMAIN IdOfAnswer = Answers
          /\ m \in Answers => IdOfAnswer[m] = m[2]
      BY WordsTyped
    <2> QED
      BY <1>1, <2>1, IdsOfTail DEF Queued, AnswerInv, Single
  <1> HIDE DEF m
  <1>8. Single' /\ Forgotten'
    BY <1>1, <1>5, <1>7 DEF AnswerInv, Single, Forgotten
  <1>9. Mailed' = Mailed /\ Listed' = Listed
    BY <1>1 DEF Mailed, Listed
  <1>10. CASE m \notin Answers
    <2>1. Leaving' = {}
      BY <1>1, <1>10 DEF Leaving
    <2>2. \A k \in 1..6 : Stations'[k] \subseteq Stations[k]
      BY <1>2, <1>5, <1>7, <1>9, <2>1 DEF Stations
    <2>3. Apart' /\ Carried'
      BY <1>2, <2>2, StillApart DEF AnswerInv, Carried
    <2> QED
      BY <1>2, <1>6, <1>8, <2>3 DEF AnswerInv
  <1>11. CASE m \in Answers
    <2> DEFINE id == m[2]
    <2>1. Leaving' = {id} /\ id \in Queued /\ id \notin Queued'
      BY <1>1, <1>7, <1>11 DEF Leaving
    <2> HIDE DEF id
    <2>2. \A k \in 1..6 : k # 3 => id \notin Stations[k]
      BY <2>1, StationsAre, NotElsewhere DEF AnswerInv
    <2>3. id \in Open'
      BY <1>2, <2>1, StationsAre DEF AnswerInv, Carried
    <2>4. \A k \in 1..6 : Stations'[k] \subseteq Stations[k] \cup {id}
      BY <1>2, <1>5, <1>7, <1>9, <2>1 DEF Stations
    <2>5. \A k \in 1..6 : k # 4 => id \notin Stations'[k]
      BY <1>2, <1>5, <1>9, <2>1, <2>2 DEF Stations
    <2>6. Apart' /\ Carried'
      BY <1>2, <2>3, <2>4, <2>5, PassedOn DEF AnswerInv
    <2> QED
      BY <1>2, <1>6, <1>8, <2>6 DEF AnswerInv
  <1> QED
    BY <1>10, <1>11

\* Its body is the message.
LEMMA PushBodyKeepsAnswers ==
  ASSUME Typed, AnswerInv, PushBody, UNCHANGED <<at, awaiting>>
  PROVE  AnswerInv'
  <1> DEFINE w == Reply("body", Broker, pushing)
  <1>1. /\ pushing # Nothing /\ pushing' = Nothing /\ to_process' = Append(to_process, w)
        /\ UNCHANGED <<connected, connection, to_broker, ends, outgoing, last_message_id,
                       published>>
    BY DEF PushBody
  <1>2. /\ Numbers' /\ Numbered' = Numbered /\ Open' = Open
        /\ \A r \in Numbered' : r \in Numbered /\ got'[r] = got[r]
        /\ InHand' = InHand
    BY <1>1, EndsAside
  <1>3. w \in WordsBack(Messages) /\ w.kind = "body" /\ w.value = pushing
    <2>1. pushing \in Messages
      BY <1>1 DEF Typed, LinkTyped, BrokerTyped
    <2> QED
      BY <2>1 DEF Reply, WordsBack, Kinds, Values
  <1> HIDE DEF w
  <1>4. /\ w \notin DOMAIN IdOfWord
        /\ w \in DOMAIN IdOfBody <=> pushing \in Answers
        /\ pushing \in Answers => IdOfBody[w] = pushing[2]
    BY <1>3, WordsTyped
  <1>5. to_process \in Seq(WordsBack(Messages))
    BY WordsTyped
  <1>6. Offered' = Offered /\ OnceIn(to_process', IdOfWord)
    BY <1>1, <1>3, <1>4, <1>5, IdsOfAppend DEF Offered, AnswerInv, Fresh
  <1>7. Fresh'
    BY <1>1, <1>2, <1>6, FreshStill DEF AnswerInv
  <1>8. /\ Mailed' = Mailed /\ Listed' = Listed /\ Queued' = Queued /\ Leaving' = {}
        /\ Forgotten'
    <2>1. Nothing \notin Answers
      BY DEF Nothing, Answers
    <2> QED
      BY <1>1, <2>1 DEF Mailed, Listed, Queued, Leaving, AnswerInv, Forgotten
  <1>9. CASE pushing \notin Answers
    <2>1. Brought' = Brought /\ OnceIn(to_process', IdOfBody)
      BY <1>1, <1>3, <1>4, <1>5, <1>9, IdsOfAppend DEF Brought, AnswerInv, Single
    <2>2. \A k \in 1..6 : Stations'[k] \subseteq Stations[k]
      BY <1>2, <1>8, <2>1 DEF Stations
    <2>3. Apart' /\ Carried'
      BY <1>2, <2>2, StillApart DEF AnswerInv, Carried
    <2>4. Single'
      BY <1>1, <2>1 DEF AnswerInv, Single
    <2> QED
      BY <1>2, <1>7, <1>8, <2>3, <2>4 DEF AnswerInv
  <1>10. CASE pushing \in Answers
    <2> DEFINE id == pushing[2]
    <2>1. id \in Leaving /\ IdOfBody[w] = id /\ w \in DOMAIN IdOfBody
      BY <1>4, <1>10 DEF Leaving
    <2> HIDE DEF id
    <2>2. \A k \in 1..6 : k # 4 => id \notin Stations[k]
      BY <2>1, StationsAre, NotElsewhere DEF AnswerInv
    <2>3. id \notin Brought
      BY <2>2, StationsAre
    <2>4. Brought' \subseteq Brought \cup {id} /\ OnceIn(to_process', IdOfBody)
      BY <1>1, <1>3, <1>5, <2>1, <2>3, IdsOfAppend DEF Brought, AnswerInv, Single
    <2>5. id \in Open'
      BY <1>2, <2>1, StationsAre DEF AnswerInv, Carried
    <2>6. \A k \in 1..6 : Stations'[k] \subseteq Stations[k] \cup {id}
      BY <1>2, <1>8, <2>4 DEF Stations
    <2>7. \A k \in 1..6 : k # 5 => id \notin Stations'[k]
      BY <1>2, <1>8, <2>2 DEF Stations
    <2>8. Apart' /\ Carried'
      BY <1>2, <2>5, <2>6, <2>7, PassedOn DEF AnswerInv
    <2>9. Single'
      BY <1>1, <2>4 DEF AnswerInv, Single
    <2> QED
      BY <1>2, <1>7, <1>8, <2>8, <2>9 DEF AnswerInv
  <1> QED
    BY <1>9, <1>10

\* A broker that dies takes all with it but what it has sent.
LEMMA LossKeepsAnswers ==
  ASSUME Typed, AnswerInv, LoseBroker, UNCHANGED <<at, awaiting>>
  PROVE  AnswerInv'
  <1>1. /\ ~connected' /\ to_broker' = <<>> /\ outgoing' = <<>> /\ pushing' = Nothing
        /\ published' = {}
        /\ UNCHANGED <<connection, to_process, ends>>
    BY DEF LoseBroker
  <1>2. /\ Numbers' /\ Numbered' = Numbered /\ Open' = Open
        /\ \A r \in Numbered' : r \in Numbered /\ got'[r] = got[r]
        /\ InHand' = InHand
    BY <1>1, EndsAside
  <1>3. Offered' = Offered /\ Brought' = Brought
    BY <1>1 DEF Offered, Brought
  <1>4. Nothing \notin Answers
    BY DEF Nothing, Answers
  <1>5. Mailed' = {} /\ Listed' = {} /\ Queued' = {} /\ Leaving' = {}
    BY <1>1, <1>4, IdsOfNothing DEF Mailed, Listed, Queued, Leaving
  <1>6. \A k \in 1..6 : Stations'[k] \subseteq Stations[k]
    BY <1>2, <1>3, <1>5 DEF Stations
  <1>7. Apart' /\ Carried'
    BY <1>2, <1>6, StillApart DEF AnswerInv, Carried
  <1>8. Single' /\ Forgotten'
    BY <1>1, IdsOfNothing DEF AnswerInv, Single, Forgotten
  <1>9. Fresh'
    BY <1>1, <1>2, <1>3, FreshStill DEF AnswerInv, Fresh
  <1> QED
    BY <1>2, <1>7, <1>8, <1>9 DEF AnswerInv

\* So every step of the broker keeps them.
LEMMA BrokerKeepsAnswers ==
  ASSUME Typed, Connections, AnswerInv, BrokerStep, UNCHANGED <<at, awaiting>>
  PROVE  AnswerInv'
  <1>1. CASE ReadHeader \/ ReadRest
    BY <1>1, ReadKeepsAnswers
  <1>2. CASE Answer
    BY <1>2, AnswerKeepsAnswers
  <1>3. CASE BecomeReady \/ Processed
    <2>1. UNCHANGED <<to_broker, to_process, outgoing, pushing, published, connected,
                      connection, last_message_id, ends>>
      BY <1>3 DEF BecomeReady, Processed, stream
    <2>2. /\ Numbers' /\ Open' = Open
          /\ \A r \in Numbered' : r \in Numbered /\ got'[r] = got[r]
          /\ InHand' = InHand
      BY <2>1, EndsAside
    <2> QED
      BY <2>1, <2>2, NothingMoves
  <1>4. CASE PushHeader
    BY <1>4, PushHeaderKeepsAnswers
  <1>5. CASE PushBody
    BY <1>5, PushBodyKeepsAnswers
  <1> QED
    BY <1>1, <1>2, <1>3, <1>4, <1>5 DEF BrokerStep

\* What the broker lists for the process is no id of a trainer, or that of a CATCH that the
\* GameCard has answered.
LEMMA EnqueueKeepsAnswers ==
  ASSUME Typed, AnswerInv, UNCHANGED <<at, awaiting>>,
         NEW m \in Messages, NEW answered, Enqueue(m, answered),
         m \in Answers =>
           \E x \in published : x[1] \in Trainers /\ x[2] = m[2] /\ answered = {x}
  PROVE  AnswerInv'
  <1>1. /\ connected /\ outgoing' = Append(outgoing, m) /\ published' = published \ answered
        /\ UNCHANGED <<connected, connection, to_broker, to_process, ends, pushing,
                       last_message_id>>
    BY DEF Enqueue, stream
  <1>2. /\ Numbers' /\ Numbered' = Numbered /\ Open' = Open
        /\ \A r \in Numbered' : r \in Numbered /\ got'[r] = got[r]
        /\ InHand' = InHand
    BY <1>1, EndsAside
  <1>3. /\ outgoing \in Seq(Messages) /\ DOMAIN IdOfAnswer = Answers
        /\ m \in Answers => IdOfAnswer[m] = m[2]
    BY WordsTyped
  <1>4. /\ Mailed' = Mailed /\ Leaving' = Leaving /\ Brought' = Brought /\ Offered' = Offered
        /\ Listed' \subseteq Listed /\ Forgotten'
    BY <1>1 DEF Mailed, Leaving, Brought, Offered, Listed, Forgotten
  <1>5. Fresh'
    BY <1>1, <1>2, <1>4, FreshStill DEF AnswerInv, Fresh
  <1>6. CASE m \notin Answers
    <2>1. Queued' = Queued /\ OnceIn(outgoing', IdOfAnswer)
      BY <1>1, <1>3, <1>6, IdsOfAppend DEF Queued, AnswerInv, Single
    <2>2. \A k \in 1..6 : Stations'[k] \subseteq Stations[k]
      BY <1>2, <1>4, <2>1 DEF Stations
    <2>3. Apart' /\ Carried'
      BY <1>2, <2>2, StillApart DEF AnswerInv, Carried
    <2>4. Single'
      BY <1>1, <2>1 DEF AnswerInv, Single
    <2> QED
      BY <1>2, <1>4, <1>5, <2>3, <2>4 DEF AnswerInv
  <1>7. CASE m \in Answers
    <2> DEFINE id == m[2]
    <2>1. PICK x \in published : x[1] \in Trainers /\ x[2] = id /\ answered = {x}
      BY <1>7
    <2>2. IdOfAnswer[m] = id
      BY <1>3, <1>7
    <2> HIDE DEF id
    <2>3. id \in Listed
      BY <2>1 DEF Listed
    <2>4. id \notin Listed'
      <3> SUFFICES ASSUME NEW y \in published', y[1] \in Trainers, y[2] = id PROVE FALSE
        BY DEF Listed
      <3>1. y \in published /\ y # x
        BY <1>1, <2>1
      <3> QED
        BY <2>1, <3>1 DEF AnswerInv, Single
    <2>5. \A k \in 1..6 : k # 2 => id \notin Stations[k]
      BY <2>3, StationsAre, NotElsewhere DEF AnswerInv
    <2>6. id \notin Queued
      BY <2>5, StationsAre
    <2>7. Queued' \subseteq Queued \cup {id} /\ OnceIn(outgoing', IdOfAnswer)
      BY <1>1, <1>3, <2>2, <2>6, IdsOfAppend DEF Queued, AnswerInv, Single
    <2>8. id \in Open'
      BY <1>2, <2>3, StationsAre DEF AnswerInv, Carried
    <2>9. \A k \in 1..6 : Stations'[k] \subseteq Stations[k] \cup {id}
      BY <1>2, <1>4, <2>7 DEF Stations
    <2>10. \A k \in 1..6 : k # 3 => id \notin Stations'[k]
      BY <1>2, <1>4, <2>4, <2>5 DEF Stations
    <2>11. Apart' /\ Carried'
      BY <1>2, <2>8, <2>9, <2>10, PassedOn DEF AnswerInv
    <2>12. Single'
      BY <1>1, <2>7 DEF AnswerInv, Single
    <2> QED
      BY <1>2, <1>4, <1>5, <2>11, <2>12 DEF AnswerInv
  <1> QED
    BY <1>6, <1>7

\* New messages, and the answers of the GameCard.
LEMMA NewsKeepsAnswers ==
  ASSUME Typed, AnswerInv, NewPush \/ \E x \in published : CatchAnswered(x)
  PROVE  AnswerInv'
  <1>1. CASE NewPush
    <2>1. <<"APPEARED">> \in Messages /\ <<"APPEARED">> \notin Answers
      BY DEF Messages, Answers
    <2> QED
      BY <1>1, <2>1, EnqueueKeepsAnswers DEF NewPush
  <1>2. ASSUME NEW x \in published, CatchAnswered(x) PROVE AnswerInv'
    <2> DEFINE m == <<"CAUGHT", x[2]>>
    <2>1. x[2] \in Nat
      BY DEF Typed, MessagesHaveIds
    <2>2. m \in Messages /\ m[2] = x[2]
      BY <2>1 DEF Messages
    <2>3. x[1] \in Trainers /\ Enqueue(m, {x}) /\ UNCHANGED <<at, awaiting>>
      BY <1>2 DEF CatchAnswered, OnSocket
    <2> HIDE DEF m
    <2> QED
      BY <2>2, <2>3, EnqueueKeepsAnswers
  <1> QED
    BY <1>1, <1>2

-----------------------------------------------------------------------------
(* Every step keeps them *)

\* A thread's socket, and the connections, are changed where they are.
LEMMA JoinedKept ==
  ASSUME Typed, Connections, Joined, Next
  PROVE  Joined'
  <1>0. /\ Listener \in Threads /\ \A r \in Trainers : r \in Threads /\ r # Listener
        /\ at \in [Threads -> Places] /\ socket \in [Threads -> Nat] /\ connection \in Nat
        /\ \A r \in Trainers : at[r] \in TrainerPlaces
    BY Kin DEF Typed, Placed, LinkTyped, EndsTyped
  <1>1. ASSUME UNCHANGED <<has_broker_connection, connection>>,
               \A r \in Trainers : at'[r] = at[r] /\ socket'[r] = socket[r]
        PROVE  Joined'
    BY <1>1 DEF Joined
  <1>2. CASE ListenerStep(Listener) /\ ~Connect(Listener)
    <2>1. PICK to \in ListenerPlaces : OwnStep(Listener, to)
      BY <1>2, ListenerMoves DEF Typed
    <2>2. \A r \in Trainers : at'[r] = at[r] /\ socket'[r] = socket[r]
      BY <1>0, <2>1 DEF OwnStep, Goto, OffLink, link, ends, Says, Start
    <2>3. UNCHANGED connection
      BY <2>1 DEF OwnStep, OffLink, link, Says
    <2>4. UNCHANGED has_broker_connection
      BY <1>2
      DEF ListenerStep, Restart, Subscribe, NeedGets, CloseGate, PassGate, Peek, LockBroker,
          Receive, KeepBroker, Acknowledge, Process, Processes, EndOfMessage, NeedOver,
          UnlockAfter, OpenAfter, Moves, Asks, Steps
    <2> QED
      BY <1>1, <2>2, <2>3, <2>4
  <1>3. CASE Connect(Listener)
    <2>1. /\ connection' = connection + 1 /\ UNCHANGED socket
          /\ at' = [at EXCEPT ![Listener] = "subscribe"]
      BY <1>3 DEF Connect, LinkConnect, Goto, ends
    <2>2. connection' # 0 /\ \A r \in Trainers : at'[r] = at[r]
      BY <1>0, <2>1
    <2> QED
      BY <2>1, <2>2 DEF Joined
  <1>4. CASE EndOfMessage(Server) \/ Guest(Server)
    <2>1. PICK to \in ServerPlaces : OwnStep(Server, to)
      BY <1>4, ServerMoves
    <2>2. Server \in Threads /\ \A r \in Trainers : r # Server
      BY Kin
    <2>3. \A r \in Trainers : at'[r] = at[r] /\ socket'[r] = socket[r]
      BY <1>0, <2>1, <2>2 DEF OwnStep, Goto, OffLink, link, ends, Says, Start
    <2>4. UNCHANGED <<connection, has_broker_connection>>
      BY <1>4
      DEF EndOfMessage, NeedOver, UnlockAfter, OpenAfter, Guest, Moves, Steps, OffLink, link
    <2> QED
      BY <1>1, <2>3, <2>4
  <1>5. ASSUME NEW t \in GetThreads, GetStep(t) PROVE Joined'
    <2>1. PICK to \in GetPlaces : OwnStep(t, to)
      BY <1>5, GetMoves
    <2>2. t \in Threads /\ \A r \in Trainers : r # t
      BY Kin
    <2>3. \A r \in Trainers : at'[r] = at[r] /\ socket'[r] = socket[r]
      BY <1>0, <2>1, <2>2 DEF OwnStep, Goto, OffLink, link, ends, Says, Start
    <2>4. UNCHANGED connection
      BY <2>1 DEF OwnStep, OffLink, link, Says
    <2>5. UNCHANGED has_broker_connection
      BY <1>5
      DEF GetStep, LockAndSend, CountGet, GetsOver, OpenForListener, Unlock, Moves, Asks, Steps
    <2> QED
      BY <1>1, <2>3, <2>4, <2>5
  <1>6. ASSUME NEW t \in Trainers, TrainerStep(t) \/ Arrive(t) PROVE Joined'
    <2>1. PICK to \in TrainerPlaces : OwnStep(t, to)
      BY <1>6, TrainerMoves
    <2>2. \A r \in Trainers \ {t} : at'[r] = at[r] /\ socket'[r] = socket[r]
      BY <1>0, <2>1 DEF OwnStep, Goto, OffLink, link, ends, Says, Start
    <2>3. UNCHANGED connection
      BY <2>1 DEF OwnStep, OffLink, link, Says
    <2>4. UNCHANGED has_broker_connection
      BY <1>6 DEF TrainerStep, Arrive, LockAndSend, Await, Unlock, Moves, Asks, Steps
    <2>5. /\ at'[t] = "lock" => connection' # 0
          /\ at'[t] \in {"off", "lock"} => socket'[t] = 0
          /\ at'[t] \in {"sent", "unlock"} => socket'[t] # 0
      <3>1. CASE Arrive(t)
        <4>1. /\ at[t] = "off" /\ UNCHANGED <<socket, connection>>
              /\ at'[t] = IF has_broker_connection THEN "lock" ELSE "done"
          BY <1>0, <3>1 DEF Arrive, Moves, Steps, At, Goto, OffLink, link, ends
        <4> QED
          BY <4>1 DEF Joined
      <3>2. CASE LockAndSend(t)
        <4>1. /\ at[t] = "lock" /\ at'[t] = "sent" /\ socket'[t] = connection
          BY <1>0, <3>2 DEF LockAndSend, Asks, Steps, At, Goto, Says, Start
        <4> QED
          BY <4>1 DEF Joined
      <3>3. CASE Await(t)
        <4>1. at[t] = "sent" /\ at'[t] = "unlock" /\ UNCHANGED socket
          BY <1>0, <3>3 DEF Await, At, Goto, OffLink, link, ends
        <4> QED
          BY <4>1 DEF Joined
      <3>4. CASE Unlock(t)
        <4>1. at'[t] = "done"
          BY <1>0, <3>4 DEF Unlock, Moves, Steps, Goto
        <4> QED
          BY <4>1
      <3> QED
        BY <1>6, <3>1, <3>2, <3>3, <3>4 DEF TrainerStep
    <2> QED
      BY <2>2, <2>3, <2>4, <2>5 DEF Joined
  <1>7. ASSUME NEW c \in opening, SendGets(c) PROVE Joined'
    <2>1. c \in Rounds
      BY OfferedRounds
    <2>2. \A t \in Gets(c) : t \in GetThreads
      BY <2>1, Kin DEF Gets
    <2>3. \A r \in Trainers : at'[r] = at[r]
      BY <1>0, <1>7, <2>2, Kin DEF SendGets
    <2>4. UNCHANGED <<has_broker_connection, connection, socket>>
      BY <1>7 DEF SendGets, OffLink, link, ends
    <2> QED
      BY <1>1, <2>3, <2>4
  <1>8. CASE (\E t \in Threads : SocketStep(t) /\ Aside) \/ ((BrokerStep \/ LoseBroker) /\ Aside)
    <2>1. UNCHANGED <<at, has_broker_connection>>
      BY <1>8 DEF Aside
    <2>2. UNCHANGED <<connection, socket>>
      BY <1>8
      DEF SocketStep, SendWord, ReceiveWord, BrokerStep, ReadHeader, ReadRest, Answer,
          BecomeReady, Processed, PushHeader, PushBody, LoseBroker, ends
    <2> QED
      BY <1>1, <2>1, <2>2
  <1>9. CASE NewPush \/ \E m \in published : CatchAnswered(m)
    BY <1>1, <1>9 DEF NewPush, CatchAnswered, OnSocket, Enqueue, ends
  <1> QED
    BY <1>2, <1>3, <1>4, <1>5, <1>6, <1>7, <1>8, <1>9, NextCases

\* It holds at first, when there is no connection ...
LEMMA AnswersInitially == Init => Joined /\ AnswerInv
  <1> SUFFICES ASSUME Init PROVE Joined /\ AnswerInv
    OBVIOUS
  <1>0. \A r \in Trainers : r \in Threads /\ r # Listener
    BY Kin
  <1>1. /\ \A t \in Threads : at[t] = IF t = Listener THEN "restart" ELSE "off"
        /\ \A t \in Threads : socket[t] = 0
        /\ \A r \in Trainers : awaiting[r] = NoId
        /\ ~connected /\ ~has_broker_connection
        /\ to_broker = <<>> /\ to_process = <<>> /\ outgoing = <<>> /\ pushing = Nothing
        /\ published = {}
    BY DEF Init, LinkInit
  <1>2. /\ \A r \in Trainers : at[r] = "off" /\ socket[r] = 0 /\ awaiting[r] = NoId
        /\ at[Listener] = "restart"
    BY <1>0, <1>1, Kin
  <1>3. Joined
    BY <1>1, <1>2 DEF Joined
  <1>4. \A r \in Trainers : ~HasId(r)
    BY <1>2 DEF HasId
  <1>5. Numbered = {}
    BY <1>4 DEF Numbered
  <1>6. Numbers
    BY <1>2, <1>4, <1>5 DEF Numbers
  <1>7. Offered = {} /\ OnceIn(to_process, IdOfWord)
    BY <1>1, IdsOfNothing DEF Offered
  <1>8. Fresh
    BY <1>1, <1>5, <1>7 DEF Fresh
  <1>9. Single /\ Forgotten
    BY <1>1, IdsOfNothing DEF Single, Forgotten
  <1>10. Nothing \notin Answers
    BY DEF Nothing, Answers
  <1>11. /\ Mailed = {} /\ Listed = {} /\ Queued = {} /\ Leaving = {} /\ Brought = {}
         /\ InHand = {}
    BY <1>1, <1>2, <1>10, IdsOfNothing
    DEF Mailed, Listed, Queued, Leaving, Brought, InHand, Hands
  <1>12. \A k \in 1..6 : Stations[k] = {}
    BY <1>11 DEF Stations
  <1>13. Apart /\ Carried
    BY <1>12 DEF Apart, Carried
  <1> QED
    BY <1>3, <1>6, <1>8, <1>9, <1>13 DEF AnswerInv

\* ... and every step keeps it.
LEMMA AnswersKept ==
  ASSUME Typed, Connections, LeftNothing, Joined, AnswerInv, Next
  PROVE  AnswerInv'
  <1>1. CASE \E t \in Threads : SocketStep(t) /\ Aside
    <2>1. PICK t \in Threads : SocketStep(t) /\ UNCHANGED <<at, awaiting>>
      BY <1>1 DEF Aside
    <2>2. CASE SendWord(t)
      BY <2>1, <2>2, SendKeepsAnswers
    <2>3. CASE ReceiveWord(t)
      BY <2>1, <2>3, ReceiveKeepsAnswers
    <2> QED
      BY <2>1, <2>2, <2>3 DEF SocketStep
  <1>2. CASE ListenerStep(Listener) /\ ~Connect(Listener)
    BY <1>2, ListenerKeepsAnswers, ProcessKeepsAnswers
  <1>3. CASE Connect(Listener)
    BY <1>3, ConnectKeepsAnswers
  <1>4. CASE EndOfMessage(Server) \/ Guest(Server)
    <2>1. PICK to \in ServerPlaces : OwnStep(Server, to)
      BY <1>4, ServerMoves
    <2>2. UNCHANGED awaiting
      BY <1>4 DEF EndOfMessage, NeedOver, UnlockAfter, OpenAfter, Guest, Moves, Steps
    <2> QED
      BY <2>1, <2>2, Kin, OtherKeepsAnswers
  <1>5. ASSUME NEW t \in GetThreads, GetStep(t) PROVE AnswerInv'
    <2>1. PICK to \in GetPlaces : OwnStep(t, to)
      BY <1>5, GetMoves
    <2>2. UNCHANGED awaiting
      BY <1>5
      DEF GetStep, LockAndSend, CountGet, GetsOver, OpenForListener, Unlock, Moves, Asks, Steps
    <2>3. t \in Threads \ Trainers /\ t # Listener
      BY Kin
    <2> QED
      BY <2>1, <2>2, <2>3, OtherKeepsAnswers
  <1>6. ASSUME NEW t \in Trainers, TrainerStep(t) \/ Arrive(t) PROVE AnswerInv'
    BY <1>6, TrainerKeepsAnswers
  <1>7. ASSUME NEW c \in opening, SendGets(c) PROVE AnswerInv'
    BY <1>7, SendGetsKeepsAnswers
  <1>8. CASE (BrokerStep \/ LoseBroker) /\ Aside
    BY <1>8, BrokerKeepsAnswers, LossKeepsAnswers DEF Aside
  <1>9. CASE NewPush \/ \E m \in published : CatchAnswered(m)
    BY <1>9, NewsKeepsAnswers
  <1> QED
    BY <1>1, <1>2, <1>3, <1>4, <1>5, <1>6, <1>7, <1>8, <1>9, NextCases

\* The invariant, with those it needs.
AnsweredInv == SpeakInv /\ Joined /\ AnswerInv

LEMMA AnsweredInvKept == AnsweredInv /\ [Next]_vars => AnsweredInv'
  <1> SUFFICES ASSUME AnsweredInv, [Next]_vars PROVE AnsweredInv'
    OBVIOUS
  <1>1. SpeakInv'
    BY SpeakInvKept DEF AnsweredInv
  <1>2. CASE Next
    <2>1. Typed /\ Connections /\ SpeakInv
      BY DEF AnsweredInv, SpeakInv, GetsInv
    <2>2. LeftNothing
      BY <1>2, <2>1, OnlyIfRunning DEF SpeakInv, TurnInv
    <2> QED
      BY <1>1, <1>2, <2>1, <2>2, JoinedKept, AnswersKept DEF AnsweredInv
  <1>3. CASE UNCHANGED vars
    <2>1. UNCHANGED <<at, awaiting, has_broker_connection, connection, ends, to_broker,
                      to_process, outgoing, pushing, published, connected, last_message_id>>
      BY <1>3 DEF vars, link, stream, broker
    <2>2. Joined'
      BY <2>1 DEF AnsweredInv, Joined, ends
    <2>3. /\ Numbers' /\ Open' = Open /\ InHand' = InHand
          /\ \A r \in Numbered' : r \in Numbered /\ got'[r] = got[r]
      BY <2>1, EndsAside DEF AnsweredInv
    <2>4. AnswerInv'
      BY <2>1, <2>3, NothingMoves DEF AnsweredInv
    <2> QED
      BY <1>1, <2>2, <2>4 DEF AnsweredInv
  <1> QED
    BY <1>2, <1>3

\* While the listener has a CAUGHT that it has yet to process, the trainer whose CATCH it
\* answers waits for it, alone.
LEMMA OneWaits ==
  ASSUME Typed, AnswerInv, MutexHeld, at[Listener] = "need",
         NEW id \in Nat, got[Listener] = <<"CAUGHT", id>>
  PROVE  Cardinality(Waiting(id)) = 1
  <1>1. got[Listener] \in Answers /\ got[Listener][2] = id
    BY DEF Answers
  <1>2. id \in InHand
    BY <1>1 DEF InHand, Hands
  <1>3. PICK r \in Numbered : id = got[r] /\ Answerable(r)
    BY <1>2, StationsAre DEF AnswerInv, Carried, Open
  <1>4. at[r] # "sent"
    <2>1. broker_mutex = Listener
      BY Kin DEF MutexHeld, Inside
    <2>2. at[r] = "sent" => broker_mutex = r
      BY Kin DEF MutexHeld, Inside, Numbered
    <2> QED
      BY <2>1, <2>2, Kin DEF Numbered
  <1>5. r \in Waiting(id)
    BY <1>3, <1>4 DEF Waiting, Numbered, Answerable
  <1>6. ASSUME NEW q \in Waiting(id) PROVE q = r
    <2>1. q \in Trainers /\ awaiting[q] = id /\ socket[q] = connection /\ id # NoId
      BY DEF Waiting, NoId
    <2>2. got[q] = id /\ at[q] \in Over /\ socket[q] # 0
      BY <2>1 DEF AnswerInv, Numbers
    <2>3. q \in Numbered
      BY <2>1, <2>2 DEF Numbered, HasId
    <2> QED
      BY <1>3, <2>2, <2>3 DEF AnswerInv, Numbers
  <1>7. Waiting(id) = {r}
    BY <1>5, <1>6
  <1> QED
    BY <1>7, FS_Singleton

\* A CAUGHT finds the trainer whose CATCH it answers, and no other: for any number of
\* trainers, of pokemons and of connections, however early the answer comes, when the
\* listener processes it (process_pokemon_message) one trainer and no more waits for its
\* id on this connection, because the trainer has noted the id before it unlocked
\* broker_mutex (845-853); unless the server thread has unlocked it (242).
THEOREM AnswersFindTheirTrainers == Spec => AnswerFindsItsTrainer
  <1> DEFINE Found == \A id \in 0..last_message_id :
               (/\ at[Listener] = "need" /\ at'[Listener] = "processed"
                /\ got[Listener] = <<"CAUGHT", id>>) =>
                  Cardinality(Waiting(id)) = 1 \/ meddled
  <1>1. Init => AnsweredInv
    BY SpeakInvInitially, AnswersInitially DEF AnsweredInv
  <1>2. AnsweredInv => Found
    <2> SUFFICES ASSUME AnsweredInv, ~meddled, NEW id \in 0..last_message_id,
                        at[Listener] = "need", got[Listener] = <<"CAUGHT", id>>
                 PROVE  Cardinality(Waiting(id)) = 1
      OBVIOUS
    <2>1. Typed /\ AnswerInv /\ MutexHeld
      BY DEF AnsweredInv, SpeakInv, GetsInv
    <2>2. id \in Nat
      OBVIOUS
    <2> QED
      BY <2>1, <2>2, OneWaits
  <1>3. AnsweredInv /\ [Next]_vars => [Found]_vars
    BY <1>2
  <1> QED
    BY <1>1, <1>3, AnsweredInvKept, PTL DEF Spec, AnswerFindsItsTrainer
=============================================================================
