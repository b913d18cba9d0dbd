------------------------------ MODULE LinkProofs ------------------------------
(***************************************************************************)
(* What the two processes that use the link need of it in their proofs:    *)
(* the broker's steps touch nothing of the process, until a broker is lost *)
(* whoever is on a socket is on the one in use, and whoever waits for a    *)
(* word has asked for it once (TurnInv), so that the two ends are in step  *)
(* until a thread takes another's word.                                    *)
(***************************************************************************)
EXTENDS BrokerLink, TLAPS

\* The process's end of the link.
Kinds ==
  {"NEW_SUBSCRIPTION", "queue", "OK", "READY_TO_RECIEVE", "ready", "NEW_MESSAGE", "id",
   "message", "header", "body", "MESSAGE_ACK", "acknowledged", "PROCESSED"}

ScriptStep == [op : {"send", "recv"}, kind : Kinds]

EndsTyped ==
  /\ connected \in BOOLEAN /\ connection \in Nat
  /\ script \in [Threads -> Seq(ScriptStep)]
  /\ socket \in [Threads -> Nat]
  /\ losses \in Nat
  /\ dead \in BOOLEAN

\* Until the broker is lost for the first time there is one connection, and the threads
\* that are on a socket are on that one.
FirstBroker ==
  losses = 0 =>
    /\ connection = (IF connected THEN 1 ELSE 0)
    /\ \A t \in Threads : ~Idle(t) => socket[t] = connection

\* Before the first connection no thread is on the socket.
OffAtFirst ==
  connection = 0 => ~connected /\ \A t \in Threads : Idle(t)

LossInv == EndsTyped /\ FirstBroker /\ OffAtFirst

\* The library's functions are scripts.
LEMMA ScriptsTyped ==
  /\ subscribe_to_queue \in Seq(ScriptStep)
  /\ ready_to_recieve \in Seq(ScriptStep)
  /\ send_pokemon_message \in Seq(ScriptStep)
  /\ receive_pokemon_message \in Seq(ScriptStep)
  /\ send_message_acknowledge \in Seq(ScriptStep)
  /\ already_processed \in Seq(ScriptStep)
  <1> USE DEF send, recv, Kinds, ScriptStep
  <1>1. subscribe_to_queue \in Seq(ScriptStep)
    BY DEF subscribe_to_queue
  <1>2. ready_to_recieve \in Seq(ScriptStep)
    BY DEF ready_to_recieve
  <1>3. send_pokemon_message \in Seq(ScriptStep)
    BY DEF send_pokemon_message
  <1>4. receive_pokemon_message \in Seq(ScriptStep)
    BY DEF receive_pokemon_message
  <1>5. send_message_acknowledge \in Seq(ScriptStep)
    BY DEF send_message_acknowledge
  <1>6. already_processed \in Seq(ScriptStep)
    BY DEF already_processed
  <1> QED
    BY <1>1, <1>2, <1>3, <1>4, <1>5, <1>6

\* Before the first connection no one speaks.
LEMMA LinkInitSafe == LinkInit => LossInv
  <1> SUFFICES ASSUME LinkInit PROVE LossInv
    OBVIOUS
  <1>1. EndsTyped
    <2>1. <<>> \in Seq(ScriptStep)
      OBVIOUS
    <2> QED
      BY <2>1 DEF LinkInit, EndsTyped
  <1>2. FirstBroker /\ OffAtFirst
    BY DEF LinkInit, FirstBroker, OffAtFirst, Idle
  <1> QED
    BY <1>1, <1>2 DEF LossInv

\* The broker's threads leave the process and its sockets alone.
LEMMA BrokerKeepsEnds ==
  ASSUME BrokerStep
  PROVE  UNCHANGED <<connected, connection, ends, dead, losses>>
  BY DEF BrokerStep, ReadHeader, ReadRest, Answer, BecomeReady, Processed, PushHeader, PushBody

\* What the broker takes in does not reach the process's end.
LEMMA EnqueueKeepsEnds ==
  ASSUME NEW m, NEW answered, Enqueue(m, answered)
  PROVE  UNCHANGED <<connected, connection, ends, dead, losses>>
  BY DEF Enqueue

\* Nor does a step that leaves the process's end alone change what is known of it.
LEMMA LossInvUnchanged ==
  ASSUME LossInv, UNCHANGED <<connected, connection, ends, dead, losses>>
  PROVE  LossInv'
  BY DEF LossInv, EndsTyped, FirstBroker, OffAtFirst, Idle, ends

\* A thread calls a function of the library, once there is a connection.
LEMMA StartKeepsLossInv ==
  ASSUME LossInv, connection # 0, NEW t \in Threads, NEW s \in Seq(ScriptStep), Start(t, s),
         UNCHANGED <<connected, connection, dead, losses>>
  PROVE  LossInv'
  BY DEF LossInv, EndsTyped, FirstBroker, OffAtFirst, Idle, Start

\* Until the first loss a thread that is on a socket reaches the broker.
LEMMA FirstReaches ==
  ASSUME LossInv, losses = 0, NEW t \in Threads, ~Idle(t)
  PROVE  Reaches(t)
  BY DEF LossInv, EndsTyped, FirstBroker, OffAtFirst, Reaches

\* Whoever is killed has lost the socket it is on, or takes a word for another.
LEMMA SocketKills ==
  ASSUME NEW t \in Threads, SocketStep(t), dead', ~dead
  PROVE  ~Idle(t) /\ (~Reaches(t) \/ out_of_step')
  <1>1. CASE SendWord(t)
    BY <1>1 DEF SendWord
  <1>2. CASE ReceiveWord(t)
    BY <1>2 DEF ReceiveWord
  <1> QED
    BY <1>1, <1>2 DEF SocketStep

\* What a thread does on the socket connects and loses nothing.
LEMMA SocketKeepsLossInv ==
  ASSUME LossInv, NEW t \in Threads, SocketStep(t)
  PROVE  LossInv'
  <1>0. UNCHANGED <<connected, connection, socket, losses>> /\ ~Idle(t)
    BY DEF SocketStep, SendWord, ReceiveWord
  <1>1. script' \in [Threads -> Seq(ScriptStep)]
        /\ \A u \in Threads : ~Idle(u)' => ~Idle(u)
    <2>1. \/ UNCHANGED script
          \/ script' = [script EXCEPT ![t] = Tail(@)]
      BY DEF SocketStep, SendWord, ReceiveWord
    <2>2. script \in [Threads -> Seq(ScriptStep)] /\ script[t] # <<>>
      BY <1>0 DEF Idle, LossInv, EndsTyped
    <2>3. CASE UNCHANGED script
      BY <2>2, <2>3 DEF Idle
    <2>4. CASE script' = [script EXCEPT ![t] = Tail(@)]
      <3>1. Tail(script[t]) \in Seq(ScriptStep)
        BY <2>2
      <3>2. script' \in [Threads -> Seq(ScriptStep)]
        BY ONLY <2>2, <2>4, <3>1
      <3>3. \A u \in Threads : ~Idle(u)' => ~Idle(u)
        BY <2>2, <2>4, <1>0 DEF Idle
      <3> QED
        BY <3>2, <3>3
    <2> QED
      BY <2>1, <2>3, <2>4
  <1>2. dead' \in BOOLEAN
    <2>1. UNCHANGED dead \/ dead' \in BOOLEAN
      BY DEF SocketStep, SendWord, ReceiveWord
    <2> QED
      BY <2>1 DEF LossInv, EndsTyped
  <1> QED
    BY <1>0, <1>1, <1>2 DEF LossInv, EndsTyped, FirstBroker, OffAtFirst

\* A new connection is in use at once.
LEMMA ConnectKeepsLossInv ==
  ASSUME LossInv, LinkConnect
  PROVE  LossInv' /\ connection' # 0
  <1>1. /\ ~connected /\ connected' = TRUE /\ connection' = connection + 1
        /\ UNCHANGED <<script, socket, dead, losses>>
    BY DEF LinkConnect, ends
  <1> QED
    BY <1>1 DEF LossInv, EndsTyped, FirstBroker, OffAtFirst, Idle

\* A loss is counted, and so accounts for the sockets that are left behind.
LEMMA LoseKeepsLossInv ==
  ASSUME LossInv, LoseBroker
  PROVE  LossInv' /\ UNCHANGED connection
  <1>1. /\ connected' \in BOOLEAN /\ ~connected' /\ losses' = losses + 1
        /\ UNCHANGED <<connection, script, socket, dead>>
    BY DEF LoseBroker, ends
  <1>2. EndsTyped'
    BY <1>1 DEF LossInv, EndsTyped
  <1>3. FirstBroker'
    BY <1>1 DEF LossInv, EndsTyped, FirstBroker
  <1>4. OffAtFirst'
    BY <1>1 DEF LossInv, OffAtFirst, Idle
  <1> QED
    BY <1>1, <1>2, <1>3, <1>4 DEF LossInv

-----------------------------------------------------------------------------
(* The values on the link; M is the set of messages that the broker pushes *)

Values(M)     == Nat \cup {Nothing} \cup M
WordsOut(M)   == [kind : Kinds, by : Threads, value : Values(M)]
WordsBack(M)  == [kind : Kinds, to : Threads \cup {Broker}, value : Values(M)]
ServingStep   == ScriptStep \cup [op : {"ready", "processed"}]

StreamsTyped(M) ==
  /\ to_broker \in Seq(WordsOut(M))
  /\ to_process \in Seq(WordsBack(M))
  /\ got \in [Threads -> Values(M)]

BrokerTyped(M) ==
  /\ serving \in Seq(Threads \X ServingStep)
  /\ ready \in BOOLEAN
  /\ outgoing \in Seq(M) /\ pushing \in M \cup {Nothing}
  /\ last_message_id \in Nat
  /\ published \in SUBSET (Threads \X Values(M))

\* An id is a number.
IdsAreNumbers ==
  \A i \in DOMAIN to_process : to_process[i].kind = "id" => to_process[i].value \in Nat

LinkTyped(M) == EndsTyped /\ StreamsTyped(M) /\ BrokerTyped(M) /\ IdsAreNumbers

\* The words of a stream: the first, and the others after it.
LEMMA HeadAndTail ==
  ASSUME NEW S, NEW s \in Seq(S), s # <<>>
  PROVE  /\ Len(s) \in Nat \ {0} /\ DOMAIN s = 1..Len(s)
         /\ Head(s) \in S /\ Head(s) = s[1]
         /\ Tail(s) \in Seq(S) /\ Len(Tail(s)) = Len(s) - 1
         /\ DOMAIN Tail(s) = 1..(Len(s) - 1)
         /\ \A i \in DOMAIN Tail(s) : i + 1 \in DOMAIN s /\ Tail(s)[i] = s[i + 1]
  OBVIOUS

\* A stream with one more word.
LEMMA WordAppended ==
  ASSUME NEW S, NEW s \in Seq(S), NEW e \in S
  PROVE  /\ Len(s) \in Nat /\ DOMAIN s = 1..Len(s)
         /\ Append(s, e) \in Seq(S) /\ Len(Append(s, e)) = Len(s) + 1
         /\ DOMAIN Append(s, e) = 1..(Len(s) + 1)
         /\ Append(s, e)[Len(s) + 1] = e
         /\ \A i \in DOMAIN s : Append(s, e)[i] = s[i]
  OBVIOUS

\* An empty link is typed.
LEMMA LinkInitTyped == ASSUME NEW M, LinkInit PROVE LinkTyped(M)
  <1>1. EndsTyped
    BY LinkInitSafe DEF LossInv
  <1>2. StreamsTyped(M)
    BY DEF LinkInit, StreamsTyped, Values
  <1>3. BrokerTyped(M)
    <2>1. ready \in BOOLEAN /\ published \in SUBSET (Threads \X Values(M))
      BY DEF LinkInit
    <2> QED
      BY <2>1 DEF LinkInit, BrokerTyped
  <1>4. IdsAreNumbers
    BY DEF LinkInit, IdsAreNumbers
  <1> QED
    BY <1>1, <1>2, <1>3, <1>4 DEF LinkTyped

\* A link that is left alone stays typed.
LEMMA LinkTypedUnchanged ==
  ASSUME NEW M, LinkTyped(M), UNCHANGED link
  PROVE  LinkTyped(M)'
  BY DEF LinkTyped, EndsTyped, StreamsTyped, BrokerTyped, IdsAreNumbers, link, stream, ends, broker

\* What a thread sends, in the words of the broker.
LEMMA WordTyped ==
  ASSUME NEW M, LinkTyped(M), NEW t \in Threads, ~Idle(t)
  PROVE  Word(t) \in WordsOut(M)
  <1>1. script[t] \in Seq(ScriptStep) /\ script[t] # <<>> /\ got[t] \in Values(M)
    BY DEF LinkTyped, EndsTyped, StreamsTyped, Idle
  <1>2. Head(script[t]) \in ScriptStep
    BY <1>1
  <1>3. Nothing \in Values(M)
    BY DEF Values
  <1> QED
    BY <1>1, <1>2, <1>3 DEF Word, WordsOut, ScriptStep

\* What a thread sends goes into the stream, or the thread dies.
LEMMA SendTyped ==
  ASSUME NEW M, LinkTyped(M), NEW t \in Threads, SendWord(t)
  PROVE  LinkTyped(M)'
  <1>1. script[t] \in Seq(ScriptStep) /\ script[t] # <<>>
    BY DEF SendWord, LinkTyped, EndsTyped, Idle
  <1>2. EndsTyped'
    BY <1>1 DEF SendWord, LinkTyped, EndsTyped
  <1>3. to_broker' \in Seq(WordsOut(M))
    BY WordTyped DEF SendWord, LinkTyped, StreamsTyped
  <1>4. StreamsTyped(M)'
    BY <1>3 DEF SendWord, LinkTyped, StreamsTyped
  <1>5. BrokerTyped(M)' /\ IdsAreNumbers'
    BY DEF SendWord, LinkTyped, BrokerTyped, IdsAreNumbers, broker
  <1> QED
    BY <1>2, <1>4, <1>5 DEF LinkTyped

\* What a thread reads was in the stream, whoever it was meant for.
LEMMA ReceiveTyped ==
  ASSUME NEW M, LinkTyped(M), NEW t \in Threads, ReceiveWord(t)
  PROVE  LinkTyped(M)'
  <1>1. script[t] \in Seq(ScriptStep) /\ script[t] # <<>>
    BY DEF ReceiveWord, LinkTyped, EndsTyped, Idle
  <1>2. EndsTyped'
    <2>1. dead' \in BOOLEAN
      <3>1. UNCHANGED dead \/ dead' \in BOOLEAN
        BY DEF ReceiveWord
      <3> QED
        BY <3>1 DEF LinkTyped, EndsTyped
    <2>2. script' \in [Threads -> Seq(ScriptStep)]
      <3>1. UNCHANGED script \/ script' = [script EXCEPT ![t] = Tail(@)]
        BY DEF ReceiveWord
      <3>2. Tail(script[t]) \in Seq(ScriptStep)
        BY <1>1, HeadAndTail
      <3>3. script \in [Threads -> Seq(ScriptStep)]
        BY DEF LinkTyped, EndsTyped
      <3> QED
        BY <3>1, <3>2, <3>3
    <2> QED
      BY <2>1, <2>2 DEF ReceiveWord, LinkTyped, EndsTyped
  <1>3. StreamsTyped(M)' /\ IdsAreNumbers'
    <2>1. CASE to_process = <<>>
      BY <2>1 DEF ReceiveWord, LinkTyped, StreamsTyped, IdsAreNumbers
    <2>2. CASE to_process # <<>>
      <3>1. Head(to_process) \in WordsBack(M) /\ Tail(to_process) \in Seq(WordsBack(M))
            /\ Head(to_process).value \in Values(M)
        <4>1. to_process \in Seq(WordsBack(M))
          BY DEF LinkTyped, StreamsTyped
        <4>2. Head(to_process) \in WordsBack(M) /\ Tail(to_process) \in Seq(WordsBack(M))
          BY <2>2, <4>1, HeadAndTail
        <4> QED
          BY <4>2 DEF WordsBack
      <3>2. to_process' \in {to_process, Tail(to_process)}
            /\ (UNCHANGED got \/ got' = [got EXCEPT ![t] = Head(to_process).value])
            /\ UNCHANGED to_broker
        BY DEF ReceiveWord
      <3>3. StreamsTyped(M)'
        BY <3>1, <3>2 DEF LinkTyped, StreamsTyped
      <3>4. IdsAreNumbers'
        <4>1. \A i \in DOMAIN Tail(to_process) :
                 i + 1 \in DOMAIN to_process /\ Tail(to_process)[i] = to_process[i + 1]
          BY <2>2, HeadAndTail DEF LinkTyped, StreamsTyped
        <4> QED
          BY <3>2, <4>1 DEF LinkTyped, IdsAreNumbers
      <3> QED
        BY <3>3, <3>4
    <2> QED
      BY <2>1, <2>2
  <1>4. BrokerTyped(M)'
    BY DEF ReceiveWord, LinkTyped, BrokerTyped, broker
  <1> QED
    BY <1>2, <1>3, <1>4 DEF LinkTyped

\* A thread starts to say a typed script.
LEMMA StartTyped ==
  ASSUME NEW M, LinkTyped(M), NEW t \in Threads, NEW s \in Seq(ScriptStep), Start(t, s),
         UNCHANGED <<connected, connection, stream, got, broker, out_of_step, dead, losses>>
  PROVE  LinkTyped(M)'
  BY DEF LinkTyped, EndsTyped, StreamsTyped, BrokerTyped, IdsAreNumbers, stream, broker, Start

\* A new connection has empty streams to the process.
LEMMA ConnectTyped ==
  ASSUME NEW M, LinkTyped(M), LinkConnect
  PROVE  LinkTyped(M)'
  <1>1. connected' \in BOOLEAN /\ connection' = connection + 1 /\ to_process' = <<>>
        /\ UNCHANGED <<to_broker, ends, broker, dead, losses>>
    BY DEF LinkConnect
  <1>2. EndsTyped'
    BY <1>1 DEF LinkTyped, EndsTyped, ends
  <1>3. StreamsTyped(M)' /\ IdsAreNumbers'
    BY <1>1 DEF LinkTyped, StreamsTyped, IdsAreNumbers, ends
  <1>4. BrokerTyped(M)'
    BY <1>1 DEF LinkTyped, BrokerTyped, broker
  <1> QED
    BY <1>2, <1>3, <1>4 DEF LinkTyped

\* The broker takes in a message to push.
LEMMA EnqueueTyped ==
  ASSUME NEW M, LinkTyped(M), NEW m \in M, NEW answered, Enqueue(m, answered)
  PROVE  LinkTyped(M)'
  BY DEF Enqueue, LinkTyped, EndsTyped, StreamsTyped, BrokerTyped, IdsAreNumbers, stream, ends

\* A lost broker leaves empty streams behind.
LEMMA LoseTyped ==
  ASSUME NEW M, LinkTyped(M), LoseBroker
  PROVE  LinkTyped(M)'
  <1>1. /\ connected' \in BOOLEAN /\ losses' = losses + 1 /\ to_broker' = <<>>
        /\ UNCHANGED <<connection, to_process, ends, dead>>
    BY DEF LoseBroker
  <1>2. EndsTyped'
    BY <1>1 DEF LinkTyped, EndsTyped, ends
  <1>3. StreamsTyped(M)' /\ IdsAreNumbers'
    BY <1>1 DEF LinkTyped, StreamsTyped, IdsAreNumbers, ends
  <1>4. BrokerTyped(M)'
    <2>1. ready' \in BOOLEAN /\ published' \in SUBSET (Threads \X Values(M))
      BY DEF LoseBroker
    <2> QED
      BY <2>1 DEF LoseBroker, BrokerTyped
  <1> QED
    BY <1>2, <1>3, <1>4 DEF LinkTyped

\* The steps of a descriptor thread.
LEMMA HandlersTyped ==
  ASSUME NEW kind \in Headers
  PROVE  /\ Handler(kind) \in Seq(ServingStep)
         /\ (\E i \in DOMAIN Handler(kind) : Handler(kind)[i].op = "ready")
               => kind = "READY_TO_RECIEVE"
  <1> USE DEF Handler, Headers, ServingStep, ScriptStep, Kinds, send, recv
  <1>1. CASE kind = "NEW_SUBSCRIPTION"
    BY <1>1
  <1>2. CASE kind = "READY_TO_RECIEVE"
    BY <1>2
  <1>3. CASE kind = "NEW_MESSAGE"
    BY <1>3
  <1>4. CASE kind = "MESSAGE_ACK"
    BY <1>4
  <1>5. CASE kind = "PROCESSED"
    BY <1>5
  <1> QED
    BY <1>1, <1>2, <1>3, <1>4, <1>5

\* The broker starts to serve what a header asks for.
LEMMA HeaderTyped ==
  ASSUME NEW M, LinkTyped(M), ReadHeader
  PROVE  LinkTyped(M)'
  <1>1. to_broker \in Seq(WordsOut(M)) /\ to_broker # <<>>
    BY DEF ReadHeader, LinkTyped, StreamsTyped
  <1>2. Head(to_broker) \in WordsOut(M) /\ Tail(to_broker) \in Seq(WordsOut(M))
    BY <1>1, HeadAndTail
  <1>3. serving' \in Seq(Threads \X ServingStep)
    <2> DEFINE h == Handler(Head(to_broker).kind)
    <2>1. CASE Head(to_broker).kind \in Headers
      <3>1. h \in Seq(ServingStep) /\ Head(to_broker).by \in Threads
        BY <1>2, <2>1, HandlersTyped DEF WordsOut
      <3>2. serving' = [i \in DOMAIN h |-> <<Head(to_broker).by, h[i]>>]
        BY <2>1 DEF ReadHeader
      <3>3. DOMAIN h = 1..Len(h) /\ Len(h) \in Nat /\ \A i \in DOMAIN h : h[i] \in ServingStep
        BY <3>1
      <3> HIDE DEF h
      <3> QED
        BY <3>1, <3>2, <3>3
    <2>2. CASE Head(to_broker).kind \notin Headers
      BY <2>2 DEF ReadHeader, LinkTyped, BrokerTyped
    <2> QED
      BY <2>1, <2>2
  <1>4. StreamsTyped(M)' /\ EndsTyped' /\ IdsAreNumbers'
    BY <1>2 DEF ReadHeader, LinkTyped, StreamsTyped, EndsTyped, IdsAreNumbers, ends
  <1>5. BrokerTyped(M)'
    BY <1>3 DEF ReadHeader, LinkTyped, BrokerTyped
  <1> QED
    BY <1>4, <1>5 DEF LinkTyped

\* The broker reads what its handler expects, whatever comes.
LEMMA RestTyped ==
  ASSUME NEW M, LinkTyped(M), ReadRest
  PROVE  LinkTyped(M)'
  <1>1. to_broker \in Seq(WordsOut(M)) /\ to_broker # <<>>
        /\ serving \in Seq(Threads \X ServingStep) /\ serving # <<>>
    BY DEF ReadRest, Serving, LinkTyped, StreamsTyped, BrokerTyped
  <1>2. Head(to_broker) \in WordsOut(M) /\ Tail(to_broker) \in Seq(WordsOut(M))
        /\ Tail(serving) \in Seq(Threads \X ServingStep)
    BY <1>1, HeadAndTail
  <1>3. <<Head(to_broker).by, Head(to_broker).value>> \in Threads \X Values(M)
    BY <1>2 DEF WordsOut
  <1>4. StreamsTyped(M)' /\ EndsTyped' /\ IdsAreNumbers'
    BY <1>2 DEF ReadRest, LinkTyped, StreamsTyped, EndsTyped, IdsAreNumbers, ends
  <1>5. serving' \in {serving, Tail(serving)}
        /\ published' \in {published, published \cup {<<Head(to_broker).by, Head(to_broker).value>>}}
        /\ UNCHANGED <<ready, outgoing, pushing, last_message_id>>
    BY DEF ReadRest, ServeNext
  <1>6. BrokerTyped(M)'
    BY <1>1, <1>2, <1>3, <1>5 DEF LinkTyped, BrokerTyped
  <1> QED
    BY <1>4, <1>6 DEF LinkTyped

\* The broker answers.
LEMMA AnswerTyped ==
  ASSUME NEW M, LinkTyped(M), Answer
  PROVE  LinkTyped(M)'
  <1>1. serving \in Seq(Threads \X ServingStep) /\ serving # <<>> /\ Head(serving)[2].op = "send"
    BY DEF Answer, Serving, LinkTyped, BrokerTyped
  <1>2. Head(serving) \in Threads \X ServingStep /\ Tail(serving) \in Seq(Threads \X ServingStep)
    BY <1>1, HeadAndTail
  <1>3. Head(serving)[1] \in Threads /\ Head(serving)[2].kind \in Kinds
    BY <1>1, <1>2 DEF ServingStep, ScriptStep
  <1>4. last_message_id \in Nat /\ Nothing \in Values(M) /\ last_message_id \in Values(M)
    BY DEF LinkTyped, BrokerTyped, Values
  <1>5. \E word \in WordsBack(M) :
           /\ to_process' = Append(to_process, word)
           /\ word.kind = "id" => word.value \in Nat
    <2> DEFINE word(v) == Reply(Head(serving)[2].kind, Head(serving)[1], v)
    <2>1. \A v \in Values(M) : word(v) \in WordsBack(M)
      BY <1>3 DEF Reply, WordsBack
    <2>2. CASE Head(serving)[2].kind = "id"
      BY <1>4, <2>1, <2>2 DEF Answer, Reply
    <2>3. CASE Head(serving)[2].kind # "id"
      BY <1>4, <2>1, <2>3 DEF Answer, Reply
    <2> QED
      BY <2>2, <2>3
  <1>6. PICK word \in WordsBack(M) :
          to_process' = Append(to_process, word) /\ (word.kind = "id" => word.value \in Nat)
    BY <1>5
  <1>7. StreamsTyped(M)' /\ EndsTyped'
    BY <1>6, WordAppended DEF Answer, LinkTyped, StreamsTyped, EndsTyped, ends
  <1>8. IdsAreNumbers'
    <2>1. to_process \in Seq(WordsBack(M))
      BY DEF LinkTyped, StreamsTyped
    <2>2. \A i \in DOMAIN to_process' :
             \/ i \in DOMAIN to_process /\ to_process'[i] = to_process[i]
             \/ to_process'[i] = word
      BY <1>6, <2>1, WordAppended
    <2> QED
      BY <1>6, <2>2 DEF LinkTyped, IdsAreNumbers
  <1>9. BrokerTyped(M)'
    BY <1>2, <1>4 DEF Answer, ServeNext, generate_message_id, LinkTyped, BrokerTyped
  <1> QED
    BY <1>7, <1>8, <1>9 DEF LinkTyped

\* The broker marks a process ready, or a message processed.
LEMMA FlagsTyped ==
  ASSUME NEW M, LinkTyped(M), BecomeReady \/ Processed
  PROVE  LinkTyped(M)'
  <1>1. serving \in Seq(Threads \X ServingStep) /\ serving # <<>>
    BY DEF BecomeReady, Processed, Serving, LinkTyped, BrokerTyped
  <1>2. Tail(serving) \in Seq(Threads \X ServingStep)
    BY <1>1, HeadAndTail
  <1>3. ready' \in BOOLEAN
    <2>1. ready' = TRUE \/ UNCHANGED ready
      BY DEF BecomeReady, Processed
    <2> QED
      BY <2>1 DEF LinkTyped, BrokerTyped
  <1>4. BrokerTyped(M)'
    BY <1>2, <1>3 DEF BecomeReady, Processed, ServeNext, LinkTyped, BrokerTyped
  <1>5. StreamsTyped(M)' /\ EndsTyped' /\ IdsAreNumbers'
    BY DEF BecomeReady, Processed, LinkTyped, StreamsTyped, EndsTyped, IdsAreNumbers, ends, stream
  <1> QED
    BY <1>4, <1>5 DEF LinkTyped

\* The broker pushes a message in two sends.
LEMMA PushTyped ==
  ASSUME NEW M, LinkTyped(M), PushHeader \/ PushBody
  PROVE  LinkTyped(M)'
  <1>1. PICK word \in [kind : {"header", "body"}, to : {Broker}, value : Values(M)] :
          to_process' = Append(to_process, word)
    <2>1. CASE PushHeader
      BY <2>1 DEF PushHeader, Reply, Values
    <2>2. CASE PushBody
      BY <2>2 DEF PushBody, Reply, Values, LinkTyped, BrokerTyped
    <2> QED
      BY <2>1, <2>2
  <1>2. word \in WordsBack(M) /\ word.kind # "id"
    BY DEF WordsBack, Kinds
  <1>3. to_process \in Seq(WordsBack(M))
    BY DEF LinkTyped, StreamsTyped
  <1>4. StreamsTyped(M)' /\ EndsTyped'
    BY <1>1, <1>2, WordAppended
    DEF PushHeader, PushBody, LinkTyped, StreamsTyped, EndsTyped, ends
  <1>5. IdsAreNumbers'
    <2>1. \A i \in DOMAIN to_process' :
             \/ i \in DOMAIN to_process /\ to_process'[i] = to_process[i]
             \/ to_process'[i] = word
      BY <1>1, <1>2, <1>3, WordAppended
    <2> QED
      BY <1>2, <2>1 DEF LinkTyped, IdsAreNumbers
  <1>6. BrokerTyped(M)'
    <2>1. CASE PushHeader
      <3>1. outgoing \in Seq(M) /\ outgoing # <<>>
        BY <2>1 DEF PushHeader, LinkTyped, BrokerTyped
      <3>2. Head(outgoing) \in M /\ Tail(outgoing) \in Seq(M)
        BY <3>1, HeadAndTail
      <3> QED
        BY <2>1, <3>2 DEF PushHeader, LinkTyped, BrokerTyped
    <2>2. CASE PushBody
      BY <2>2 DEF PushBody, LinkTyped, BrokerTyped
    <2> QED
      BY <2>1, <2>2
  <1> QED
    BY <1>4, <1>5, <1>6 DEF LinkTyped

\* Every step on the link keeps what is on it of its types.
LEMMA LinkStepsTyped ==
  ASSUME NEW M, LinkTyped(M),
         BrokerStep \/ LoseBroker \/ LinkConnect \/ \E t \in Threads : SocketStep(t)
  PROVE  LinkTyped(M)'
  BY SendTyped, ReceiveTyped, ConnectTyped, LoseTyped, HeaderTyped, RestTyped, AnswerTyped,
     FlagsTyped, PushTyped
  DEF BrokerStep, SocketStep
-----------------------------------------------------------------------------
(* Tokens: words of a stream of which there may be one at a time *)

NoneIn(s, T)    == \A i \in DOMAIN s : s[i] \notin T
AtMostOne(s, T) == \A i, j \in DOMAIN s : s[i] \in T /\ s[j] \in T => i = j

\* The token is in one of two streams, or elsewhere.
OneToken(s, S, r, R, elsewhere) ==
  /\ AtMostOne(s, S) /\ AtMostOne(r, R)
  /\ NoneIn(s, S) \/ NoneIn(r, R)
  /\ elsewhere => NoneIn(s, S) /\ NoneIn(r, R)

\* A stream that loses its first word.
LEMMA TokensOfTail ==
  ASSUME NEW W, NEW s \in Seq(W), s # <<>>, NEW T
  PROVE  /\ NoneIn(s, T) => NoneIn(Tail(s), T)
         /\ AtMostOne(s, T) => AtMostOne(Tail(s), T)
         /\ AtMostOne(s, T) /\ Head(s) \in T => NoneIn(Tail(s), T)
         /\ NoneIn(s, T) => Head(s) \notin T
  <1> DEFINE q == Tail(s)
  <1>1. /\ Len(s) \in Nat \ {0} /\ DOMAIN s = 1..Len(s) /\ Head(s) = s[1]
        /\ DOMAIN q = 1..(Len(s) - 1)
        /\ \A i \in DOMAIN q : i + 1 \in DOMAIN s /\ q[i] = s[i + 1]
    BY HeadAndTail
  <1> HIDE DEF q
  <1> QED
    BY <1>1 DEF NoneIn, AtMostOne, q

\* A stream that gets a word more.
LEMMA TokensOfAppend ==
  ASSUME NEW W, NEW s \in Seq(W), NEW e \in W, NEW T
  PROVE  /\ NoneIn(s, T) => AtMostOne(Append(s, e), T)
         /\ e \notin T /\ NoneIn(s, T) => NoneIn(Append(s, e), T)
         /\ e \notin T /\ AtMostOne(s, T) => AtMostOne(Append(s, e), T)
  <1> DEFINE q == Append(s, e)
  <1>1. /\ Len(s) \in Nat /\ DOMAIN s = 1..Len(s)
        /\ DOMAIN q = 1..(Len(s) + 1) /\ q[Len(s) + 1] = e
        /\ \A i \in DOMAIN s : q[i] = s[i]
    BY WordAppended
  <1> HIDE DEF q
  <1>2. \A i \in DOMAIN q : (i \in DOMAIN s /\ q[i] = s[i]) \/ (i = Len(s) + 1 /\ q[i] = e)
    BY <1>1
  <1> QED
    BY <1>1, <1>2 DEF NoneIn, AtMostOne, q

\* No token of a kind is no token of part of it.
LEMMA NoneOfPart ==
  ASSUME NEW s, NEW T, NEW U, NoneIn(s, T), U \subseteq T
  PROVE  NoneIn(s, U)
  BY DEF NoneIn

\* An empty stream has no tokens.
LEMMA NoneInEmpty ==
  ASSUME NEW T
  PROVE  NoneIn(<<>>, T) /\ AtMostOne(<<>>, T)
  BY DEF NoneIn, AtMostOne

-----------------------------------------------------------------------------
(* The library's functions, word by word *)

NoKind   == "no kind"
Lanes    == Kinds \cup {NoKind}
Receives == {"OK", "ready", "id", "header", "body"}

\* What comes after a word in the function that says or reads it.
Follows(kind) ==
  CASE kind = "NEW_SUBSCRIPTION" -> "queue"
    [] kind = "queue"            -> "OK"
    [] kind = "READY_TO_RECIEVE" -> "ready"
    [] kind = "NEW_MESSAGE"      -> "id"
    [] kind = "id"               -> "message"
    [] kind = "header"           -> "body"
    [] kind = "MESSAGE_ACK"      -> "acknowledged"
    [] OTHER                     -> NoKind

\* The words of the broker's that answer a header, and the process's that go with it.
Answered(kind) ==
  CASE kind = "NEW_SUBSCRIPTION" -> "OK"
    [] kind = "READY_TO_RECIEVE" -> "ready"
    [] kind = "NEW_MESSAGE"      -> "id"
    [] OTHER                     -> NoKind

Second(kind) ==
  CASE kind = "NEW_SUBSCRIPTION" -> "queue"
    [] kind = "NEW_MESSAGE"      -> "message"
    [] kind = "MESSAGE_ACK"      -> "acknowledged"
    [] OTHER                     -> NoKind

\* What who is about to say, to read or to serve a word has yet to say, or to be told.
Owes(kind) ==
  CASE kind \in {"queue", "message", "acknowledged"} -> kind
    [] kind = "id"                                   -> "message"
    [] OTHER                                         -> NoKind

Awaits(kind) ==
  CASE kind \in {"OK", "ready", "id"} -> kind
    [] kind = "queue"                 -> "OK"
    [] OTHER                          -> NoKind

\* What a word that is sent, and a word that is read, change of that.
LEMMA Turns ==
  ASSUME NEW k \in Kinds
  PROVE  /\ k # NoKind
         /\ {Follows(k), Answered(k), Second(k), Owes(k), Awaits(k)} \subseteq Lanes
         /\ k \notin Receives /\ Owes(k) = NoKind => k \in Headers /\ Owes(Follows(k)) = Second(k)
         /\ k \notin Receives /\ Owes(k) # NoKind => Owes(k) = k /\ Owes(Follows(k)) = NoKind
         /\ k \notin Receives /\ Awaits(k) = NoKind => Awaits(Follows(k)) = Answered(k)
         /\ k \notin Receives /\ Awaits(k) # NoKind =>
              Answered(k) = NoKind /\ Awaits(Follows(k)) = Awaits(k)
         /\ k \in Receives => Owes(Follows(k)) = Owes(k) /\ Awaits(Follows(k)) = NoKind
         /\ k \in {"OK", "ready", "id"} => Awaits(k) = k
         /\ k \in {"header", "body"} => Awaits(k) = NoKind
  <1> USE DEF Kinds, NoKind, Lanes, Receives, Follows, Answered, Second, Owes, Awaits, Headers
  <1>1. CASE k \in {"NEW_SUBSCRIPTION", "queue", "OK"}
    BY <1>1
  <1>2. CASE k \in {"READY_TO_RECIEVE", "ready", "PROCESSED"}
    BY <1>2
  <1>3. CASE k \in {"NEW_MESSAGE", "id", "message"}
    BY <1>3
  <1>4. CASE k \in {"header", "body", "MESSAGE_ACK", "acknowledged"}
    BY <1>4
  <1> QED
    BY <1>1, <1>2, <1>3, <1>4

\* The scripts are those functions, or what is left of one.
Whole(s) == \A i \in DOMAIN s :
  /\ s[i].op = (IF s[i].kind \in Receives THEN "recv" ELSE "send")
  /\ Follows(s[i].kind) = (IF i = Len(s) THEN NoKind ELSE s[i + 1].kind)

Functions ==
  {subscribe_to_queue, ready_to_recieve, send_pokemon_message, receive_pokemon_message,
   send_message_acknowledge, already_processed}

Openings == (Headers \cup {"header"})

\* One word, two or three make a function.
LEMMA WholeByLength ==
  ASSUME NEW a \in ScriptStep, NEW b \in ScriptStep, NEW c \in ScriptStep
  PROVE  LET Op(x) == x.op = (IF x.kind \in Receives THEN "recv" ELSE "send")
         IN  /\ Op(a) /\ Follows(a.kind) = NoKind => Whole(<<a>>)
             /\ Op(a) /\ Op(b) /\ Follows(a.kind) = b.kind /\ Follows(b.kind) = NoKind
                  => Whole(<<a, b>>)
             /\ Op(a) /\ Op(b) /\ Op(c) /\ Follows(a.kind) = b.kind /\ Follows(b.kind) = c.kind
                  /\ Follows(c.kind) = NoKind => Whole(<<a, b, c>>)
  BY DEF Whole

\* A function of the library begins with a header, to send or to read.
LEMMA FunctionsWhole ==
  ASSUME NEW s \in Functions
  PROVE  s \in Seq(ScriptStep) /\ s # <<>> /\ Whole(s) /\ Head(s).kind \in Openings
  <1>1. s \in Seq(ScriptStep)
    BY ScriptsTyped DEF Functions
  <1>2. \A k \in Kinds : send(k) \in ScriptStep /\ recv(k) \in ScriptStep
    BY DEF send, recv, ScriptStep
  <1>3. /\ \A k \in Kinds : send(k).kind = k /\ send(k).op = "send"
        /\ \A k \in Kinds : recv(k).kind = k /\ recv(k).op = "recv"
    BY DEF send, recv
  <1>4. Whole(s)
    <2> USE DEF Kinds, Follows, NoKind, Receives
    <2>1. CASE s = subscribe_to_queue
      BY <1>2, <1>3, <2>1, WholeByLength DEF subscribe_to_queue
    <2>2. CASE s = ready_to_recieve
      BY <1>2, <1>3, <2>2, WholeByLength DEF ready_to_recieve
    <2>3. CASE s = send_pokemon_message
      BY <1>2, <1>3, <2>3, WholeByLength DEF send_pokemon_message
    <2>4. CASE s = receive_pokemon_message
      BY <1>2, <1>3, <2>4, WholeByLength DEF receive_pokemon_message
    <2>5. CASE s = send_message_acknowledge
      BY <1>2, <1>3, <2>5, WholeByLength DEF send_message_acknowledge
    <2>6. CASE s = already_processed
      BY <1>2, <1>3, <2>6, WholeByLength DEF already_processed
    <2> QED
      BY <2>1, <2>2, <2>3, <2>4, <2>5, <2>6 DEF Functions
  <1>5. s # <<>> /\ Head(s).kind \in Openings
    BY DEF Functions, subscribe_to_queue, ready_to_recieve, send_pokemon_message,
           receive_pokemon_message, send_message_acknowledge, already_processed, send, recv,
           Openings, Headers
  <1> QED
    BY <1>1, <1>4, <1>5

\* What is left of one.
LEMMA RestWhole ==
  ASSUME NEW s \in Seq(ScriptStep), s # <<>>, Whole(s)
  PROVE  /\ Whole(Tail(s))
         /\ Head(s).kind \in Kinds
         /\ Head(s).op = (IF Head(s).kind \in Receives THEN "recv" ELSE "send")
         /\ Follows(Head(s).kind) = (IF Tail(s) = <<>> THEN NoKind ELSE Head(Tail(s)).kind)
  <1> DEFINE q == Tail(s)
  <1>1. /\ Len(s) \in Nat \ {0} /\ DOMAIN s = 1..Len(s) /\ Head(s) = s[1] /\ Head(s) \in ScriptStep
        /\ q \in Seq(ScriptStep) /\ Len(q) = Len(s) - 1 /\ DOMAIN q = 1..(Len(s) - 1)
        /\ \A i \in DOMAIN q : i + 1 \in DOMAIN s /\ q[i] = s[i + 1]
    BY HeadAndTail
  <1>2. q = <<>> <=> Len(s) = 1
    BY <1>1
  <1>3. q # <<>> => Head(q) = s[2]
    BY <1>1, <1>2
  <1> HIDE DEF q
  <1>4. Whole(q)
    BY <1>1 DEF Whole
  <1>5. /\ Head(s).op = (IF Head(s).kind \in Receives THEN "recv" ELSE "send")
        /\ Follows(Head(s).kind) = (IF q = <<>> THEN NoKind ELSE Head(q).kind)
    BY <1>1, <1>2, <1>3 DEF Whole
  <1>6. Head(s).kind \in Kinds
    BY <1>1 DEF ScriptStep
  <1> QED
    BY <1>4, <1>5, <1>6 DEF q

\* The word that a thread is about to say or to read.
Phase(t) == IF Idle(t) THEN NoKind ELSE Head(script[t]).kind
Scripted == \A t \in Threads : Whole(script[t])

\* A thread goes on with its script.
LEMMA PhaseMoves ==
  ASSUME EndsTyped, Scripted, NEW t \in Threads, ~Idle(t),
         script' = [script EXCEPT ![t] = Tail(@)]
  PROVE  /\ Scripted'
         /\ Phase(t) \in Kinds /\ Phase(t)' = Follows(Phase(t))
         /\ Head(script[t]).op = (IF Phase(t) \in Receives THEN "recv" ELSE "send")
         /\ \A u \in Threads : u # t => Phase(u)' = Phase(u)
  <1>1. script[t] \in Seq(ScriptStep) /\ script[t] # <<>> /\ script \in [Threads -> Seq(ScriptStep)]
    BY DEF EndsTyped, Idle
  <1>2. script'[t] = Tail(script[t]) /\ \A u \in Threads : u # t => script'[u] = script[u]
    BY <1>1
  <1>3. Whole(script[t])
    BY DEF Scripted
  <1> QED
    BY <1>1, <1>2, <1>3, RestWhole DEF Scripted, Phase, Idle

\* A thread starts a function.
LEMMA PhaseStarts ==
  ASSUME EndsTyped, Scripted, NEW t \in Threads, NEW s \in Functions, Start(t, s)
  PROVE  /\ Scripted'
         /\ Phase(t)' = Head(s).kind /\ Phase(t)' \in Openings
         /\ \A u \in Threads : u # t => Phase(u)' = Phase(u)
  <1>1. script'[t] = s /\ \A u \in Threads : u # t => script'[u] = script[u]
    BY DEF Start, EndsTyped
  <1> QED
    BY <1>1, FunctionsWhole DEF Scripted, Phase, Idle

\* What it says next is a word, or nothing.
LEMMA PhaseTyped ==
  ASSUME EndsTyped, NEW t \in Threads
  PROVE  /\ Phase(t) \in Lanes
         /\ ~Idle(t) <=> Phase(t) # NoKind
         /\ ~Idle(t) => Phase(t) \in Kinds /\ Head(script[t]).kind = Phase(t)
  <1>1. script[t] \in Seq(ScriptStep)
    BY DEF EndsTyped
  <1>2. ~Idle(t) => Head(script[t]) \in ScriptStep
    BY <1>1, HeadAndTail DEF Idle
  <1> QED
    BY <1>2 DEF Phase, ScriptStep, Lanes, Kinds, NoKind

-----------------------------------------------------------------------------
(* A stream as a run from a to b, word by word, by the moves in R *)

Runs(R, s, a, b) ==
  \E P \in [Nat -> Lanes] :
    /\ P[0] = a /\ P[Len(s)] = b
    /\ \A i \in 1..Len(s) : <<P[i - 1], s[i], P[i]>> \in R

\* A stream with one more word runs one move further.
LEMMA RunOfAppend ==
  ASSUME NEW W, NEW s \in Seq(W), NEW e \in W, NEW R, NEW a, NEW b, NEW c \in Lanes,
         Runs(R, s, a, b), <<b, e, c>> \in R
  PROVE  Runs(R, Append(s, e), a, c)
  <1> DEFINE q == Append(s, e)
  <1>1. PICK P \in [Nat -> Lanes] :
          /\ P[0] = a /\ P[Len(s)] = b
          /\ \A i \in 1..Len(s) : <<P[i - 1], s[i], P[i]>> \in R
    BY DEF Runs
  <1>2. PICK n \in Nat : n = Len(s)
    BY WordAppended
  <1>3. Len(q) = n + 1 /\ q[n + 1] = e /\ \A i \in 1..n : q[i] = s[i]
    BY <1>2, WordAppended
  <1> DEFINE Q == [P EXCEPT ![n + 1] = c]
  <1>4. Q \in [Nat -> Lanes]
    BY <1>1
  <1>5. Q[0] = a /\ Q[n] = b /\ Q[n + 1] = c /\ \A i \in 0..n : Q[i] = P[i]
    BY <1>1, <1>2
  <1> HIDE DEF q, Q
  <1>6. \A i \in 1..(n + 1) : <<Q[i - 1], q[i], Q[i]>> \in R
    <2> SUFFICES ASSUME NEW i \in 1..(n + 1) PROVE <<Q[i - 1], q[i], Q[i]>> \in R
      OBVIOUS
    <2>1. CASE i = n + 1
      <3>1. i - 1 = n
        BY <2>1
      <3>2. Q[i - 1] = b /\ q[i] = e /\ Q[i] = c
        BY <3>1, <2>1, <1>1, <1>2, <1>3, <1>5
      <3> QED
        BY <3>2
    <2>2. CASE i \in 1..n
      <3>1. Q[i - 1] = P[i - 1] /\ Q[i] = P[i] /\ q[i] = s[i]
        BY <1>3, <1>5, <2>2
      <3> QED
        BY <1>1, <1>2, <2>2, <3>1
    <2> QED
      BY <2>1, <2>2
  <1>7. Runs(R, q, a, c)
    BY <1>3, <1>4, <1>5, <1>6 DEF Runs
  <1> QED
    BY <1>7 DEF q

\* A stream without its first word runs from where that word led.
LEMMA RunOfTail ==
  ASSUME NEW W, NEW s \in Seq(W), s # <<>>, NEW R, NEW a, NEW b, Runs(R, s, a, b)
  PROVE  \E m \in Lanes : <<a, Head(s), m>> \in R /\ Runs(R, Tail(s), m, b)
  <1> DEFINE q == Tail(s)
  <1>1. PICK P \in [Nat -> Lanes] :
          /\ P[0] = a /\ P[Len(s)] = b
          /\ \A i \in 1..Len(s) : <<P[i - 1], s[i], P[i]>> \in R
    BY DEF Runs
  <1>2. PICK n \in Nat : Len(s) = n + 1
    <2>1. Len(s) \in Nat \ {0}
      BY HeadAndTail
    <2> QED
      BY <2>1, Len(s) - 1 \in Nat
  <1>3. Len(q) = n /\ Head(s) = s[1] /\ \A i \in 1..n : q[i] = s[i + 1]
    BY <1>2, HeadAndTail
  <1> DEFINE Q == [i \in Nat |-> P[i + 1]]
  <1>4. Q \in [Nat -> Lanes] /\ \A i \in Nat : Q[i] = P[i + 1]
    BY <1>1
  <1> HIDE DEF q, Q
  <1>5. Q[0] = P[1] /\ Q[n] = b
    BY <1>1, <1>2, <1>4
  <1>6. \A i \in 1..n : <<Q[i - 1], q[i], Q[i]>> \in R
    <2> SUFFICES ASSUME NEW i \in 1..n PROVE <<Q[i - 1], q[i], Q[i]>> \in R
      OBVIOUS
    <2>1. i + 1 \in 1..(n + 1) /\ Q[i - 1] = P[i] /\ Q[i] = P[i + 1] /\ q[i] = s[i + 1]
      <3>1. i - 1 \in Nat /\ i \in Nat /\ (i - 1) + 1 = i /\ i + 1 \in 1..(n + 1)
        OBVIOUS
      <3> QED
        BY <1>3, <1>4, <3>1
    <2>2. <<P[(i + 1) - 1], s[i + 1], P[i + 1]>> \in R
      BY <1>1, <1>2, <2>1
    <2>3. (i + 1) - 1 = i
      OBVIOUS
    <2> QED
      BY <2>1, <2>2, <2>3
  <1>7. Runs(R, q, Q[0], b)
    BY <1>3, <1>4, <1>5, <1>6 DEF Runs
  <1>8. <<a, Head(s), Q[0]>> \in R
    <2>1. 1 \in 1..Len(s) /\ 1 - 1 = 0
      BY <1>2
    <2>2. <<P[1 - 1], s[1], P[1]>> \in R
      BY <1>1, <2>1
    <2> QED
      BY <1>1, <1>3, <1>5, <2>1, <2>2
  <1> QED
    BY <1>4, <1>7, <1>8 DEF q

\* An empty stream runs nowhere.
LEMMA RunOfNothing ==
  ASSUME NEW R, NEW a \in Lanes
  PROVE  Runs(R, <<>>, a, a)
  <1> DEFINE P == [i \in Nat |-> a]
  <1>1. P \in [Nat -> Lanes] /\ P[0] = a /\ P[Len(<<>>)] = a /\ 1..Len(<<>>) = {}
    OBVIOUS
  <1> QED
    BY <1>1 DEF Runs

-----------------------------------------------------------------------------
(* The descriptor thread, step by step *)

Stages ==
  {"queue", "OK", "ready", "become ready", "id", "message", "acknowledged", "processed"}

StepOf(stage) ==
  CASE stage \in {"queue", "message", "acknowledged"} -> recv(stage)
    [] stage \in {"OK", "ready", "id"}                -> send(stage)
    [] stage = "become ready"                         -> [op |-> "ready"]
    [] stage = "processed"                            -> [op |-> "processed"]

\* What comes after a step of handle_incoming, and what is first for a header.
After(stage) ==
  CASE stage = "queue" -> "OK"
    [] stage = "ready" -> "become ready"
    [] stage = "id"    -> "message"
    [] OTHER           -> NoKind

First(kind) ==
  CASE kind = "NEW_SUBSCRIPTION" -> "queue"
    [] kind = "READY_TO_RECIEVE" -> "ready"
    [] kind = "NEW_MESSAGE"      -> "id"
    [] kind = "MESSAGE_ACK"      -> "acknowledged"
    [] kind = "PROCESSED"        -> "processed"

Remaining(t, stage) ==
  IF After(stage) = NoKind THEN <<<<t, StepOf(stage)>>>>
  ELSE <<<<t, StepOf(stage)>>, <<t, StepOf(After(stage))>>>>

Stage(step) ==
  CASE step.op = "ready"     -> "become ready"
    [] step.op = "processed" -> "processed"
    [] OTHER                 -> step.kind

Handled     == serving = <<>> \/ \E t \in Threads, stage \in Stages : serving = Remaining(t, stage)
Current     == IF serving = <<>> THEN NoKind ELSE Stage(Head(serving)[2])
IsServed(t) == serving # <<>> /\ Head(serving)[1] = t

\* What the steps of the descriptor thread change of what is owed and awaited.
LEMMA StageTurns ==
  ASSUME NEW k \in Stages
  PROVE  /\ k # NoKind /\ Stage(StepOf(k)) = k
         /\ After(k) # NoKind => After(k) \in Stages /\ After(After(k)) = NoKind
         /\ StepOf(k).op \in {"recv", "send", "ready", "processed"}
         /\ {Owes(k), Awaits(k)} \subseteq Lanes
         /\ StepOf(k).op = "recv" =>
              /\ StepOf(k).kind = k /\ k \in Kinds
              /\ Owes(k) = k /\ Owes(After(k)) = NoKind /\ Awaits(After(k)) = Awaits(k)
         /\ StepOf(k).op = "send" =>
              /\ StepOf(k).kind = k /\ k \in Kinds
              /\ Awaits(k) = k /\ Awaits(After(k)) = NoKind /\ Owes(After(k)) = Owes(k)
         /\ StepOf(k).op \in {"ready", "processed"} =>
              Owes(k) = NoKind /\ Awaits(k) = NoKind /\ After(k) = NoKind
         /\ StepOf(k).op = "ready" <=> k = "become ready"
         /\ StepOf(k).op = "processed" <=> k = "processed"
         /\ After(k) = "become ready" <=> k = "ready"
         /\ After(k) \notin {"ready", "processed"}
  <1> USE DEF Stages, StepOf, Stage, After, Owes, Awaits, Lanes, Kinds, NoKind, recv, send
  <1>1. CASE k \in {"queue", "OK"}
    BY <1>1
  <1>2. CASE k \in {"ready", "become ready"}
    BY <1>2
  <1>3. CASE k \in {"id", "message"}
    BY <1>3
  <1>4. CASE k \in {"acknowledged", "processed"}
    BY <1>4
  <1> QED
    BY <1>1, <1>2, <1>3, <1>4

\* The handler of a header owes and awaits what the header announces.
LEMMA FirstTurns ==
  ASSUME NEW k \in Headers, NEW t
  PROVE  /\ k \in Kinds /\ First(k) \in Stages
         /\ Owes(First(k)) = Second(k) /\ Awaits(First(k)) = Answered(k)
         /\ [i \in DOMAIN Handler(k) |-> <<t, Handler(k)[i]>>] = Remaining(t, First(k))
         /\ First(k) = "ready" <=> k = "READY_TO_RECIEVE"
         /\ First(k) # "become ready"
         /\ First(k) = "processed" <=> k = "PROCESSED"
  <1>1. /\ k \in Kinds /\ First(k) \in Stages
        /\ Owes(First(k)) = Second(k) /\ Awaits(First(k)) = Answered(k)
        /\ First(k) = "ready" <=> k = "READY_TO_RECIEVE"
        /\ First(k) # "become ready"
        /\ First(k) = "processed" <=> k = "PROCESSED"
    BY DEF Headers, Kinds, First, Stages, Owes, Second, Awaits, Answered, NoKind
  <1>2. [i \in DOMAIN Handler(k) |-> <<t, Handler(k)[i]>>] = Remaining(t, First(k))
    <2> USE DEF Remaining, First, After, StepOf, NoKind, Handler
    <2>1. CASE k = "NEW_SUBSCRIPTION"
      BY <2>1
    <2>2. CASE k = "READY_TO_RECIEVE"
      BY <2>2
    <2>3. CASE k = "NEW_MESSAGE"
      BY <2>3
    <2>4. CASE k = "MESSAGE_ACK"
      BY <2>4
    <2>5. CASE k = "PROCESSED"
      BY <2>5
    <2> QED
      BY <2>1, <2>2, <2>3, <2>4, <2>5 DEF Headers
  <1> QED
    BY <1>1, <1>2

\* Nothing is owed or awaited where nothing is said.
LEMMA NothingOwed == Owes(NoKind) = NoKind /\ Awaits(NoKind) = NoKind /\ NoKind \in Lanes
  BY DEF Owes, Awaits, NoKind, Lanes

\* What is being served, and for whom.
LEMMA ServiceShape ==
  ASSUME Handled, serving # <<>>
  PROVE  \E t \in Threads, k \in Stages :
           /\ Head(serving) = <<t, StepOf(k)>>
           /\ Tail(serving) = IF After(k) = NoKind THEN <<>> ELSE Remaining(t, After(k))
           /\ Current = k
           /\ \A u : IsServed(u) <=> u = t
  <1>1. PICK t \in Threads, k \in Stages : serving = Remaining(t, k)
    BY DEF Handled
  <1>0. Stage(StepOf(k)) = k /\ (After(k) # NoKind => After(After(k)) = NoKind)
    BY StageTurns
  <1>2. Head(serving) = <<t, StepOf(k)>>
    BY <1>1 DEF Remaining
  <1>3. Tail(serving) = IF After(k) = NoKind THEN <<>> ELSE Remaining(t, After(k))
    BY <1>0, <1>1 DEF Remaining
  <1>4. Current = k /\ \A u : IsServed(u) <=> u = t
    BY <1>0, <1>2 DEF Current, IsServed
  <1> QED
    BY <1>2, <1>3, <1>4

\* What starts to be served.
LEMMA ServiceStarts ==
  ASSUME NEW t \in Threads, NEW k \in Stages, serving' = Remaining(t, k)
  PROVE  Handled' /\ Current' = k /\ \A u : IsServed(u)' <=> u = t
  <1>1. serving' # <<>> /\ Head(serving') = <<t, StepOf(k)>>
    BY DEF Remaining
  <1>2. Stage(StepOf(k)) = k
    BY StageTurns
  <1> QED
    BY <1>1, <1>2 DEF Handled, Current, IsServed

\* The next step of the service.
LEMMA ServiceMoves ==
  ASSUME Handled, serving # <<>>, serving' = Tail(serving)
  PROVE  /\ Handled' /\ Current' = After(Current)
         /\ \A u : IsServed(u)' <=> IsServed(u) /\ After(Current) # NoKind
  <1>1. PICK t \in Threads, k \in Stages :
          /\ Tail(serving) = IF After(k) = NoKind THEN <<>> ELSE Remaining(t, After(k))
          /\ Current = k /\ \A u : IsServed(u) <=> u = t
    BY ServiceShape
  <1>2. CASE After(k) = NoKind
    BY <1>1, <1>2 DEF Handled, Current, IsServed
  <1>3. CASE After(k) # NoKind
    <2>1. After(k) \in Stages /\ serving' = Remaining(t, After(k))
      BY <1>1, <1>3, StageTurns
    <2>2. Handled' /\ Current' = After(k) /\ \A u : IsServed(u)' <=> u = t
      BY <2>1, ServiceStarts
    <2> QED
      BY <1>1, <1>3, <2>2
  <1> QED
    BY <1>2, <1>3

-----------------------------------------------------------------------------
(* The two ends of the socket in step *)

\* A thread's words come in the order of its functions; a is what it owes before w.
OutStep(t, a, w, b) ==
  IF w.by # t THEN b = a
  ELSE IF a = NoKind THEN w.kind \in Headers /\ b = Second(w.kind)
  ELSE w.kind = a /\ b = NoKind

OutMoves(M, t) ==
  {m \in Lanes \X WordsOut(M) \X Lanes : OutStep(t, m[1], m[2], m[3])}

\* What the words of a thread are read after, and what it has yet to say.
Begun(t)  == IF IsServed(t) THEN Owes(Current) ELSE NoKind
Unsaid(t) == IF Reaches(t) THEN Owes(Phase(t)) ELSE NoKind

Said(M, t) == Runs(OutMoves(M, t), to_broker, Begun(t), Unsaid(t))

\* The headers of a thread that ask for an answer, and the words meant for it.
Questions(M, t)       == {w \in WordsOut(M) : w.by = t /\ Answered(w.kind) # NoKind}
AnswersTo(M, t)       == {w \in WordsBack(M) : w.to = t}
QuestionsBut(M, t, k) == {w \in Questions(M, t) : Answered(w.kind) # k}
AnswersBut(M, t, k)   == {w \in AnswersTo(M, t) : w.kind # k}

\* Who awaits k has asked for it once and for nothing else: in s, being served with c to
\* be answered, or answered in r.
AskedIn(M, t, s, r, c, k) ==
  /\ OneToken(s, Questions(M, t), r, AnswersTo(M, t), c # NoKind)
  /\ NoneIn(s, QuestionsBut(M, t, k))
  /\ NoneIn(r, AnswersBut(M, t, k))
  /\ c # NoKind => c = k

Answering(t) == IF IsServed(t) THEN Awaits(Current) ELSE NoKind
Asked(M, t)  == AskedIn(M, t, to_broker, to_process, Answering(t), Awaits(Phase(t)))

\* The deliveries are headers and bodies in turn, which the listener alone reads.
BackStep(a, w, b) ==
  IF w.to # Broker THEN b = a
  ELSE w.kind = a /\ b = (IF a = "header" THEN "body" ELSE "header")

BackMoves(M) ==
  {m \in Lanes \X WordsBack(M) \X Lanes : BackStep(m[1], m[2], m[3])}

Half == IF Phase(Listener) = "body" THEN "body" ELSE "header"

Pushed(M) ==
  \E e \in {"header", "body"} :
    /\ Runs(BackMoves(M), to_process, Half, e)
    /\ connected => (e = "body" <=> pushing # Nothing)

ListensAlone ==
  \A t \in Threads : Phase(t) \in {"header", "body"} => t = Listener

\* The broker delivers, or is about to.
Awake == ready \/ pushing # Nothing \/ Current = "become ready"

\* A broker that died has left nothing of its own.
LeftNothing ==
  /\ ~connected => to_broker = <<>> /\ serving = <<>> /\ pushing = Nothing /\ ~ready
  /\ \A t \in Threads : socket[t] <= connection

TurnInv(M) ==
  /\ Scripted /\ Handled /\ ListensAlone /\ LeftNothing /\ Pushed(M)
  /\ \A t \in Threads : Said(M, t) /\ Asked(M, t)

-----------------------------------------------------------------------------
(* Questions and answers *)

\* The types of the streams, for what follows.
StreamPair(M, s, r) == s \in Seq(WordsOut(M)) /\ r \in Seq(WordsBack(M))

\* The kinds of the words are no NoKind.
LEMMA WordsAreOfKinds ==
  ASSUME NEW M
  PROVE  /\ \A w \in WordsOut(M) : w.kind \in Kinds /\ w.by \in Threads
         /\ \A w \in WordsBack(M) : w.kind \in Kinds /\ w.to \in Threads \cup {Broker}
         /\ NoKind \notin Kinds
  BY DEF WordsOut, WordsBack, Kinds, NoKind

\* Who awaits nothing has asked for nothing and is answered nothing.
LEMMA NothingAsked ==
  ASSUME NEW M, NEW t, NEW s, NEW r, NEW c, StreamPair(M, s, r)
  PROVE  AskedIn(M, t, s, r, c, NoKind) <=>
           NoneIn(s, Questions(M, t)) /\ NoneIn(r, AnswersTo(M, t)) /\ c = NoKind
  <1>1. \A w \in AnswersTo(M, t) : w \in AnswersBut(M, t, NoKind)
    BY WordsAreOfKinds DEF AnswersTo, AnswersBut
  <1>2. \A w \in Questions(M, t) : w \in QuestionsBut(M, t, NoKind)
    BY DEF Questions, QuestionsBut
  <1>3. AnswersBut(M, t, NoKind) \subseteq AnswersTo(M, t)
        /\ QuestionsBut(M, t, NoKind) \subseteq Questions(M, t)
    BY DEF AnswersBut, QuestionsBut
  <1> QED
    BY <1>1, <1>2, <1>3 DEF AskedIn, OneToken, NoneIn, AtMostOne

\* Who has asked for nothing may as well await anything.
LEMMA AskAnew ==
  ASSUME NEW M, NEW t, NEW s, NEW r, NEW k,
         NoneIn(s, Questions(M, t)), NoneIn(r, AnswersTo(M, t))
  PROVE  AskedIn(M, t, s, r, NoKind, k)
  BY DEF AskedIn, OneToken, NoneIn, AtMostOne, AnswersBut, QuestionsBut

\* A word of its own that asks for nothing, or of another thread.
LEMMA SayOther ==
  ASSUME NEW M, NEW t, NEW s, NEW r, NEW c, NEW k, StreamPair(M, s, r),
         AskedIn(M, t, s, r, c, k), NEW w \in WordsOut(M), w \notin Questions(M, t)
  PROVE  AskedIn(M, t, Append(s, w), r, c, k)
  <1>1. w \notin QuestionsBut(M, t, k)
    BY DEF QuestionsBut
  <1> QED
    BY <1>1, TokensOfAppend DEF AskedIn, OneToken, StreamPair

\* A thread that awaits nothing asks.
LEMMA Ask ==
  ASSUME NEW M, NEW t, NEW s, NEW r, NEW c, StreamPair(M, s, r),
         AskedIn(M, t, s, r, c, NoKind), NEW w \in WordsOut(M), w.by = t
  PROVE  AskedIn(M, t, Append(s, w), r, c, Answered(w.kind))
  <1>1. NoneIn(s, Questions(M, t)) /\ NoneIn(r, AnswersTo(M, t)) /\ c = NoKind
    BY NothingAsked
  <1>2. AtMostOne(Append(s, w), Questions(M, t))
    BY <1>1, TokensOfAppend DEF StreamPair
  <1>3. NoneIn(Append(s, w), QuestionsBut(M, t, Answered(w.kind)))
    <2>1. w \notin QuestionsBut(M, t, Answered(w.kind))
          /\ QuestionsBut(M, t, Answered(w.kind)) \subseteq Questions(M, t)
      BY DEF QuestionsBut
    <2> QED
      BY <1>1, <2>1, NoneOfPart, TokensOfAppend DEF StreamPair
  <1>4. NoneIn(r, AnswersBut(M, t, Answered(w.kind))) /\ AtMostOne(r, AnswersTo(M, t))
    BY <1>1 DEF NoneIn, AtMostOne, AnswersBut
  <1> QED
    BY <1>1, <1>2, <1>3, <1>4 DEF AskedIn, OneToken

\* The broker takes the next word.
LEMMA TakeWord ==
  ASSUME NEW M, NEW t, NEW s, NEW r, NEW c, NEW k, StreamPair(M, s, r), s # <<>>,
         AskedIn(M, t, s, r, c, k)
  PROVE  AskedIn(M, t, Tail(s), r, c, k)
  BY TokensOfTail DEF AskedIn, OneToken, StreamPair

\* If it is a question of t's, it is the one that is served.
LEMMA TakeQuestion ==
  ASSUME NEW M, NEW t, NEW s, NEW r, NEW c, NEW k, StreamPair(M, s, r), s # <<>>,
         AskedIn(M, t, s, r, c, k), Head(s) \in Questions(M, t)
  PROVE  AskedIn(M, t, Tail(s), r, Answered(Head(s).kind), k)
  <1>1. NoneIn(Tail(s), Questions(M, t)) /\ AtMostOne(Tail(s), Questions(M, t))
    BY TokensOfTail DEF AskedIn, OneToken, StreamPair
  <1>2. NoneIn(r, AnswersTo(M, t))
    BY TokensOfTail DEF AskedIn, OneToken, StreamPair
  <1>3. Head(s) \notin QuestionsBut(M, t, k)
    BY TokensOfTail DEF AskedIn, StreamPair
  <1> QED
    BY <1>1, <1>2, <1>3, TakeWord DEF AskedIn, OneToken, QuestionsBut

\* The broker answers t, or someone else.
LEMMA GiveAnswer ==
  ASSUME NEW M, NEW t, NEW s, NEW r, NEW c, NEW k, StreamPair(M, s, r),
         AskedIn(M, t, s, r, c, k), NEW w \in WordsBack(M)
  PROVE  /\ w.to # t => AskedIn(M, t, s, Append(r, w), c, k)
         /\ w.to = t /\ c # NoKind /\ w.kind = c => AskedIn(M, t, s, Append(r, w), NoKind, k)
  <1>1. ASSUME w.to # t PROVE AskedIn(M, t, s, Append(r, w), c, k)
    <2>1. w \notin AnswersTo(M, t) /\ w \notin AnswersBut(M, t, k)
      BY <1>1 DEF AnswersTo, AnswersBut
    <2> QED
      BY <2>1, TokensOfAppend DEF AskedIn, OneToken, StreamPair
  <1>2. ASSUME w.to = t, c # NoKind, w.kind = c
        PROVE  AskedIn(M, t, s, Append(r, w), NoKind, k)
    <2>1. NoneIn(s, Questions(M, t)) /\ NoneIn(r, AnswersTo(M, t)) /\ c = k
      BY <1>2 DEF AskedIn, OneToken
    <2>2. w \notin AnswersBut(M, t, k)
      BY <1>2, <2>1 DEF AnswersBut
    <2>3. AtMostOne(Append(r, w), AnswersTo(M, t)) /\ NoneIn(Append(r, w), AnswersBut(M, t, k))
      BY <2>1, <2>2, TokensOfAppend DEF AskedIn, StreamPair
    <2> QED
      BY <2>1, <2>3 DEF AskedIn, OneToken
  <1> QED
    BY <1>1, <1>2

\* A word is read, whosever.
LEMMA ReadWord ==
  ASSUME NEW M, NEW t, NEW s, NEW r, NEW c, NEW k, StreamPair(M, s, r), r # <<>>,
         AskedIn(M, t, s, r, c, k)
  PROVE  AskedIn(M, t, s, Tail(r), c, k)
  BY TokensOfTail DEF AskedIn, OneToken, StreamPair

\* A word that is meant for t is what it awaits, and there is no other.
LEMMA ReadAnswer ==
  ASSUME NEW M, NEW t, NEW s, NEW r, NEW c, NEW k, StreamPair(M, s, r), r # <<>>,
         AskedIn(M, t, s, r, c, k), Head(r).to = t
  PROVE  /\ Head(r).kind = k /\ c = NoKind
         /\ NoneIn(s, Questions(M, t)) /\ NoneIn(Tail(r), AnswersTo(M, t))
  <1>1. Head(r) \in AnswersTo(M, t)
    BY HeadAndTail DEF StreamPair, AnswersTo
  <1>2. ~NoneIn(r, AnswersTo(M, t)) /\ NoneIn(Tail(r), AnswersTo(M, t))
    BY <1>1, TokensOfTail DEF AskedIn, OneToken, StreamPair
  <1>3. Head(r) \notin AnswersBut(M, t, k)
    BY TokensOfTail DEF AskedIn, StreamPair
  <1> QED
    BY <1>1, <1>2, <1>3 DEF AskedIn, OneToken, AnswersBut

-----------------------------------------------------------------------------
(* Every step keeps the ends in step *)

\* The typed streams make a pair.
LEMMA StreamsPaired ==
  ASSUME NEW M, LinkTyped(M)
  PROVE  StreamPair(M, to_broker, to_process)
  BY DEF LinkTyped, StreamsTyped, StreamPair

\* A header is not what comes after a word, and a body only after a header.
LEMMA BodiesFollow ==
  ASSUME NEW k \in Kinds
  PROVE  Follows(k) # "header" /\ (Follows(k) = "body" <=> k = "header")
  BY DEF Kinds, Follows, NoKind

\* What leaves a thread's turn alone leaves its words alone.
LEMMA SaidUnchanged ==
  ASSUME NEW M, NEW t, Said(M, t), to_broker' = to_broker,
         Begun(t)' = Begun(t), Unsaid(t)' = Unsaid(t)
  PROVE  Said(M, t)'
  BY DEF Said

\* So with its questions.
LEMMA AskedUnchanged ==
  ASSUME NEW M, NEW t, Asked(M, t), UNCHANGED <<to_broker, to_process>>,
         Answering(t)' = Answering(t), Awaits(Phase(t))' = Awaits(Phase(t))
  PROVE  Asked(M, t)'
  BY DEF Asked

\* A thread sends the next word of its function, or loses it with the broker.
LEMMA SendKeepsTurn ==
  ASSUME NEW M, LinkTyped(M), TurnInv(M), NEW t \in Threads, SendWord(t)
  PROVE  TurnInv(M)'
  <1> DEFINE k == Phase(t)
  <1>1. /\ ~Idle(t) /\ Head(script[t]).op = "send"
        /\ script' = [script EXCEPT ![t] = Tail(@)]
        /\ UNCHANGED <<connected, connection, to_process, socket, serving, ready, pushing>>
    BY DEF SendWord, broker
  <1>2. /\ Scripted' /\ k \in Kinds \ Receives /\ Phase(t)' = Follows(k)
        /\ \A u \in Threads : u # t => Phase(u)' = Phase(u)
    <2>1. EndsTyped /\ Scripted
      BY DEF LinkTyped, TurnInv
    <2>2. Head(script[t]).op = (IF k \in Receives THEN "recv" ELSE "send")
      BY <1>1, <2>1, PhaseMoves
    <2> QED
      BY <1>1, <2>1, <2>2, PhaseMoves
  <1>3. Handled' /\ \A u \in Threads : IsServed(u)' = IsServed(u) /\ Current' = Current
    BY <1>1 DEF TurnInv, Handled, IsServed, Current
  <1>4. \A u \in Threads : Begun(u)' = Begun(u) /\ Answering(u)' = Answering(u)
    BY <1>3 DEF Begun, Answering
  <1>5. \A u \in Threads : Reaches(u)' = Reaches(u)
    BY <1>1 DEF Reaches
  <1>6. Word(t) \in WordsOut(M) /\ Word(t).by = t /\ Word(t).kind = k
    BY <1>1, WordTyped DEF Word, Phase
  <1>7. to_broker' = IF Reaches(t) THEN Append(to_broker, Word(t)) ELSE to_broker
    BY DEF SendWord
  <1>8. ListensAlone' /\ Half' = Half
    BY <1>2, BodiesFollow, LinkAssumption DEF TurnInv, ListensAlone, Half, Receives, Threads
  <1>9. Pushed(M)'
    BY <1>1, <1>8 DEF TurnInv, Pushed
  <1>10. LeftNothing'
    BY <1>1, <1>5, <1>7 DEF TurnInv, LeftNothing, Reaches
  <1>11. ASSUME NEW u \in Threads PROVE Said(M, u)' /\ Asked(M, u)'
    <2>0. Said(M, u) /\ Asked(M, u)
      BY DEF TurnInv
    <2>1. CASE ~Reaches(t)
      <3>1. to_broker' = to_broker /\ Unsaid(u)' = Unsaid(u)
        BY <1>2, <1>5, <1>7, <2>1 DEF Unsaid
      <3>2. Said(M, u)'
        BY <1>4, <2>0, <3>1, SaidUnchanged
      <3>3. CASE u # t \/ Awaits(k) # NoKind
        <4>1. Awaits(Phase(u))' = Awaits(Phase(u))
          BY <1>2, <3>3, Turns
        <4> QED
          BY <1>1, <1>4, <2>0, <3>1, <3>2, <4>1, AskedUnchanged
      <3>4. CASE u = t /\ Awaits(k) = NoKind
        <4>1. NoneIn(to_broker, Questions(M, t)) /\ NoneIn(to_process, AnswersTo(M, t))
              /\ Answering(t) = NoKind
          BY <2>0, <3>4, StreamsPaired, NothingAsked DEF Asked
        <4>2. AskedIn(M, t, to_broker, to_process, NoKind, Awaits(Follows(k)))
          BY <4>1, AskAnew
        <4> QED
          BY <1>1, <1>2, <1>4, <3>1, <3>2, <3>4, <4>1, <4>2 DEF Asked
      <3> QED
        BY <3>3, <3>4
    <2>2. CASE Reaches(t)
      <3> DEFINE w == Word(t)
      <3>1. to_broker' = Append(to_broker, w) /\ to_broker \in Seq(WordsOut(M))
        BY <1>7, <2>2 DEF LinkTyped, StreamsTyped
      <3>2. Unsaid(u) \in Lanes /\ Unsaid(u)' \in Lanes
        <4>1. k \in Lanes /\ Follows(k) \in Lanes /\ Phase(u) \in Lanes
          BY <1>2, PhaseTyped, Turns DEF Lanes, LinkTyped
        <4>2. \A x \in Lanes : Owes(x) \in Lanes
          BY Turns, NothingOwed DEF Lanes
        <4> QED
          BY <1>2, <1>5, <4>1, <4>2, NothingOwed DEF Unsaid
      <3>3. OutStep(u, Unsaid(u), w, Unsaid(u)')
        <4>1. CASE u # t
          <5>1. Unsaid(u)' = Unsaid(u)
            BY <1>2, <1>5, <4>1 DEF Unsaid
          <5> QED
            BY <1>6, <4>1, <5>1 DEF OutStep
        <4>2. CASE u = t
          <5>1. Unsaid(t) = Owes(k) /\ Unsaid(t)' = Owes(Follows(k))
            BY <1>2, <1>5, <2>2 DEF Unsaid
          <5> HIDE DEF w, k
          <5>2. \/ Owes(k) = NoKind /\ k \in Headers /\ Owes(Follows(k)) = Second(k)
                \/ Owes(k) = k /\ Owes(k) # NoKind /\ Owes(Follows(k)) = NoKind
            BY <1>2, Turns
          <5>3. w.by = t /\ w.kind = k
            BY <1>6 DEF w
          <5> QED
            BY <4>2, <5>1, <5>2, <5>3 DEF OutStep
        <4> QED
          BY <4>1, <4>2
      <3>4. <<Unsaid(u), w, Unsaid(u)'>> \in OutMoves(M, u)
        BY <1>6, <3>2, <3>3 DEF OutMoves
      <3>5. Said(M, u)'
        <4>1. Runs(OutMoves(M, u), Append(to_broker, w), Begun(u), Unsaid(u)')
          BY <1>6, <2>0, <3>1, <3>2, <3>4, RunOfAppend DEF Said
        <4> QED
          BY <1>4, <3>1, <4>1 DEF Said
      <3>6. Asked(M, u)'
        <4> HIDE DEF w
        <4>0. w \in WordsOut(M) /\ w.by = t /\ w.kind = k
          BY <1>6 DEF w
        <4>1. StreamPair(M, to_broker, to_process)
          BY StreamsPaired
        <4>2. AskedIn(M, u, to_broker, to_process, Answering(u), Awaits(Phase(u)))
          BY <2>0 DEF Asked
        <4>3. CASE u = t /\ Awaits(k) = NoKind
          <5>1. AskedIn(M, t, Append(to_broker, w), to_process, Answering(t), Answered(k))
            BY <4>0, <4>1, <4>2, <4>3, Ask
          <5>2. Answered(k) = Awaits(Follows(k))
            BY <1>2, <4>3, Turns
          <5> QED
            BY <1>1, <1>2, <1>4, <3>1, <4>3, <5>1, <5>2 DEF Asked
        <4>4. CASE u # t \/ Awaits(k) # NoKind
          <5>1. w \notin Questions(M, u) /\ Awaits(Phase(u))' = Awaits(Phase(u))
            BY <1>2, <4>0, <4>4, Turns DEF Questions
          <5>2. AskedIn(M, u, Append(to_broker, w), to_process, Answering(u), Awaits(Phase(u)))
            BY <4>0, <4>1, <4>2, <5>1, SayOther
          <5> QED
            BY <1>1, <1>4, <3>1, <5>1, <5>2 DEF Asked
        <4> QED
          BY <4>3, <4>4
      <3> QED
        BY <3>5, <3>6
    <2> QED
      BY <2>1, <2>2
  <1> QED
    BY <1>2, <1>3, <1>8, <1>9, <1>10, <1>11 DEF TurnInv

\* The first delivery in the stream, if a word of it is next, is what the listener is to
\* read of a message.
LEMMA NextDelivery ==
  ASSUME NEW M, LinkTyped(M), Pushed(M), to_process # <<>>
  PROVE  LET w == Head(to_process)
             m == IF w.to # Broker THEN Half ELSE IF Half = "header" THEN "body" ELSE "header"
         IN  /\ w \in WordsBack(M)
             /\ w.to = Broker => w.kind = Half
             /\ \E e \in {"header", "body"} :
                  /\ Runs(BackMoves(M), Tail(to_process), m, e)
                  /\ connected => (e = "body" <=> pushing # Nothing)
  <1>1. to_process \in Seq(WordsBack(M))
    BY DEF LinkTyped, StreamsTyped
  <1>2. PICK e \in {"header", "body"} :
          /\ Runs(BackMoves(M), to_process, Half, e)
          /\ connected => (e = "body" <=> pushing # Nothing)
    BY DEF Pushed
  <1>3. PICK m \in Lanes : <<Half, Head(to_process), m>> \in BackMoves(M)
                           /\ Runs(BackMoves(M), Tail(to_process), m, e)
    BY <1>1, <1>2, RunOfTail
  <1>4. BackStep(Half, Head(to_process), m)
    BY <1>3 DEF BackMoves
  <1> QED
    BY <1>1, <1>2, <1>3, <1>4, HeadAndTail DEF BackStep

\* A thread reads what it is meant to read.
LEMMA ReceiveKeepsTurn ==
  ASSUME NEW M, LinkTyped(M), TurnInv(M), NEW t \in Threads, ReceiveWord(t), Running'
  PROVE  TurnInv(M)'
  <1> DEFINE k == Phase(t)
             w == Head(to_process)
  <1>1. /\ ~Idle(t) /\ Head(script[t]).op = "recv" /\ to_process # <<>> /\ Meant(w, t)
        /\ to_process' = Tail(to_process)
        /\ script' = [script EXCEPT ![t] = Tail(@)]
        /\ UNCHANGED <<connected, connection, to_broker, socket, serving, ready, pushing>>
    BY DEF ReceiveWord, Running, broker
  <1>2. EndsTyped /\ Scripted /\ Pushed(M) /\ StreamPair(M, to_broker, to_process)
    BY StreamsPaired DEF LinkTyped, TurnInv
  <1>3. /\ Scripted' /\ k \in Kinds /\ k \in Receives /\ Phase(t)' = Follows(k)
        /\ \A u \in Threads : u # t => Phase(u)' = Phase(u)
    <2>1. Head(script[t]).op = (IF k \in Receives THEN "recv" ELSE "send")
      BY <1>1, <1>2, PhaseMoves
    <2> QED
      BY <1>1, <1>2, <2>1, PhaseMoves
  <1>4. w.kind = k /\ w.to \in {t, Broker}
    BY <1>1 DEF Meant, Phase
  <1>5. Handled' /\ \A u \in Threads : IsServed(u)' = IsServed(u) /\ Current' = Current
    BY <1>1 DEF TurnInv, Handled, IsServed, Current
  <1>6. \A u \in Threads : Begun(u)' = Begun(u) /\ Answering(u)' = Answering(u)
    BY <1>5 DEF Begun, Answering
  <1>7. \A u \in Threads : Reaches(u)' = Reaches(u)
    BY <1>1 DEF Reaches
  <1>8. ListensAlone'
    BY <1>3, BodiesFollow DEF TurnInv, ListensAlone
  <1>9. LeftNothing'
    BY <1>1 DEF TurnInv, LeftNothing
  <1>10. Broker \notin Threads
    BY LinkAssumption DEF Threads
  <1>11. Owes(Follows(k)) = Owes(k) /\ Awaits(Follows(k)) = NoKind
    BY <1>3, Turns
  <1>12. \/ w.to = t /\ k \notin {"header", "body"}
         \/ w.to = Broker /\ k = Half /\ t = Listener /\ Awaits(k) = NoKind
    <2>1. CASE w.to = t
      <3>1. w.kind = Awaits(k)
        <4>1. AskedIn(M, t, to_broker, to_process, Answering(t), Awaits(k))
          BY DEF TurnInv, Asked
        <4>2. StreamPair(M, to_broker, to_process) /\ to_process # <<>>
          BY <1>1, <1>2
        <4> HIDE DEF k
        <4> QED
          BY ONLY <4>1, <4>2, <2>1, ReadAnswer
      <3>2. k # NoKind /\ (k \in {"header", "body"} => Awaits(k) = NoKind)
        BY <1>3, Turns
      <3> QED
        BY <1>4, <2>1, <3>1, <3>2
    <2>2. CASE w.to = Broker
      <3>1. k = Half
        BY <1>1, <1>2, <1>4, <2>2, NextDelivery
      <3>2. k \in {"header", "body"}
        BY <3>1 DEF Half
      <3>3. t = Listener
        BY <3>2 DEF TurnInv, ListensAlone
      <3>4. Awaits(k) = NoKind
        BY <1>3, <3>2, Turns
      <3> QED
        BY <2>2, <3>1, <3>3, <3>4
    <2> QED
      BY <1>4, <2>1, <2>2
  <1>13. Half' = IF w.to # Broker THEN Half ELSE IF Half = "header" THEN "body" ELSE "header"
    <2>1. Follows(k) = "body" <=> k = "header"
      BY <1>3, BodiesFollow
    <2> HIDE DEF w
    <2>2. CASE w.to = t /\ k \notin {"header", "body"}
      BY <1>3, <1>10, <2>1, <2>2 DEF Half, Threads
    <2>3. CASE w.to = Broker /\ k = Half /\ t = Listener
      BY <1>3, <2>1, <2>3 DEF Half
    <2> QED
      BY <1>12, <2>2, <2>3
  <1>14. Pushed(M)'
    <2>1. PICK e \in {"header", "body"} :
            /\ Runs(BackMoves(M), Tail(to_process), Half', e)
            /\ connected => (e = "body" <=> pushing # Nothing)
      BY <1>1, <1>2, <1>13, NextDelivery
    <2> QED
      BY <1>1, <2>1 DEF Pushed
  <1>15. ASSUME NEW u \in Threads PROVE Said(M, u)' /\ Asked(M, u)'
    <2>0. Said(M, u) /\ AskedIn(M, u, to_broker, to_process, Answering(u), Awaits(Phase(u)))
      BY DEF TurnInv, Asked
    <2>1. Unsaid(u)' = Unsaid(u)
      BY <1>3, <1>7, <1>11 DEF Unsaid
    <2>2. Said(M, u)'
      BY <1>1, <1>6, <2>0, <2>1, SaidUnchanged
    <2>3. AskedIn(M, u, to_broker, Tail(to_process), Answering(u), Awaits(Phase(u)))
      BY <1>1, <1>2, <2>0, ReadWord
    <2>4. CASE u # t \/ w.to = Broker
      <3>1. Awaits(Phase(u)') = Awaits(Phase(u))
        BY <1>3, <1>10, <1>11, <1>12, <2>4
      <3> QED
        BY <1>1, <1>6, <2>2, <2>3, <3>1 DEF Asked
    <2>5. CASE u = t /\ w.to = t
      <3>1. Answering(t) = NoKind /\ NoneIn(to_broker, Questions(M, t))
            /\ NoneIn(Tail(to_process), AnswersTo(M, t))
        <4>1. AskedIn(M, t, to_broker, to_process, Answering(t), Awaits(k))
          BY <2>0, <2>5
        <4>2. StreamPair(M, to_broker, to_process) /\ to_process # <<>>
          BY <1>1, <1>2
        <4> HIDE DEF k
        <4> QED
          BY ONLY <4>1, <4>2, <2>5, ReadAnswer
      <3>2. AskedIn(M, t, to_broker, Tail(to_process), NoKind, Awaits(Follows(k)))
        BY <3>1, AskAnew
      <3> QED
        BY <1>1, <1>3, <1>6, <2>2, <2>5, <3>1, <3>2 DEF Asked
    <2> QED
      BY <1>4, <2>4, <2>5
  <1> QED
    BY <1>3, <1>5, <1>8, <1>9, <1>14, <1>15 DEF TurnInv

\* A thread that has nothing to say starts a function of the library.
LEMMA StartKeepsTurn ==
  ASSUME NEW M, LinkTyped(M), TurnInv(M), NEW t \in Threads, Idle(t), NEW s \in Functions,
         Head(s).kind = "header" => t = Listener, Start(t, s),
         UNCHANGED <<connected, connection, stream, got, broker, out_of_step, dead, losses>>
  PROVE  TurnInv(M)'
  <1>1. UNCHANGED <<connected, connection, to_broker, to_process, serving, ready, pushing>>
    BY DEF stream, broker
  <1>2. /\ Scripted' /\ Phase(t) = NoKind /\ Phase(t)' = Head(s).kind /\ Phase(t)' \in Openings
        /\ \A u \in Threads : u # t => Phase(u)' = Phase(u)
    BY PhaseStarts DEF LinkTyped, TurnInv, Phase
  <1>3. socket'[t] = connection /\ \A u \in Threads : u # t => socket'[u] = socket[u]
    BY DEF Start, LinkTyped, EndsTyped
  <1>4. \A x \in Openings : Owes(x) = NoKind /\ Awaits(x) = NoKind /\ x # "body"
    BY DEF Openings, Headers, Owes, Awaits, NoKind
  <1>5. Handled' /\ \A u \in Threads : Begun(u)' = Begun(u) /\ Answering(u)' = Answering(u)
    BY <1>1 DEF TurnInv, Handled, Begun, Answering, IsServed, Current
  <1>6. ListensAlone'
    BY <1>2, <1>4 DEF TurnInv, ListensAlone
  <1>7. LeftNothing'
    <2>1. connection \in Nat
      BY DEF LinkTyped, EndsTyped
    <2> QED
      BY <1>1, <1>3, <2>1 DEF TurnInv, LeftNothing
  <1>8. Half' = Half
    <2>1. NoKind # "body"
      BY DEF NoKind
    <2> QED
      BY <1>2, <1>4, <2>1 DEF Half, Threads
  <1>9. Pushed(M)'
    BY <1>1, <1>8 DEF TurnInv, Pushed
  <1>10. ASSUME NEW u \in Threads PROVE Said(M, u)' /\ Asked(M, u)'
    <2>1. Unsaid(u)' = Unsaid(u) /\ Awaits(Phase(u))' = Awaits(Phase(u))
      <3>1. CASE u = t
        BY <1>2, <1>4, <3>1, NothingOwed DEF Unsaid
      <3>2. CASE u # t
        BY <1>1, <1>2, <1>3, <3>2 DEF Unsaid, Reaches
      <3> QED
        BY <3>1, <3>2
    <2> QED
      BY <1>1, <1>5, <2>1, SaidUnchanged, AskedUnchanged DEF TurnInv
  <1> QED
    BY <1>2, <1>5, <1>6, <1>7, <1>9, <1>10 DEF TurnInv

\* A new connection is read and written from the start.
LEMMA ConnectKeepsTurn ==
  ASSUME NEW M, LinkTyped(M), TurnInv(M), LinkConnect, Idle(Listener)
  PROVE  TurnInv(M)'
  <1>1. /\ connected' = TRUE /\ connection' = connection + 1 /\ to_process' = <<>> /\ ~connected
        /\ UNCHANGED <<to_broker, script, socket, serving, ready, pushing>>
    BY DEF LinkConnect, ends, broker
  <1>2. to_broker = <<>> /\ serving = <<>> /\ pushing = Nothing
    BY <1>1 DEF TurnInv, LeftNothing
  <1>3. Scripted' /\ Handled' /\ ListensAlone' /\ \A u \in Threads : Phase(u)' = Phase(u)
    BY <1>1 DEF TurnInv, Scripted, Handled, ListensAlone, Phase, Idle
  <1>4. \A u \in Threads : ~Reaches(u)' /\ socket'[u] <= connection'
    <2>1. connection \in Nat /\ \A u \in Threads : socket[u] \in Nat /\ socket[u] <= connection
      BY DEF LinkTyped, EndsTyped, TurnInv, LeftNothing
    <2> QED
      BY <1>1, <2>1 DEF Reaches
  <1>5. LeftNothing'
    BY <1>1, <1>4 DEF LeftNothing
  <1>6. Pushed(M)'
    <2>1. Half' = "header" /\ "header" \in Lanes
      BY <1>1 DEF Half, Phase, Idle, NoKind, Lanes, Kinds
    <2>2. Runs(BackMoves(M), <<>>, "header", "header")
      BY <2>1, RunOfNothing
    <2> QED
      BY <1>1, <1>2, <2>1, <2>2 DEF Pushed
  <1>7. ASSUME NEW u \in Threads PROVE Said(M, u)' /\ Asked(M, u)'
    <2>1. Begun(u)' = NoKind /\ Unsaid(u)' = NoKind /\ Answering(u)' = NoKind
      BY <1>1, <1>2, <1>4 DEF Begun, Unsaid, Answering, IsServed
    <2>2. Said(M, u)'
      BY <1>1, <1>2, <2>1, RunOfNothing, NothingOwed DEF Said
    <2>3. AskedIn(M, u, <<>>, <<>>, NoKind, Awaits(Phase(u)))
      BY NoneInEmpty, AskAnew
    <2> QED
      BY <1>1, <1>2, <1>3, <2>1, <2>2, <2>3 DEF Asked
  <1> QED
    BY <1>3, <1>5, <1>6, <1>7 DEF TurnInv

\* The broker dies: what it was asked is forgotten, what it has said can be read.
LEMMA LoseKeepsTurn ==
  ASSUME NEW M, LinkTyped(M), TurnInv(M), LoseBroker
  PROVE  TurnInv(M)'
  <1>1. /\ connected' = FALSE /\ to_broker' = <<>> /\ serving' = <<>> /\ pushing' = Nothing
        /\ ready' = FALSE /\ UNCHANGED <<connection, to_process, script, socket>>
    BY DEF LoseBroker, ends
  <1>2. Scripted' /\ ListensAlone' /\ \A u \in Threads : Phase(u)' = Phase(u)
    BY <1>1 DEF TurnInv, Scripted, ListensAlone, Phase, Idle
  <1>3. Handled' /\ LeftNothing'
    BY <1>1 DEF TurnInv, Handled, LeftNothing
  <1>4. Pushed(M)'
    <2>1. Half' = Half
      BY <1>2 DEF Half, Threads
    <2> QED
      BY <1>1, <2>1 DEF TurnInv, Pushed
  <1>5. ASSUME NEW u \in Threads PROVE Said(M, u)' /\ Asked(M, u)'
    <2>1. Begun(u)' = NoKind /\ Unsaid(u)' = NoKind /\ Answering(u)' = NoKind
      BY <1>1 DEF Begun, Unsaid, Answering, IsServed, Reaches
    <2>2. Said(M, u)'
      BY <1>1, <2>1, RunOfNothing, NothingOwed DEF Said
    <2>3. AskedIn(M, u, <<>>, to_process, NoKind, Awaits(Phase(u)))
      <3>1. AskedIn(M, u, to_broker, to_process, Answering(u), Awaits(Phase(u)))
        BY DEF TurnInv, Asked
      <3> QED
        BY <3>1, NoneInEmpty DEF AskedIn, OneToken
    <2> QED
      BY <1>1, <1>2, <2>1, <2>2, <2>3 DEF Asked
  <1> QED
    BY <1>2, <1>3, <1>4, <1>5 DEF TurnInv

\* The next word that comes to the broker is one that its thread owes, or a header.
LEMMA NextWord ==
  ASSUME NEW M, LinkTyped(M), TurnInv(M), to_broker # <<>>
  PROVE  LET w == Head(to_broker)
         IN  /\ w \in WordsOut(M)
             /\ \A u \in Threads : \E m \in Lanes :
                  /\ OutStep(u, Begun(u), w, m)
                  /\ Runs(OutMoves(M, u), Tail(to_broker), m, Unsaid(u))
  <1>1. to_broker \in Seq(WordsOut(M))
    BY DEF LinkTyped, StreamsTyped
  <1>2. ASSUME NEW u \in Threads
        PROVE  \E m \in Lanes :
                 /\ OutStep(u, Begun(u), Head(to_broker), m)
                 /\ Runs(OutMoves(M, u), Tail(to_broker), m, Unsaid(u))
    <2>1. Runs(OutMoves(M, u), to_broker, Begun(u), Unsaid(u))
      BY DEF TurnInv, Said
    <2>2. PICK m \in Lanes : <<Begun(u), Head(to_broker), m>> \in OutMoves(M, u)
                             /\ Runs(OutMoves(M, u), Tail(to_broker), m, Unsaid(u))
      BY <1>1, <2>1, RunOfTail
    <2>3. OutStep(u, Begun(u), Head(to_broker), m)
      BY <2>2 DEF OutMoves
    <2> QED
      BY <2>2, <2>3
  <1> QED
    BY <1>1, <1>2, HeadAndTail

\* A broker that serves nothing is sent a header.
LEMMA HeadersComeFirst ==
  ASSUME NEW M, LinkTyped(M), TurnInv(M), to_broker # <<>>, serving = <<>>
  PROVE  Head(to_broker).kind \in Headers
  <1>1. Head(to_broker).by \in Threads
    BY NextWord, WordsAreOfKinds
  <1>2. \E m \in Lanes : OutStep(Head(to_broker).by, NoKind, Head(to_broker), m)
    BY <1>1, NextWord DEF Begun, IsServed
  <1> QED
    BY <1>2 DEF OutStep

\* A broker that awaits a word of a thread's is sent it, or a word of another's.
LEMMA RestComesNext ==
  ASSUME NEW M, LinkTyped(M), TurnInv(M), to_broker # <<>>, Serving("recv")
  PROVE  /\ Head(serving)[1] \in Threads /\ Head(to_broker).by \in Threads
         /\ Head(to_broker).by = Head(serving)[1] =>
              Head(to_broker).kind = Head(serving)[2].kind
  <1>1. PICK t \in Threads, k \in Stages :
          /\ Head(serving) = <<t, StepOf(k)>> /\ Current = k /\ IsServed(t)
    BY ServiceShape DEF Serving, TurnInv
  <1>2. StepOf(k).kind = k /\ Owes(k) = k /\ k # NoKind
    <2>1. StepOf(k).op = "recv"
      BY <1>1 DEF Serving
    <2> QED
      BY <2>1, StageTurns
  <1>3. Begun(t) = k
    BY <1>1, <1>2 DEF Begun
  <1>4. \E m \in Lanes : OutStep(t, k, Head(to_broker), m)
    BY <1>3, NextWord
  <1>5. Head(to_broker).by \in Threads
    BY NextWord, WordsAreOfKinds
  <1> QED
    BY <1>1, <1>2, <1>4, <1>5 DEF OutStep

\* What the broker does for one thread leaves the process and its own deliveries alone.
LEMMA ServiceKeepsRest ==
  ASSUME NEW M, TurnInv(M), UNCHANGED <<connected, connection, ends>>
  PROVE  /\ Scripted' /\ ListensAlone' /\ Half' = Half
         /\ \A u \in Threads : Phase(u)' = Phase(u) /\ Unsaid(u)' = Unsaid(u)
         /\ \A u \in Threads : socket'[u] <= connection'
  <1>1. UNCHANGED <<connected, connection, script, socket>>
    BY DEF ends
  <1>2. \A u : Phase(u)' = Phase(u)
    BY <1>1 DEF Phase, Idle
  <1>3. Half' = Half
    BY <1>2 DEF Half
  <1>4. Scripted' /\ ListensAlone' /\ \A u \in Threads : Unsaid(u)' = Unsaid(u)
    BY <1>1, <1>2 DEF TurnInv, Scripted, ListensAlone, Unsaid, Reaches
  <1>5. \A u \in Threads : socket'[u] <= connection'
    BY <1>1 DEF TurnInv, LeftNothing
  <1> QED
    BY <1>2, <1>3, <1>4, <1>5

\* The broker reads a header and begins to serve it.
LEMMA HeaderKeepsTurn ==
  ASSUME NEW M, LinkTyped(M), TurnInv(M), ReadHeader
  PROVE  TurnInv(M)' /\ out_of_step' = out_of_step
  <1> DEFINE w == Head(to_broker)
             k == w.kind
  <1>1. /\ serving = <<>> /\ to_broker # <<>> /\ to_broker' = Tail(to_broker)
        /\ UNCHANGED <<connected, connection, ends, to_process, pushing, ready>>
    BY DEF ReadHeader
  <1>2. w \in WordsOut(M) /\ w.by \in Threads /\ k \in Headers
    BY <1>1, NextWord, WordsAreOfKinds, HeadersComeFirst
  <1>3. serving' = Remaining(w.by, First(k)) /\ out_of_step' = out_of_step
    BY <1>2, FirstTurns DEF ReadHeader
  <1>4. Handled' /\ Current' = First(k) /\ \A u \in Threads : IsServed(u)' <=> u = w.by
    BY <1>2, <1>3, FirstTurns, ServiceStarts
  <1>5. Owes(First(k)) = Second(k) /\ Awaits(First(k)) = Answered(k) /\ k \in Kinds
    BY <1>2, FirstTurns
  <1>6. /\ Scripted' /\ ListensAlone' /\ Half' = Half
        /\ \A u \in Threads : Phase(u)' = Phase(u) /\ Unsaid(u)' = Unsaid(u)
        /\ \A u \in Threads : socket'[u] <= connection'
    BY <1>1, ServiceKeepsRest
  <1>7. connected
    BY <1>1 DEF TurnInv, LeftNothing
  <1>8. Pushed(M)' /\ LeftNothing'
    BY <1>1, <1>6, <1>7 DEF TurnInv, Pushed, LeftNothing
  <1>9. ASSUME NEW u \in Threads PROVE Said(M, u)' /\ Asked(M, u)'
    <2>1. Begun(u) = NoKind /\ Answering(u) = NoKind
      BY <1>1 DEF Begun, Answering, IsServed
    <2>2. PICK m \in Lanes : OutStep(u, NoKind, w, m)
                             /\ Runs(OutMoves(M, u), Tail(to_broker), m, Unsaid(u))
      BY <1>1, <2>1, NextWord
    <2>3. Begun(u)' = m
      <3>1. CASE u = w.by
        BY <1>4, <1>5, <2>2, <3>1 DEF OutStep, Begun
      <3>2. CASE u # w.by
        BY <1>4, <2>2, <3>2 DEF OutStep, Begun
      <3> QED
        BY <3>1, <3>2
    <2>4. Said(M, u)'
      BY <1>1, <1>6, <2>2, <2>3 DEF Said
    <2>5. AskedIn(M, u, to_broker, to_process, NoKind, Awaits(Phase(u)))
      BY <2>1 DEF TurnInv, Asked
    <2>6. AskedIn(M, u, Tail(to_broker), to_process, NoKind, Awaits(Phase(u)))
      BY <1>1, <2>5, StreamsPaired, TakeWord
    <2>7. AskedIn(M, u, Tail(to_broker), to_process, Answering(u)', Awaits(Phase(u)))
      <3>1. CASE u # w.by
        BY <1>4, <2>6, <3>1 DEF Answering
      <3>2. CASE u = w.by /\ Answered(k) = NoKind
        BY <1>4, <1>5, <2>6, <3>2 DEF Answering
      <3>3. CASE u = w.by /\ Answered(k) # NoKind
        <4>1. w \in Questions(M, u)
          BY <1>2, <3>3 DEF Questions
        <4>2. StreamPair(M, to_broker, to_process)
          BY StreamsPaired
        <4>3. AskedIn(M, u, Tail(to_broker), to_process, Answered(k), Awaits(Phase(u)))
          BY <1>1, <2>5, <4>1, <4>2, TakeQuestion
        <4> QED
          BY <1>4, <1>5, <3>3, <4>3 DEF Answering
      <3> QED
        BY <3>1, <3>2, <3>3
    <2> QED
      BY <1>1, <1>6, <2>4, <2>7 DEF Asked
  <1> QED
    BY <1>3, <1>4, <1>6, <1>8, <1>9 DEF TurnInv

\* The rest of what a thread says, read by the service of its header.
LEMMA RestTaken ==
  ASSUME NEW M, LinkTyped(M), TurnInv(M), ReadRest, Running'
  PROVE  \E t \in Threads, k \in Stages :
           /\ StepOf(k).op = "recv" /\ Head(to_broker).by = t /\ Head(to_broker).kind = k
           /\ Current = k /\ \A u : IsServed(u) <=> u = t
           /\ Handled' /\ Current' = After(k)
           /\ \A u \in Threads : IsServed(u)' <=> u = t /\ After(k) # NoKind
  <1>1. /\ Serving("recv") /\ serving # <<>> /\ serving' = Tail(serving)
        /\ Head(to_broker).kind = Head(serving)[2].kind /\ Head(to_broker).by = Head(serving)[1]
    BY DEF ReadRest, ServeNext, Running, Serving
  <1>2. PICK t \in Threads, k \in Stages :
          /\ Head(serving) = <<t, StepOf(k)>> /\ Current = k
          /\ \A u : IsServed(u) <=> u = t
    BY <1>1, ServiceShape DEF TurnInv
  <1>3. StepOf(k).op = "recv"
    BY <1>1, <1>2 DEF Serving
  <1>4. Head(to_broker).by = t /\ Head(to_broker).kind = k
    <2>1. StepOf(k).kind = k
      BY <1>3, StageTurns
    <2> QED
      BY <1>1, <1>2, <2>1
  <1>5. /\ Handled' /\ Current' = After(k)
        /\ \A u \in Threads : IsServed(u)' <=> u = t /\ After(k) # NoKind
    BY <1>1, <1>2, ServiceMoves DEF TurnInv
  <1> QED
    BY <1>2, <1>3, <1>4, <1>5

\* It reads the rest of a message.
LEMMA RestKeepsTurn ==
  ASSUME NEW M, LinkTyped(M), TurnInv(M), ReadRest, Running'
  PROVE  TurnInv(M)'
  <1> DEFINE w == Head(to_broker)
  <1>1. /\ Serving("recv") /\ serving # <<>> /\ to_broker # <<>>
        /\ to_broker' = Tail(to_broker) /\ serving' = Tail(serving)
        /\ w.kind = Head(serving)[2].kind /\ w.by = Head(serving)[1]
        /\ UNCHANGED <<connected, connection, ends, to_process, pushing, ready>>
    BY DEF ReadRest, ServeNext, Running, Serving
  <1>2. PICK t \in Threads, k \in Stages :
          /\ StepOf(k).op = "recv" /\ w.by = t /\ w.kind = k
          /\ Current = k /\ \A u : IsServed(u) <=> u = t
          /\ Handled' /\ Current' = After(k)
          /\ \A u \in Threads : IsServed(u)' <=> u = t /\ After(k) # NoKind
    BY RestTaken
  <1>3. /\ k # NoKind /\ Owes(k) = k /\ Owes(After(k)) = NoKind
        /\ Awaits(After(k)) = Awaits(k)
    BY <1>2, StageTurns
  <1>4. w.by = t /\ w.kind = k
    BY <1>2
  <1>5. /\ Handled' /\ Current' = After(k)
        /\ \A u \in Threads : IsServed(u)' <=> u = t /\ After(k) # NoKind
    BY <1>2
  <1>6. /\ Scripted' /\ ListensAlone' /\ Half' = Half
        /\ \A u \in Threads : Phase(u)' = Phase(u) /\ Unsaid(u)' = Unsaid(u)
        /\ \A u \in Threads : socket'[u] <= connection'
    BY <1>1, ServiceKeepsRest
  <1>7. connected
    BY <1>1 DEF TurnInv, LeftNothing
  <1>8. Pushed(M)' /\ LeftNothing'
    BY <1>1, <1>6, <1>7 DEF TurnInv, Pushed, LeftNothing
  <1>9. ASSUME NEW u \in Threads PROVE Said(M, u)' /\ Asked(M, u)'
    <2>1. PICK m \in Lanes : OutStep(u, Begun(u), w, m)
                             /\ Runs(OutMoves(M, u), Tail(to_broker), m, Unsaid(u))
      BY <1>1, NextWord
    <2>2. Begun(u)' = m
      <3>1. CASE u = t
        BY <1>2, <1>3, <1>4, <1>5, <2>1, <3>1 DEF OutStep, Begun
      <3>2. CASE u # t
        BY <1>2, <1>4, <1>5, <2>1, <3>2 DEF OutStep, Begun
      <3> QED
        BY <3>1, <3>2
    <2>3. Said(M, u)'
      BY <1>1, <1>6, <2>1, <2>2 DEF Said
    <2>4. AskedIn(M, u, to_broker, to_process, Answering(u), Awaits(Phase(u)))
      BY DEF TurnInv, Asked
    <2>5. AskedIn(M, u, Tail(to_broker), to_process, Answering(u), Awaits(Phase(u)))
      BY <1>1, <2>4, StreamsPaired, TakeWord
    <2>6. Answering(u)' = Answering(u)
      BY <1>2, <1>3, <1>5, NothingOwed DEF Answering
    <2> QED
      BY <1>1, <1>6, <2>3, <2>5, <2>6 DEF Asked
  <1> QED
    BY <1>5, <1>6, <1>8, <1>9 DEF TurnInv

\* The word that answers the thread whose header is served.
LEMMA AnswerGiven ==
  ASSUME NEW M, LinkTyped(M), TurnInv(M), Answer
  PROVE  \E t \in Threads, k \in Stages, w \in WordsBack(M) :
           /\ StepOf(k).op = "send" /\ w.to = t /\ w.kind = k
           /\ to_process' = Append(to_process, w)
           /\ Current = k /\ \A u : IsServed(u) <=> u = t
           /\ Handled' /\ Current' = After(k)
           /\ \A u \in Threads : IsServed(u)' <=> u = t /\ After(k) # NoKind
  <1>1. Serving("send") /\ serving # <<>> /\ serving' = Tail(serving)
    BY DEF Answer, ServeNext, Serving
  <1>2. PICK t \in Threads, k \in Stages :
          /\ Head(serving) = <<t, StepOf(k)>> /\ Current = k
          /\ \A u : IsServed(u) <=> u = t
    BY <1>1, ServiceShape DEF TurnInv
  <1>3. StepOf(k).op = "send"
    BY <1>1, <1>2 DEF Serving
  <1>4. StepOf(k).kind = k /\ k \in Kinds
    BY <1>3, StageTurns
  <1>5. PICK w \in WordsBack(M) : to_process' = Append(to_process, w) /\ w.to = t /\ w.kind = k
    <2>1. \A v \in Values(M) : Reply(k, t, v) \in WordsBack(M)
      BY <1>4 DEF Reply, WordsBack
    <2>2. last_message_id \in Values(M) /\ Nothing \in Values(M)
      BY DEF LinkTyped, BrokerTyped, Values
    <2>3. \E v \in Values(M) : to_process' = Append(to_process, Reply(k, t, v))
      BY <1>2, <1>4, <2>2 DEF Answer
    <2> QED
      BY <2>1, <2>3 DEF Reply
  <1>6. /\ Handled' /\ Current' = After(k)
        /\ \A u \in Threads : IsServed(u)' <=> u = t /\ After(k) # NoKind
    BY <1>1, <1>2, ServiceMoves DEF TurnInv
  <1> QED
    BY <1>2, <1>3, <1>5, <1>6

\* It answers.
LEMMA AnswerKeepsTurn ==
  ASSUME NEW M, LinkTyped(M), TurnInv(M), Answer
  PROVE  TurnInv(M)'
  <1>1. /\ Serving("send") /\ serving # <<>> /\ serving' = Tail(serving)
        /\ UNCHANGED <<connected, connection, ends, to_broker, pushing, ready>>
    BY DEF Answer, ServeNext, Serving
  <1>2. PICK t \in Threads, k \in Stages, w \in WordsBack(M) :
          /\ StepOf(k).op = "send" /\ w.to = t /\ w.kind = k
          /\ to_process' = Append(to_process, w)
          /\ Current = k /\ \A u : IsServed(u) <=> u = t
          /\ Handled' /\ Current' = After(k)
          /\ \A u \in Threads : IsServed(u)' <=> u = t /\ After(k) # NoKind
    BY AnswerGiven
  <1>3. /\ k \in Kinds /\ k # NoKind /\ Awaits(k) = k
        /\ Awaits(After(k)) = NoKind /\ Owes(After(k)) = Owes(k)
    BY <1>2, StageTurns
  <1>4. w \in WordsBack(M) /\ to_process' = Append(to_process, w) /\ w.to = t /\ w.kind = k
    BY <1>2
  <1>5. /\ Handled' /\ Current' = After(k)
        /\ \A u \in Threads : IsServed(u)' <=> u = t /\ After(k) # NoKind
    BY <1>2
  <1>6. /\ Scripted' /\ ListensAlone' /\ Half' = Half
        /\ \A u \in Threads : Phase(u)' = Phase(u) /\ Unsaid(u)' = Unsaid(u)
        /\ \A u \in Threads : socket'[u] <= connection'
    BY <1>1, ServiceKeepsRest
  <1>7. connected
    BY <1>1 DEF TurnInv, LeftNothing
  <1>8. LeftNothing'
    BY <1>1, <1>6, <1>7 DEF TurnInv, LeftNothing
  <1>9. Pushed(M)'
    <2>1. PICK e \in {"header", "body"} :
            /\ Runs(BackMoves(M), to_process, Half, e)
            /\ connected => (e = "body" <=> pushing # Nothing)
      BY DEF TurnInv, Pushed
    <2>2. <<e, w, e>> \in BackMoves(M)
      BY <1>4, LinkAssumption DEF BackMoves, BackStep, Lanes, Kinds, Threads
    <2>3. to_process \in Seq(WordsBack(M)) /\ e \in Lanes
      BY DEF LinkTyped, StreamsTyped, Lanes, Kinds
    <2>4. Runs(BackMoves(M), to_process', Half, e)
      BY <1>4, <2>1, <2>2, <2>3, RunOfAppend
    <2> QED
      BY <1>1, <1>6, <2>1, <2>4 DEF Pushed
  <1>10. ASSUME NEW u \in Threads PROVE Said(M, u)' /\ Asked(M, u)'
    <2>1. Begun(u)' = Begun(u)
      BY <1>2, <1>3, <1>5, NothingOwed DEF Begun
    <2>2. Said(M, u)'
      BY <1>1, <1>6, <2>1, SaidUnchanged DEF TurnInv
    <2>3. AskedIn(M, u, to_broker, to_process, Answering(u), Awaits(Phase(u)))
      BY DEF TurnInv, Asked
    <2>4. AskedIn(M, u, to_broker, to_process', Answering(u)', Awaits(Phase(u)))
      <3>1. CASE u # t
        <4>1. Answering(u)' = Answering(u)
          BY <1>2, <1>5, <3>1 DEF Answering
        <4> QED
          BY <1>4, <2>3, <3>1, <4>1, StreamsPaired, GiveAnswer
      <3>2. CASE u = t
        <4>1. Answering(u)' = NoKind /\ Answering(u) = k
          BY <1>2, <1>3, <1>5, <3>2 DEF Answering
        <4> QED
          BY <1>3, <1>4, <2>3, <3>2, <4>1, StreamsPaired, GiveAnswer
      <3> QED
        BY <3>1, <3>2
    <2> QED
      BY <1>1, <1>6, <2>2, <2>4 DEF Asked
  <1> QED
    BY <1>5, <1>6, <1>8, <1>9, <1>10 DEF TurnInv

\* It sets a flag.
LEMMA FlagsKeepTurn ==
  ASSUME NEW M, TurnInv(M), BecomeReady \/ Processed
  PROVE  TurnInv(M)'
  <1>1. /\ Serving("ready") \/ Serving("processed")
        /\ serving # <<>> /\ serving' = Tail(serving)
        /\ UNCHANGED <<connected, connection, ends, to_broker, to_process, pushing>>
    BY DEF BecomeReady, Processed, ServeNext, Serving, stream
  <1>2. PICK t \in Threads, k \in Stages :
          /\ Head(serving) = <<t, StepOf(k)>> /\ Current = k
          /\ \A u : IsServed(u) <=> u = t
    BY <1>1, ServiceShape DEF TurnInv
  <1>3. Owes(k) = NoKind /\ Awaits(k) = NoKind /\ After(k) = NoKind
    <2>1. StepOf(k).op \in {"ready", "processed"}
      BY <1>1, <1>2 DEF Serving
    <2> QED
      BY <2>1, StageTurns
  <1>4. Handled' /\ \A u \in Threads : ~IsServed(u)'
    BY <1>1, <1>2, <1>3, ServiceMoves DEF TurnInv
  <1>5. /\ Scripted' /\ ListensAlone' /\ Half' = Half
        /\ \A u \in Threads : Phase(u)' = Phase(u) /\ Unsaid(u)' = Unsaid(u)
        /\ \A u \in Threads : socket'[u] <= connection'
    BY <1>1, ServiceKeepsRest
  <1>6. connected
    BY <1>1 DEF TurnInv, LeftNothing
  <1>7. Pushed(M)' /\ LeftNothing'
    BY <1>1, <1>5, <1>6 DEF TurnInv, Pushed, LeftNothing
  <1>8. ASSUME NEW u \in Threads PROVE Said(M, u)' /\ Asked(M, u)'
    <2>1. Begun(u)' = Begun(u) /\ Answering(u)' = Answering(u)
      BY <1>2, <1>3, <1>4 DEF Begun, Answering
    <2> QED
      BY <1>1, <1>5, <2>1, SaidUnchanged, AskedUnchanged DEF TurnInv
  <1> QED
    BY <1>4, <1>5, <1>7, <1>8 DEF TurnInv

\* The header of a delivery, or its body after it.
LEMMA PushGiven ==
  ASSUME NEW M, Nothing \notin M, LinkTyped(M), PushHeader \/ PushBody
  PROVE  \E w \in WordsBack(M) :
           /\ to_process' = Append(to_process, w) /\ w.to = Broker
           /\ w.kind = (IF pushing = Nothing THEN "header" ELSE "body")
           /\ pushing' = Nothing <=> pushing # Nothing
  <1>1. CASE PushHeader
    <2>1. outgoing \in Seq(M) /\ outgoing # <<>>
      BY <1>1 DEF PushHeader, LinkTyped, BrokerTyped
    <2>2. Head(outgoing) # Nothing
      BY <2>1, HeadAndTail
    <2> QED
      BY <1>1, <2>2 DEF PushHeader, Reply, WordsBack, Values, Kinds
  <1>2. CASE PushBody
    BY <1>2 DEF PushBody, Reply, WordsBack, Values, Kinds, LinkTyped, BrokerTyped
  <1> QED
    BY <1>1, <1>2

\* It pushes a header, or the body that goes with it.
LEMMA PushKeepsTurn ==
  ASSUME NEW M, Nothing \notin M, LinkTyped(M), TurnInv(M), PushHeader \/ PushBody
  PROVE  TurnInv(M)'
  <1>1. UNCHANGED <<connected, connection, ends, to_broker, serving, ready>> /\ connected
    BY DEF PushHeader, PushBody, TurnInv, LeftNothing
  <1>2. PICK w \in WordsBack(M) :
          /\ to_process' = Append(to_process, w) /\ w.to = Broker
          /\ w.kind = (IF pushing = Nothing THEN "header" ELSE "body")
          /\ pushing' = Nothing <=> pushing # Nothing
    BY PushGiven
  <1>3. /\ Scripted' /\ ListensAlone' /\ Half' = Half
        /\ \A u \in Threads : Phase(u)' = Phase(u) /\ Unsaid(u)' = Unsaid(u)
        /\ \A u \in Threads : socket'[u] <= connection'
    BY <1>1, ServiceKeepsRest
  <1>4. Handled' /\ \A u \in Threads : Begun(u)' = Begun(u) /\ Answering(u)' = Answering(u)
    BY <1>1 DEF TurnInv, Handled, Begun, Answering, IsServed, Current
  <1>5. LeftNothing'
    BY <1>1, <1>3 DEF LeftNothing
  <1>6. Pushed(M)'
    <2>1. PICK e \in {"header", "body"} :
            Runs(BackMoves(M), to_process, Half, e) /\ (e = "body" <=> pushing # Nothing)
      BY <1>1 DEF TurnInv, Pushed
    <2> DEFINE f == IF e = "header" THEN "body" ELSE "header"
    <2>2. e \in Lanes /\ f \in Lanes
      BY DEF Lanes, Kinds
    <2>3. <<e, w, f>> \in BackMoves(M)
      BY <1>2, <2>1, <2>2 DEF BackMoves, BackStep
    <2>4. to_process \in Seq(WordsBack(M))
      BY DEF LinkTyped, StreamsTyped
    <2>5. Runs(BackMoves(M), to_process', Half, f)
      BY <1>2, <2>1, <2>2, <2>3, <2>4, RunOfAppend
    <2> QED
      BY <1>2, <1>3, <2>1, <2>5 DEF Pushed
  <1>7. ASSUME NEW u \in Threads PROVE Said(M, u)' /\ Asked(M, u)'
    <2>1. Said(M, u)'
      BY <1>1, <1>3, <1>4, SaidUnchanged DEF TurnInv
    <2>2. AskedIn(M, u, to_broker, to_process, Answering(u), Awaits(Phase(u)))
      BY DEF TurnInv, Asked
    <2>3. w.to # u
      BY <1>2, LinkAssumption DEF Threads
    <2>4. AskedIn(M, u, to_broker, to_process', Answering(u), Awaits(Phase(u)))
      BY <1>2, <2>2, <2>3, StreamsPaired, GiveAnswer
    <2> QED
      BY <1>1, <1>3, <1>4, <2>1, <2>4 DEF Asked
  <1> QED
    BY <1>3, <1>4, <1>5, <1>6, <1>7 DEF TurnInv

\* What is neither said nor read changes no one's turn.
LEMMA TurnUnchanged ==
  ASSUME NEW M, TurnInv(M),
         UNCHANGED <<connected, connection, ends, to_broker, to_process, serving, pushing, ready>>
  PROVE  TurnInv(M)'
  <1>1. /\ Scripted' /\ ListensAlone' /\ Half' = Half
        /\ \A u \in Threads : Phase(u)' = Phase(u) /\ Unsaid(u)' = Unsaid(u)
    BY ServiceKeepsRest
  <1>2. Handled' /\ \A u \in Threads : Begun(u)' = Begun(u) /\ Answering(u)' = Answering(u)
    BY DEF TurnInv, Handled, Begun, Answering, IsServed, Current
  <1>3. Pushed(M)' /\ LeftNothing'
    BY <1>1 DEF TurnInv, Pushed, LeftNothing, ends
  <1>4. \A u \in Threads : Said(M, u)' /\ Asked(M, u)'
    BY <1>1, <1>2, SaidUnchanged, AskedUnchanged DEF TurnInv
  <1> QED
    BY <1>1, <1>2, <1>3, <1>4 DEF TurnInv

\* At first nothing is said.
LEMMA FirstTurn ==
  ASSUME NEW M, LinkInit
  PROVE  TurnInv(M)
  <1>1. /\ ~connected /\ connection = 0 /\ to_broker = <<>> /\ to_process = <<>>
        /\ script = [t \in Threads |-> <<>>] /\ socket = [t \in Threads |-> 0]
        /\ serving = <<>> /\ ~ready /\ pushing = Nothing
    BY DEF LinkInit
  <1>2. \A u \in Threads : Phase(u) = NoKind
    BY <1>1 DEF Phase, Idle
  <1>3. Scripted /\ Handled /\ ListensAlone /\ LeftNothing
    <2>1. \A t \in Threads : script[t] = <<>> /\ socket[t] = 0 /\ 0 <= connection
      BY <1>1
    <2>2. Whole(<<>>)
      BY DEF Whole
    <2>3. Scripted /\ LeftNothing
      BY <1>1, <2>1, <2>2 DEF Scripted, LeftNothing
    <2> QED
      BY <1>1, <1>2, <2>3 DEF Handled, ListensAlone, NoKind
  <1>4. Pushed(M)
    <2>1. Half = "header" /\ "header" \in Lanes
      BY <1>2 DEF Half, Threads, NoKind, Lanes, Kinds
    <2>2. Runs(BackMoves(M), <<>>, "header", "header")
      BY <2>1, RunOfNothing
    <2> QED
      BY <1>1, <2>1, <2>2 DEF Pushed
  <1>5. ASSUME NEW u \in Threads PROVE Said(M, u) /\ Asked(M, u)
    <2>1. Begun(u) = NoKind /\ Unsaid(u) = NoKind /\ Answering(u) = NoKind
      BY <1>1 DEF Begun, Unsaid, Answering, IsServed, Reaches
    <2>2. Said(M, u)
      BY <1>1, <2>1, RunOfNothing, NothingOwed DEF Said
    <2>3. AskedIn(M, u, <<>>, <<>>, NoKind, Awaits(Phase(u)))
      BY NoneInEmpty, AskAnew
    <2> QED
      BY <1>1, <2>1, <2>2, <2>3 DEF Asked
  <1> QED
    BY <1>3, <1>4, <1>5 DEF TurnInv

-----------------------------------------------------------------------------
(* Where the ends get out of step *)

\* The broker takes a word for another only between two threads that use the socket.
LEMMA RestCrosses ==
  ASSUME NEW M, LinkTyped(M), TurnInv(M), ReadRest, out_of_step'
  PROVE  \E t, u \in Threads : t # u /\ Using(t) /\ Using(u)
  <1> DEFINE w == Head(to_broker)
  <1>1. Serving("recv") /\ serving # <<>> /\ to_broker # <<>>
        /\ ~(w.kind = Head(serving)[2].kind /\ w.by = Head(serving)[1])
    BY DEF ReadRest, Serving, Running
  <1>2. Head(serving)[1] \in Threads /\ w.by \in Threads /\ w.by # Head(serving)[1]
    BY <1>1, RestComesNext
  <1>3. Using(Head(serving)[1])
    BY <1>1 DEF Using
  <1>4. Using(w.by)
    <2>1. 1 \in DOMAIN to_broker /\ w = to_broker[1]
      BY <1>1, HeadAndTail DEF LinkTyped, StreamsTyped
    <2> QED
      BY <2>1 DEF Using
  <1> QED
    BY <1>2, <1>3, <1>4

\* A thread takes a word for another if the word answers another thread that uses the
\* socket, or if it is a delivery and the thread is not the listener that reads one.
LEMMA ReceiveCrosses ==
  ASSUME NEW M, LinkTyped(M), TurnInv(M), NEW t \in Threads, ReceiveWord(t), out_of_step'
  PROVE  /\ ~Idle(t) /\ to_process # <<>> /\ Phase(t) \in Receives
         /\ \/ Head(to_process).to \in Threads \ {t} /\ ~Idle(Head(to_process).to)
            \/ /\ Head(to_process).to = Broker
               /\ t = Listener => Phase(t) \notin {"header", "body"}
  <1> DEFINE w == Head(to_process)
             k == Phase(t)
  <1>1. /\ ~Idle(t) /\ Head(script[t]).op = "recv" /\ to_process # <<>> /\ ~Meant(w, t)
    BY DEF ReceiveWord, Running
  <1>2. EndsTyped /\ Scripted /\ Pushed(M) /\ StreamPair(M, to_broker, to_process)
    BY StreamsPaired DEF LinkTyped, TurnInv
  <1>3. k \in Kinds /\ k \in Receives /\ Head(script[t]).kind = k
    <2>1. Whole(script[t]) /\ script[t] \in Seq(ScriptStep) /\ script[t] # <<>>
      BY <1>1, <1>2 DEF Scripted, EndsTyped, Idle
    <2>2. Head(script[t]).kind \in Kinds
          /\ Head(script[t]).op = (IF Head(script[t]).kind \in Receives THEN "recv" ELSE "send")
      BY <2>1, RestWhole
    <2> QED
      BY <1>1, <2>2 DEF Phase
  <1>4. w \in WordsBack(M) /\ w.kind \in Kinds /\ w.to \in Threads \cup {Broker}
    BY <1>1, <1>2, NextDelivery, WordsAreOfKinds
  <1>5. CASE w.to = Broker
    <2>1. w.kind = Half
      BY <1>1, <1>2, <1>5, NextDelivery
    <2>2. ASSUME t = Listener, k \in {"header", "body"} PROVE FALSE
      BY <1>1, <1>3, <1>5, <2>1, <2>2 DEF Half, Meant
    <2> QED
      BY <1>1, <1>3, <1>5, <2>2
  <1>6. CASE w.to \in Threads
    <2>0. PICK u \in Threads : w.to = u
      BY <1>6
    <2>1. AskedIn(M, u, to_broker, to_process, Answering(u), Awaits(Phase(u)))
      BY DEF TurnInv, Asked
    <2>2. w.kind = Awaits(Phase(u))
      BY <1>1, <1>2, <2>0, <2>1, ReadAnswer
    <2>3. w.kind # NoKind
      BY <1>4, Turns
    <2>4. ~Idle(u)
      BY <2>2, <2>3, NothingOwed DEF Phase
    <2>5. u # t
      <3>1. CASE k \in {"OK", "ready", "id"}
        <4>1. Awaits(k) = k
          BY <1>3, <3>1, Turns
        <4> QED
          BY <1>1, <1>3, <2>0, <2>2, <4>1 DEF Meant
      <3>2. CASE k \in {"header", "body"}
        <4>1. Awaits(k) = NoKind
          BY <1>3, <3>2, Turns
        <4> QED
          BY <2>2, <2>3, <4>1
      <3> QED
        BY <1>3, <3>1, <3>2 DEF Receives
    <2> QED
      BY <1>1, <1>3, <2>0, <2>4, <2>5
  <1> QED
    BY <1>4, <1>5, <1>6
=============================================================================
