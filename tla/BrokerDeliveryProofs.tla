------------------------- MODULE BrokerDeliveryProofs -------------------------
(***************************************************************************)
(* The safety of BrokerDelivery, for every set of descriptors and messages *)
(* and every bound: IInv is inductive, and the properties follow from it.  *)
(* NoneForgotten, at the end, needs QInv beside it.                        *)
(***************************************************************************)
EXTENDS BrokerDelivery, SequenceTheorems, TLAPS

\* What threads are: broadcasts and updates are told apart by their first
\* component, and none is the value that stands for an unlocked mutex.
LEMMA ThreadKinds ==
  /\ \A m \in Messages : Broadcast(m) \in Broadcasts
  /\ \A f \in Fds, n \in 1..MaxConnections : Update(f, n) \in Updates
  /\ \A t \in Broadcasts : t \notin Updates /\ t[2] \in Messages /\ t = Broadcast(t[2])
  /\ \A t \in Updates : t \notin Broadcasts /\ t[2] \in Fds
  /\ \A t \in Threads : t # Nobody /\ (t \in Broadcasts \/ t \in Updates)
<1>1. \A m \in Messages : Broadcast(m) \in Broadcasts  BY DEF Broadcasts
<1>2. \A f \in Fds, n \in 1..MaxConnections : Update(f, n) \in Updates  BY DEF Updates
<1>3. \A t \in Broadcasts : t[1] = "broadcast" /\ t[2] \in Messages /\ t = Broadcast(t[2])
  BY DEF Broadcasts, Broadcast
<1>4. \A t \in Updates : t[1] = "update" /\ t[2] \in Fds
  BY DEF Updates, Update
<1>5. Nobody[1] = "nobody"  BY DEF Nobody
<1>. QED  BY <1>1, <1>2, <1>3, <1>4, <1>5 DEF Threads

\* The sequence that is left when one element is removed has the same elements.
LEMMA RemoveAtTyping ==
  ASSUME NEW S, NEW s \in Seq(S), NEW i \in DOMAIN s
  PROVE  RemoveAt(s, i) \in Seq(S)
BY DEF RemoveAt

\* The initial states satisfy the inductive invariant.
LEMMA InitEstablishes == Init => IInv
<1>. SUFFICES ASSUME Init PROVE IInv  OBVIOUS
<1>. USE ThreadKinds DEF Init
<1>1. TypeOK  BY DeliveryAssumption DEF TypeOK, Labels, IterationsTyped
<1>2. ThreadsOnce  BY DEF ThreadsOnce, Threads
<1>3. OneSenderPerClient  BY DEF OneSenderPerClient, Sending
<1>4. OneOutstanding  BY DEF OneOutstanding
<1>5. ReceivedWasSent  BY DEF ReceivedWasSent
<1>6. ReadyIsAsked  BY DEF ReadyIsAsked
<1>. QED  BY <1>1, <1>2, <1>3, <1>4, <1>5, <1>6 DEF IInv

\* The types are kept by every step.
LEMMA TypingKept == TypeOK /\ [Next]_vars => TypeOK'
<1>. SUFFICES ASSUME TypeOK, [Next]_vars PROVE TypeOK'  OBVIOUS
<1>. USE ThreadKinds, DeliveryAssumption
<1>. USE DEF TypeOK, Labels, thread, client, process, bounds
<1>1. ASSUME NEW f \in Fds, Connect(f) PROVE TypeOK'
  BY <1>1 DEF Connect, IterationsTyped, Msg, To
<1>2. ASSUME NEW f \in Fds, Subscribe(f) PROVE TypeOK'
  BY <1>2 DEF Subscribe, IterationsTyped, Msg, To
<1>3. ASSUME NEW f \in Fds, Ready(f) PROVE TypeOK'
  <2>1. IterationsTyped'
    BY <1>3 DEF Ready, IterationsTyped, Msg, To
  <2>. QED
    BY <1>3, <2>1 DEF Ready
<1>4. ASSUME NEW f \in Fds, Processed(f) PROVE TypeOK'
  BY <1>4 DEF Processed, IterationsTyped, Msg, To
<1>5. ASSUME NEW f \in Fds, Die(f) PROVE TypeOK'
  BY <1>5 DEF Die, IterationsTyped, Msg, To
<1>6. ASSUME NEW f \in Fds, Disconnect(f) PROVE TypeOK'
  BY <1>6, RemoveAtTyping DEF Disconnect, IterationsTyped, Msg, To
<1>7. ASSUME NEW f \in Fds, Close(f) PROVE TypeOK'
  BY <1>7 DEF Close, IterationsTyped, Msg, To
<1>8. ASSUME NEW m \in Messages, Publish(m) PROVE TypeOK'
  <2>1. IterationsTyped'
    BY <1>8 DEF Publish, IterationsTyped, Msg, To
  <2>2. queue' \in Seq(Messages)
    BY <1>8 DEF Publish, Msg, To, IterationsTyped
  <2>3. pc' \in [Threads -> Labels]
    BY <1>8 DEF Publish, Msg, To, IterationsTyped
  <2>. QED
    BY <1>8, <2>1, <2>2, <2>3 DEF Publish
<1>9. ASSUME NEW i \in DOMAIN queue, Evict(i) PROVE TypeOK'
  BY <1>9, RemoveAtTyping DEF Evict, IterationsTyped, Msg, To
<1>10. ASSUME NEW t \in Updates, StartUpdate(t) PROVE TypeOK'
  <2>1. IterationsTyped'
    BY <1>10 DEF StartUpdate, IterationsTyped, Msg, To
  <2>. QED
    BY <1>10, <2>1 DEF StartUpdate
<1>11. ASSUME NEW t \in Broadcasts, PickSubscriber(t) PROVE TypeOK'
  <2>1. IterationsTyped'
    BY <1>11 DEF PickSubscriber, IterationsTyped, Msg, To
  <2>2. subscribers[index[t]] \in Fds
    BY <1>11 DEF PickSubscriber, Msg, To, IterationsTyped
  <2>3. Msg(t) \in Messages /\ t \in Threads
    BY DEF Msg, Threads
  <2>4. current' \in [Threads -> Fds \cup Messages \cup {None}]
    BY <1>11, <2>2 DEF PickSubscriber, Msg, To, IterationsTyped
  <2>5. payload' \in [Messages -> Threads \cup {Partition}]
    BY <1>11, <2>3 DEF PickSubscriber, Msg, To, IterationsTyped
  <2>6. pc' \in [Threads -> Labels]
    BY <1>11 DEF PickSubscriber, Msg, To, IterationsTyped
  <2>. QED
    BY <1>11, <2>1, <2>2, <2>3, <2>4, <2>5, <2>6 DEF PickSubscriber
<1>12. ASSUME NEW t \in Updates, PickMessage(t) PROVE TypeOK'
  <2>1. IterationsTyped'
    BY <1>12 DEF PickMessage, IterationsTyped, Msg, To
  <2>2. queue[index[t]] \in Messages /\ t \in Threads
    BY <1>12 DEF PickMessage, Threads
  <2>3. current' \in [Threads -> Fds \cup Messages \cup {None}]
    BY <1>12, <2>2 DEF PickMessage, Msg, To, IterationsTyped
  <2>4. payload' \in [Messages -> Threads \cup {Partition}]
    BY <1>12, <2>2 DEF PickMessage, Msg, To, IterationsTyped
  <2>5. pc' \in [Threads -> Labels]
    BY <1>12 DEF PickMessage, Msg, To, IterationsTyped
  <2>. QED
    BY <1>12, <2>1, <2>2, <2>3, <2>4, <2>5 DEF PickMessage
<1>13. ASSUME NEW t \in Threads, NEW list, Finish(t, list) PROVE TypeOK'
  <2>1. IterationsTyped'
    BY <1>13 DEF Finish, IterationsTyped, Msg, To
  <2>. QED
    BY <1>13, <2>1 DEF Finish
<1>14. ASSUME NEW t \in Threads, LockReady(t) PROVE TypeOK'
  <2>1. IterationsTyped'
    BY <1>14 DEF LockReady, IterationsTyped, Msg, To
  <2>. QED
    BY <1>14, <2>1 DEF LockReady
<1>15. ASSUME NEW t \in Threads, Send(t) PROVE TypeOK'
  <2>1. IterationsTyped'
    BY <1>15 DEF Send, LeaveClient, IterationsTyped, Msg, To
  <2>2. Msg(t) \in Messages /\ To(t) \in Fds
    BY <1>15 DEF Send, IterationsTyped
  <2>3. payload' \in [Messages -> Threads \cup {Partition}]
    BY <1>15, <2>2 DEF Send, LeaveClient
  <2>4. /\ ready_to_recieve_mutex' \in [Fds -> Threads \cup {Nobody}]
        /\ access_answering' \in [Fds -> BOOLEAN]
    BY <1>15, <2>2 DEF Send, LeaveClient, KeepAnswering
  <2>5. current' \in [Threads -> Fds \cup Messages \cup {None}]
    BY <1>15 DEF Send, LeaveClient
  <2>6. pc' \in [Threads -> Labels]
    BY <1>15 DEF Send, LeaveClient
  <2>7. index' \in [Threads -> Nat]
    <3>1. index[t] + 1 \in Nat /\ index' = [index EXCEPT ![t] = index[t] + 1]
      BY <1>15 DEF Send, LeaveClient
    <3>. QED  BY <3>1
  <2>8. already_sent' \in [Messages -> SUBSET Fds]
    BY <1>15, <2>2 DEF Send
  <2>9. received' \in [Fds -> [Messages -> Nat]]
    <3>1. CASE received' = received  BY <3>1
    <3>2. CASE received' = [received EXCEPT ![To(t)][Msg(t)] = @ + 1]
      <4>. DEFINE r == received[To(t)]
      <4>1. r \in [Messages -> Nat]  BY <2>2
      <4>2. [r EXCEPT ![Msg(t)] = @ + 1] \in [Messages -> Nat]
        <5>1. r[Msg(t)] + 1 \in Nat  BY <2>2, <4>1
        <5>. QED  BY <4>1, <5>1
      <4>3. received' = [received EXCEPT ![To(t)] = [r EXCEPT ![Msg(t)] = @ + 1]]
        BY <3>2
      <4>. HIDE DEF r
      <4>. QED  BY <4>2, <4>3
    <3>. QED  BY <1>15, <3>1, <3>2 DEF Send
  <2>10. unprocessed' \in [Fds -> Nat]
    <3>1. unprocessed[To(t)] + 1 \in Nat  BY <2>2
    <3>2. \/ unprocessed' = unprocessed
          \/ unprocessed' = [unprocessed EXCEPT ![To(t)] = unprocessed[To(t)] + 1]
      BY <1>15 DEF Send
    <3>. QED  BY <3>1, <3>2
  <2>11. garbled' \subseteq Messages
    BY <1>15, <2>2 DEF Send
  <2>. QED
    BY <1>15, <2>1, <2>3, <2>4, <2>5, <2>6, <2>7, <2>8, <2>9, <2>10, <2>11 DEF Send, LeaveClient
<1>16. ASSUME NEW t \in Threads, Skip(t) PROVE TypeOK'
  <2>1. IterationsTyped'
    BY <1>16 DEF Skip, LeaveClient, IterationsTyped, Msg, To
  <2>2. Msg(t) \in Messages /\ To(t) \in Fds
    BY <1>16 DEF Skip, LeaveClient, Msg, To, IterationsTyped
  <2>3. payload' \in [Messages -> Threads \cup {Partition}]
    BY <1>16, <2>2 DEF Skip, LeaveClient, Msg, To, IterationsTyped
  <2>4. ready_to_recieve_mutex' \in [Fds -> Threads \cup {Nobody}]
    BY <1>16, <2>2 DEF Skip, LeaveClient, Msg, To, IterationsTyped
  <2>5. current' \in [Threads -> Fds \cup Messages \cup {None}]
    BY <1>16 DEF Skip, LeaveClient, Msg, To, IterationsTyped
  <2>6. pc' \in [Threads -> Labels] /\ index' \in [Threads -> Nat]
    BY <1>16 DEF Skip, LeaveClient, Msg, To, IterationsTyped
  <2>. QED
    BY <1>16, <2>1, <2>2, <2>3, <2>4, <2>5, <2>6 DEF Skip, LeaveClient
<1>17. CASE UNCHANGED vars
  BY <1>17 DEF vars, thread, bounds, client, process, IterationsTyped, Msg, To
<1>. QED
  BY <1>1, <1>2, <1>3, <1>4, <1>5, <1>6, <1>7, <1>8, <1>9, <1>10, <1>11, <1>12, <1>13, <1>14, <1>15, <1>16, <1>17
  DEF Next, BroadcastStep, UpdateStep, SendToClient, Threads

\* Two updates of one descriptor, or of two, are told apart.
LEMMA UpdatesDiffer ==
  ASSUME NEW f \in Fds, NEW g \in Fds,
         NEW n \in 1..MaxConnections, NEW k \in 1..MaxConnections,
         Update(f, n) = Update(g, k)
  PROVE  f = g /\ n = k
BY DEF Update

\* What a step of a running thread does to the program counters: it moves its own
\* only, which was on already.
LEMMA OwnCounter ==
  ASSUME TypeOK, NEW t \in Threads, NEW list,
         \/ StartUpdate(t) \/ PickSubscriber(t) \/ PickMessage(t)
         \/ Finish(t, list) \/ LockReady(t) \/ Send(t) \/ Skip(t)
  PROVE  /\ pc[t] # "off" /\ pc' = [pc EXCEPT ![t] = pc'[t]]
         /\ UNCHANGED <<connections, peer, published>>
<1>. USE DEF TypeOK
<1>1. CASE StartUpdate(t)  BY <1>1 DEF StartUpdate, process
<1>2. CASE PickSubscriber(t)  BY <1>2 DEF PickSubscriber, process
<1>3. CASE PickMessage(t)  BY <1>3 DEF PickMessage, process
<1>4. CASE Finish(t, list)  BY <1>4 DEF Finish, process
<1>5. CASE LockReady(t)  BY <1>5 DEF LockReady, process
<1>6. CASE Send(t)  BY <1>6 DEF Send, LeaveClient
<1>7. CASE Skip(t)  BY <1>7 DEF Skip, LeaveClient, process
<1>. QED  BY <1>1, <1>2, <1>3, <1>4, <1>5, <1>6, <1>7

\* No step starts the thread of a message or of a connection a second time.
LEMMA ThreadsOnceKept == TypeOK /\ ThreadsOnce /\ [Next]_vars => ThreadsOnce'
<1>. SUFFICES ASSUME TypeOK, ThreadsOnce, [Next]_vars PROVE ThreadsOnce'  OBVIOUS
<1>. USE ThreadKinds DEF ThreadsOnce
<1>1. ASSUME NEW f \in Fds, Connect(f) PROVE ThreadsOnce'
  <2>. SUFFICES ASSUME NEW g \in Fds, NEW n \in 1..MaxConnections,
                       pc[Update(g, n)] # "off"
                PROVE  /\ n <= connections'[g]
                       /\ n = connections'[g] => peer'[g] \notin {"connected", "subscribed"}
    BY <1>1 DEF Connect, thread
  <2>. QED  BY <1>1 DEF Connect, TypeOK
<1>2. ASSUME NEW f \in Fds, Subscribe(f) PROVE ThreadsOnce'
  BY <1>2 DEF Subscribe, thread, TypeOK
<1>3. ASSUME NEW f \in Fds, Ready(f) PROVE ThreadsOnce'
  <2>1. ASSUME NEW m \in Messages, pc'[Broadcast(m)] # "off" PROVE m \in published'
    BY <1>3, <2>1 DEF Ready, TypeOK, Update, Broadcast, Threads
  <2>2. ASSUME NEW g \in Fds, NEW n \in 1..MaxConnections, pc'[Update(g, n)] # "off"
        PROVE  /\ n <= connections'[g]
               /\ n = connections'[g] => peer'[g] \notin {"connected", "subscribed"}
    <3>1. CASE g = f /\ n = connections[f]
      BY <1>3, <3>1 DEF Ready, TypeOK
    <3>2. CASE ~(g = f /\ n = connections[f])
      <4>1. Update(g, n) # Update(f, connections[f])
        BY <3>2 DEF Update
      <4>2. pc[Update(g, n)] # "off"
        BY <1>3, <2>2, <4>1 DEF Ready, TypeOK, Threads
      <4>. QED
        BY <1>3, <4>2, <3>2 DEF Ready, TypeOK
    <3>. QED  BY <3>1, <3>2
  <2>. QED  BY <2>1, <2>2
<1>4. ASSUME NEW f \in Fds, Processed(f) PROVE ThreadsOnce'
  BY <1>4 DEF Processed, thread
<1>5. ASSUME NEW f \in Fds, Die(f) PROVE ThreadsOnce'
  BY <1>5 DEF Die, thread, TypeOK
<1>6. ASSUME NEW f \in Fds, Disconnect(f) \/ Close(f) PROVE ThreadsOnce'
  BY <1>6 DEF Disconnect, Close, thread, process
<1>7. ASSUME NEW m \in Messages, Publish(m) PROVE ThreadsOnce'
  <2>1. ASSUME NEW k \in Messages, pc'[Broadcast(k)] # "off" PROVE k \in published'
    <3>1. CASE k = m  BY <1>7, <3>1 DEF Publish
    <3>2. CASE k # m
      <4>1. Broadcast(k) # Broadcast(m)  BY <3>2 DEF Broadcast
      <4>. QED  BY <1>7, <2>1, <4>1 DEF Publish, TypeOK, Threads
    <3>. QED  BY <3>1, <3>2
  <2>2. ASSUME NEW g \in Fds, NEW n \in 1..MaxConnections
        PROVE  pc'[Update(g, n)] = pc[Update(g, n)]
    BY <1>7 DEF Publish, TypeOK, Update, Broadcast, Threads
  <2>. QED  BY <1>7, <2>1, <2>2 DEF Publish, process
<1>8. ASSUME NEW i \in DOMAIN queue, Evict(i) PROVE ThreadsOnce'
  BY <1>8 DEF Evict, thread, process
<1>9. ASSUME NEW t \in Threads, NEW list,
             \/ StartUpdate(t) \/ PickSubscriber(t) \/ PickMessage(t)
             \/ Finish(t, list) \/ LockReady(t) \/ Send(t) \/ Skip(t)
      PROVE  ThreadsOnce'
  <2>1. ASSUME NEW s \in Threads, pc'[s] # "off" PROVE pc[s] # "off"
    BY <1>9, <2>1, OwnCounter DEF TypeOK
  <2>2. UNCHANGED <<connections, peer, published>>
    BY <1>9, OwnCounter
  <2>. QED  BY <2>1, <2>2 DEF Threads
<1>10. CASE UNCHANGED vars  BY <1>10 DEF vars, thread, process
<1>. QED
  BY <1>1, <1>2, <1>3, <1>4, <1>5, <1>6, <1>7, <1>8, <1>9, <1>10
  DEF Next, BroadcastStep, UpdateStep, SendToClient, Threads

\* The mutex of a client changes hands only with the iteration of its owner.
LEMMA OneSenderKept ==
  TypeOK /\ ThreadsOnce /\ ReadyIsAsked /\ OneSenderPerClient /\ [Next]_vars
    => OneSenderPerClient'
<1>. SUFFICES ASSUME TypeOK, ThreadsOnce, ReadyIsAsked, OneSenderPerClient, [Next]_vars
              PROVE  OneSenderPerClient'
  OBVIOUS
<1>. USE ThreadKinds
<1>1. CASE UNCHANGED <<pc, current, ready_to_recieve_mutex>>
  BY <1>1 DEF OneSenderPerClient, Sending, To
\* A thread that was not sending moves on without the mutex.
<1>2. ASSUME NEW t \in Threads, pc[t] # "answering", pc'[t] # "answering",
             pc' = [pc EXCEPT ![t] = pc'[t]],
             \A s \in Threads : s # t => current'[s] = current[s],
             UNCHANGED ready_to_recieve_mutex
      PROVE  OneSenderPerClient'
  <2>. SUFFICES ASSUME NEW f \in Fds, NEW s \in Threads
                PROVE  Sending(s, f)' <=> ready_to_recieve_mutex[f] = s
    BY <1>2 DEF OneSenderPerClient
  <2>1. CASE s = t
    BY <1>2, <2>1 DEF OneSenderPerClient, Sending
  <2>2. CASE s # t
    BY <1>2, <2>2 DEF OneSenderPerClient, Sending, To, TypeOK
  <2>. QED  BY <2>1, <2>2
<1>3. ASSUME NEW f \in Fds, Ready(f) PROVE OneSenderPerClient'
  <2>. DEFINE u == Update(f, connections[f])
  <2>1. connections[f] \in 1..MaxConnections
    BY <1>3, DeliveryAssumption DEF Ready, ReadyIsAsked, TypeOK
  <2>2. u \in Threads  BY <2>1 DEF Threads
  <2>3. pc[u] = "off"  BY <1>3, <2>1 DEF Ready, ThreadsOnce
  <2>4. pc'[u] = "start" /\ pc' = [pc EXCEPT ![u] = "start"]
    BY <1>3, <2>2 DEF Ready, TypeOK
  <2>5. UNCHANGED <<current, ready_to_recieve_mutex>>
    BY <1>3 DEF Ready
  <2>. HIDE DEF u
  <2>. QED  BY <2>2, <2>3, <2>4, <2>5, <1>2
<1>4. ASSUME NEW m \in Messages, Publish(m) PROVE OneSenderPerClient'
  <2>. DEFINE b == Broadcast(m)
  <2>1. b \in Threads  BY DEF Threads
  <2>2. pc[b] = "off"  BY <1>4 DEF Publish, ThreadsOnce
  <2>3. pc'[b] = "next" /\ pc' = [pc EXCEPT ![b] = "next"]
    BY <1>4, <2>1 DEF Publish, TypeOK
  <2>4. UNCHANGED <<current, ready_to_recieve_mutex>>
    BY <1>4 DEF Publish, client
  <2>. HIDE DEF b
  <2>. QED  BY <2>1, <2>2, <2>3, <2>4, <1>2
<1>5. ASSUME NEW t \in Threads, NEW list,
             StartUpdate(t) \/ PickSubscriber(t) \/ PickMessage(t) \/ Finish(t, list)
      PROVE  OneSenderPerClient'
  <2>1. CASE StartUpdate(t)  BY <2>1, <1>2 DEF StartUpdate, client, TypeOK
  <2>2. CASE PickSubscriber(t)  BY <2>2, <1>2 DEF PickSubscriber, client, TypeOK
  <2>3. CASE PickMessage(t)  BY <2>3, <1>2 DEF PickMessage, client, TypeOK
  <2>4. CASE Finish(t, list)  BY <2>4, <1>2 DEF Finish, client, TypeOK
  <2>. QED  BY <1>5, <2>1, <2>2, <2>3, <2>4
<1>6. ASSUME NEW t \in Threads, LockReady(t) PROVE OneSenderPerClient'
  <2>1. To(t) \in Fds  BY <1>6 DEF LockReady, TypeOK, IterationsTyped
  <2>. SUFFICES ASSUME NEW f \in Fds, NEW s \in Threads
                PROVE  Sending(s, f)' <=> ready_to_recieve_mutex'[f] = s
    BY DEF OneSenderPerClient
  <2>2. To(s)' = To(s)  BY <1>6 DEF LockReady, To
  <2>3. CASE s = t
    BY <1>6, <2>1, <2>2, <2>3 DEF LockReady, OneSenderPerClient, Sending, TypeOK
  <2>4. CASE s # t
    BY <1>6, <2>1, <2>2, <2>4 DEF LockReady, OneSenderPerClient, Sending, TypeOK
  <2>. QED  BY <2>3, <2>4
<1>7. ASSUME NEW t \in Threads, Send(t) \/ Skip(t) PROVE OneSenderPerClient'
  <2>1. To(t) \in Fds /\ pc[t] = "answering" /\ LeaveClient(t)
    BY <1>7 DEF Send, Skip, TypeOK, IterationsTyped
  <2>. SUFFICES ASSUME NEW f \in Fds, NEW s \in Threads
                PROVE  Sending(s, f)' <=> ready_to_recieve_mutex'[f] = s
    BY DEF OneSenderPerClient
  <2>2. CASE s = t
    <3>1. ~Sending(s, f)'  BY <2>1, <2>2 DEF LeaveClient, Sending, TypeOK
    <3>2. ready_to_recieve_mutex'[f] # s
      BY <2>1, <2>2 DEF LeaveClient, OneSenderPerClient, Sending, TypeOK
    <3>. QED  BY <3>1, <3>2
  <2>3. CASE s # t
    <3>1. To(s)' = To(s) /\ pc'[s] = pc[s]
      BY <2>1, <2>3 DEF LeaveClient, To, TypeOK
    <3>2. ready_to_recieve_mutex[To(t)] = t
      BY <2>1 DEF OneSenderPerClient, Sending
    <3>. QED
      BY <2>1, <2>3, <3>1, <3>2 DEF LeaveClient, OneSenderPerClient, Sending, TypeOK
  <2>. QED  BY <2>2, <2>3
<1>8. ASSUME NEW f \in Fds, Connect(f) \/ Subscribe(f) \/ Processed(f) \/ Die(f)
                              \/ Disconnect(f) \/ Close(f)
      PROVE  OneSenderPerClient'
  BY <1>8, <1>1 DEF Connect, Subscribe, Processed, Die, Disconnect, Close, client, thread
<1>9. ASSUME NEW i \in DOMAIN queue, Evict(i) PROVE OneSenderPerClient'
  BY <1>9, <1>1 DEF Evict, client, thread
<1>10. CASE UNCHANGED vars  BY <1>10, <1>1 DEF vars, client, thread
<1>. QED
  BY <1>3, <1>4, <1>5, <1>6, <1>7, <1>8, <1>9, <1>10
  DEF Next, BroadcastStep, UpdateStep, SendToClient, Threads

\* A message goes out only when the one before has been processed.
LEMMA OneOutstandingKept ==
  TypeOK /\ OneOutstanding /\ [Next]_vars => OneOutstanding'
<1>. SUFFICES ASSUME TypeOK, OneOutstanding, [Next]_vars PROVE OneOutstanding'
  OBVIOUS
<1>. USE ThreadKinds DEF OneOutstanding
<1>1. CASE UNCHANGED <<access_answering, unprocessed>>  BY <1>1
<1>2. ASSUME NEW f \in Fds, Processed(f) PROVE OneOutstanding'
  BY <1>2 DEF Processed, TypeOK
<1>3. ASSUME NEW f \in Fds, Die(f) PROVE OneOutstanding'
  BY <1>3 DEF Die, client, TypeOK
<1>4. ASSUME NEW t \in Threads, Send(t) PROVE OneOutstanding'
  <2>1. To(t) \in Fds /\ ~access_answering[To(t)]
    BY <1>4 DEF Send, TypeOK, IterationsTyped
  <2>2. unprocessed[To(t)] = 0  BY <2>1 DEF TypeOK
  <2>3. access_answering' = [access_answering EXCEPT ![To(t)] = TRUE]
    BY <1>4 DEF Send, KeepAnswering
  <2>4. \/ unprocessed' = unprocessed
        \/ unprocessed' = [unprocessed EXCEPT ![To(t)] = @ + 1]
    BY <1>4 DEF Send
  <2>. SUFFICES ASSUME NEW f \in Fds
                PROVE  unprocessed'[f] <= 1 /\ (unprocessed'[f] = 1 => access_answering'[f])
    OBVIOUS
  <2>5. CASE f = To(t)  BY <2>1, <2>2, <2>3, <2>4, <2>5 DEF TypeOK
  <2>6. CASE f # To(t)  BY <2>3, <2>4, <2>6 DEF TypeOK
  <2>. QED  BY <2>5, <2>6
<1>5. ASSUME NEW f \in Fds, Connect(f) \/ Subscribe(f) \/ Ready(f) \/ Disconnect(f) \/ Close(f)
      PROVE  OneOutstanding'
  BY <1>5, <1>1 DEF Connect, Subscribe, Ready, Disconnect, Close, client, process
<1>6. ASSUME NEW m \in Messages, Publish(m) PROVE OneOutstanding'
  BY <1>6, <1>1 DEF Publish, client, process
<1>7. ASSUME NEW i \in DOMAIN queue, Evict(i) PROVE OneOutstanding'
  BY <1>7, <1>1 DEF Evict, client, process
<1>8. ASSUME NEW t \in Threads, NEW list,
             \/ StartUpdate(t) \/ PickSubscriber(t) \/ PickMessage(t)
             \/ Finish(t, list) \/ LockReady(t) \/ Skip(t)
      PROVE  OneOutstanding'
  BY <1>8, <1>1 DEF StartUpdate, PickSubscriber, PickMessage, Finish, LockReady, Skip,
                    client, process
<1>9. CASE UNCHANGED vars  BY <1>9, <1>1 DEF vars, client, process
<1>. QED
  BY <1>2, <1>3, <1>4, <1>5, <1>6, <1>7, <1>8, <1>9
  DEF Next, BroadcastStep, UpdateStep, SendToClient, Threads

\* The record of what was sent to a descriptor only grows, and is looked at with the
\* client's mutex: what a connection got is in it.
LEMMA ReceivedKept ==
  TypeOK /\ ReceivedWasSent /\ [Next]_vars => ReceivedWasSent'
<1>. SUFFICES ASSUME TypeOK, ReceivedWasSent, [Next]_vars PROVE ReceivedWasSent'
  OBVIOUS
<1>. USE ThreadKinds DEF ReceivedWasSent
<1>1. CASE UNCHANGED <<received, already_sent>>  BY <1>1
<1>2. ASSUME NEW f \in Fds, Connect(f) PROVE ReceivedWasSent'
  BY <1>2 DEF Connect, TypeOK
<1>3. ASSUME NEW t \in Threads, Send(t) PROVE ReceivedWasSent'
  <2>. DEFINE c == To(t)  m == Msg(t)
  <2>1. c \in Fds /\ m \in Messages /\ c \notin already_sent[m]
    BY <1>3 DEF Send, MustSend, TypeOK, IterationsTyped
  <2>2. received[c][m] = 0
    <3>. HIDE DEF c, m
    <3>1. received[c] \in [Messages -> Nat]  BY <2>1 DEF TypeOK
    <3>2. received[c][m] \in Nat  BY <2>1, <3>1
    <3>3. received[c][m] <= 1 /\ received[c][m] # 1  BY <2>1
    <3>. QED  BY <3>2, <3>3
  <2>3. already_sent' = [already_sent EXCEPT ![m] = @ \cup {c}]
    BY <1>3 DEF Send
  <2>4. \/ received' = received
        \/ received' = [received EXCEPT ![c][m] = @ + 1]
    BY <1>3 DEF Send
  <2>. HIDE DEF c, m
  <2>5. received'[c][m] <= 1 /\ c \in already_sent'[m]
    BY <2>1, <2>2, <2>3, <2>4 DEF TypeOK
  <2>6. ASSUME NEW f \in Fds, NEW k \in Messages, ~(f = c /\ k = m)
        PROVE  received'[f][k] = received[f][k]
    BY <2>1, <2>4, <2>6 DEF TypeOK
  <2>7. ASSUME NEW f \in Fds, NEW k \in Messages, f \in already_sent[k]
        PROVE  f \in already_sent'[k]
    BY <2>1, <2>3, <2>7 DEF TypeOK
  <2>. QED  BY <2>5, <2>6, <2>7
<1>4. ASSUME NEW f \in Fds, Subscribe(f) \/ Ready(f) \/ Processed(f) \/ Die(f)
                              \/ Disconnect(f) \/ Close(f)
      PROVE  ReceivedWasSent'
  BY <1>4, <1>1 DEF Subscribe, Ready, Processed, Die, Disconnect, Close, process
<1>5. ASSUME NEW m \in Messages, Publish(m) PROVE ReceivedWasSent'
  BY <1>5, <1>1 DEF Publish, process
<1>6. ASSUME NEW i \in DOMAIN queue, Evict(i) PROVE ReceivedWasSent'
  BY <1>6, <1>1 DEF Evict, process
<1>7. ASSUME NEW t \in Threads, NEW list,
             \/ StartUpdate(t) \/ PickSubscriber(t) \/ PickMessage(t)
             \/ Finish(t, list) \/ LockReady(t) \/ Skip(t)
      PROVE  ReceivedWasSent'
  BY <1>7, <1>1 DEF StartUpdate, PickSubscriber, PickMessage, Finish, LockReady, Skip,
                    process
<1>8. CASE UNCHANGED vars  BY <1>8, <1>1 DEF vars, process
<1>. QED
  BY <1>2, <1>3, <1>4, <1>5, <1>6, <1>7, <1>8
  DEF Next, BroadcastStep, UpdateStep, SendToClient, Threads

\* Nothing is sent on the first connection of a descriptor before it asks.
LEMMA ReadyIsAskedKept ==
  TypeOK /\ ReadyIsAsked /\ [Next]_vars => ReadyIsAsked'
<1>. SUFFICES ASSUME TypeOK, ReadyIsAsked, [Next]_vars PROVE ReadyIsAsked'
  OBVIOUS
<1>. USE ThreadKinds DEF ReadyIsAsked
<1>1. CASE UNCHANGED <<connections, peer, ready_to_recieve, received>>  BY <1>1
<1>2. ASSUME NEW f \in Fds, Connect(f) PROVE ReadyIsAsked'
  <2>. SUFFICES ASSUME NEW g \in Fds
                PROVE  /\ connections'[g] = 0 => peer'[g] = "off" /\ ~ready_to_recieve'[g]
                       /\ connections'[g] = 1 /\ peer'[g] \in {"connected", "subscribed"} =>
                            ~ready_to_recieve'[g] /\ \A m \in Messages : received'[g][m] = 0
    OBVIOUS
  <2>1. CASE g = f  BY <1>2, <2>1 DEF Connect, client, TypeOK
  <2>2. CASE g # f  BY <1>2, <2>2 DEF Connect, client, TypeOK
  <2>. QED  BY <2>1, <2>2
<1>3. ASSUME NEW f \in Fds, Subscribe(f) PROVE ReadyIsAsked'
  BY <1>3 DEF Subscribe, client, TypeOK
<1>4. ASSUME NEW f \in Fds, Ready(f) PROVE ReadyIsAsked'
  BY <1>4 DEF Ready, TypeOK
<1>5. ASSUME NEW f \in Fds, Die(f) PROVE ReadyIsAsked'
  BY <1>5 DEF Die, client, TypeOK
<1>6. ASSUME NEW t \in Threads, Send(t) PROVE ReadyIsAsked'
  <2>1. To(t) \in Fds /\ Msg(t) \in Messages /\ ready_to_recieve[To(t)]
    BY <1>6 DEF Send, MustSend, TypeOK, IterationsTyped
  <2>2. UNCHANGED <<connections, peer, ready_to_recieve>>
    BY <1>6 DEF Send
  <2>3. ASSUME NEW f \in Fds, f # To(t) PROVE received'[f] = received[f]
    BY <1>6, <2>1, <2>3 DEF Send, TypeOK
  <2>. QED  BY <2>1, <2>2, <2>3
<1>7. ASSUME NEW f \in Fds, Processed(f) \/ Disconnect(f) \/ Close(f) PROVE ReadyIsAsked'
  BY <1>7, <1>1 DEF Processed, Disconnect, Close, client, process
<1>8. ASSUME NEW m \in Messages, Publish(m) PROVE ReadyIsAsked'
  BY <1>8, <1>1 DEF Publish, client, process
<1>9. ASSUME NEW i \in DOMAIN queue, Evict(i) PROVE ReadyIsAsked'
  BY <1>9, <1>1 DEF Evict, client, process
<1>10. ASSUME NEW t \in Threads, NEW list,
              \/ StartUpdate(t) \/ PickSubscriber(t) \/ PickMessage(t)
              \/ Finish(t, list) \/ LockReady(t) \/ Skip(t)
       PROVE  ReadyIsAsked'
  BY <1>10, <1>1 DEF StartUpdate, PickSubscriber, PickMessage, Finish, LockReady, Skip,
                     client, process
<1>11. CASE UNCHANGED vars  BY <1>11, <1>1 DEF vars, client, process
<1>. QED
  BY <1>2, <1>3, <1>4, <1>5, <1>6, <1>7, <1>8, <1>9, <1>10, <1>11
  DEF Next, BroadcastStep, UpdateStep, SendToClient, Threads

\* IInv holds in every reachable state.
THEOREM Inductive == Spec => []IInv
<1>1. IInv /\ [Next]_vars => IInv'
  BY TypingKept, ThreadsOnceKept, OneSenderKept, OneOutstandingKept, ReceivedKept,
     ReadyIsAskedKept
  DEF IInv
<1>. QED  BY InitEstablishes, <1>1, PTL DEF Spec

\* Every variable keeps its type, and a thread in an iteration of its loop has a
\* message to send and a client to send it to.
THEOREM TypeCorrect == Spec => []TypeOK
<1>1. IInv => TypeOK  BY DEF IInv
<1>. QED  BY Inductive, <1>1, PTL

\* send_message_to_client is never in two threads for one client.
THEOREM SendersExclude == Spec => []OneSenderPerClient
<1>1. IInv => OneSenderPerClient  BY DEF IInv
<1>. QED  BY Inductive, <1>1, PTL

\* A subscriber has at most one message it has not processed, and the broker waits
\* for that answer.
THEOREM OneAtATime == Spec => []OneOutstanding
<1>1. IInv => OneOutstanding  BY DEF IInv
<1>. QED  BY Inductive, <1>1, PTL

\* Broadcast and update never both deliver a message to one connection.
THEOREM NoDuplicates == Spec => []AtMostOnce
<1>1. IInv => AtMostOnce  BY DEF IInv, ReceivedWasSent, AtMostOnce
<1>. QED  BY Inductive, <1>1, PTL

\* The first process on a descriptor gets nothing before READY_TO_RECIEVE.
THEOREM NothingBeforeReady == Spec => []NotBeforeReady
<1>1. IInv => NotBeforeReady  BY DEF IInv, ReadyIsAsked, NotBeforeReady
<1>. QED  BY Inductive, <1>1, PTL

-----------------------------------------------------------------------------
(* NoneForgotten: while no subscriber dies and no message is evicted, a      *)
(* message's broadcast and a subscriber's update, each a loop by index over  *)
(* a list that other threads append to, let nobody slip between them.        *)
(*                                                                           *)
(* The argument, Covered: for each place in the list of subscribers and each *)
(* in the queue, the message was sent to the subscriber, or its broadcast    *)
(* has not got to that place, or the subscriber's update has not got to the  *)
(* message or is still to be asked for.                                      *)

\* What NoneForgotten supposes of the past: nothing left a list.
Undisturbed == deaths = 0 /\ evictions = 0

\* Where a thread is while it is in its loop.
Running == {"next", "ready_mutex", "answering"}

\* The connection of a descriptor is its first and is not lost; its struct is ready just
\* when it has asked, and it has got what is recorded as sent.
SettledAt(f) ==
  /\ conn[f] \in {"free", "open"}
  /\ conn[f] = "free" <=> peer[f] = "off"
  /\ conn[f] = "open" => connections[f] = 1
  /\ conn[f] = "free" => connections[f] = 0
  /\ ready_to_recieve[f] <=> peer[f] = "ready"
  /\ \A m \in Messages :
       IF f \in already_sent[m] THEN received[f][m] = 1 /\ peer[f] = "ready"
       ELSE received[f][m] = 0

Settled == \A f \in Fds : SettledAt(f)

\* The lists only grow: they have who has subscribed, and what has been published.
Listed ==
  /\ \A f \in Fds : peer[f] \in {"subscribed", "ready"} <=>
       \E i \in DOMAIN subscribers : subscribers[i] = f
  /\ \A m \in Messages : m \in published <=> \E j \in DOMAIN queue : queue[j] = m

\* Whose thread has been started: the ready subscribers' updates and the published
\* messages' broadcasts.
Started ==
  /\ \A f \in Fds, n \in 1..MaxConnections :
       pc[Update(f, n)] # "off" <=> n = 1 /\ peer[f] = "ready"
  /\ \A m \in Messages : /\ pc[Broadcast(m)] # "start"
                         /\ pc[Broadcast(m)] # "off" <=> m \in published

\* A thread is where its index says, from its first iteration on.
PlacedAt(t) ==
  /\ index[t] >= 1
  /\ pc[t] \in {"off", "start"} => index[t] = 1
  /\ pc[t] \in {"ready_mutex", "answering"} =>
       IF t \in Broadcasts
       THEN index[t] \in DOMAIN subscribers /\ current[t] = subscribers[index[t]]
       ELSE index[t] \in DOMAIN queue /\ current[t] = queue[index[t]]

InPlace == \A t \in Threads : PlacedAt(t)

\* The broadcast of m has still to try the subscriber at place i.
BroadcastComes(m, i) == pc[Broadcast(m)] \in Running /\ index[Broadcast(m)] <= i

\* An update of f has still to try the message at place j.
UpdateComes(f, j) ==
  \/ peer[f] = "subscribed"
  \/ pc[Update(f, 1)] = "start"
  \/ pc[Update(f, 1)] \in Running /\ index[Update(f, 1)] <= j

\* Nobody slips between the two.
Covered ==
  \A i \in DOMAIN subscribers, j \in DOMAIN queue :
    \/ subscribers[i] \in already_sent[queue[j]]
    \/ BroadcastComes(queue[j], i)
    \/ UpdateComes(subscribers[i], j)

\* What holds as long as nothing has left a list.
Quiet == Settled /\ Listed /\ Started /\ InPlace /\ Covered

\* The inductive invariant, with IInv.
QInv == Undisturbed => Quiet

-----------------------------------------------------------------------------
(* Threads *)

\* Each message has a broadcast of its own.
LEMMA BroadcastsDiffer ==
  ASSUME NEW m \in Messages, NEW k \in Messages, m # k
  PROVE  Broadcast(m) # Broadcast(k)
BY DEF Broadcast

\* Broadcasts and updates are different threads.
LEMMA BroadcastIsNoUpdate ==
  ASSUME NEW m \in Messages, NEW f \in Fds, NEW n \in 1..MaxConnections
  PROVE  /\ Broadcast(m) # Update(f, n)
         /\ Broadcast(m) \in Threads /\ Broadcast(m) \in Broadcasts /\ Broadcast(m)[2] = m
         /\ Update(f, n) \in Threads /\ Update(f, n) \notin Broadcasts /\ Update(f, n)[2] = f
<1>1. Broadcast(m) \in Broadcasts /\ Update(f, n) \in Updates
  BY ThreadKinds
<1> QED BY <1>1, ThreadKinds DEF Threads, Broadcast, Update

\* While nothing disturbs, a descriptor that is a subscriber's has had a connection.
LEMMA HasConnected ==
  ASSUME TypeOK, Settled, NEW f \in Fds, peer[f] # "off"
  PROVE  1 \in 1..MaxConnections /\ connections[f] = 1 /\ conn[f] = "open"
<1>1. conn[f] = "open" /\ connections[f] = 1
  BY DEF Settled, SettledAt
<1>2. 1 \in 0..MaxConnections
  BY <1>1 DEF TypeOK
<1> QED BY <1>1, <1>2, DeliveryAssumption

-----------------------------------------------------------------------------
(* Quiet is inductive *)

\* It holds while nobody has connected.
LEMMA QuietInit == Init => Quiet
<1> SUFFICES ASSUME Init PROVE Quiet
  OBVIOUS
<1>1. Settled
  BY DEF Init, Settled, SettledAt
<1>2. Listed
  BY DEF Init, Listed
<1>3. Started
  BY BroadcastIsNoUpdate, ThreadKinds DEF Init, Started, Threads
<1>4. InPlace
  BY DEF Init, InPlace, PlacedAt
<1>5. Covered
  BY DEF Init, Covered
<1> QED BY <1>1, <1>2, <1>3, <1>4, <1>5 DEF Quiet

\* A descriptor's first connection finds a struct that nobody was ready on.
LEMMA QuietConnect ==
  ASSUME TypeOK, Quiet, NEW f \in Fds, Connect(f)
  PROVE  Quiet'
<1> USE DEF Quiet
<1>1. /\ conn' = [conn EXCEPT ![f] = "open"]
      /\ connections' = [connections EXCEPT ![f] = connections[f] + 1]
      /\ peer' = [peer EXCEPT ![f] = "connected"]
      /\ received' = [received EXCEPT ![f] = [m \in Messages |-> 0]]
      /\ UNCHANGED <<ready_to_recieve, subscribers, queue, published, already_sent,
                     pc, index, current>>
      /\ conn[f] = "free"
  BY DEF Connect, client, thread
<1>2. peer[f] = "off" /\ connections[f] = 0
  BY <1>1 DEF Settled, SettledAt
<1>3. \A g \in Fds : /\ peer'[g] = IF g = f THEN "connected" ELSE peer[g]
                     /\ conn'[g] = IF g = f THEN "open" ELSE conn[g]
                     /\ connections'[g] = IF g = f THEN 1 ELSE connections[g]
                     /\ received'[g] = IF g = f THEN [m \in Messages |-> 0] ELSE received[g]
  BY <1>1, <1>2 DEF TypeOK
<1>4. Settled'
  <2> SUFFICES ASSUME NEW g \in Fds PROVE SettledAt(g)'
    BY DEF Settled, SettledAt
  <2>1. CASE g = f
    BY <2>1, <1>1, <1>2, <1>3 DEF Settled, SettledAt
  <2>2. CASE g # f
    BY <2>2, <1>1, <1>3 DEF Settled, SettledAt
  <2> QED BY <2>1, <2>2
<1>5. Listed'
  BY <1>1, <1>2, <1>3 DEF Listed
<1>6. Started'
  BY <1>1, <1>2, <1>3 DEF Started
<1>7. InPlace'
  BY <1>1 DEF InPlace, PlacedAt
<1>8. Covered'
  <2>1. \A g \in Fds, j \in DOMAIN queue : UpdateComes(g, j) => UpdateComes(g, j)'
    BY <1>1, <1>2, <1>3 DEF UpdateComes
  <2>2. \A i \in DOMAIN subscribers : subscribers[i] \in Fds
    BY ElementOfSeq, LenProperties DEF TypeOK
  <2> QED BY <1>1, <2>1, <2>2 DEF Covered, BroadcastComes
<1> QED BY <1>4, <1>5, <1>6, <1>7, <1>8

\* Whoever subscribes goes to the end of the list, and has its update to ask for.
LEMMA QuietSubscribe ==
  ASSUME TypeOK, Quiet, NEW f \in Fds, Subscribe(f)
  PROVE  Quiet'
<1> USE DEF Quiet
<1> DEFINE n == Len(subscribers)
<1>1. /\ subscribers' = Append(subscribers, f)
      /\ peer' = [peer EXCEPT ![f] = "subscribed"]
      /\ UNCHANGED <<conn, connections, ready_to_recieve, queue, published, already_sent,
                     received, pc, index, current>>
      /\ peer[f] = "connected"
  BY DEF Subscribe, client, thread
<1>2. \A g \in Fds : peer'[g] = IF g = f THEN "subscribed" ELSE peer[g]
  BY <1>1 DEF TypeOK
<1>3. /\ n \in Nat /\ DOMAIN subscribers = 1..n /\ DOMAIN subscribers' = 1..(n + 1)
      /\ subscribers'[n + 1] = f
      /\ \A i \in 1..n : subscribers'[i] = subscribers[i] /\ subscribers[i] \in Fds
  BY <1>1, AppendProperties, ElementOfSeq, LenProperties DEF TypeOK
<1> HIDE DEF n
<1>4. Settled'
  BY <1>1, <1>2 DEF Settled, SettledAt
<1>5. Listed'
  <2>1. \A g \in Fds : (\E i \in 1..(n + 1) : subscribers'[i] = g)
                       <=> g = f \/ \E i \in 1..n : subscribers[i] = g
    <3>1. 1..(n + 1) = 1..n \cup {n + 1}
      BY <1>3
    <3> QED BY <1>3, <3>1
  <2>2. \A g \in Fds : peer[g] \in {"subscribed", "ready"} <=> \E i \in 1..n : subscribers[i] = g
    BY <1>3 DEF Listed
  <2>3. \A g \in Fds : peer'[g] \in {"subscribed", "ready"}
                       <=> \E i \in DOMAIN subscribers' : subscribers'[i] = g
    BY <1>2, <1>3, <2>1, <2>2
  <2> QED BY <1>1, <2>3 DEF Listed
<1>6. Started'
  BY <1>1, <1>2 DEF Started
<1>7. InPlace'
  BY <1>1, <1>3 DEF InPlace, PlacedAt
<1>8. Covered'
  <2> SUFFICES ASSUME NEW i \in DOMAIN subscribers', NEW j \in DOMAIN queue'
               PROVE  (\/ subscribers[i] \in already_sent[queue[j]]
                       \/ BroadcastComes(queue[j], i)
                       \/ UpdateComes(subscribers[i], j))'
    BY DEF Covered
  <2>1. CASE i = n + 1
    BY <2>1, <1>2, <1>3 DEF UpdateComes
  <2>2. CASE i # n + 1
    <3>1. i \in 1..n
      BY <2>2, <1>3
    <3>2. UpdateComes(subscribers[i], j) => UpdateComes(subscribers[i], j)'
      BY <1>1, <1>2, <1>3, <3>1 DEF UpdateComes
    <3> QED BY <1>1, <1>3, <3>1, <3>2 DEF Covered, BroadcastComes
  <2> QED BY <2>1, <2>2
<1> QED BY <1>4, <1>5, <1>6, <1>7, <1>8

\* What a step leaves of Covered: who was reached stays reached, and who has somebody
\* coming keeps them coming or is reached.
LEMMA CoveredStays ==
  ASSUME TypeOK, Covered, UNCHANGED <<subscribers, queue>>,
         \A f \in Fds, m \in Messages : f \in already_sent[m] => f \in already_sent'[m],
         \A i \in DOMAIN subscribers, j \in DOMAIN queue :
           BroadcastComes(queue[j], i) =>
             \/ BroadcastComes(queue[j], i)'
             \/ subscribers[i] \in already_sent'[queue[j]]
             \/ UpdateComes(subscribers[i], j)',
         \A i \in DOMAIN subscribers, j \in DOMAIN queue :
           UpdateComes(subscribers[i], j) =>
             \/ UpdateComes(subscribers[i], j)'
             \/ subscribers[i] \in already_sent'[queue[j]]
  PROVE  Covered'
<1> SUFFICES ASSUME NEW i \in DOMAIN subscribers', NEW j \in DOMAIN queue'
             PROVE  (\/ subscribers[i] \in already_sent[queue[j]]
                     \/ BroadcastComes(queue[j], i)
                     \/ UpdateComes(subscribers[i], j))'
  BY DEF Covered
<1>1. subscribers' = subscribers /\ queue' = queue
  OBVIOUS
<1>2. i \in DOMAIN subscribers /\ j \in DOMAIN queue
  BY <1>1
<1>3. subscribers[i] \in Fds /\ queue[j] \in Messages
  BY <1>2, ElementOfSeq, LenProperties DEF TypeOK
<1>4. \/ subscribers[i] \in already_sent[queue[j]]
      \/ BroadcastComes(queue[j], i)
      \/ UpdateComes(subscribers[i], j)
  BY <1>2 DEF Covered
<1>5. \/ subscribers[i] \in already_sent'[queue[j]]
      \/ BroadcastComes(queue[j], i)'
      \/ UpdateComes(subscribers[i], j)'
  BY <1>2, <1>3, <1>4
<1> QED BY <1>1, <1>5 DEF BroadcastComes, UpdateComes

\* Whoever gets ready has an update started, at the queue's first message.
LEMMA QuietReady ==
  ASSUME TypeOK, Quiet, NEW f \in Fds, Ready(f)
  PROVE  Quiet'
<1> USE DEF Quiet
<1>1. /\ ready_to_recieve' = [ready_to_recieve EXCEPT ![f] = TRUE]
      /\ peer' = [peer EXCEPT ![f] = "ready"]
      /\ pc' = [pc EXCEPT ![Update(f, connections[f])] = "start"]
      /\ UNCHANGED <<conn, connections, subscribers, queue, published, already_sent,
                     received, index, current>>
      /\ peer[f] = "subscribed"
  BY DEF Ready
<1>2. connections[f] = 1 /\ 1 \in 1..MaxConnections
  BY <1>1, HasConnected
<1> DEFINE u == Update(f, 1)
<1>3. u \in Threads /\ u \notin Broadcasts
  BY <1>2, BroadcastIsNoUpdate, ThreadKinds DEF Threads
<1>4. /\ \A g \in Fds : peer'[g] = IF g = f THEN "ready" ELSE peer[g]
      /\ \A g \in Fds : ready_to_recieve'[g] = IF g = f THEN TRUE ELSE ready_to_recieve[g]
      /\ \A t \in Threads : pc'[t] = IF t = u THEN "start" ELSE pc[t]
  BY <1>1, <1>2, <1>3 DEF TypeOK
<1>5. pc[u] = "off"
  BY <1>1, <1>2, <1>3 DEF Started, TypeOK
<1> HIDE DEF u
<1>6. Settled'
  <2> SUFFICES ASSUME NEW g \in Fds PROVE SettledAt(g)'
    BY DEF Settled, SettledAt
  <2>1. CASE g = f
    <3>1. ready_to_recieve'[f] /\ peer'[f] = "ready"
      BY <1>4
    <3>2. SettledAt(f)
      BY DEF Settled
    <3>3. \A m \in Messages : IF f \in already_sent'[m] THEN received'[f][m] = 1
                              ELSE received'[f][m] = 0
      BY <1>1, <3>2 DEF SettledAt
    <3>4. conn'[f] = "open" /\ connections'[f] = 1
      BY <1>1, HasConnected
    <3> QED BY <2>1, <3>1, <3>3, <3>4 DEF SettledAt
  <2>2. CASE g # f
    BY <2>2, <1>1, <1>4 DEF Settled, SettledAt
  <2> QED BY <2>1, <2>2
<1>7. Listed'
  BY <1>1, <1>4 DEF Listed
<1>8. Started'
  <2>1. ASSUME NEW g \in Fds, NEW n \in 1..MaxConnections
        PROVE  pc'[Update(g, n)] # "off" <=> n = 1 /\ peer'[g] = "ready"
    <3>1. Update(g, n) \in Threads
      BY ThreadKinds DEF Threads
    <3>2. Update(g, n) = u <=> g = f /\ n = 1
      BY <1>2, UpdatesDiffer DEF u
    <3>3. pc[Update(g, n)] # "off" <=> n = 1 /\ peer[g] = "ready"
      BY DEF Started
    <3>4. CASE Update(g, n) = u
      BY <3>4, <3>1, <3>2, <1>4
    <3>5. CASE Update(g, n) # u
      BY <3>5, <3>1, <3>2, <3>3, <1>4
    <3> QED BY <3>4, <3>5
  <2>2. ASSUME NEW m \in Messages
        PROVE  pc'[Broadcast(m)] = pc[Broadcast(m)]
    BY <1>2, <1>3, <1>4, ThreadKinds DEF Threads
  <2> QED BY <1>1, <2>1, <2>2 DEF Started
<1>9. InPlace'
  <2> SUFFICES ASSUME NEW t \in Threads PROVE PlacedAt(t)'
    BY DEF InPlace, PlacedAt
  <2>1. CASE t = u
    BY <2>1, <1>1, <1>4, <1>5 DEF InPlace, PlacedAt
  <2>2. CASE t # u
    BY <2>2, <1>1, <1>4 DEF InPlace, PlacedAt
  <2> QED BY <2>1, <2>2
<1>10. Covered'
  <2>1. \A m \in Messages : pc'[Broadcast(m)] = pc[Broadcast(m)]
    BY <1>3, <1>4, ThreadKinds DEF Threads
  <2>2. \A i \in DOMAIN subscribers : subscribers[i] \in Fds
    BY ElementOfSeq, LenProperties DEF TypeOK
  <2>3. \A j \in DOMAIN queue : queue[j] \in Messages
    BY ElementOfSeq, LenProperties DEF TypeOK
  <2>4. \A j \in DOMAIN queue, i \in DOMAIN subscribers :
          BroadcastComes(queue[j], i) => BroadcastComes(queue[j], i)'
    BY <1>1, <2>1, <2>3 DEF BroadcastComes
  <2>5. ASSUME NEW g \in Fds, NEW j \in DOMAIN queue, UpdateComes(g, j)
        PROVE  UpdateComes(g, j)'
    <3>1. CASE g = f
      BY <3>1, <1>3, <1>4 DEF UpdateComes, u
    <3>2. CASE g # f /\ peer[g] = "subscribed"
      BY <3>2, <1>4 DEF UpdateComes
    <3>3. CASE g # f /\ peer[g] # "subscribed"
      <4>1. Update(g, 1) \in Threads /\ Update(g, 1) # u
        BY <3>3, <1>2, UpdatesDiffer, ThreadKinds DEF u, Threads
      <4> QED BY <4>1, <3>3, <2>5, <1>1, <1>4 DEF UpdateComes
    <3> QED BY <3>1, <3>2, <3>3
  <2> QED BY <1>1, <2>2, <2>4, <2>5, CoveredStays
<1> QED BY <1>6, <1>7, <1>8, <1>9, <1>10

\* A new message goes to the end of the queue, and its broadcast starts at the first
\* subscriber.
LEMMA QuietPublish ==
  ASSUME TypeOK, Quiet, NEW m \in Messages, Publish(m)
  PROVE  Quiet'
<1> USE DEF Quiet
<1> DEFINE n == Len(queue)
           b == Broadcast(m)
<1>1. /\ published' = published \cup {m} /\ queue' = Append(queue, m)
      /\ pc' = [pc EXCEPT ![b] = "next"]
      /\ UNCHANGED <<conn, connections, ready_to_recieve, subscribers, already_sent, peer,
                     received, index, current>>
      /\ m \notin published
  BY DEF Publish, client, process
<1>2. b \in Threads /\ b \in Broadcasts
  BY ThreadKinds DEF Threads
<1>3. \A t \in Threads : pc'[t] = IF t = b THEN "next" ELSE pc[t]
  BY <1>1, <1>2 DEF TypeOK
<1>4. /\ n \in Nat /\ DOMAIN queue = 1..n /\ DOMAIN queue' = 1..(n + 1)
      /\ queue'[n + 1] = m
      /\ \A j \in 1..n : queue'[j] = queue[j] /\ queue[j] \in Messages
  BY <1>1, AppendProperties, ElementOfSeq, LenProperties DEF TypeOK
<1>5. pc[b] = "off" /\ index[b] = 1
  BY <1>1, <1>2 DEF Started, InPlace, PlacedAt
<1> HIDE DEF n
<1>6. Settled'
  BY <1>1 DEF Settled, SettledAt
<1>7. Listed'
  <2>1. 1..(n + 1) = 1..n \cup {n + 1}
    BY <1>4
  <2>2. \A k \in Messages : (\E j \in 1..(n + 1) : queue'[j] = k)
                            <=> k = m \/ \E j \in 1..n : queue[j] = k
    BY <1>4, <2>1
  <2>3. \A k \in Messages : k \in published <=> \E j \in 1..n : queue[j] = k
    BY <1>4 DEF Listed
  <2>4. \A k \in Messages : k \in published' <=> \E j \in DOMAIN queue' : queue'[j] = k
    BY <1>1, <1>4, <2>2, <2>3
  <2> QED BY <1>1, <2>4 DEF Listed
<1>8. Started'
  <2>1. \A g \in Fds, k \in 1..MaxConnections : pc'[Update(g, k)] = pc[Update(g, k)]
    BY <1>2, <1>3, ThreadKinds DEF Threads
  <2>2. ASSUME NEW k \in Messages
        PROVE pc'[Broadcast(k)] # "start" /\ (pc'[Broadcast(k)] # "off" <=> k \in published')
    <3>1. Broadcast(k) \in Threads /\ (Broadcast(k) = b <=> k = m)
      BY ThreadKinds, BroadcastsDiffer DEF Threads
    <3> QED BY <3>1, <1>1, <1>3 DEF Started
  <2> QED BY <1>1, <2>1, <2>2 DEF Started
<1>9. InPlace'
  <2> SUFFICES ASSUME NEW t \in Threads PROVE PlacedAt(t)'
    BY DEF InPlace, PlacedAt
  <2>1. CASE t = b
    BY <2>1, <1>1, <1>2, <1>3, <1>5 DEF PlacedAt
  <2>2. CASE t # b
    BY <2>2, <1>1, <1>3, <1>4 DEF InPlace, PlacedAt
  <2> QED BY <2>1, <2>2
<1>10. Covered'
  <2> SUFFICES ASSUME NEW i \in DOMAIN subscribers', NEW j \in DOMAIN queue'
               PROVE  (\/ subscribers[i] \in already_sent[queue[j]]
                       \/ BroadcastComes(queue[j], i)
                       \/ UpdateComes(subscribers[i], j))'
    BY DEF Covered
  <2>1. CASE j = n + 1
    <3>1. i >= 1
      BY <1>1, LenProperties DEF TypeOK
    <3> QED BY <2>1, <3>1, <1>1, <1>2, <1>3, <1>4, <1>5 DEF BroadcastComes, Running
  <2>2. CASE j # n + 1
    <3>1. j \in 1..n /\ queue[j] \in Messages /\ queue'[j] = queue[j]
      BY <2>2, <1>4
    <3>2. subscribers[i] \in Fds /\ i \in DOMAIN subscribers /\ subscribers'[i] = subscribers[i]
      BY <1>1, ElementOfSeq, LenProperties DEF TypeOK
    <3>3. \/ subscribers[i] \in already_sent[queue[j]]
          \/ BroadcastComes(queue[j], i)
          \/ UpdateComes(subscribers[i], j)
      BY <3>1, <3>2, <1>4 DEF Covered
    <3>4. queue[j] # m
      BY <3>1, <1>1, <1>4 DEF Listed
    <3>5. BroadcastComes(queue[j], i) => BroadcastComes(queue[j], i)'
      <4>1. Broadcast(queue[j]) \in Threads /\ Broadcast(queue[j]) # b
        BY <3>1, <3>4, ThreadKinds, BroadcastsDiffer DEF Threads
      <4> QED BY <4>1, <3>1, <1>1, <1>3 DEF BroadcastComes
    <3>6. UpdateComes(subscribers[i], j) => UpdateComes(subscribers[i], j)'
      <4>1. peer[subscribers[i]] # "off"
        BY <3>2 DEF Listed
      <4>2. 1 \in 1..MaxConnections
        BY <4>1, <3>2, HasConnected
      <4>3. Update(subscribers[i], 1) \in Threads /\ Update(subscribers[i], 1) # b
        BY <4>2, <3>2, <1>2, ThreadKinds DEF Threads
      <4> QED BY <4>3, <3>2, <1>1, <1>3 DEF UpdateComes
    <3> QED BY <1>1, <3>1, <3>2, <3>3, <3>5, <3>6
  <2> QED BY <2>1, <2>2
<1> QED BY <1>6, <1>7, <1>8, <1>9, <1>10

\* A step of a running thread t moves its own counter and index and leaves the
\* connections and the lists alone: what is left to show is its place and Covered.
LEMMA QuietThread ==
  ASSUME TypeOK, Quiet, NEW t \in Threads,
         UNCHANGED <<conn, connections, ready_to_recieve, subscribers, queue, published, peer>>,
         pc' = [pc EXCEPT ![t] = pc'[t]], pc[t] # "off", pc'[t] \notin {"off", "start"},
         \A u \in Threads : u # t => index'[u] = index[u] /\ current'[u] = current[u],
         PlacedAt(t)', Settled', Covered'
  PROVE  Quiet'
<1> USE DEF Quiet
<1>1. \A u \in Threads : u # t => pc'[u] = pc[u]
  BY DEF TypeOK
<1>2. Listed'
  BY DEF Listed
<1>3. Started'
  <2>1. \A f \in Fds, n \in 1..MaxConnections : Update(f, n) \in Threads
    BY ThreadKinds DEF Threads
  <2>2. \A m \in Messages : Broadcast(m) \in Threads
    BY ThreadKinds DEF Threads
  <2>3. \A u \in Threads : pc'[u] # "off" <=> pc[u] # "off"
    BY <1>1
  <2> QED BY <1>1, <2>1, <2>2, <2>3 DEF Started
<1>4. InPlace'
  <2> SUFFICES ASSUME NEW u \in Threads, u # t PROVE PlacedAt(u)'
    BY DEF InPlace
  <2> QED BY <1>1 DEF InPlace, PlacedAt
<1> QED BY <1>2, <1>3, <1>4

\* The other threads keep coming while t moves.
LEMMA OthersCome ==
  ASSUME TypeOK, Quiet, NEW t \in Threads,
         UNCHANGED <<subscribers, queue, peer>>,
         \A u \in Threads : u # t => index'[u] = index[u] /\ pc'[u] = pc[u]
  PROVE  /\ \A i \in DOMAIN subscribers : subscribers[i] \in Fds
         /\ \A j \in DOMAIN queue : queue[j] \in Messages
         /\ \A i \in DOMAIN subscribers, j \in DOMAIN queue :
              Broadcast(queue[j]) # t /\ BroadcastComes(queue[j], i) => BroadcastComes(queue[j], i)'
         /\ \A i \in DOMAIN subscribers, j \in DOMAIN queue :
              Update(subscribers[i], 1) # t /\ UpdateComes(subscribers[i], j)
                => UpdateComes(subscribers[i], j)'
<1> USE DEF Quiet
<1>1. \A i \in DOMAIN subscribers : subscribers[i] \in Fds
  BY ElementOfSeq, LenProperties DEF TypeOK
<1>2. \A j \in DOMAIN queue : queue[j] \in Messages
  BY ElementOfSeq, LenProperties DEF TypeOK
<1>3. ASSUME NEW i \in DOMAIN subscribers, NEW j \in DOMAIN queue,
             Broadcast(queue[j]) # t, BroadcastComes(queue[j], i)
      PROVE  BroadcastComes(queue[j], i)'
  <2>1. Broadcast(queue[j]) \in Threads
    BY <1>2, ThreadKinds DEF Threads
  <2> QED BY <2>1, <1>3 DEF BroadcastComes
<1>4. ASSUME NEW i \in DOMAIN subscribers, NEW j \in DOMAIN queue,
             Update(subscribers[i], 1) # t, UpdateComes(subscribers[i], j)
      PROVE  UpdateComes(subscribers[i], j)'
  <2>1. peer[subscribers[i]] # "off"
    BY <1>1 DEF Listed
  <2>2. 1 \in 1..MaxConnections
    BY <2>1, <1>1, HasConnected
  <2>3. Update(subscribers[i], 1) \in Threads
    BY <2>2, <1>1, ThreadKinds DEF Threads
  <2> QED BY <2>3, <1>4 DEF UpdateComes
<1> QED BY <1>1, <1>2, <1>3, <1>4

\* The steps of an iteration before its end only move the counter, within the loop or,
\* for an update, into it.
LEMMA QuietIteration ==
  ASSUME TypeOK, Quiet, NEW t \in Threads,
         \/ t \in Updates /\ (StartUpdate(t) \/ PickMessage(t))
         \/ t \in Broadcasts /\ PickSubscriber(t)
         \/ LockReady(t)
  PROVE  Quiet'
<1> USE DEF Quiet
<1>1. /\ UNCHANGED <<conn, connections, ready_to_recieve, subscribers, queue, published, peer,
                     already_sent, received, index>>
      /\ pc' = [pc EXCEPT ![t] = pc'[t]] /\ pc[t] \in Running \cup {"start"}
  <2>1. CASE StartUpdate(t)    BY <2>1 DEF StartUpdate, client, process, Running, TypeOK
  <2>2. CASE PickSubscriber(t) BY <2>2 DEF PickSubscriber, client, process, Running, TypeOK
  <2>3. CASE PickMessage(t)    BY <2>3 DEF PickMessage, client, process, Running, TypeOK
  <2>4. CASE LockReady(t)      BY <2>4 DEF LockReady, client, process, Running, TypeOK
  <2> QED BY <2>1, <2>2, <2>3, <2>4
<1>2. pc'[t] \in Running
  <2>1. CASE t \in Updates /\ StartUpdate(t)
    <3>1. PICK f \in Fds, n \in 1..MaxConnections : t = Update(f, n)
      BY <2>1 DEF Updates
    <3>2. t[2] = f /\ To(t) = f
      BY <2>1, <3>1, BroadcastIsNoUpdate DEF Update, To
    <3>3. peer[f] = "ready"
      BY <2>1, <3>1, <1>1 DEF Started, Running
    <3>4. Contains(subscribers, f)
      BY <3>3, LenProperties DEF Listed, Contains, TypeOK
    <3> QED BY <2>1, <3>2, <3>4 DEF StartUpdate, TypeOK, Running
  <2>2. CASE PickSubscriber(t) BY <2>2 DEF PickSubscriber, TypeOK, Running
  <2>3. CASE PickMessage(t)    BY <2>3 DEF PickMessage, TypeOK, Running
  <2>4. CASE LockReady(t)      BY <2>4 DEF LockReady, TypeOK, Running
  <2> QED BY <2>1, <2>2, <2>3, <2>4
<1>3. \A u \in Threads : u # t => current'[u] = current[u] /\ pc'[u] = pc[u]
  <2>1. \A u \in Threads : u # t => pc'[u] = pc[u]
    BY <1>1 DEF TypeOK
  <2>2. CASE StartUpdate(t)    BY <2>1, <2>2 DEF StartUpdate
  <2>3. CASE PickSubscriber(t) BY <2>1, <2>3 DEF PickSubscriber, TypeOK
  <2>4. CASE PickMessage(t)    BY <2>1, <2>4 DEF PickMessage, TypeOK
  <2>5. CASE LockReady(t)      BY <2>1, <2>5 DEF LockReady
  <2> QED BY <2>2, <2>3, <2>4, <2>5
<1>4. PlacedAt(t)'
  <2>1. PlacedAt(t)
    BY DEF InPlace
  <2>2. CASE StartUpdate(t)
    BY <2>1, <2>2, <1>1, <1>2 DEF StartUpdate, PlacedAt, Running, TypeOK
  <2>3. CASE t \in Broadcasts /\ PickSubscriber(t)
    BY <2>1, <2>3, <1>1, <1>2 DEF PickSubscriber, PlacedAt, Running, TypeOK
  <2>4. CASE t \in Updates /\ PickMessage(t)
    <3>1. t \notin Broadcasts
      BY <2>4, ThreadKinds
    <3> QED BY <2>1, <2>4, <3>1, <1>1, <1>2 DEF PickMessage, PlacedAt, Running, TypeOK
  <2>5. CASE LockReady(t)
    BY <2>1, <2>5, <1>1, <1>2 DEF LockReady, PlacedAt, Running, TypeOK
  <2> QED BY <2>2, <2>3, <2>4, <2>5
<1>5. Settled'
  BY <1>1 DEF Settled, SettledAt
<1>6. Covered'
  <2>1. \A i \in DOMAIN subscribers, j \in DOMAIN queue :
          BroadcastComes(queue[j], i) => BroadcastComes(queue[j], i)'
    <3> SUFFICES ASSUME NEW i \in DOMAIN subscribers, NEW j \in DOMAIN queue,
                        BroadcastComes(queue[j], i)
                 PROVE  BroadcastComes(queue[j], i)'
      OBVIOUS
    <3>1. CASE Broadcast(queue[j]) = t
      BY <3>1, <1>1, <1>2 DEF BroadcastComes
    <3>2. CASE Broadcast(queue[j]) # t
      BY <3>2, <1>1, <1>3, OthersCome
    <3> QED BY <3>1, <3>2
  <2>2. \A i \in DOMAIN subscribers, j \in DOMAIN queue :
          UpdateComes(subscribers[i], j) => UpdateComes(subscribers[i], j)'
    <3> SUFFICES ASSUME NEW i \in DOMAIN subscribers, NEW j \in DOMAIN queue,
                        UpdateComes(subscribers[i], j)
                 PROVE  UpdateComes(subscribers[i], j)'
      OBVIOUS
    <3>1. CASE Update(subscribers[i], 1) = t
      <4>1. index[t] = 1 \/ pc[t] # "start"
        BY DEF InPlace, PlacedAt
      <4>2. 1 <= j
        BY LenProperties DEF TypeOK
      <4> QED BY <3>1, <4>1, <4>2, <1>1, <1>2 DEF UpdateComes
    <3>2. CASE Update(subscribers[i], 1) # t
      BY <3>2, <1>1, <1>3, OthersCome
    <3> QED BY <3>1, <3>2
  <2> QED BY <1>1, <2>1, <2>2, CoveredStays
<1>7. pc[t] # "off" /\ pc'[t] \notin {"off", "start"}
  BY <1>1, <1>2 DEF Running
<1> QED BY <1>1, <1>3, <1>4, <1>5, <1>6, <1>7, QuietThread

\* A loop ends when it has been through its list: nobody was left for it.
LEMMA QuietFinish ==
  ASSUME TypeOK, Quiet, NEW t \in Threads, NEW list,
         \/ t \in Broadcasts /\ list = subscribers
         \/ t \in Updates /\ list = queue,
         Finish(t, list)
  PROVE  Quiet'
<1> USE DEF Quiet
<1>1. /\ UNCHANGED <<conn, connections, ready_to_recieve, subscribers, queue, published, peer,
                     already_sent, received, current>>
      /\ pc' = [pc EXCEPT ![t] = "done"] /\ index' = [index EXCEPT ![t] = 1]
      /\ pc[t] = "next" /\ index[t] \notin DOMAIN list
  BY DEF Finish, client, process
<1>2. \A u \in Threads : u # t => index'[u] = index[u] /\ pc'[u] = pc[u]
  BY <1>1 DEF TypeOK
<1>3. pc'[t] = "done" /\ index'[t] = 1
  BY <1>1 DEF TypeOK
<1>4. index[t] \in Nat /\ index[t] >= 1
  BY DEF TypeOK, InPlace, PlacedAt
<1>5. PlacedAt(t)'
  BY <1>3 DEF PlacedAt
<1>6. Settled'
  BY <1>1 DEF Settled, SettledAt
<1>7. Covered'
  <2>1. ASSUME NEW i \in DOMAIN subscribers, NEW j \in DOMAIN queue, BroadcastComes(queue[j], i)
        PROVE  BroadcastComes(queue[j], i)'
    <3>1. CASE Broadcast(queue[j]) = t
      <4>1. t \in Broadcasts
        BY <3>1, OthersCome, ThreadKinds, <1>1, <1>2
      <4>2. list = subscribers
        BY <4>1, ThreadKinds
      <4> DEFINE n == Len(subscribers)
      <4>3. n \in Nat /\ DOMAIN subscribers = 1..n
        BY LenProperties DEF TypeOK
      <4>4. index[t] <= i
        BY <2>1, <3>1 DEF BroadcastComes
      <4> HIDE DEF n
      <4> QED BY <4>2, <4>3, <4>4, <1>1, <1>4
    <3>2. CASE Broadcast(queue[j]) # t
      BY <3>2, <2>1, <1>1, <1>2, OthersCome
    <3> QED BY <3>1, <3>2
  <2>2. ASSUME NEW i \in DOMAIN subscribers, NEW j \in DOMAIN queue,
               UpdateComes(subscribers[i], j)
        PROVE  UpdateComes(subscribers[i], j)'
    <3>1. CASE Update(subscribers[i], 1) = t /\ peer[subscribers[i]] # "subscribed"
      <4>1. subscribers[i] \in Fds /\ peer[subscribers[i]] # "off"
        BY OthersCome, <1>1, <1>2 DEF Listed
      <4>2. t \in Updates
        BY <3>1, <4>1, HasConnected, ThreadKinds
      <4>3. list = queue
        BY <4>2, ThreadKinds
      <4> DEFINE n == Len(queue)
      <4>4. n \in Nat /\ DOMAIN queue = 1..n
        BY LenProperties DEF TypeOK
      <4>5. index[t] <= j
        BY <2>2, <3>1, <1>1 DEF UpdateComes
      <4> HIDE DEF n
      <4> QED BY <4>3, <4>4, <4>5, <1>1, <1>4
    <3>2. CASE Update(subscribers[i], 1) # t
      BY <3>2, <2>2, <1>1, <1>2, OthersCome
    <3>3. CASE peer[subscribers[i]] = "subscribed"
      BY <3>3, <1>1 DEF UpdateComes
    <3> QED BY <3>1, <3>2, <3>3
  <2> QED BY <1>1, <2>1, <2>2, CoveredStays
<1>8. pc' = [pc EXCEPT ![t] = pc'[t]] /\ pc[t] # "off" /\ pc'[t] \notin {"off", "start"}
  BY <1>1, <1>3
<1> QED BY <1>1, <1>2, <1>5, <1>6, <1>7, <1>8, QuietThread

\* An iteration ends with a message sent, or with nothing to send: its subscriber had it,
\* or is not ready, and will be brought up to date when it is.
LEMMA QuietSendOrSkip ==
  ASSUME TypeOK, Quiet, NEW t \in Threads, Send(t) \/ Skip(t)
  PROVE  Quiet'
<1> USE DEF Quiet
<1>1. /\ UNCHANGED <<conn, connections, ready_to_recieve, subscribers, queue, published, peer>>
      /\ pc[t] = "answering" /\ LeaveClient(t)
  BY DEF Send, Skip, client, process
<1>2. /\ pc' = [pc EXCEPT ![t] = "next"] /\ index' = [index EXCEPT ![t] = index[t] + 1]
      /\ current' = [current EXCEPT ![t] = None]
  BY <1>1 DEF LeaveClient
<1>3. /\ \A u \in Threads : u # t => /\ index'[u] = index[u] /\ pc'[u] = pc[u]
                                     /\ current'[u] = current[u]
      /\ pc'[t] = "next" /\ index'[t] = index[t] + 1
      /\ index[t] \in Nat /\ index[t] >= 1
  BY <1>2 DEF TypeOK, InPlace, PlacedAt
<1>4. Msg(t) \in Messages /\ To(t) \in Fds
  BY <1>1 DEF TypeOK, IterationsTyped
<1>5. \/ /\ To(t) \notin already_sent[Msg(t)] /\ ready_to_recieve[To(t)]
         /\ already_sent' = [already_sent EXCEPT ![Msg(t)] = @ \cup {To(t)}]
         /\ IF conn[To(t)] = "open"
            THEN received' = [received EXCEPT ![To(t)][Msg(t)] = @ + 1]
            ELSE received' = received
      \/ /\ To(t) \in already_sent[Msg(t)] \/ ~ready_to_recieve[To(t)]
         /\ UNCHANGED <<already_sent, received>>
  BY DEF Send, Skip, MustSend, process
<1>6. \A f \in Fds, m \in Messages : f \in already_sent[m] => f \in already_sent'[m]
  BY <1>4, <1>5 DEF TypeOK
<1>7. To(t) \in already_sent'[Msg(t)] \/ ~ready_to_recieve[To(t)]
  BY <1>4, <1>5 DEF TypeOK
<1>8. Settled'
  <2>1. CASE UNCHANGED <<already_sent, received>>
    BY <2>1, <1>1 DEF Settled, SettledAt
  <2>2. CASE ~UNCHANGED <<already_sent, received>>
    <3> SUFFICES ASSUME NEW f \in Fds PROVE SettledAt(f)'
      BY DEF Settled
    <3>1. SettledAt(To(t)) /\ ready_to_recieve[To(t)] /\ To(t) \notin already_sent[Msg(t)]
      BY <2>2, <1>4, <1>5 DEF Settled
    <3>2. peer[To(t)] = "ready" /\ conn[To(t)] = "open" /\ received[To(t)][Msg(t)] = 0
      BY <3>1, <1>4 DEF SettledAt
    <3>3. /\ already_sent' = [already_sent EXCEPT ![Msg(t)] = already_sent[Msg(t)] \cup {To(t)}]
          /\ received' = [received EXCEPT ![To(t)][Msg(t)] = 0 + 1]
      BY <2>2, <3>2, <1>5
    <3>4. \A m \in Messages : received'[f][m] = IF f = To(t) /\ m = Msg(t) THEN 1
                                                ELSE received[f][m]
      BY <3>3, <1>4 DEF TypeOK
    <3>5. \A m \in Messages : f \in already_sent'[m] <=>
            f \in already_sent[m] \/ (f = To(t) /\ m = Msg(t))
      BY <3>3, <1>4 DEF TypeOK
    <3>6. SettledAt(f)
      BY DEF Settled
    <3>7. \A m \in Messages :
            IF f \in already_sent'[m] THEN received'[f][m] = 1 /\ peer'[f] = "ready"
            ELSE received'[f][m] = 0
      <4> SUFFICES ASSUME NEW m \in Messages
                   PROVE  IF f \in already_sent'[m] THEN received'[f][m] = 1 /\ peer'[f] = "ready"
                          ELSE received'[f][m] = 0
        OBVIOUS
      <4>1. CASE f = To(t) /\ m = Msg(t)
        BY <4>1, <3>2, <3>4, <3>5, <1>1
      <4>2. CASE ~(f = To(t) /\ m = Msg(t))
        BY <4>2, <3>4, <3>5, <3>6, <1>1 DEF SettledAt
      <4> QED BY <4>1, <4>2
    <3> QED BY <3>6, <3>7, <1>1 DEF SettledAt
  <2> QED BY <2>1, <2>2
<1>9. PlacedAt(t)'
  BY <1>3 DEF PlacedAt
<1>10. PlacedAt(t) /\ IF t \in Broadcasts
                      THEN index[t] \in DOMAIN subscribers /\ current[t] = subscribers[index[t]]
                      ELSE index[t] \in DOMAIN queue /\ current[t] = queue[index[t]]
  BY <1>1 DEF InPlace, PlacedAt
<1>11. ASSUME NEW i \in DOMAIN subscribers, NEW j \in DOMAIN queue, BroadcastComes(queue[j], i)
       PROVE  \/ BroadcastComes(queue[j], i)'
              \/ subscribers[i] \in already_sent'[queue[j]]
              \/ UpdateComes(subscribers[i], j)'
  <2>1. CASE Broadcast(queue[j]) # t
    BY <2>1, <1>11, <1>1, <1>3, OthersCome
  <2>2. CASE Broadcast(queue[j]) = t
    <3>1. subscribers[i] \in Fds /\ queue[j] \in Messages
      BY <1>1, <1>3, OthersCome
    <3>2. t \in Broadcasts /\ t \notin Updates /\ t[2] = queue[j]
      BY <2>2, <3>1, ThreadKinds DEF Broadcast
    <3>3. Msg(t) = queue[j] /\ To(t) = subscribers[index[t]]
      BY <3>2, <1>10 DEF Msg, To
    <3>4. i \in Nat /\ index[t] <= i
      <4>1. DOMAIN subscribers = 1..Len(subscribers)
        BY LenProperties DEF TypeOK
      <4> QED BY <4>1, <1>11, <2>2 DEF BroadcastComes
    <3>5. CASE index[t] = i
      <4>1. CASE subscribers[i] \in already_sent'[queue[j]]
        BY <4>1
      <4>2. CASE ~ready_to_recieve[subscribers[i]]
        <5>1. peer[subscribers[i]] = "subscribed"
          BY <4>2, <3>1 DEF Listed, Settled, SettledAt
        <5> QED BY <5>1, <1>1 DEF UpdateComes
      <4> QED BY <3>3, <3>5, <4>1, <4>2, <1>7
    <3>6. CASE index[t] # i
      <4>1. index[t] + 1 <= i
        BY <3>4, <3>6, <1>3
      <4> QED BY <4>1, <2>2, <1>1, <1>3 DEF BroadcastComes, Running
    <3> QED BY <3>5, <3>6
  <2> QED BY <2>1, <2>2
<1>12. ASSUME NEW i \in DOMAIN subscribers, NEW j \in DOMAIN queue,
              UpdateComes(subscribers[i], j)
       PROVE  UpdateComes(subscribers[i], j)' \/ subscribers[i] \in already_sent'[queue[j]]
  <2>1. CASE Update(subscribers[i], 1) # t
    BY <2>1, <1>12, <1>1, <1>3, OthersCome
  <2>2. CASE peer[subscribers[i]] = "subscribed"
    BY <2>2, <1>1 DEF UpdateComes
  <2>3. CASE Update(subscribers[i], 1) = t /\ peer[subscribers[i]] # "subscribed"
    <3>1. subscribers[i] \in Fds /\ queue[j] \in Messages
      BY <1>1, <1>3, OthersCome
    <3>2. 1 \in 1..MaxConnections
      BY <3>1, HasConnected DEF Listed
    <3>3. t \in Updates /\ t \notin Broadcasts /\ t[2] = subscribers[i]
      BY <2>3, <3>1, <3>2, ThreadKinds DEF Update
    <3>4. To(t) = subscribers[i] /\ Msg(t) = queue[index[t]]
      BY <3>3, <1>10 DEF Msg, To
    <3>5. ready_to_recieve[subscribers[i]]
      BY <3>1, <2>3 DEF Listed, Settled, SettledAt
    <3>6. j \in Nat /\ index[t] <= j
      <4>1. DOMAIN queue = 1..Len(queue)
        BY LenProperties DEF TypeOK
      <4> QED BY <4>1, <1>12, <2>3, <1>1 DEF UpdateComes
    <3>7. CASE index[t] = j
      BY <3>4, <3>5, <3>7, <1>7
    <3>8. CASE index[t] # j
      <4>1. index[t] + 1 <= j
        BY <3>6, <3>8, <1>3
      <4> QED BY <4>1, <2>3, <1>1, <1>3 DEF UpdateComes, Running
    <3> QED BY <3>7, <3>8
  <2> QED BY <2>1, <2>2, <2>3
<1>13. Covered'
  BY <1>1, <1>6, <1>11, <1>12, CoveredStays
<1>14. pc' = [pc EXCEPT ![t] = pc'[t]] /\ pc[t] # "off" /\ pc'[t] \notin {"off", "start"}
  BY <1>1, <1>2, <1>3
<1> QED BY <1>1, <1>3, <1>8, <1>9, <1>13, <1>14, QuietThread

\* Every step keeps Quiet, but for the death of a subscriber and an eviction.
LEMMA QuietNext == IInv /\ QInv /\ [Next]_vars => QInv'
<1> SUFFICES ASSUME TypeOK, QInv, [Next]_vars, Undisturbed' PROVE Quiet'
  BY DEF IInv, QInv
<1>1. CASE UNCHANGED vars
  BY <1>1 DEF QInv, Undisturbed, Quiet, vars, client, thread, process, bounds, Settled,
     SettledAt, Listed, Started, InPlace, PlacedAt, Covered, BroadcastComes, UpdateComes
<1>2. ASSUME NEW f \in Fds, Die(f) PROVE FALSE
  BY <1>2 DEF Die, Undisturbed, TypeOK
<1>3. ASSUME NEW i \in DOMAIN queue, Evict(i) PROVE FALSE
  BY <1>3 DEF Evict, Undisturbed, TypeOK
<1>4. CASE Next /\ Quiet
  <2>1. ASSUME NEW f \in Fds, Disconnect(f) \/ Close(f) PROVE FALSE
    BY <2>1, <1>4 DEF Disconnect, Close, Quiet, Settled, SettledAt
  <2>2. ASSUME NEW f \in Fds, Processed(f) PROVE Quiet'
    <3>1. UNCHANGED <<conn, connections, ready_to_recieve, subscribers, queue, published,
                      already_sent, pc, index, current, peer, received>>
      BY <2>2 DEF Processed, thread
    <3> QED BY <3>1, <1>4 DEF Quiet, Settled, SettledAt, Listed, Started, InPlace, PlacedAt,
               Covered, BroadcastComes, UpdateComes
  <2>3. ASSUME NEW f \in Fds, Connect(f) \/ Subscribe(f) \/ Ready(f) PROVE Quiet'
    BY <2>3, <1>4, QuietConnect, QuietSubscribe, QuietReady
  <2>4. ASSUME NEW m \in Messages, Publish(m) PROVE Quiet'
    BY <2>4, <1>4, QuietPublish
  <2>5. ASSUME NEW t \in Broadcasts, BroadcastStep(t) PROVE Quiet'
    <3>1. t \in Threads
      BY DEF Threads
    <3> QED BY <2>5, <3>1, <1>4, QuietIteration, QuietFinish, QuietSendOrSkip
            DEF BroadcastStep, SendToClient
  <2>6. ASSUME NEW t \in Updates, UpdateStep(t) PROVE Quiet'
    <3>1. t \in Threads
      BY DEF Threads
    <3>2. CASE Finish(t, queue)
      BY <3>1, <3>2, <1>4, QuietFinish
    <3>3. CASE StartUpdate(t) \/ PickMessage(t) \/ LockReady(t)
      BY <3>1, <3>3, <1>4, QuietIteration
    <3>4. CASE Send(t) \/ Skip(t)
      BY <3>1, <3>4, <1>4, QuietSendOrSkip
    <3> QED BY <2>6, <3>2, <3>3, <3>4 DEF UpdateStep, SendToClient
  <2> QED BY <1>2, <1>3, <1>4, <2>1, <2>2, <2>3, <2>4, <2>5, <2>6 DEF Next
<1>5. CASE Next /\ ~Quiet
  <2>1. ~Undisturbed
    BY <1>5 DEF QInv
  <2>2. deaths # 0 \/ evictions # 0
    BY <2>1 DEF Undisturbed
  <2>3. deaths' = deaths /\ evictions' = evictions
    BY <1>2, <1>3, <1>5 DEF Next, BroadcastStep, UpdateStep, SendToClient, Connect, Subscribe,
       Ready, Processed, Disconnect, Close, Publish, StartUpdate, PickSubscriber, PickMessage,
       Finish, LockReady, Send, Skip, bounds
  <2> QED BY <2>2, <2>3 DEF Undisturbed
<1> QED BY <1>1, <1>4, <1>5

\* With every thread done nobody is left to come: each ready subscriber has been reached.
LEMMA QuietReaches == IInv /\ QInv => NoneForgotten
<1> SUFFICES ASSUME TypeOK, QInv, Undisturbed, \A t \in Threads : pc[t] \in {"off", "done"},
                    NEW f \in Fds, NEW m \in published, peer[f] = "ready"
             PROVE  received[f][m] = 1
  BY DEF NoneForgotten, Undisturbed, IInv
<1>1. Quiet /\ m \in Messages
  BY DEF QInv, TypeOK
<1>2. PICK i \in DOMAIN subscribers : subscribers[i] = f
  BY <1>1 DEF Quiet, Listed
<1>3. PICK j \in DOMAIN queue : queue[j] = m
  BY <1>1 DEF Quiet, Listed
<1>4. ~BroadcastComes(m, i)
  <2>1. Broadcast(m) \in Threads
    BY <1>1, ThreadKinds DEF Threads
  <2> QED BY <2>1 DEF BroadcastComes, Running
<1>5. ~UpdateComes(f, j)
  <2>1. 1 \in 1..MaxConnections
    BY <1>1, HasConnected DEF Quiet
  <2>2. Update(f, 1) \in Threads
    BY <2>1, ThreadKinds DEF Threads
  <2> QED BY <2>2 DEF UpdateComes, Running
<1>6. f \in already_sent[m]
  BY <1>1, <1>2, <1>3, <1>4, <1>5 DEF Quiet, Covered
<1> QED BY <1>1, <1>6 DEF Quiet, Settled, SettledAt

\* NoneForgotten: while no subscriber dies and no message is evicted, the two loops that
\* others append to, update_subscriber_with_messages and a message's broadcast, between
\* them reach each ready subscriber with each message, for any number of both.
THEOREM NobodyForgotten == Spec => []NoneForgotten
<1>1. Init => QInv
  BY QuietInit DEF QInv
<1>2. Spec => []QInv
  BY <1>1, QuietNext, Inductive, PTL DEF Spec
<1> QED BY <1>2, Inductive, QuietReaches, PTL
=============================================================================
