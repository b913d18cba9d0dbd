------------------------------ MODULE TeamProofs ------------------------------
(***************************************************************************)
(* Team, for any team: its trainers, their objectives, the planning, the   *)
(* quantum and the threads that receive messages are what they may be.     *)
(*                                                                         *)
(* 1. The token (executing_mutex and each trainer's own mutex): one        *)
(*    trainer at a time is in its cycle.  It is lost if the planner wakes  *)
(*    somebody who is no trainer, so the argument needs that only trainers *)
(*    enter the ready queue, the ones that the detection of deadlocks      *)
(*    chooses included: the groups in a deadlock have a first one, and     *)
(*    somebody in it that can solve it.                                    *)
(* 2. The requirements: what is in progress is on the list or on a         *)
(*    trainer, and no more than is needed.  When all that is needed has    *)
(*    been caught nothing is in progress, so the detection, which chooses  *)
(*    a trainer whatever it is doing, takes nobody from a capture.         *)
(* 3. The ready queue, if first come is first served: only the trainer     *)
(*    that executes is awake, so that who has work is in line for it.      *)
(* 4. A planner that pauses for longer than trainers compute wakes who     *)
(*    executes, and who executes has an activity.                          *)
(* 5. What the team lacks of each pokemon, if no trainer wants two of a    *)
(*    kind: captures and trades move pokemons from one list to another,    *)
(*    and what leaves what a trainer has leaves what somebody needs.       *)
(*                                                                         *)
(* However many threads process messages, each but one can take one        *)
(* pokemon too many of a species (NoneTakenTooMany): the argument counts   *)
(* the threads between a test and its count, and the listener between the  *)
(* two counts of a catch.  From 2 on the rest is about a team in which the *)
(* listener is the only one (OneReceiver).                                 *)
(***************************************************************************)
EXTENDS Team, OrderProofs

-----------------------------------------------------------------------------
(* The operators of the library that the model is built from *)

\* What is taken out of a sequence, wherever, leaves a sequence of the same elements.
LEMMA RemoveAtInSeq ==
  ASSUME NEW S, NEW s \in Seq(S), NEW i \in 1..Len(s)
  PROVE  RemoveAt(s, i) \in Seq(S)
<1>1. \A j \in 1..Len(s) : s[j] \in S
  BY ElementOfSeq
<1>2. SubSeq(s, 1, i - 1) \in Seq(S)
  <2>1. \A j \in 1..(i - 1) : s[j] \in S  BY <1>1
  <2> QED BY <2>1, SubSeqProperties
<1>3. SubSeq(s, i + 1, Len(s)) \in Seq(S)
  <2>1. \A j \in (i + 1)..Len(s) : s[j] \in S  BY <1>1
  <2> QED BY <2>1, SubSeqProperties
<1> QED BY <1>2, <1>3, ConcatProperties DEF RemoveAt

\* So does taking out the first occurrence of something, if there is one.
LEMMA RemoveFirstInSeq ==
  ASSUME NEW S, NEW s \in Seq(S), NEW e
  PROVE  RemoveFirst(s, e) \in Seq(S)
<1> DEFINE Places == {i \in 1..Len(s) : s[i] = e}
<1>1. CASE Places = {}
  BY <1>1 DEF RemoveFirst
<1>2. CASE Places # {}
  <2>1. Places \subseteq Nat
    OBVIOUS
  <2>2. Min(Places) \in 1..Len(s)
    BY <2>1, <1>2, MinOfNaturals
  <2>3. RemoveFirst(s, e) = RemoveAt(s, Min(Places))
    BY <1>2 DEF RemoveFirst, SelectInSeq
  <2> QED BY <2>2, <2>3, RemoveAtInSeq
<1> QED BY <1>1, <1>2

-----------------------------------------------------------------------------
(* The trainers, and groups of them *)

\* A team has finitely many trainers, numbered from one.
LEMMA TeamIsFinite ==
  /\ IsFiniteSet(Trainers) /\ Trainers \subseteq Nat /\ Nobody \notin Trainers
  /\ \A g \in SUBSET Trainers : IsFiniteSet(g) /\ Cardinality(g) \in Nat
<1>1. Len(Objectives) \in Nat /\ Trainers = 1..Len(Objectives)
  BY TeamAssumption, LenProperties DEF TeamAssumption, Trainers
<1>2. IsFiniteSet(Trainers)
  BY <1>1, FS_Interval
<1>3. \A g \in SUBSET Trainers : IsFiniteSet(g) /\ Cardinality(g) \in Nat
  <2> HIDE DEF Trainers
  <2> QED BY <1>2, FS_Subset, FS_CardinalityType
<1> QED BY <1>1, <1>2, <1>3 DEF Nobody

\* Of two groups, one comes before the other...
LEMMA BeforeIsTotal ==
  ASSUME NEW g \in SUBSET Trainers, NEW h \in SUBSET Trainers, g # h
  PROVE  Before(g, h) \/ Before(h, g)
<1> DEFINE D == (g \ h) \cup (h \ g)
<1>1. Cardinality(g) \in Nat /\ Cardinality(h) \in Nat
  BY TeamIsFinite
<1>2. D # {} /\ D \subseteq Nat
  BY TeamIsFinite
<1>3. Min(D) \in D
  BY <1>2, MinOfNaturals
<1>4. D = (h \ g) \cup (g \ h)
  OBVIOUS
<1>5. Min(D) = Min((h \ g) \cup (g \ h))
  BY <1>4
<1> QED BY <1>1, <1>3, <1>5 DEF Before

\* ... and not both.
LEMMA BeforeIsAsymmetric ==
  ASSUME NEW g \in SUBSET Trainers, NEW h \in SUBSET Trainers, g # h, Before(g, h)
  PROVE  ~Before(h, g)
<1> DEFINE D == (g \ h) \cup (h \ g)
<1>1. Cardinality(g) \in Nat /\ Cardinality(h) \in Nat
  BY TeamIsFinite
<1>2. D # {} /\ D \subseteq Nat
  BY TeamIsFinite
<1>3. Min(D) \in D
  BY <1>2, MinOfNaturals
<1>4. D = (h \ g) \cup (g \ h)
  OBVIOUS
<1>5. Min(D) = Min((h \ g) \cup (g \ h))
  BY <1>4
<1> QED BY <1>1, <1>3, <1>5 DEF Before

\* The order of the groups is transitive: of three groups of one size, the first trainer
\* that tells any two of them apart is in the group that comes first.
LEMMA BeforeIsTransitive ==
  ASSUME NEW g \in SUBSET Trainers, NEW h \in SUBSET Trainers, NEW k \in SUBSET Trainers,
         g # h, h # k, g # k, Before(g, h), Before(h, k)
  PROVE  Before(g, k)
<1> DEFINE D1 == (g \ h) \cup (h \ g)
           D2 == (h \ k) \cup (k \ h)
           D3 == (g \ k) \cup (k \ g)
<1>1. Cardinality(g) \in Nat /\ Cardinality(h) \in Nat /\ Cardinality(k) \in Nat
  BY TeamIsFinite
<1>2. /\ D1 # {} /\ D2 # {} /\ D3 # {}
      /\ D1 \subseteq Nat /\ D2 \subseteq Nat /\ D3 \subseteq Nat
  BY TeamIsFinite
<1>3. PICK m1 : m1 = Min(D1)
  OBVIOUS
<1>4. PICK m2 : m2 = Min(D2)
  OBVIOUS
<1>5. PICK m3 : m3 = Min(D3)
  OBVIOUS
<1>6. m1 \in D1 /\ m1 \in Nat /\ \A n \in D1 : m1 <= n
  BY <1>2, <1>3, MinOfNaturals
<1>7. m2 \in D2 /\ m2 \in Nat /\ \A n \in D2 : m2 <= n
  BY <1>2, <1>4, MinOfNaturals
<1>8. m3 \in D3 /\ m3 \in Nat /\ \A n \in D3 : m3 <= n
  BY <1>2, <1>5, MinOfNaturals
<1>9. CASE Cardinality(g) = Cardinality(h) /\ Cardinality(h) = Cardinality(k)
  <2>1. m1 \in g /\ m1 \notin h
    BY <1>1, <1>3, <1>6, <1>9 DEF Before
  <2>2. m2 \in h /\ m2 \notin k
    BY <1>1, <1>4, <1>7, <1>9 DEF Before
  <2>3. m3 \in g
    <3>1. CASE m1 < m2
      <4>1. m1 \notin D2  BY <3>1, <1>6, <1>7
      <4>2. m1 \in D3     BY <4>1, <2>1
      <4>3. m3 <= m1      BY <4>2, <1>8
      <4>4. CASE m3 = m1  BY <4>4, <2>1
      <4>5. CASE m3 < m1
        <5>1. m3 \notin D1 /\ m3 \notin D2  BY <4>5, <3>1, <1>6, <1>7, <1>8
        <5> QED BY <5>1, <1>8
      <4> QED BY <4>3, <4>4, <4>5, <1>6, <1>8
    <3>2. CASE m2 < m1
      <4>1. m2 \notin D1  BY <3>2, <1>6, <1>7
      <4>2. m2 \in D3 /\ m2 \in g  BY <4>1, <2>2
      <4>3. m3 <= m2      BY <4>2, <1>8
      <4>4. CASE m3 = m2  BY <4>4, <4>2
      <4>5. CASE m3 < m2
        <5>1. m3 \notin D1 /\ m3 \notin D2  BY <4>5, <3>2, <1>6, <1>7, <1>8
        <5> QED BY <5>1, <1>8
      <4> QED BY <4>3, <4>4, <4>5, <1>7, <1>8
    <3>3. m1 # m2
      BY <2>1, <2>2
    <3> QED BY <3>1, <3>2, <3>3, <1>6, <1>7
  <2> QED BY <1>5, <1>9, <2>3 DEF Before
<1>10. CASE ~(Cardinality(g) = Cardinality(h) /\ Cardinality(h) = Cardinality(k))
  <2>1. Cardinality(g) <= Cardinality(h) /\ Cardinality(h) <= Cardinality(k)
    BY <1>1 DEF Before
  <2>2. Cardinality(g) < Cardinality(k)
    BY <2>1, <1>10, <1>1
  <2> QED BY <2>2 DEF Before
<1> QED BY <1>9, <1>10

\* Of any groups there is a first one: the one that fewest come before.
LEMMA FirstGroupExists ==
  ASSUME NEW G \in SUBSET (SUBSET Trainers), G # {}
  PROVE  \E g \in G : \A h \in G \ {g} : Before(g, h)
<1> DEFINE Earlier(g) == {h \in SUBSET Trainers : h # g /\ Before(h, g)}
           Ranks == {Cardinality(Earlier(g)) : g \in G}
<1>1. \A g \in G : IsFiniteSet(Earlier(g)) /\ Cardinality(Earlier(g)) \in Nat
  <2>1. IsFiniteSet(SUBSET Trainers)
    BY TeamIsFinite, FS_SUBSET
  <2>2. \A g \in G : Earlier(g) \in SUBSET (SUBSET Trainers)
    OBVIOUS
  <2> QED BY <2>1, <2>2, FS_Subset, FS_CardinalityType
<1>2. Ranks \subseteq Nat /\ Ranks # {}
  BY <1>1
<1>3. Min(Ranks) \in Ranks /\ \A n \in Ranks : Min(Ranks) <= n
  BY <1>2, MinOfNaturals
<1>4. PICK g \in G : \A h \in G : Cardinality(Earlier(g)) <= Cardinality(Earlier(h))
  BY <1>3
<1>5. ASSUME NEW h \in G, h # g, ~Before(g, h)
      PROVE  FALSE
  <2>1. Before(h, g)
    BY <1>5, BeforeIsTotal
  <2>2. Earlier(h) \subseteq Earlier(g)
    <3>1. SUFFICES ASSUME NEW k \in SUBSET Trainers, k # h, Before(k, h)
                   PROVE  k # g /\ Before(k, g)
      OBVIOUS
    <3>2. k # g
      BY <3>1, <2>1, <1>5
    <3> QED BY <3>1, <3>2, <2>1, <1>5, BeforeIsTransitive
  <2>3. h \in Earlier(g) /\ h \notin Earlier(h)
    BY <2>1, <1>5
  <2>4. /\ Cardinality(Earlier(h)) <= Cardinality(Earlier(g))
        /\ Cardinality(Earlier(h)) # Cardinality(Earlier(g))
    <3>1. Earlier(h) \in SUBSET Earlier(g) /\ Earlier(h) # Earlier(g)
      BY <2>2, <2>3
    <3>2. IsFiniteSet(Earlier(g))
      BY <1>1
    <3> HIDE DEF Earlier
    <3> QED BY <3>1, <3>2, FS_Subset
  <2>5. Cardinality(Earlier(g)) <= Cardinality(Earlier(h))
    BY <1>4
  <2>6. Cardinality(Earlier(g)) \in Nat /\ Cardinality(Earlier(h)) \in Nat
    BY <1>1
  <2> HIDE DEF Earlier
  <2> QED BY <2>4, <2>5, <2>6
<1> QED BY <1>4, <1>5

-----------------------------------------------------------------------------
(* The detection of deadlocks *)

\* In a group that is in a deadlock the root waits for somebody else of the group, who
\* has one of its targets: the trainer that solves the deadlock is one of the group.
LEMMA SolverInGroup ==
  ASSUME NEW has, NEW needs, NEW g \in Deadlocks(has, needs)
  PROVE  Min(g) \in g /\ Solver(g, has, needs) \in g \ {Min(g)}
<1> DEFINE root == Min(g)
           solvers == {t \in g \ {root} : ToSet(has[t]) \cap ToSet(needs[root]) # {}}
<1>1. g \in SUBSET Trainers /\ Cardinality(g) >= 2 /\ InDeadlock(g, has, needs)
  BY DEF Deadlocks
<1>2. g # {} /\ g \subseteq Nat
  BY <1>1, FS_EmptySet, TeamIsFinite
<1>3. root \in g
  BY <1>2, MinOfNaturals
<1>4. root \in Reachable(root, g, has, needs)
  BY <1>1, <1>3 DEF InDeadlock
<1>5. Allocators(root, g, has, needs) # {}
  <2>1. SUFFICES ASSUME Allocators(root, g, has, needs) = {} PROVE FALSE
    OBVIOUS
  <2>2. {} \in SUBSET g /\ \A a \in {} \cup {root} : Allocators(a, g, has, needs) \subseteq {}
    BY <2>1
  <2>3. root \in {}
    BY <1>4, <2>2 DEF Reachable
  <2> QED BY <2>3
<1>6. solvers # {}
  BY <1>5 DEF Allocators
<1>7. Min(solvers) \in solvers
  BY <1>6, <1>2, MinOfNaturals
<1> QED BY <1>3, <1>7 DEF Solver

\* What a detection makes of the trainers' states: nothing, or one waits, blocked, for
\* another one, who goes to it to trade.
Detected(s, d) ==
  \/ d = s
  \/ \E root, u \in Trainers :
       /\ root # u
       /\ d.status = [s.status EXCEPT ![root] = "BLOCKED", ![u] = "READY"]
       /\ d.activity = [s.activity EXCEPT ![u] = [type |-> "TRADING", with |-> root]]
       /\ d.ready = Append(s.ready, u)

LEMMA DetectionIs ==
  ASSUME NEW has, NEW needs, NEW s
  PROVE  Detected(s, detect_circular_chains(has, needs, s))
<1> DEFINE groups == Deadlocks(has, needs)
           first(g) == \A h \in groups \ {g} : Before(g, h)
           group == CHOOSE g \in groups : first(g)
           root == Min(group)
           u == Solver(group, has, needs)
           d == detect_circular_chains(has, needs, s)
<1>1. CASE groups = {}
  BY <1>1 DEF detect_circular_chains, Detected
<1>2. CASE groups # {}
  <2>1. groups \in SUBSET (SUBSET Trainers)
    BY DEF Deadlocks
  <2>2. \E g \in groups : first(g)
    BY <2>1, <1>2, FirstGroupExists
  <2>3. group \in groups
    BY <2>2
  <2>4. root \in Trainers /\ u \in Trainers /\ root # u
    <3>1. root \in group /\ u \in group \ {root}
      BY <2>3, SolverInGroup
    <3> QED BY <3>1, <2>1, <2>3
  <2>5. d = [status   |-> [s.status EXCEPT ![root] = "BLOCKED", ![u] = "READY"],
             activity |-> [s.activity EXCEPT ![u] = [type |-> "TRADING", with |-> root]],
             ready    |-> Append(s.ready, u)]
    BY <1>2 DEF detect_circular_chains
  <2> HIDE DEF root, u, d
  <2>6. /\ d.status = [s.status EXCEPT ![root] = "BLOCKED", ![u] = "READY"]
        /\ d.activity = [s.activity EXCEPT ![u] = [type |-> "TRADING", with |-> root]]
        /\ d.ready = Append(s.ready, u)
    BY <2>5
  <2>7. Detected(s, d)
    BY <2>4, <2>6 DEF Detected
  <2> QED BY <2>7 DEF d
<1> QED BY <1>1, <1>2

\* The detection lets nobody into the ready queue but trainers.
LEMMA DetectionKeepsQueue ==
  ASSUME NEW has, NEW needs, NEW s, s.ready \in Seq(Trainers)
  PROVE  detect_circular_chains(has, needs, s).ready \in Seq(Trainers)
<1>1. PICK d : d = detect_circular_chains(has, needs, s)
  OBVIOUS
<1>2. Detected(s, d)
  BY <1>1, DetectionIs
<1>3. d.ready = s.ready \/ \E u \in Trainers : d.ready = Append(s.ready, u)
  BY <1>2 DEF Detected
<1> QED BY <1>1, <1>3, AppendProperties

-----------------------------------------------------------------------------
(* The invariant *)

\* What the token's variables hold: only trainers are ready, and only one executes.
PlanningTyped ==
  /\ stats_mutex \in [Trainers -> BOOLEAN]
  /\ pc \in [Trainers -> {"wait", "send", "register", "end"}]
  /\ ready_queue \in Seq(Trainers)
  /\ executing_trainer \in Trainers \cup {Nobody} /\ executing_mutex \in BOOLEAN
  /\ planner \in {"sleep", "plan", "test", "lock", "unlock"}

\* OneCycleAtATime without a count.  A trainer in its cycle holds its own mutex; the token
\* is the planner's or one trainer's just while executing_mutex is locked.
Token ==
  /\ \A t \in Trainers : pc[t] # "wait" => stats_mutex[t]
  /\ \A t \in Trainers : InCycle(t) => executing_mutex /\ planner # "unlock"
  /\ \A t, u \in Trainers : InCycle(t) /\ InCycle(u) => t = u
  /\ planner = "unlock" => executing_mutex
  /\ executing_mutex => planner = "unlock" \/ \E t \in Trainers : InCycle(t)

TokenInv == PlanningTyped /\ Token

\* The planner and the trainers start with the token free.
LEMMA TokenInit == Init => TokenInv
<1> SUFFICES ASSUME Init PROVE TokenInv
  OBVIOUS
<1>1. PlanningTyped
  BY EmptySeq DEF Init, PlanningTyped
<1>2. Token
  BY DEF Init, Token, InCycle
<1> QED BY <1>1, <1>2 DEF TokenInv

\* The steps that leave the token where it is: what they change is the ready queue.
LEMMA TokenStays ==
  ASSUME Token, UNCHANGED <<stats_mutex, pc, executing_mutex>>,
         (planner' = "unlock") <=> (planner = "unlock")
  PROVE  Token'
BY DEF Token, InCycle

\* The count of a catch may let the solver of a deadlock into the ready queue, and nobody
\* else.
LEMMA CountKeepsQueue ==
  ASSUME ready_queue \in Seq(Trainers), NEW t, NEW p, NEW completed, Count(t, p, completed)
  PROVE  ready_queue' \in Seq(Trainers)
<1> DEFINE after == [status   |-> [status EXCEPT ![t] = IF targets'[t] = <<>> THEN completed
                                                        ELSE "NEW"],
                     activity |-> [activity EXCEPT ![t] = NoActivity],
                     ready    |-> ready_queue]
<1>1. \/ ready_queue' = detect_circular_chains(pokemons', targets', after).ready
      \/ ready_queue' = after.ready
  BY DEF Count
<1>2. after.ready \in Seq(Trainers)
  OBVIOUS
<1> HIDE DEF after
<1> QED BY <1>1, <1>2, DetectionKeepsQueue

\* A trainer begins its cycle when the planner has unlocked its mutex: it was the one in
\* its cycle already, and it still is.
LEMMA CycleKeepsToken ==
  ASSUME TokenInv, NEW t \in Trainers, NEW next \in {"send", "register", "end"},
         Cycle(t, next), UNCHANGED <<executing_mutex, planner>>
  PROVE  /\ Token'
         /\ stats_mutex' \in [Trainers -> BOOLEAN]
         /\ pc' \in [Trainers -> {"wait", "send", "register", "end"}]
<1>1. /\ stats_mutex' = [stats_mutex EXCEPT ![t] = TRUE]
      /\ pc' = [pc EXCEPT ![t] = next]
      /\ pc[t] = "wait" /\ ~stats_mutex[t]
  BY DEF Cycle
<1>2. PlanningTyped /\ Token
  BY DEF TokenInv
<1>3. \A u \in Trainers : InCycle(u)' <=> InCycle(u)
  <2> SUFFICES ASSUME NEW u \in Trainers PROVE InCycle(u)' <=> InCycle(u)
    OBVIOUS
  <2>1. CASE u = t
    BY <2>1, <1>1, <1>2 DEF InCycle, PlanningTyped
  <2>2. CASE u # t
    BY <2>2, <1>1, <1>2 DEF InCycle, PlanningTyped
  <2> QED BY <2>1, <2>2
<1>4. \A u \in Trainers : pc'[u] # "wait" => stats_mutex'[u]
  BY <1>1, <1>2 DEF PlanningTyped, Token
<1>5. Token'
  BY <1>2, <1>3, <1>4 DEF Token
<1> QED BY <1>1, <1>2, <1>5 DEF PlanningTyped

\* The planner's steps.  Unlock gives the token to the trainer that executes.
LEMMA PlannerKeepsToken ==
  ASSUME TokenInv, PlannerStep
  PROVE  TokenInv'
<1>1. PlanningTyped /\ Token
  BY DEF TokenInv
<1>2. CASE Wake
  <2>1. Token'
    BY <1>1, <1>2, TokenStays DEF Wake, thread
  <2> QED BY <1>1, <1>2, <2>1 DEF Wake, TokenInv, PlanningTyped, thread
<1>3. CASE Assign
  <2>1. Token'
    BY <1>1, <1>3, TokenStays DEF Assign, thread
  <2>2. ready_queue' \in Seq(Trainers)
    BY <1>1, <1>3, AppendProperties DEF Assign, PlanningTyped
  <2> QED BY <1>1, <1>3, <2>1, <2>2 DEF Assign, TokenInv, PlanningTyped, thread
<1>4. CASE Sort
  <2>1. Token'
    BY <1>1, <1>4, TokenStays DEF Sort, thread
  <2>2. ready_queue' \in Seq(Trainers) /\ executing_trainer' \in Trainers \cup {Nobody}
    BY <1>1, <1>4, HeadTailProperties DEF Sort, PlanningTyped
  <2> QED BY <1>1, <1>4, <2>1, <2>2 DEF Sort, TokenInv, PlanningTyped, thread
<1>5. CASE Test
  <2>1. Token'
    BY <1>1, <1>5, TokenStays DEF Test, thread
  <2> QED BY <1>1, <1>5, <2>1 DEF Test, TokenInv, PlanningTyped, thread
<1>6. CASE Lock
  <2>1. Token'
    BY <1>1, <1>6 DEF Lock, Token, InCycle, thread
  <2> QED BY <1>1, <1>6, <2>1 DEF Lock, TokenInv, PlanningTyped, thread
<1>7. CASE Unlock
  <2>1. CASE executing_trainer = Nobody
    <3>1. Token'
      BY <1>1, <1>7, <2>1, TokenStays DEF Unlock
    <3> QED BY <1>1, <1>7, <2>1, <3>1 DEF Unlock, TokenInv, PlanningTyped
  <2>2. CASE executing_trainer # Nobody
    <3> DEFINE e == executing_trainer
    <3>1. e \in Trainers
      BY <1>1, <2>2 DEF PlanningTyped
    <3>2. /\ stats_mutex' = [stats_mutex EXCEPT ![e] = FALSE]
          /\ planner = "unlock" /\ planner' = "sleep"
          /\ UNCHANGED <<pc, ready_queue, executing_trainer, executing_mutex>>
      BY <1>7, <2>2 DEF Unlock
    <3>3. \A u \in Trainers : InCycle(u)' <=> u = e
      <4> SUFFICES ASSUME NEW u \in Trainers PROVE InCycle(u)' <=> u = e
        OBVIOUS
      <4>1. ~InCycle(u)
        BY <1>1, <3>2 DEF Token
      <4>2. stats_mutex'[u] = IF u = e THEN FALSE ELSE stats_mutex[u]
        BY <1>1, <3>2 DEF PlanningTyped
      <4> QED BY <4>1, <4>2, <3>2 DEF InCycle
    <3>4. \A u \in Trainers : pc[u] = "wait"
      BY <1>1, <3>2 DEF Token, InCycle
    <3>5. Token'
      BY <1>1, <3>1, <3>2, <3>3, <3>4 DEF Token
    <3>6. PlanningTyped'
      BY <1>1, <3>2 DEF PlanningTyped
    <3> QED BY <3>5, <3>6 DEF TokenInv
  <2> QED BY <2>1, <2>2
<1> QED BY <1>2, <1>3, <1>4, <1>5, <1>6, <1>7 DEF PlannerStep

\* The trainers' steps.  Those that begin a cycle take the mutex that the planner has
\* unlocked, and the end of a cycle frees the token.
LEMMA TrainerKeepsToken ==
  ASSUME TokenInv, NEW t \in Trainers, TrainerStep(t)
  PROVE  TokenInv'
<1>1. PlanningTyped /\ Token
  BY DEF TokenInv
<1>2. CASE CycleOfNothing(t) \/ Move(t) \/ CycleAwaiting(t) \/ WaitToTrade(t)
  <2>1. Cycle(t, "end") /\ UNCHANGED planning
    BY <1>2 DEF CycleOfNothing, Move, CycleAwaiting, WaitToTrade
  <2>2. UNCHANGED <<ready_queue, executing_trainer, executing_mutex, planner>>
    BY <2>1 DEF planning
  <2>3. /\ Token'
        /\ stats_mutex' \in [Trainers -> BOOLEAN]
        /\ pc' \in [Trainers -> {"wait", "send", "register", "end"}]
    BY <2>1, <2>2, CycleKeepsToken
  <2> QED BY <1>1, <2>2, <2>3 DEF TokenInv, PlanningTyped
<1>3. CASE Arrive(t)
  <2>1. PICK next \in {"send", "register", "end"} : Cycle(t, next)
    BY <1>3 DEF Arrive
  <2>2. /\ Token'
        /\ stats_mutex' \in [Trainers -> BOOLEAN]
        /\ pc' \in [Trainers -> {"wait", "send", "register", "end"}]
    BY <1>3, <2>1, CycleKeepsToken DEF Arrive
  <2>3. ready_queue' \in Seq(Trainers) /\ executing_trainer' = Nobody
    BY <1>1, <1>3, RemoveFirstInSeq DEF Arrive, LeavePlanning, PlanningTyped
  <2> QED BY <1>1, <1>3, <2>2, <2>3 DEF Arrive, TokenInv, PlanningTyped
<1>4. CASE SendCatch(t) \/ Register(t)
  <2>1. /\ pc[t] # "wait" /\ pc' = [pc EXCEPT ![t] = "end"]
        /\ UNCHANGED <<stats_mutex, executing_trainer, executing_mutex, planner>>
    BY <1>4 DEF SendCatch, Register, planning
  <2>2. \A u \in Trainers : (pc'[u] # "wait") <=> (pc[u] # "wait")
    BY <1>1, <2>1 DEF PlanningTyped
  <2>3. Token'
    BY <1>1, <2>1, <2>2 DEF Token, InCycle
  <2>4. ready_queue' \in Seq(Trainers)
    BY <1>1, <1>4, CountKeepsQueue DEF SendCatch, Register, planning, PlanningTyped
  <2> QED BY <1>1, <2>1, <2>3, <2>4 DEF TokenInv, PlanningTyped
<1>5. CASE Trade(t)
  <2>1. Cycle(t, "end") /\ UNCHANGED <<executing_mutex, planner>> /\ executing_trainer' = Nobody
    BY <1>5 DEF Trade
  <2>2. /\ Token'
        /\ stats_mutex' \in [Trainers -> BOOLEAN]
        /\ pc' \in [Trainers -> {"wait", "send", "register", "end"}]
    BY <2>1, CycleKeepsToken
  <2>3. ready_queue' \in Seq(Trainers)
    <3> DEFINE friend == activity[t].with
               trade  == Traded(t, friend)
               after  == [status   |-> [status EXCEPT ![t] = "NEW", ![friend] = "NEW"],
                          activity |-> [activity EXCEPT ![t] = NoActivity,
                                                        ![friend] = NoActivity],
                          ready    |-> RemoveFirst(ready_queue, t)]
    <3>1. ready_queue' = detect_circular_chains(trade.has, trade.needs, after).ready
      BY <1>5 DEF Trade
    <3>2. after.ready \in Seq(Trainers)
      BY <1>1, RemoveFirstInSeq DEF PlanningTyped
    <3> HIDE DEF after, trade
    <3> QED BY <3>1, <3>2, DetectionKeepsQueue
  <2> QED BY <1>1, <2>1, <2>2, <2>3 DEF TokenInv, PlanningTyped
<1>6. CASE EndCycle(t)
  <2>1. /\ pc[t] = "end" /\ pc' = [pc EXCEPT ![t] = "wait"] /\ executing_mutex' = FALSE
        /\ UNCHANGED <<stats_mutex, planner>>
    BY <1>6 DEF EndCycle
  <2>2. executing_trainer' \in Trainers \cup {Nobody} /\ ready_queue' \in Seq(Trainers)
    <3>1. \/ UNCHANGED <<executing_trainer, ready_queue>>
          \/ executing_trainer' = Nobody /\ ready_queue' = Append(ready_queue, t)
      BY <1>6 DEF EndCycle, QuantumEnds
    <3>2. Append(ready_queue, t) \in Seq(Trainers)
      BY <1>1, AppendProperties DEF PlanningTyped
    <3> QED BY <1>1, <3>1, <3>2 DEF PlanningTyped
  <2>3. \A u \in Trainers : pc'[u] = IF u = t THEN "wait" ELSE pc[u]
    BY <1>1, <2>1 DEF PlanningTyped
  <2>4. \A u \in Trainers : InCycle(u) <=> u = t
    BY <1>1, <2>1 DEF Token, InCycle
  <2>5. \A u \in Trainers : ~InCycle(u)'
    <3> SUFFICES ASSUME NEW u \in Trainers PROVE ~InCycle(u)'
      OBVIOUS
    <3>1. CASE u = t
      BY <3>1, <1>1, <2>1, <2>3 DEF Token, InCycle
    <3>2. CASE u # t
      BY <3>2, <2>1, <2>3, <2>4 DEF InCycle
    <3> QED BY <3>1, <3>2
  <2>6. planner # "unlock"
    BY <1>1, <2>4 DEF Token
  <2>7. \A u \in Trainers : pc'[u] # "wait" => stats_mutex'[u]
    BY <2>5 DEF InCycle
  <2>8. Token'
    BY <2>1, <2>5, <2>6, <2>7 DEF Token
  <2>9. PlanningTyped'
    BY <1>1, <2>1, <2>2 DEF PlanningTyped
  <2> QED BY <2>8, <2>9 DEF TokenInv
<1> QED BY <1>2, <1>3, <1>4, <1>5, <1>6 DEF TrainerStep

\* Messages are none of the token's business, but a catch can end in a detection.
LEMMA MessagesKeepToken ==
  ASSUME TokenInv,
         \/ Connect
         \/ \E r \in Receivers : Require(r) \/ \E a \in Appearances : Appear(r, a)
         \/ \E t \in Trainers : Caught(t) \/ Escaped(t)
         \/ Counted
  PROVE  TokenInv'
<1>1. PlanningTyped /\ Token
  BY DEF TokenInv
<1>2. CASE Counted
  <2>1. UNCHANGED <<stats_mutex, pc, executing_trainer, executing_mutex, planner>>
    BY <1>2 DEF Counted, thread
  <2>2. ready_queue' \in Seq(Trainers)
    BY <1>1, <1>2, CountKeepsQueue DEF Counted, PlanningTyped
  <2>3. Token'
    BY <1>1, <2>1, TokenStays
  <2> QED BY <1>1, <2>1, <2>2, <2>3 DEF TokenInv, PlanningTyped
<1>3. CASE \/ Connect
           \/ \E r \in Receivers : Require(r) \/ \E a \in Appearances : Appear(r, a)
           \/ \E t \in Trainers : Caught(t) \/ Escaped(t)
  <2>1. UNCHANGED <<thread, planning>>
    BY <1>3 DEF Connect, Require, Appear, Caught, Escaped
  <2>2. UNCHANGED <<stats_mutex, pc, ready_queue, executing_trainer, executing_mutex, planner>>
    BY <2>1 DEF thread, planning
  <2>3. Token'
    BY <1>1, <2>2, TokenStays
  <2> QED BY <1>1, <2>2, <2>3 DEF TokenInv, PlanningTyped
<1> QED BY <1>2, <1>3

\* Every step keeps one trainer at most in its cycle.
LEMMA TokenNext == TokenInv /\ [Next]_vars => TokenInv'
<1> SUFFICES ASSUME TokenInv, [Next]_vars PROVE TokenInv'
  OBVIOUS
<1>1. CASE UNCHANGED vars
  <2>1. UNCHANGED <<stats_mutex, pc, ready_queue, executing_trainer, executing_mutex, planner>>
    BY <1>1 DEF vars, thread, planning
  <2> QED BY <2>1, TokenStays DEF TokenInv, PlanningTyped
<1>2. CASE PlannerStep
  BY <1>2, PlannerKeepsToken
<1>3. CASE \E t \in Trainers : TrainerStep(t)
  BY <1>3, TrainerKeepsToken
<1>4. CASE \/ Connect
           \/ \E r \in Receivers : Require(r) \/ \E a \in Appearances : Appear(r, a)
           \/ \E t \in Trainers : Caught(t) \/ Escaped(t)
           \/ Counted
  BY <1>4, MessagesKeepToken
<1> QED BY <1>1, <1>2, <1>3, <1>4 DEF Next

\* The token counts as OneCycleAtATime counts it.
LEMMA TokenCounts == TokenInv => OneCycleAtATime
<1> SUFFICES ASSUME TokenInv PROVE OneCycleAtATime
  OBVIOUS
<1> DEFINE C == {t \in Trainers : InCycle(t)}
<1>1. Token /\ executing_mutex \in BOOLEAN
  BY DEF TokenInv, PlanningTyped
<1>2. CASE C = {}
  <2>1. Cardinality(C) = 0
    BY <1>2, FS_EmptySet
  <2>2. executing_mutex <=> planner = "unlock"
    BY <1>1, <1>2 DEF Token
  <2> QED BY <2>1, <2>2 DEF OneCycleAtATime
<1>3. CASE C # {}
  <2>1. PICK t \in Trainers : InCycle(t)
    BY <1>3
  <2>2. C = {t} /\ executing_mutex /\ planner # "unlock"
    BY <1>1, <2>1 DEF Token
  <2>3. Cardinality(C) = 1
    BY <2>2, FS_Singleton
  <2> QED BY <2>2, <2>3 DEF OneCycleAtATime
<1> QED BY <1>2, <1>3

\* OneCycleAtATime: executing_mutex and the trainers' own mutexes (trainer_thread_function
\* and exec_thread_function) let one trainer at a time into its cycle, in every team.
THEOREM OneTrainerAtATime == Spec => []OneCycleAtATime
<1>1. Spec => []TokenInv
  BY TokenInit, TokenNext, PTL DEF Spec
<1> QED BY <1>1, TokenCounts, PTL

-----------------------------------------------------------------------------
(* Counting in a list *)

\* The places where a list has one of some values.
PlacesOf(s, X) == {i \in DOMAIN s : s[i] \in X}

\* There are finitely many.
LEMMA PlacesAreFinite ==
  ASSUME NEW S, NEW s \in Seq(S), NEW X
  PROVE  /\ PlacesOf(s, X) = {i \in 1..Len(s) : s[i] \in X}
         /\ IsFiniteSet(PlacesOf(s, X)) /\ Cardinality(PlacesOf(s, X)) \in Nat
<1>1. Len(s) \in Nat /\ DOMAIN s = 1..Len(s)
  BY LenProperties
<1>2. PlacesOf(s, X) \in SUBSET (1..Len(s)) /\ IsFiniteSet(1..Len(s))
  BY <1>1, FS_Interval DEF PlacesOf
<1>3. IsFiniteSet(PlacesOf(s, X))
  BY <1>2, FS_Subset
<1> QED BY <1>1, <1>3, FS_CardinalityType DEF PlacesOf

\* What is added to a list is counted.
LEMMA CountAppend ==
  ASSUME NEW S, NEW s \in Seq(S), NEW e \in S, NEW X
  PROVE  Cardinality(PlacesOf(Append(s, e), X))
           = Cardinality(PlacesOf(s, X)) + (IF e \in X THEN 1 ELSE 0)
<1> DEFINE n == Len(s) + 1
<1>1. /\ Append(s, e) \in Seq(S) /\ Len(Append(s, e)) = n /\ Append(s, e)[n] = e
      /\ \A i \in 1..Len(s) : Append(s, e)[i] = s[i]
  BY AppendProperties
<1>2. Len(s) \in Nat
  BY LenProperties
<1>3. PlacesOf(s, X) = {i \in 1..Len(s) : s[i] \in X} /\ IsFiniteSet(PlacesOf(s, X))
      /\ Cardinality(PlacesOf(s, X)) \in Nat
  BY PlacesAreFinite
<1>4. PlacesOf(Append(s, e), X) = {i \in 1..n : Append(s, e)[i] \in X}
  <2>1. PlacesOf(Append(s, e), X) = {i \in 1..Len(Append(s, e)) : Append(s, e)[i] \in X}
    BY <1>1, PlacesAreFinite
  <2> QED BY <1>1, <2>1
<1>5. n \notin PlacesOf(s, X)
  BY <1>2, <1>3
<1>6. CASE e \in X
  <2>1. PlacesOf(Append(s, e), X) = PlacesOf(s, X) \cup {n}
    BY <1>1, <1>2, <1>3, <1>4, <1>6
  <2> QED BY <1>3, <1>5, <1>6, <2>1, FS_AddElement
<1>7. CASE e \notin X
  <2>1. PlacesOf(Append(s, e), X) = PlacesOf(s, X)
    BY <1>1, <1>2, <1>3, <1>4, <1>7
  <2> QED BY <1>3, <1>7, <2>1
<1> QED BY <1>6, <1>7

\* What leaves it is not.
LEMMA CountTail ==
  ASSUME NEW S, NEW s \in Seq(S), s # <<>>, NEW X
  PROVE  Cardinality(PlacesOf(s, X))
           = Cardinality(PlacesOf(Tail(s), X)) + (IF Head(s) \in X THEN 1 ELSE 0)
<1> DEFINE P == PlacesOf(s, X)
           Q == PlacesOf(Tail(s), X)
           f == [i \in Q |-> i + 1]
<1>1. /\ Tail(s) \in Seq(S) /\ Len(Tail(s)) = Len(s) - 1
      /\ \A i \in 1..Len(Tail(s)) : Tail(s)[i] = s[i + 1]
  BY HeadTailProperties
<1>2. Len(s) \in Nat \ {0}
  BY EmptySeq
<1>3. P = {i \in 1..Len(s) : s[i] \in X} /\ IsFiniteSet(P) /\ Cardinality(P) \in Nat
  BY PlacesAreFinite
<1>4. Q = {i \in 1..(Len(s) - 1) : s[i + 1] \in X} /\ IsFiniteSet(Q) /\ Cardinality(Q) \in Nat
  <2>1. Q = {i \in 1..Len(Tail(s)) : Tail(s)[i] \in X} /\ IsFiniteSet(Q) /\ Cardinality(Q) \in Nat
    BY <1>1, PlacesAreFinite
  <2>2. {i \in 1..Len(Tail(s)) : Tail(s)[i] \in X} = {i \in 1..(Len(s) - 1) : s[i + 1] \in X}
    BY <1>1
  <2> HIDE DEF Q
  <2> QED BY <2>1, <2>2
<1>5. Head(s) = s[1]
  OBVIOUS
<1> HIDE DEF P, Q
<1>6. f \in Bijection(Q, P \ {1})
  <2>1. f \in [Q -> P \ {1}]
    BY <1>2, <1>3, <1>4
  <2>2. \A i, j \in Q : f[i] = f[j] => i = j
    BY <1>4
  <2>3. \A j \in P \ {1} : \E i \in Q : f[i] = j
    <3> SUFFICES ASSUME NEW j \in P \ {1} PROVE \E i \in Q : f[i] = j
      OBVIOUS
    <3>1. j - 1 \in Q /\ j - 1 + 1 = j
      BY <1>2, <1>3, <1>4
    <3> QED BY <3>1
  <2> HIDE DEF f
  <2> QED BY <2>1, <2>2, <2>3 DEF Bijection, Injection, Surjection, IsInjective
<1>7. Cardinality(P \ {1}) = Cardinality(Q)
  BY <1>4, <1>6, FS_Bijection DEF ExistsBijection
<1>8. Cardinality(P \ {1}) = IF 1 \in P THEN Cardinality(P) - 1 ELSE Cardinality(P)
  BY <1>3, FS_RemoveElement
<1>9. 1 \in P <=> Head(s) \in X
  BY <1>2, <1>3, <1>5
<1> QED BY <1>3, <1>4, <1>7, <1>8, <1>9 DEF P, Q

\* Times counts places.
LEMMA TimesIs ==
  ASSUME NEW S, NEW s \in Seq(S), NEW e
  PROVE  /\ Times(s, e) = Cardinality(PlacesOf(s, {e})) /\ Times(s, e) \in Nat
         /\ Occurrences(s, e) = {i \in 1..Len(s) : s[i] = e} /\ IsFiniteSet(Occurrences(s, e))
<1>1. Occurrences(s, e) = PlacesOf(s, {e})
  BY DEF Occurrences, PlacesOf
<1>2. Cardinality(PlacesOf(s, {e})) \in Nat /\ IsFiniteSet(PlacesOf(s, {e}))
  BY PlacesAreFinite
<1>3. DOMAIN s = 1..Len(s)
  BY LenProperties
<1> QED BY <1>1, <1>2, <1>3 DEF Times, Occurrences

\* Who is added to a list is in it once more.
LEMMA TimesAppend ==
  ASSUME NEW S, NEW s \in Seq(S), NEW u \in S, NEW e
  PROVE  Times(Append(s, u), e) = Times(s, e) + (IF e = u THEN 1 ELSE 0)
<1>1. Append(s, u) \in Seq(S)
  BY AppendProperties
<1>2. Times(Append(s, u), e) = Cardinality(PlacesOf(Append(s, u), {e}))
      /\ Times(s, e) = Cardinality(PlacesOf(s, {e}))
  BY <1>1, TimesIs
<1>3. Cardinality(PlacesOf(Append(s, u), {e}))
        = Cardinality(PlacesOf(s, {e})) + (IF u \in {e} THEN 1 ELSE 0)
  BY CountAppend
<1> QED BY <1>2, <1>3

\* What is taken out is in it once less.
LEMMA TimesRemoveAt ==
  ASSUME NEW S, NEW s \in Seq(S), NEW i \in 1..Len(s), NEW e
  PROVE  /\ Len(RemoveAt(s, i)) = Len(s) - 1
         /\ Times(RemoveAt(s, i), e) = Times(s, e) - (IF s[i] = e THEN 1 ELSE 0)
<1> DEFINE r == RemoveAt(s, i)
           n == Len(s)
           P == Occurrences(s, e)
           Q == Occurrences(r, e)
           f == [k \in Q |-> IF k < i THEN k ELSE k + 1]
<1>1. n \in Nat /\ i \in 1..n
  BY LenProperties
<1>2. r \in Seq(S)
  BY RemoveAtInSeq
<1>3. Len(r) = n - 1 /\ \A k \in 1..(n - 1) : r[k] = s[IF k < i THEN k ELSE k + 1]
  <2> DEFINE a == SubSeq(s, 1, i - 1)
             b == SubSeq(s, i + 1, n)
  <2>1. \A k \in 1..n : s[k] \in S
    BY ElementOfSeq
  <2>2. a \in Seq(S) /\ Len(a) = i - 1 /\ \A k \in 1..(i - 1) : a[k] = s[k]
    <3>1. \A k \in 1..(i - 1) : s[k] \in S
      BY <2>1, <1>1
    <3>2. a = [k \in 1..(i - 1) |-> s[k]]
      BY <1>1
    <3> HIDE DEF a
    <3> QED BY <1>1, <3>1, <3>2, SeqDef, LenProperties
  <2>3. b \in Seq(S) /\ Len(b) = n - i /\ \A k \in 1..(n - i) : b[k] = s[i + k]
    <3>1. \A k \in 1..(n - i) : s[i + k] \in S
      BY <2>1, <1>1
    <3>2. b = [k \in 1..(n - i) |-> s[i + k]]
      BY <1>1
    <3> HIDE DEF b, n
    <3> QED BY <1>1, <3>1, <3>2, SeqDef, LenProperties
  <2>4. r = a \o b
    BY DEF RemoveAt
  <2> HIDE DEF r, a, b, n
  <2>5. /\ Len(r) = Len(a) + Len(b)
        /\ \A k \in 1..(Len(a) + Len(b)) : r[k] = IF k <= Len(a) THEN a[k] ELSE b[k - Len(a)]
    BY <2>2, <2>3, <2>4, ConcatProperties
  <2>6. ASSUME NEW k \in 1..(n - 1)
        PROVE  r[k] = s[IF k < i THEN k ELSE k + 1]
    <3>1. r[k] = IF k <= i - 1 THEN a[k] ELSE b[k - (i - 1)]
      BY <1>1, <2>2, <2>3, <2>5
    <3>2. CASE k < i
      BY <1>1, <2>2, <3>1, <3>2
    <3>3. CASE k >= i
      <4>1. k - (i - 1) \in 1..(n - i) /\ i + (k - (i - 1)) = k + 1
        BY <1>1, <3>3
      <4> QED BY <1>1, <2>3, <3>1, <3>3, <4>1
    <3> QED BY <1>1, <3>2, <3>3
  <2> QED BY <1>1, <2>2, <2>3, <2>5, <2>6
<1>4. /\ P = {k \in 1..n : s[k] = e} /\ IsFiniteSet(P) /\ Cardinality(P) \in Nat
      /\ Cardinality(P) = Times(s, e)
  BY TimesIs DEF Times
<1>5. /\ Q = {k \in 1..(n - 1) : s[IF k < i THEN k ELSE k + 1] = e}
      /\ IsFiniteSet(Q) /\ Cardinality(Q) \in Nat /\ Cardinality(Q) = Times(r, e)
  <2>1. Q = {k \in 1..Len(r) : r[k] = e} /\ IsFiniteSet(Q) /\ Cardinality(Q) \in Nat
        /\ Cardinality(Q) = Times(r, e)
    BY <1>2, TimesIs DEF Times
  <2> HIDE DEF Q, r, n
  <2> QED BY <1>3, <2>1
<1> HIDE DEF P, Q, r, n
<1>6. f \in Bijection(Q, P \ {i})
  <2>1. f \in [Q -> P \ {i}]
    BY <1>1, <1>4, <1>5
  <2>2. \A k, l \in Q : f[k] = f[l] => k = l
    BY <1>1, <1>5
  <2>3. \A l \in P \ {i} : \E k \in Q : f[k] = l
    <3> SUFFICES ASSUME NEW l \in P \ {i} PROVE \E k \in Q : f[k] = l
      OBVIOUS
    <3>1. CASE l < i
      <4>1. l \in Q /\ f[l] = l
        BY <1>1, <1>4, <1>5, <3>1
      <4> QED BY <4>1
    <3>2. CASE l > i
      <4>1. l - 1 \in Q /\ f[l - 1] = l
        BY <1>1, <1>4, <1>5, <3>2
      <4> QED BY <4>1
    <3> QED BY <1>1, <1>4, <3>1, <3>2
  <2> HIDE DEF f
  <2> QED BY <2>1, <2>2, <2>3 DEF Bijection, Injection, Surjection, IsInjective
<1>7. Cardinality(P \ {i}) = Cardinality(Q)
  BY <1>5, <1>6, FS_Bijection DEF ExistsBijection
<1>8. Cardinality(P \ {i}) = IF i \in P THEN Cardinality(P) - 1 ELSE Cardinality(P)
  BY <1>4, FS_RemoveElement
<1>9. i \in P <=> s[i] = e
  BY <1>1, <1>4
<1>10. Len(r) = n - 1 /\ Times(r, e) = Times(s, e) - (IF s[i] = e THEN 1 ELSE 0)
  BY <1>3, <1>4, <1>5, <1>7, <1>8, <1>9
<1> QED BY <1>10 DEF r, n

\* The first one that is there, too.
LEMMA TimesRemoveFirst ==
  ASSUME NEW S, NEW s \in Seq(S), NEW d, Contains(s, d), NEW e
  PROVE  Times(RemoveFirst(s, d), e) = Times(s, e) - (IF d = e THEN 1 ELSE 0)
<1> DEFINE Places == {i \in 1..Len(s) : s[i] = d}
<1>1. Places # {} /\ Places \subseteq Nat
  BY DEF Contains
<1>2. Min(Places) \in 1..Len(s) /\ s[Min(Places)] = d
  BY <1>1, MinOfNaturals
<1>3. RemoveFirst(s, d) = RemoveAt(s, Min(Places))
  BY <1>1 DEF RemoveFirst, SelectInSeq
<1> HIDE DEF Places
<1> QED BY <1>2, <1>3, TimesRemoveAt

\* Two lists have together what each has.
LEMMA TimesConcat ==
  ASSUME NEW S, NEW s \in Seq(S), NEW t \in Seq(S), NEW e
  PROVE  Times(s \o t, e) = Times(s, e) + Times(t, e)
<1> DEFINE r == s \o t
           m == Len(s)
           n == Len(t)
           P == Occurrences(s, e)
           Q == Occurrences(t, e)
           R == Occurrences(r, e)
           f == [k \in Q |-> m + k]
<1>1. /\ m \in Nat /\ n \in Nat /\ r \in Seq(S) /\ Len(r) = m + n
      /\ \A k \in 1..(m + n) : r[k] = IF k <= m THEN s[k] ELSE t[k - m]
  BY ConcatProperties, LenProperties
<1>2. /\ P = {k \in 1..m : s[k] = e} /\ IsFiniteSet(P) /\ Cardinality(P) \in Nat
      /\ Q = {k \in 1..n : t[k] = e} /\ IsFiniteSet(Q) /\ Cardinality(Q) \in Nat
  BY TimesIs DEF Times
<1>3. R = {k \in 1..(m + n) : r[k] = e} /\ IsFiniteSet(R) /\ Cardinality(R) \in Nat
  <2>1. R = {k \in 1..Len(r) : r[k] = e} /\ IsFiniteSet(R) /\ Cardinality(R) \in Nat
    BY <1>1, TimesIs DEF Times
  <2> HIDE DEF R, r, m, n
  <2> QED BY <1>1, <2>1
<1> HIDE DEF P, Q, R, r, m, n
<1>4. f \in Bijection(Q, R \ P)
  <2>1. f \in [Q -> R \ P]
    BY <1>1, <1>2, <1>3, SMTT(30)
  <2>2. \A k, l \in Q : f[k] = f[l] => k = l
    BY <1>1, <1>2
  <2>3. \A l \in R \ P : \E k \in Q : f[k] = l
    <3> SUFFICES ASSUME NEW l \in R \ P PROVE \E k \in Q : f[k] = l
      OBVIOUS
    <3>1. l - m \in Q /\ m + (l - m) = l
      BY <1>1, <1>2, <1>3
    <3> QED BY <3>1
  <2> HIDE DEF f
  <2> QED BY <2>1, <2>2, <2>3 DEF Bijection, Injection, Surjection, IsInjective
<1>5. Cardinality(R \ P) = Cardinality(Q) /\ IsFiniteSet(R \ P)
  BY <1>2, <1>4, FS_Bijection DEF ExistsBijection
<1>6. R = P \cup (R \ P) /\ P \cap (R \ P) = {}
  BY <1>1, <1>2, <1>3
<1>7. Cardinality(R) = Cardinality(P) + Cardinality(Q)
  <2>1. Cardinality({}) = 0
    BY FS_EmptySet
  <2>2. Cardinality(P \cup (R \ P))
          = Cardinality(P) + Cardinality(R \ P) - Cardinality(P \cap (R \ P))
    BY <1>2, <1>5, FS_Union
  <2>3. Cardinality(R) = Cardinality(P) + Cardinality(R \ P) - Cardinality({})
    BY ONLY <1>6, <2>2
  <2> QED BY ONLY <1>2, <1>5, <2>1, <2>3
<1> QED BY <1>7 DEF P, Q, R, r, Times

\* A list of one thing has it at every place.
LEMMA TimesRepeated ==
  ASSUME NEW S, NEW s \in Seq(S), NEW e
  PROVE  /\ (\A j \in 1..Len(s) : s[j] = e) => Times(s, e) = Len(s)
         /\ (\A j \in 1..Len(s) : s[j] # e) => Times(s, e) = 0
<1>1. Len(s) \in Nat /\ Occurrences(s, e) = {i \in 1..Len(s) : s[i] = e}
  BY LenProperties, TimesIs
<1>2. ASSUME \A j \in 1..Len(s) : s[j] = e
      PROVE  Times(s, e) = Len(s)
  <2>1. Occurrences(s, e) = 1..Len(s)
    BY <1>1, <1>2
  <2>2. \A n \in Nat : Cardinality(1..n) = n
    BY FS_Interval
  <2> QED BY <1>1, <2>1, <2>2 DEF Times
<1>3. ASSUME \A j \in 1..Len(s) : s[j] # e
      PROVE  Times(s, e) = 0
  <2>1. Occurrences(s, e) = {}
    BY <1>1, <1>3
  <2> QED BY <2>1, FS_EmptySet DEF Times
<1> QED BY <1>2, <1>3

-----------------------------------------------------------------------------
(* What trainers have and need *)

Own == [pokemons : Seq(Pokemons), targets : Seq(Pokemons)]

\* The turns of the comparison of what a trainer has with what it needs.
LEMMA DiffTurns ==
  ASSUME NEW own \in Own
  PROVE  /\ Len(own.targets) \in Nat
         /\ \E g : /\ g[0] = own /\ Diff(own) = g[Len(own.targets)]
                   /\ \A i \in 1..Len(own.targets) : g[i] = DiffAt(g[i - 1], i)
<1> DEFINE n == Len(own.targets)
           Step == [z \in (1..n) \X Own |-> DiffAt(z[2], z[1])]
<1>1. n \in Nat
  BY LenProperties DEF Own
<1>2. ASSUME NEW s \in Own, NEW i \in 1..n PROVE DiffAt(s, i) \in Own
  <2>1. CASE i \in DOMAIN s.targets /\ Contains(s.pokemons, s.targets[i])
    <3>1. s.pokemons \in Seq(Pokemons) /\ s.targets \in Seq(Pokemons)
      BY DEF Own
    <3>2. i \in 1..Len(s.targets)
      BY <2>1, <3>1, LenProperties
    <3>3. RemoveFirst(s.pokemons, s.targets[i]) \in Seq(Pokemons)
      BY <3>1, RemoveFirstInSeq
    <3>4. RemoveAt(s.targets, i) \in Seq(Pokemons)
      BY <3>1, <3>2, RemoveAtInSeq
    <3> QED BY <2>1, <3>3, <3>4 DEF DiffAt, Own
  <2> QED BY <2>1 DEF DiffAt
<1>3. PICK f \in [0..n -> Own] : IsRecursion(f, n, own, Step)
  <2>1. Step \in [(1..n) \X Own -> Own]
    BY <1>2
  <2> HIDE DEF Step, n
  <2> QED BY <1>1, <2>1, RecursionExists
<1>4. f = [i \in 0..n |-> IF i = 0 THEN own ELSE DiffAt(f[i - 1], i)]
  <2>1. \A i \in 1..n : Step[<<i, f[i - 1]>>] = DiffAt(f[i - 1], i)
    <3> SUFFICES ASSUME NEW i \in 1..n PROVE Step[<<i, f[i - 1]>>] = DiffAt(f[i - 1], i)
      OBVIOUS
    <3>1. f[i - 1] \in Own
      BY <1>1
    <3> QED BY <3>1
  <2> HIDE DEF Step, n
  <2>2. f = [i \in 0..n |-> IF i = 0 THEN own ELSE Step[<<i, f[i - 1]>>]]
    BY <1>3 DEF IsRecursion
  <2>3. \A i \in 0..n : f[i] = IF i = 0 THEN own ELSE DiffAt(f[i - 1], i)
    <3> SUFFICES ASSUME NEW i \in 0..n PROVE f[i] = IF i = 0 THEN own ELSE DiffAt(f[i - 1], i)
      OBVIOUS
    <3>1. i # 0 => i \in 1..n
      BY <1>1
    <3> QED BY <2>1, <2>2, <3>1
  <2> QED BY <2>2, <2>3
<1>5. PICK g : g = [i \in 0..n |-> IF i = 0 THEN own ELSE DiffAt(g[i - 1], i)] /\ Diff(own) = g[n]
  BY <1>4 DEF Diff
<1> HIDE DEF n
<1>6. g[0] = own /\ \A i \in 1..n : g[i] = DiffAt(g[i - 1], i)
  BY <1>1, <1>5
<1> QED BY <1>1, <1>5, <1>6 DEF n

\* Needs that get no more, of lists that lack as much of each pokemon as before: what
\* leaves the one list leaves the other.
Eased(needs0, has0, needs, has) ==
  \A p \in Pokemons : /\ Times(needs, p) <= Times(needs0, p)
                      /\ Times(needs, p) - Times(has, p) = Times(needs0, p) - Times(has0, p)

LEMMA EasedItself ==
  ASSUME NEW needs \in Seq(Pokemons), NEW has \in Seq(Pokemons)
  PROVE  Eased(needs, has, needs, has)
<1>1. \A p \in Pokemons : Times(needs, p) \in Nat /\ Times(has, p) \in Nat
  BY TimesIs
<1> QED BY <1>1 DEF Eased

LEMMA EasedTwice ==
  ASSUME NEW needs0 \in Seq(Pokemons), NEW has0 \in Seq(Pokemons),
         NEW needs1 \in Seq(Pokemons), NEW has1 \in Seq(Pokemons),
         NEW needs2 \in Seq(Pokemons), NEW has2 \in Seq(Pokemons),
         Eased(needs0, has0, needs1, has1), Eased(needs1, has1, needs2, has2)
  PROVE  Eased(needs0, has0, needs2, has2)
<1> SUFFICES ASSUME NEW p \in Pokemons
             PROVE  /\ Times(needs2, p) <= Times(needs0, p)
                    /\ Times(needs2, p) - Times(has2, p) = Times(needs0, p) - Times(has0, p)
  BY DEF Eased
<1>1. /\ Times(needs0, p) \in Nat /\ Times(has0, p) \in Nat /\ Times(needs1, p) \in Nat
      /\ Times(has1, p) \in Nat /\ Times(needs2, p) \in Nat /\ Times(has2, p) \in Nat
  BY TimesIs
<1>2. /\ Times(needs1, p) <= Times(needs0, p) /\ Times(needs2, p) <= Times(needs1, p)
      /\ Times(needs1, p) - Times(has1, p) = Times(needs0, p) - Times(has0, p)
      /\ Times(needs2, p) - Times(has2, p) = Times(needs1, p) - Times(has1, p)
  BY DEF Eased
<1> QED BY <1>1, <1>2

\* One turn leaves lists of pokemons.  It takes a pokemon from both lists, if any.
LEMMA DiffTurnKeeps ==
  ASSUME NEW s \in Own, NEW i \in Nat
  PROVE  /\ DiffAt(s, i) \in Own
         /\ Eased(s.targets, s.pokemons, DiffAt(s, i).targets, DiffAt(s, i).pokemons)
<1>1. s.pokemons \in Seq(Pokemons) /\ s.targets \in Seq(Pokemons)
  BY DEF Own
<1>2. CASE i \in DOMAIN s.targets /\ Contains(s.pokemons, s.targets[i])
  <2> DEFINE d == s.targets[i]
             has == RemoveFirst(s.pokemons, d)
             needs == RemoveAt(s.targets, i)
  <2>1. i \in 1..Len(s.targets)
    BY <1>1, <1>2, LenProperties
  <2>2. has \in Seq(Pokemons) /\ needs \in Seq(Pokemons)
    BY <1>1, <2>1, RemoveFirstInSeq, RemoveAtInSeq
  <2>3. DiffAt(s, i) = [pokemons |-> has, targets |-> needs]
    BY <1>2 DEF DiffAt
  <2>4. ASSUME NEW p \in Pokemons
        PROVE  /\ Times(needs, p) = Times(s.targets, p) - (IF d = p THEN 1 ELSE 0)
               /\ Times(has, p) = Times(s.pokemons, p) - (IF d = p THEN 1 ELSE 0)
               /\ Times(s.targets, p) \in Nat /\ Times(s.pokemons, p) \in Nat
    <3>1. Times(needs, p) = Times(s.targets, p) - (IF d = p THEN 1 ELSE 0)
      BY <1>1, <2>1, TimesRemoveAt
    <3>2. Times(has, p) = Times(s.pokemons, p) - (IF d = p THEN 1 ELSE 0)
      BY <1>1, <1>2, TimesRemoveFirst
    <3> QED BY <1>1, <3>1, <3>2, TimesIs
  <2> HIDE DEF d, has, needs
  <2>5. Eased(s.targets, s.pokemons, needs, has)
    BY <2>4 DEF Eased
  <2> QED BY <2>2, <2>3, <2>5 DEF Own
<1>3. CASE ~(i \in DOMAIN s.targets /\ Contains(s.pokemons, s.targets[i]))
  <2>1. DiffAt(s, i) = s
    BY <1>3 DEF DiffAt
  <2> QED BY <1>1, <2>1, EasedItself
<1> QED BY <1>2, <1>3

\* The comparison leaves lists of pokemons, and takes from both lists alike.
LEMMA DiffTyped ==
  ASSUME NEW own \in Own
  PROVE  /\ Diff(own) \in Own
         /\ Eased(own.targets, own.pokemons, Diff(own).targets, Diff(own).pokemons)
<1> DEFINE n == Len(own.targets)
           V == {s \in Own : Eased(own.targets, own.pokemons, s.targets, s.pokemons)}
<1>1. own.pokemons \in Seq(Pokemons) /\ own.targets \in Seq(Pokemons) /\ own \in V
  BY EasedItself DEF Own
<1>2. n \in Nat
  BY DiffTurns
<1>3. PICK g : /\ g[0] = own /\ Diff(own) = g[n]
               /\ \A i \in 1..n : g[i] = DiffAt(g[i - 1], i)
  BY DiffTurns
<1>4. ASSUME NEW i \in 1..n, g[i - 1] \in V
      PROVE  g[i] \in V
  <2>1. PICK s \in Own : s = g[i - 1] /\ Eased(own.targets, own.pokemons, s.targets, s.pokemons)
    BY <1>4
  <2>2. PICK u : u = DiffAt(s, i)
    OBVIOUS
  <2>3. u \in Own /\ Eased(s.targets, s.pokemons, u.targets, u.pokemons)
    BY <2>2, DiffTurnKeeps
  <2>4. /\ s.targets \in Seq(Pokemons) /\ s.pokemons \in Seq(Pokemons)
        /\ u.targets \in Seq(Pokemons) /\ u.pokemons \in Seq(Pokemons)
    BY <2>3 DEF Own
  <2>5. Eased(own.targets, own.pokemons, u.targets, u.pokemons)
    BY <1>1, <2>1, <2>3, <2>4, EasedTwice
  <2> QED BY <1>3, <2>1, <2>2, <2>3, <2>5
<1> HIDE DEF n, V
<1>5. \A i \in 0..n : g[i] \in V
  BY <1>1, <1>2, <1>3, <1>4, RecursionStays
<1> QED BY <1>2, <1>3, <1>5 DEF V

\* What a trade moves.
Goods == [has : Seq(Pokemons), needs : Seq(Pokemons)]

\* One turn of the inner loop gives a pokemon that is needed, or none.
LEMMA GiveTyped ==
  ASSUME NEW s \in Goods, NEW i, NEW p, NEW j
  PROVE  Give(s, i, p, j) \in Goods
<1>1. CASE j \in DOMAIN s.needs /\ s.needs[j] = p
  <2>1. s.has \in Seq(Pokemons) /\ s.needs \in Seq(Pokemons)
    BY DEF Goods
  <2>2. j \in 1..Len(s.needs)
    BY <1>1, <2>1, LenProperties
  <2>3. RemoveIfThere(s.has, i) \in Seq(Pokemons)
    <3>1. CASE i \in DOMAIN s.has
      <4>1. i \in 1..Len(s.has)
        BY <2>1, <3>1, LenProperties
      <4> QED BY <2>1, <3>1, <4>1, RemoveAtInSeq DEF RemoveIfThere
    <3> QED BY <2>1, <3>1 DEF RemoveIfThere
  <2>4. RemoveAt(s.needs, j) \in Seq(Pokemons)
    BY <2>1, <2>2, RemoveAtInSeq
  <2> QED BY <1>1, <2>3, <2>4 DEF Give, Goods
<1> QED BY <1>1 DEF Give

\* The turns of the inner loop.
LEMMA GiveTurns ==
  ASSUME NEW s \in Goods, NEW i, i \in DOMAIN s.has
  PROVE  /\ Len(s.needs) \in Nat
         /\ \E g : /\ g[0] = s /\ GiveAt(s, i) = g[Len(s.needs)]
                   /\ \A j \in 1..Len(s.needs) : g[j] = Give(g[j - 1], i, s.has[i], j)
<1> DEFINE n == Len(s.needs)
           p == s.has[i]
           Step == [z \in (1..n) \X Goods |-> Give(z[2], i, p, z[1])]
<1> HIDE DEF p
<1>1. n \in Nat
  BY LenProperties DEF Goods
<1>2. ASSUME NEW u \in Goods, NEW j \in 1..n PROVE Give(u, i, p, j) \in Goods
  BY GiveTyped
<1>3. PICK f \in [0..n -> Goods] : IsRecursion(f, n, s, Step)
  <2>1. Step \in [(1..n) \X Goods -> Goods]
    BY <1>2
  <2> HIDE DEF Step, n
  <2> QED BY <1>1, <2>1, RecursionExists
<1>4. f = [j \in 0..n |-> IF j = 0 THEN s ELSE Give(f[j - 1], i, p, j)]
  <2>1. \A j \in 1..n : Step[<<j, f[j - 1]>>] = Give(f[j - 1], i, p, j)
    <3> SUFFICES ASSUME NEW j \in 1..n PROVE Step[<<j, f[j - 1]>>] = Give(f[j - 1], i, p, j)
      OBVIOUS
    <3>1. f[j - 1] \in Goods
      BY <1>1
    <3> QED BY <3>1
  <2> HIDE DEF Step, n
  <2>2. f = [j \in 0..n |-> IF j = 0 THEN s ELSE Step[<<j, f[j - 1]>>]]
    BY <1>3 DEF IsRecursion
  <2>3. \A j \in 0..n : f[j] = IF j = 0 THEN s ELSE Give(f[j - 1], i, p, j)
    <3> SUFFICES ASSUME NEW j \in 0..n PROVE f[j] = IF j = 0 THEN s ELSE Give(f[j - 1], i, p, j)
      OBVIOUS
    <3>1. j # 0 => j \in 1..n
      BY <1>1
    <3> QED BY <2>1, <2>2, <3>1
  <2> QED BY <2>2, <2>3
<1>5. PICK g : /\ g = [j \in 0..n |-> IF j = 0 THEN s ELSE Give(g[j - 1], i, p, j)]
               /\ GiveAt(s, i) = g[n]
  BY <1>4 DEF GiveAt, p
<1> HIDE DEF n
<1>6. g[0] = s /\ \A j \in 1..n : g[j] = Give(g[j - 1], i, p, j)
  BY <1>1, <1>5
<1> QED BY <1>1, <1>5, <1>6 DEF n, p

\* A pokemon of the solver's given to the friend, or none, leaves lists of pokemons.
LEMMA GiveAtTyped ==
  ASSUME NEW s \in Goods, NEW i
  PROVE  GiveAt(s, i) \in Goods
<1>1. CASE i \in DOMAIN s.has
  <2>1. PICK g : /\ g[0] = s /\ GiveAt(s, i) = g[Len(s.needs)]
                 /\ \A j \in 1..Len(s.needs) : g[j] = Give(g[j - 1], i, s.has[i], j)
    BY <1>1, GiveTurns
  <2>2. Len(s.needs) \in Nat
    BY <1>1, GiveTurns
  <2>3. \A j \in 1..Len(s.needs) : g[j - 1] \in Goods => g[j] \in Goods
    BY <2>1, GiveTyped
  <2>4. \A j \in 0..Len(s.needs) : g[j] \in Goods
    BY <2>1, <2>2, <2>3, RecursionStays
  <2> QED BY <2>1, <2>2, <2>4
<1> QED BY <1>1 DEF GiveAt

\* No pokemon is twice in a list of needs.
Once(needs) == \A p \in Pokemons : Times(needs, p) <= 1

\* The one that is given leaves both lists.  The place in the solver's list stays the same
\* while the friend's needs are gone through, and so does the name: only as nobody needs a
\* pokemon twice is nothing else taken from there.
LEMMA GiveAtEases ==
  ASSUME NEW s \in Goods, Once(s.needs), NEW i
  PROVE  Eased(s.needs, s.has, GiveAt(s, i).needs, GiveAt(s, i).has)
<1> DEFINE p == s.has[i]
           n == Len(s.needs)
           Given(u) == /\ Eased(s.needs, s.has, u.needs, u.has)
                       /\ Times(u.needs, p) = 0
           V == {u \in Goods : u = s \/ Given(u)}
<1>1. s.has \in Seq(Pokemons) /\ s.needs \in Seq(Pokemons)
  BY DEF Goods
<1>2. CASE i \in DOMAIN s.has
  <2>1. i \in 1..Len(s.has) /\ p \in Pokemons
    BY <1>1, <1>2, LenProperties, ElementOfSeq
  <2>2. PICK g : /\ g[0] = s /\ GiveAt(s, i) = g[n]
                 /\ \A j \in 1..n : g[j] = Give(g[j - 1], i, p, j)
    BY <1>2, GiveTurns
  <2>3. n \in Nat
    BY <1>2, GiveTurns
  <2> HIDE DEF p, n
  <2>4. ASSUME NEW j \in 1..n, s.needs[j] = p, j \in DOMAIN s.needs
        PROVE  Given(Give(s, i, p, j))
    <3> DEFINE has == RemoveAt(s.has, i)
               needs == RemoveAt(s.needs, j)
    <3>1. j \in 1..Len(s.needs)
      BY <2>4, <1>1, LenProperties
    <3>2. Give(s, i, p, j) = [has |-> has, needs |-> needs]
      BY <1>2, <2>4 DEF Give, RemoveIfThere
    <3>3. ASSUME NEW q \in Pokemons
          PROVE  /\ Times(needs, q) = Times(s.needs, q) - (IF p = q THEN 1 ELSE 0)
                 /\ Times(has, q) = Times(s.has, q) - (IF p = q THEN 1 ELSE 0)
                 /\ Times(s.needs, q) \in Nat /\ Times(s.has, q) \in Nat
                 /\ Times(needs, q) \in Nat
      <4>1. Times(needs, q) = Times(s.needs, q) - (IF s.needs[j] = q THEN 1 ELSE 0)
        BY <1>1, <3>1, TimesRemoveAt
      <4>2. Times(has, q) = Times(s.has, q) - (IF s.has[i] = q THEN 1 ELSE 0)
        BY <1>1, <2>1, TimesRemoveAt
      <4>3. needs \in Seq(Pokemons)
        BY <1>1, <3>1, RemoveAtInSeq
      <4>4. Times(s.needs, q) \in Nat /\ Times(s.has, q) \in Nat /\ Times(needs, q) \in Nat
        BY <1>1, <4>3, TimesIs
      <4> QED BY <2>4, <4>1, <4>2, <4>4 DEF p
    <3> HIDE DEF has, needs
    <3>4. Eased(s.needs, s.has, needs, has)
      BY <3>3 DEF Eased
    <3>5. Times(needs, p) = 0
      <4>1. Times(s.needs, p) <= 1
        BY <2>1 DEF Once
      <4> QED BY <2>1, <3>3, <4>1
    <3> QED BY <3>2, <3>4, <3>5
  <2>5. ASSUME NEW u \in Goods, Times(u.needs, p) = 0, NEW j
        PROVE  Give(u, i, p, j) = u
    <3>1. u.needs \in Seq(Pokemons)
      BY DEF Goods
    <3>2. IsFiniteSet(Occurrences(u.needs, p)) /\ Cardinality(Occurrences(u.needs, p)) = 0
      BY <2>5, <3>1, TimesIs DEF Times
    <3>3. Occurrences(u.needs, p) = {}
      BY <3>2, FS_EmptySet
    <3> QED BY <3>3 DEF Occurrences, Give
  <2>6. ASSUME NEW j \in 1..n, g[j - 1] \in V
        PROVE  g[j] \in V
    <3>1. PICK u \in Goods : u = g[j - 1] /\ (u = s \/ Given(u))
      BY <2>6
    <3>2. g[j] = Give(u, i, p, j) /\ g[j] \in Goods
      BY <2>2, <3>1, GiveTyped
    <3>3. CASE u = s
      <4>1. CASE j \in DOMAIN s.needs /\ s.needs[j] = p
        BY <2>4, <3>2, <3>3, <4>1
      <4>2. CASE ~(j \in DOMAIN s.needs /\ s.needs[j] = p)
        <5>1. g[j] = s
          BY <3>2, <3>3, <4>2 DEF Give
        <5> QED BY <5>1
      <4> QED BY <4>1, <4>2
    <3>4. CASE Given(u)
      <4>1. g[j] = u
        BY <2>5, <3>2, <3>4
      <4> QED BY <3>4, <4>1
    <3> QED BY <3>1, <3>3, <3>4
  <2>7. \A j \in 0..n : g[j] \in V
    <3>1. g[0] \in V
      BY <2>2
    <3> HIDE DEF V
    <3> QED BY <2>3, <2>6, <3>1, RecursionStays
  <2>8. GiveAt(s, i) = s \/ Given(GiveAt(s, i))
    BY <2>2, <2>3, <2>7
  <2> QED BY <1>1, <2>8, EasedItself
<1>3. CASE i \notin DOMAIN s.has
  <2>1. GiveAt(s, i) = s
    BY <1>3 DEF GiveAt
  <2> QED BY <1>1, <2>1, EasedItself
<1> QED BY <1>2, <1>3

\* The turns of the outer loop.
LEMMA GiveNeededTurns ==
  ASSUME NEW has \in Seq(Pokemons), NEW needs \in Seq(Pokemons)
  PROVE  /\ Len(has) \in Nat
         /\ \E g : /\ g[0] = [has |-> has, needs |-> needs] /\ GiveNeeded(has, needs) = g[Len(has)]
                   /\ \A i \in 1..Len(has) : g[i] = GiveAt(g[i - 1], i)
<1> DEFINE n == Len(has)
           first == [has |-> has, needs |-> needs]
           Step == [z \in (1..n) \X Goods |-> GiveAt(z[2], z[1])]
<1>1. n \in Nat /\ first \in Goods
  BY LenProperties DEF Goods
<1>2. ASSUME NEW u \in Goods, NEW i \in 1..n PROVE GiveAt(u, i) \in Goods
  BY GiveAtTyped
<1>3. PICK f \in [0..n -> Goods] : IsRecursion(f, n, first, Step)
  <2>1. Step \in [(1..n) \X Goods -> Goods]
    BY <1>2
  <2> HIDE DEF Step, n, first
  <2> QED BY <1>1, <2>1, RecursionExists
<1>4. f = [i \in 0..n |-> IF i = 0 THEN first ELSE GiveAt(f[i - 1], i)]
  <2>1. \A i \in 1..n : Step[<<i, f[i - 1]>>] = GiveAt(f[i - 1], i)
    <3> SUFFICES ASSUME NEW i \in 1..n PROVE Step[<<i, f[i - 1]>>] = GiveAt(f[i - 1], i)
      OBVIOUS
    <3>1. f[i - 1] \in Goods
      BY <1>1
    <3> QED BY <3>1
  <2> HIDE DEF Step, n, first
  <2>2. f = [i \in 0..n |-> IF i = 0 THEN first ELSE Step[<<i, f[i - 1]>>]]
    BY <1>3 DEF IsRecursion
  <2>3. \A i \in 0..n : f[i] = IF i = 0 THEN first ELSE GiveAt(f[i - 1], i)
    <3> SUFFICES ASSUME NEW i \in 0..n PROVE f[i] = IF i = 0 THEN first ELSE GiveAt(f[i - 1], i)
      OBVIOUS
    <3>1. i # 0 => i \in 1..n
      BY <1>1
    <3> QED BY <2>1, <2>2, <3>1
  <2> QED BY <2>2, <2>3
<1>5. PICK g : /\ g = [i \in 0..n |-> IF i = 0 THEN first ELSE GiveAt(g[i - 1], i)]
               /\ GiveNeeded(has, needs) = g[n]
  BY <1>4 DEF GiveNeeded
<1> HIDE DEF n, first
<1>6. g[0] = first /\ \A i \in 1..n : g[i] = GiveAt(g[i - 1], i)
  BY <1>1, <1>5
<1> QED BY <1>1, <1>5, <1>6 DEF n, first

\* What is given leaves lists of pokemons...
LEMMA GiveNeededTyped ==
  ASSUME NEW has \in Seq(Pokemons), NEW needs \in Seq(Pokemons)
  PROVE  GiveNeeded(has, needs) \in Goods
<1>1. PICK g : /\ g[0] = [has |-> has, needs |-> needs] /\ GiveNeeded(has, needs) = g[Len(has)]
               /\ \A i \in 1..Len(has) : g[i] = GiveAt(g[i - 1], i)
  BY GiveNeededTurns
<1>2. Len(has) \in Nat /\ g[0] \in Goods
  BY <1>1, GiveNeededTurns DEF Goods
<1>3. \A i \in 1..Len(has) : g[i - 1] \in Goods => g[i] \in Goods
  BY <1>1, GiveAtTyped
<1>4. \A i \in 0..Len(has) : g[i] \in Goods
  BY <1>2, <1>3, RecursionStays
<1> QED BY <1>1, <1>2, <1>4

\* ... and is taken from both lists alike, if nobody needs a pokemon twice.
LEMMA GiveNeededEases ==
  ASSUME NEW has \in Seq(Pokemons), NEW needs \in Seq(Pokemons), Once(needs)
  PROVE  Eased(needs, has, GiveNeeded(has, needs).needs, GiveNeeded(has, needs).has)
<1> DEFINE n == Len(has)
           V == {u \in Goods : Eased(needs, has, u.needs, u.has)}
<1>1. PICK g : /\ g[0] = [has |-> has, needs |-> needs] /\ GiveNeeded(has, needs) = g[n]
               /\ \A i \in 1..n : g[i] = GiveAt(g[i - 1], i)
  BY GiveNeededTurns
<1>2. n \in Nat
  BY GiveNeededTurns
<1>3. g[0] \in V
  <2>1. g[0] \in Goods /\ g[0].has = has /\ g[0].needs = needs
    BY <1>1 DEF Goods
  <2> QED BY <2>1, EasedItself
<1>4. ASSUME NEW i \in 1..n, g[i - 1] \in V
      PROVE  g[i] \in V
  <2>1. PICK s \in Goods : s = g[i - 1] /\ Eased(needs, has, s.needs, s.has)
    BY <1>4
  <2>2. PICK u : u = GiveAt(s, i)
    OBVIOUS
  <2>3. s.has \in Seq(Pokemons) /\ s.needs \in Seq(Pokemons)
    BY DEF Goods
  <2>4. Once(s.needs)
    <3> SUFFICES ASSUME NEW p \in Pokemons PROVE Times(s.needs, p) <= 1
      BY DEF Once
    <3>1. Times(s.needs, p) <= Times(needs, p) /\ Times(needs, p) <= 1
      BY <2>1 DEF Eased, Once
    <3>2. Times(s.needs, p) \in Nat /\ Times(needs, p) \in Nat
      BY <2>3, TimesIs
    <3> QED BY <3>1, <3>2
  <2>5. u \in Goods /\ Eased(s.needs, s.has, u.needs, u.has)
    BY <2>2, <2>4, GiveAtTyped, GiveAtEases
  <2>6. u.has \in Seq(Pokemons) /\ u.needs \in Seq(Pokemons)
    BY <2>5 DEF Goods
  <2>7. Eased(needs, has, u.needs, u.has)
    BY <2>1, <2>3, <2>5, <2>6, EasedTwice
  <2> QED BY <1>1, <2>1, <2>2, <2>5, <2>7
<1> HIDE DEF n, V
<1>5. \A i \in 0..n : g[i] \in V
  BY <1>2, <1>3, <1>4, RecursionStays
<1> QED BY <1>1, <1>2, <1>5 DEF V

\* A turn of the other loop takes one that is spared, or none.
LEMMA SpareAtTyped ==
  ASSUME NEW u \in Seq(Pokemons), NEW i, NEW p
  PROVE  SpareAt(u, i, p) \in Seq(Pokemons)
<1>1. CASE i \in DOMAIN u /\ u[i] = p
  <2>1. i \in 1..Len(u)
    BY <1>1, LenProperties
  <2>2. RemoveAt(u, i) \in Seq(Pokemons)
    BY <2>1, RemoveAtInSeq
  <2> QED BY <1>1, <2>2 DEF SpareAt
<1> QED BY <1>1 DEF SpareAt

\* The turns of that loop.
LEMMA SpareTurns ==
  ASSUME NEW has \in Seq(Pokemons)
  PROVE  /\ Len(has) \in Nat
         /\ \E g : /\ g[0] = has /\ Spare(has) = g[Len(has)]
                   /\ \A i \in 1..Len(has) : g[i] = SpareAt(g[i - 1], i, has[1])
<1> DEFINE n == Len(has)
           V == Seq(Pokemons)
           p == has[1]
           Step == [z \in (1..n) \X V |-> SpareAt(z[2], z[1], p)]
<1> HIDE DEF p
<1>1. n \in Nat
  BY LenProperties
<1>2. ASSUME NEW u \in V, NEW i \in 1..n PROVE SpareAt(u, i, p) \in V
  BY SpareAtTyped
<1>3. PICK f \in [0..n -> V] : IsRecursion(f, n, has, Step)
  <2>1. Step \in [(1..n) \X V -> V]
    BY <1>2
  <2> HIDE DEF Step, n, V
  <2>2. has \in V
    BY DEF V
  <2> QED BY <1>1, <2>1, <2>2, RecursionExists
<1>4. f = [i \in 0..n |-> IF i = 0 THEN has ELSE SpareAt(f[i - 1], i, p)]
  <2>1. \A i \in 1..n : Step[<<i, f[i - 1]>>] = SpareAt(f[i - 1], i, p)
    <3> SUFFICES ASSUME NEW i \in 1..n PROVE Step[<<i, f[i - 1]>>] = SpareAt(f[i - 1], i, p)
      OBVIOUS
    <3>1. f[i - 1] \in V
      BY <1>1
    <3> QED BY <3>1
  <2> HIDE DEF Step, n, V
  <2>2. f = [i \in 0..n |-> IF i = 0 THEN has ELSE Step[<<i, f[i - 1]>>]]
    BY <1>3 DEF IsRecursion
  <2>3. \A i \in 0..n : f[i] = IF i = 0 THEN has ELSE SpareAt(f[i - 1], i, p)
    <3> SUFFICES ASSUME NEW i \in 0..n PROVE f[i] = IF i = 0 THEN has ELSE SpareAt(f[i - 1], i, p)
      OBVIOUS
    <3>1. i # 0 => i \in 1..n
      BY <1>1
    <3> QED BY <2>1, <2>2, <3>1
  <2> QED BY <2>2, <2>3
<1>5. PICK g : /\ g = [i \in 0..n |-> IF i = 0 THEN has ELSE SpareAt(g[i - 1], i, p)]
               /\ Spare(has) = g[n]
  BY <1>4 DEF Spare, p
<1> HIDE DEF n, V
<1>6. g[0] = has /\ \A i \in 1..n : g[i] = SpareAt(g[i - 1], i, p)
  BY <1>1, <1>5
<1> QED BY <1>1, <1>5, <1>6 DEF n, p

\* What is spared leaves a list of pokemons...
LEMMA SpareTyped ==
  ASSUME NEW has \in Seq(Pokemons)
  PROVE  Spare(has) \in Seq(Pokemons)
<1>1. PICK g : /\ g[0] = has /\ Spare(has) = g[Len(has)]
               /\ \A i \in 1..Len(has) : g[i] = SpareAt(g[i - 1], i, has[1])
  BY SpareTurns
<1>2. Len(has) \in Nat
  BY SpareTurns
<1>3. \A i \in 1..Len(has) : g[i - 1] \in Seq(Pokemons) => g[i] \in Seq(Pokemons)
  BY <1>1, SpareAtTyped
<1>4. \A i \in 0..Len(has) : g[i] \in Seq(Pokemons)
  BY <1>1, <1>2, <1>3, RecursionStays
<1> QED BY <1>1, <1>2, <1>4

\* ... and is so many of the first pokemon as the list gets shorter, and no other.
LEMMA SpareTakes ==
  ASSUME NEW has \in Seq(Pokemons)
  PROVE  /\ Len(has) - Len(Spare(has)) \in Nat
         /\ \A p : Times(Spare(has), p)
                     = Times(has, p) - (IF has[1] = p THEN Len(has) - Len(Spare(has)) ELSE 0)
<1> DEFINE n == Len(has)
           d == has[1]
           V == {u \in Seq(Pokemons) :
                   /\ Len(u) <= n
                   /\ \A p : Times(u, p) = Times(has, p) - (IF d = p THEN n - Len(u) ELSE 0)}
<1>1. PICK g : /\ g[0] = has /\ Spare(has) = g[n]
               /\ \A i \in 1..n : g[i] = SpareAt(g[i - 1], i, d)
  BY SpareTurns
<1>2. n \in Nat
  BY SpareTurns
<1> HIDE DEF d
<1>3. g[0] \in V
  <2>1. \A p : Times(has, p) \in Nat
    BY TimesIs
  <2> QED BY <1>1, <1>2, <2>1
<1>4. ASSUME NEW i \in 1..n, g[i - 1] \in V
      PROVE  g[i] \in V
  <2>1. PICK u \in Seq(Pokemons) :
          /\ u = g[i - 1] /\ Len(u) <= n
          /\ \A p : Times(u, p) = Times(has, p) - (IF d = p THEN n - Len(u) ELSE 0)
    BY <1>4
  <2>2. g[i] = SpareAt(u, i, d)
    BY <1>1, <2>1
  <2>3. CASE i \in DOMAIN u /\ u[i] = d
    <3> DEFINE r == RemoveAt(u, i)
    <3>1. i \in 1..Len(u) /\ Len(u) \in Nat
      BY <2>3, LenProperties
    <3>2. r \in Seq(Pokemons) /\ Len(r) = Len(u) - 1
      BY <3>1, RemoveAtInSeq, TimesRemoveAt
    <3>3. ASSUME NEW p
          PROVE  Times(r, p) = Times(has, p) - (IF d = p THEN n - Len(r) ELSE 0)
      <4>1. Times(r, p) = Times(u, p) - (IF d = p THEN 1 ELSE 0)
        BY <2>3, <3>1, TimesRemoveAt
      <4>2. Times(u, p) = Times(has, p) - (IF d = p THEN n - Len(u) ELSE 0)
        BY <2>1
      <4>3. Times(has, p) \in Nat
        BY TimesIs
      <4> QED BY ONLY <1>2, <3>1, <3>2, <4>1, <4>2, <4>3
    <3>4. g[i] = r
      BY <2>2, <2>3 DEF SpareAt
    <3>5. Len(r) <= n
      BY <1>2, <2>1, <3>1, <3>2
    <3> HIDE DEF r
    <3> QED BY <3>2, <3>3, <3>4, <3>5
  <2>4. CASE ~(i \in DOMAIN u /\ u[i] = d)
    <3>1. g[i] = u
      BY <2>2, <2>4 DEF SpareAt
    <3> QED BY <2>1, <3>1
  <2> QED BY <2>3, <2>4
<1>5. \A i \in 0..n : g[i] \in V
  <2> HIDE DEF n, V
  <2> QED BY <1>2, <1>3, <1>4, RecursionStays
<1>6. Spare(has) \in V
  BY <1>1, <1>2, <1>5
<1>7. Len(Spare(has)) \in Nat
  BY SpareTyped, LenProperties
<1> QED BY <1>2, <1>6, <1>7 DEF d

\* A trade between two trainers leaves each trainer lists of pokemons.
LEMMA TradeTyped ==
  ASSUME pokemons \in [Trainers -> Seq(Pokemons)], targets \in [Trainers -> Seq(Pokemons)],
         NEW from \in Trainers, NEW to \in Trainers
  PROVE  /\ TradeBetween(from, to).has \in [Trainers -> Seq(Pokemons)]
         /\ TradeBetween(from, to).needs \in [Trainers -> Seq(Pokemons)]
<1> DEFINE given == GiveNeeded(pokemons[from], targets[to])
           back  == pokemons[to]
           U     == Useful(back, targets[from])
           i     == Min(U)
           rest  == IF back = <<>> THEN back ELSE Spare(back)
           more  == [j \in 1..(Len(back) - Len(rest)) |-> back[1]]
<1>1. given.has \in Seq(Pokemons) /\ given.needs \in Seq(Pokemons)
  <2>1. given \in Goods
    BY GiveNeededTyped
  <2> HIDE DEF given
  <2> QED BY <2>1 DEF Goods
<1>2. back \in Seq(Pokemons) /\ Len(back) \in Nat /\ DOMAIN back = 1..Len(back)
  BY LenProperties
<1>3. CASE U # {}
  <2>1. U \subseteq 1..Len(back)
    BY <1>2 DEF Useful
  <2>2. i \in 1..Len(back)
    <3>1. U \subseteq Nat
      BY <1>2, <2>1
    <3>2. i \in U
      BY <1>3, <3>1, MinOfNaturals
    <3> QED BY <2>1, <3>2
  <2>3. RemoveAt(back, i) \in Seq(Pokemons)
    BY <1>2, <2>2, RemoveAtInSeq
  <2>4. \A s \in Seq(Pokemons) : RemoveFirst(s, back[i]) \in Seq(Pokemons)
    BY RemoveFirstInSeq
  <2>5. TradeBetween(from, to) =
          [has   |-> [pokemons EXCEPT ![from] = given.has, ![to] = RemoveAt(back, i)],
           needs |-> [targets EXCEPT ![to] = given.needs,
                                     ![from] = RemoveFirst(targets[from], back[i])]]
    BY <1>3 DEF TradeBetween
  <2> DEFINE kept == RemoveAt(back, i)
             wanted == back[i]
  <2>6. /\ TradeBetween(from, to).has = [pokemons EXCEPT ![from] = given.has, ![to] = kept]
        /\ TradeBetween(from, to).needs
             = [targets EXCEPT ![to] = given.needs, ![from] = RemoveFirst(targets[from], wanted)]
    BY <2>5
  <2>7. kept \in Seq(Pokemons) /\ \A s \in Seq(Pokemons) : RemoveFirst(s, wanted) \in Seq(Pokemons)
    BY <2>3, <2>4
  <2> DEFINE less == RemoveFirst(targets[from], wanted)
  <2>8. less \in Seq(Pokemons)
    BY <2>7
  <2>9. TradeBetween(from, to).needs = [targets EXCEPT ![to] = given.needs, ![from] = less]
    BY <2>6
  <2> HIDE DEF given, kept, less
  <2>10. TradeBetween(from, to).has \in [Trainers -> Seq(Pokemons)]
    BY <1>1, <2>6, <2>7
  <2>11. TradeBetween(from, to).needs \in [Trainers -> Seq(Pokemons)]
    BY <1>1, <2>8, <2>9
  <2> QED BY <2>10, <2>11
<1>4. CASE U = {}
  <2>1. rest \in Seq(Pokemons)
    BY <1>2, SpareTyped
  <2>2. Len(rest) \in Nat
    BY <2>1, LenProperties
  <2>3. more \in Seq(Pokemons)
    <3>1. PICK k : k = Len(back) - Len(rest)
      OBVIOUS
    <3>2. more = [j \in 1..k |-> back[1]]
      BY <3>1
    <3>3. k \in Int /\ k <= Len(back)
      <4> HIDE DEF back, rest
      <4> QED BY <1>2, <2>2, <3>1
    <3>4. CASE k <= 0
      <4>1. 1..k = 1..0
        BY <3>3, <3>4
      <4>2. more \in [1..0 -> Pokemons]
        <5>1. \A j \in 1..0 : FALSE
          OBVIOUS
        <5> HIDE DEF more, back
        <5> QED BY <3>2, <4>1, <5>1
      <4> HIDE DEF more
      <4> QED BY <4>2, SeqDef
    <3>5. CASE k > 0
      <4>1. k \in Nat /\ 1 \in 1..Len(back)
        <5> HIDE DEF back
        <5> QED BY <1>2, <3>3, <3>5
      <4>2. back[1] \in Pokemons
        BY <1>2, <4>1, ElementOfSeq
      <4>3. more \in [1..k -> Pokemons]
        BY <3>2, <4>2
      <4> HIDE DEF more
      <4> QED BY <4>1, <4>3, SeqDef
    <3> QED BY <3>3, <3>4, <3>5
  <2>4. given.has \o more \in Seq(Pokemons)
    BY <1>1, <2>3, ConcatProperties
  <2>5. TradeBetween(from, to) =
          [has   |-> [pokemons EXCEPT ![to] = rest, ![from] = given.has \o more],
           needs |-> [targets EXCEPT ![to] = given.needs]]
    BY <1>4 DEF TradeBetween
  <2> DEFINE all == given.has \o more
  <2>6. /\ TradeBetween(from, to).has = [pokemons EXCEPT ![to] = rest, ![from] = all]
        /\ TradeBetween(from, to).needs = [targets EXCEPT ![to] = given.needs]
    BY <2>5
  <2>7. all \in Seq(Pokemons)
    BY <2>4
  <2> HIDE DEF given, rest, all
  <2> QED BY <1>1, <2>1, <2>6, <2>7
<1> QED BY <1>3, <1>4

\* What the trainers begin with.
LEMMA InitialTyped == Initial \in [Trainers -> Own]
<1>1. \A t \in Trainers : Objectives[t] \in Seq(Pokemons) /\ Owned[t] \in Seq(Pokemons)
  <2>1. Trainers = 1..Len(Objectives)
    BY TeamAssumption, LenProperties DEF TeamAssumption, Trainers
  <2> QED BY <2>1, TeamAssumption, ElementOfSeq DEF TeamAssumption
<1>2. \A t \in Trainers : [pokemons |-> Owned[t], targets |-> Objectives[t]] \in Own
  BY <1>1 DEF Own
<1>3. \A t \in Trainers : Diff([pokemons |-> Owned[t], targets |-> Objectives[t]]) \in Own
  BY <1>2, DiffTyped
<1> QED BY <1>3 DEF Initial

-----------------------------------------------------------------------------
(* What the trainers have and need together *)

Lists(l) == \A t \in Trainers : l[t] \in Seq(Pokemons)

\* Where the lists of some trainers have a pokemon, as Together counts it.
PlacesAmong(group, l, p) == UNION {{t} \X Occurrences(l[t], p) : t \in group}

LEMMA PlacesAmongAreFinite ==
  ASSUME NEW l, Lists(l), NEW p, NEW group \in SUBSET Trainers
  PROVE  /\ IsFiniteSet(PlacesAmong(group, l, p))
         /\ Cardinality(PlacesAmong(group, l, p)) \in Nat
<1> DEFINE Each(t) == {t} \X Occurrences(l[t], p)
           All == {Each(t) : t \in group}
           f == [t \in group |-> Each(t)]
<1>1. \A t \in group : IsFiniteSet(Each(t))
  <2> SUFFICES ASSUME NEW t \in group PROVE IsFiniteSet(Each(t))
    OBVIOUS
  <2>1. l[t] \in Seq(Pokemons)
    BY DEF Lists
  <2>2. IsFiniteSet(Occurrences(l[t], p)) /\ IsFiniteSet({t})
    BY <2>1, TimesIs, FS_Singleton
  <2> QED BY <2>2, FS_Product
<1> HIDE DEF Each
<1>2. f \in Surjection(group, All)
  BY DEF Surjection
<1>3. IsFiniteSet(All)
  <2>1. IsFiniteSet(group)
    BY TeamIsFinite, FS_Subset
  <2> HIDE DEF f, All
  <2> QED BY <1>2, <2>1, FS_Surjection
<1>4. IsFiniteSet(UNION All)
  <2>1. \A T \in All : IsFiniteSet(T)
    BY <1>1
  <2> HIDE DEF All
  <2> QED BY <1>3, <2>1, FS_UNION
<1> QED BY <1>4, FS_CardinalityType DEF Each, PlacesAmong

LEMMA TogetherTyped ==
  ASSUME NEW l, Lists(l), NEW p
  PROVE  Together(l, p) \in Nat
<1>1. Together(l, p) = Cardinality(PlacesAmong(Trainers, l, p))
  BY DEF Together, PlacesAmong
<1> QED BY <1>1, PlacesAmongAreFinite

\* What one trainer has is counted beside what the others have.
LEMMA TogetherSplits ==
  ASSUME NEW l, Lists(l), NEW p, NEW t \in Trainers
  PROVE  /\ Together(l, p) = Times(l[t], p) + Cardinality(PlacesAmong(Trainers \ {t}, l, p))
         /\ Times(l[t], p) \in Nat
         /\ Cardinality(PlacesAmong(Trainers \ {t}, l, p)) \in Nat
<1> DEFINE P == {t} \X Occurrences(l[t], p)
           Q == PlacesAmong(Trainers \ {t}, l, p)
<1>1. IsFiniteSet(Q) /\ Cardinality(Q) \in Nat
  BY PlacesAmongAreFinite
<1>2. IsFiniteSet(P) /\ Cardinality(P) = Times(l[t], p) /\ Times(l[t], p) \in Nat
  <2>1. l[t] \in Seq(Pokemons)
    BY DEF Lists
  <2>2. IsFiniteSet(Occurrences(l[t], p)) /\ Times(l[t], p) \in Nat
    BY <2>1, TimesIs
  <2>3. IsFiniteSet({t}) /\ Cardinality({t}) = 1
    BY FS_Singleton
  <2>4. IsFiniteSet(P) /\ Cardinality(P) = 1 * Cardinality(Occurrences(l[t], p))
    BY <2>2, <2>3, FS_Product
  <2> QED BY <2>2, <2>4 DEF Times
<1>3. P \cap Q = {}
  BY DEF PlacesAmong
<1>4. Together(l, p) = Cardinality(P \cup Q)
  <2>1. PlacesAmong(Trainers, l, p) = P \cup Q
    BY DEF PlacesAmong
  <2> QED BY <2>1 DEF Together, PlacesAmong
<1>5. Cardinality({}) = 0
  BY FS_EmptySet
<1> HIDE DEF P, Q
<1>6. Cardinality(P \cup Q) = Cardinality(P) + Cardinality(Q) - Cardinality(P \cap Q)
  BY <1>1, <1>2, FS_Union
<1>7. Cardinality(P \cup Q) = Cardinality(P) + Cardinality(Q) - Cardinality({})
  BY ONLY <1>3, <1>6
<1>8. Together(l, p) = Times(l[t], p) + Cardinality(Q)
  BY ONLY <1>1, <1>2, <1>4, <1>5, <1>7
<1> QED BY <1>1, <1>2, <1>8 DEF Q

\* Hence the change of one trainer's list is the change of what they have together, ...
LEMMA OneListChanges ==
  ASSUME NEW l, NEW m, Lists(l), Lists(m), NEW p, NEW t \in Trainers,
         \A u \in Trainers \ {t} : m[u] = l[u]
  PROVE  /\ Together(m, p) - Times(m[t], p) = Together(l, p) - Times(l[t], p)
         /\ Together(m, p) \in Nat /\ Together(l, p) \in Nat
         /\ Times(m[t], p) \in Nat /\ Times(l[t], p) \in Nat
<1>1. PlacesAmong(Trainers \ {t}, l, p) = PlacesAmong(Trainers \ {t}, m, p)
  BY DEF PlacesAmong
<1>2. PICK c : c = Cardinality(PlacesAmong(Trainers \ {t}, l, p))
  OBVIOUS
<1>3. /\ Together(l, p) = Times(l[t], p) + c /\ Times(l[t], p) \in Nat /\ c \in Nat
  BY <1>2, TogetherSplits
<1>4. /\ Together(m, p) = Times(m[t], p) + c /\ Times(m[t], p) \in Nat
  BY <1>1, <1>2, TogetherSplits
<1> QED BY <1>3, <1>4

\* ... that of two lists the sum of both, ...
LEMMA TwoListsChange ==
  ASSUME NEW l, NEW m, Lists(l), Lists(m), NEW p, NEW t \in Trainers, NEW u \in Trainers, t # u,
         \A v \in Trainers \ {t, u} : m[v] = l[v]
  PROVE  /\ Together(m, p) - Times(m[t], p) - Times(m[u], p)
              = Together(l, p) - Times(l[t], p) - Times(l[u], p)
         /\ Together(m, p) \in Nat /\ Together(l, p) \in Nat
         /\ Times(m[t], p) \in Nat /\ Times(l[t], p) \in Nat
         /\ Times(m[u], p) \in Nat /\ Times(l[u], p) \in Nat
<1>1. PICK k : k = [v \in Trainers |-> IF v = t THEN m[t] ELSE l[v]]
  OBVIOUS
<1>2. Lists(k) /\ k[t] = m[t] /\ k[u] = l[u]
  BY <1>1 DEF Lists
<1>3. \A v \in Trainers \ {t} : k[v] = l[v]
  BY <1>1
<1>4. \A v \in Trainers \ {u} : m[v] = k[v]
  BY <1>1
<1>5. /\ Together(k, p) - Times(m[t], p) = Together(l, p) - Times(l[t], p)
      /\ Together(k, p) \in Nat /\ Together(l, p) \in Nat
      /\ Times(m[t], p) \in Nat /\ Times(l[t], p) \in Nat
  BY <1>2, <1>3, OneListChanges
<1>6. /\ Together(m, p) - Times(m[u], p) = Together(k, p) - Times(l[u], p)
      /\ Together(m, p) \in Nat /\ Times(m[u], p) \in Nat /\ Times(l[u], p) \in Nat
  BY <1>2, <1>4, OneListChanges
<1> QED BY ONLY <1>5, <1>6

\* ... and if each trainer lacks as much as before, so does the team.
LEMMA LacksAddUp ==
  ASSUME NEW needs0, NEW has0, NEW needs, NEW has,
         Lists(needs0), Lists(has0), Lists(needs), Lists(has), NEW p,
         \A t \in Trainers : Times(needs[t], p) - Times(has[t], p)
                               = Times(needs0[t], p) - Times(has0[t], p)
  PROVE  Together(needs, p) - Together(has, p) = Together(needs0, p) - Together(has0, p)
<1> DEFINE n == Len(Objectives)
           N(k) == [t \in Trainers |-> IF t <= k THEN needs[t] ELSE needs0[t]]
           H(k) == [t \in Trainers |-> IF t <= k THEN has[t] ELSE has0[t]]
           lack == Together(needs0, p) - Together(has0, p)
           S == {k \in 0..n : Together(N(k), p) - Together(H(k), p) = lack}
<1>1. Trainers = 1..n /\ n \in Nat
  BY TeamAssumption, LenProperties DEF TeamAssumption, Trainers
<1>2. ASSUME NEW l, NEW m, \A t \in Trainers : l[t] = m[t]
      PROVE  Together(l, p) = Together(m, p)
  BY <1>2 DEF Together
<1>3. \A k \in 0..n : Lists(N(k)) /\ Lists(H(k))
  BY DEF Lists
<1>4. 0 \in S
  <2>1. \A t \in Trainers : N(0)[t] = needs0[t] /\ H(0)[t] = has0[t]
    BY <1>1
  <2>2. Together(N(0), p) = Together(needs0, p) /\ Together(H(0), p) = Together(has0, p)
    BY <1>2, <2>1
  <2> QED BY <1>1, <2>2
<1>5. ASSUME NEW k \in 1..n, k - 1 \in S
      PROVE  k \in S
  <2>1. k \in Trainers /\ k \in 0..n /\ k - 1 \in 0..n
    BY <1>1
  <2>2. PICK a : a = N(k - 1)
    OBVIOUS
  <2>3. PICK b : b = N(k)
    OBVIOUS
  <2>4. PICK c : c = H(k - 1)
    OBVIOUS
  <2>5. PICK d : d = H(k)
    OBVIOUS
  <2>6. Lists(a) /\ Lists(b) /\ Lists(c) /\ Lists(d)
    BY <1>3, <2>1, <2>2, <2>3, <2>4, <2>5
  <2>0. PICK t \in Trainers : t = k
    BY <2>1
  <2>7. /\ a[t] = needs0[t] /\ b[t] = needs[t] /\ c[t] = has0[t] /\ d[t] = has[t]
        /\ \A u \in Trainers \ {t} : b[u] = a[u] /\ d[u] = c[u]
    BY <1>1, <2>1, <2>0, <2>2, <2>3, <2>4, <2>5
  <2>8. /\ Together(b, p) - Times(needs[t], p) = Together(a, p) - Times(needs0[t], p)
        /\ Together(b, p) \in Nat /\ Together(a, p) \in Nat
        /\ Times(needs[t], p) \in Nat /\ Times(needs0[t], p) \in Nat
    BY <2>6, <2>7, OneListChanges
  <2>9. /\ Together(d, p) - Times(has[t], p) = Together(c, p) - Times(has0[t], p)
        /\ Together(d, p) \in Nat /\ Together(c, p) \in Nat
        /\ Times(has[t], p) \in Nat /\ Times(has0[t], p) \in Nat
    BY <2>6, <2>7, OneListChanges
  <2>10. Together(a, p) - Together(c, p) = lack
    BY <1>5, <2>2, <2>4
  <2>11. Times(needs[t], p) - Times(has[t], p) = Times(needs0[t], p) - Times(has0[t], p)
    OBVIOUS
  <2>12. Together(b, p) - Together(d, p) = Together(a, p) - Together(c, p)
    <3>1. PICK i \in Int, j \in Int : i = Times(needs[t], p) /\ j = Times(needs0[t], p)
      BY <2>8
    <3>2. PICK v \in Int, w \in Int : v = Times(has[t], p) /\ w = Times(has0[t], p)
      BY <2>9
    <3>3. PICK e \in Int, f \in Int : e = Together(a, p) /\ f = Together(b, p)
      BY <2>8
    <3>4. PICK g \in Int, h \in Int : g = Together(c, p) /\ h = Together(d, p)
      BY <2>9
    <3>5. f - i = e - j /\ h - v = g - w /\ i - v = j - w
      BY <2>8, <2>9, <2>11, <3>1, <3>2, <3>3, <3>4
    <3>6. f - h = e - g
      BY ONLY <3>5
    <3> QED BY <3>3, <3>4, <3>6
  <2> HIDE DEF lack, N, H
  <2> QED BY <2>1, <2>3, <2>5, <2>10, <2>12
<1>6. n \in S
  <2> HIDE DEF S, n
  <2>1. \A k \in 0..n : k \in S
    BY <1>1, <1>4, <1>5, InductionUpTo
  <2> QED BY <1>1, <2>1
<1>7. \A t \in Trainers : N(n)[t] = needs[t] /\ H(n)[t] = has[t]
  BY <1>1
<1>8. Together(N(n), p) = Together(needs, p) /\ Together(H(n), p) = Together(has, p)
  <2> HIDE DEF N, H, n
  <2> QED BY <1>2, <1>7
<1> HIDE DEF N, H
<1> QED BY <1>6, <1>8

\* No trainer needs more than before, and the team lacks as much of each pokemon.
Relieved(needs0, has0, needs, has) ==
  \A p \in Pokemons :
    /\ Together(needs, p) - Together(has, p) = Together(needs0, p) - Together(has0, p)
    /\ \A t \in Trainers : Times(needs[t], p) <= Times(needs0[t], p)

\* What two trainers lack, that they may hand to each other.
LackOfTwo(needs, has, t, u, p) ==
  (Times(needs[t], p) + Times(needs[u], p)) - (Times(has[t], p) + Times(has[u], p))

LEMMA TwoRelieve ==
  ASSUME NEW needs0, NEW has0, NEW needs, NEW has,
         Lists(needs0), Lists(has0), Lists(needs), Lists(has),
         NEW t \in Trainers, NEW u \in Trainers, t # u,
         \A v \in Trainers \ {t, u} : needs[v] = needs0[v] /\ has[v] = has0[v],
         \A p \in Pokemons :
           /\ LackOfTwo(needs, has, t, u, p) = LackOfTwo(needs0, has0, t, u, p)
           /\ Times(needs[t], p) <= Times(needs0[t], p)
           /\ Times(needs[u], p) <= Times(needs0[u], p)
  PROVE  Relieved(needs0, has0, needs, has)
<1> SUFFICES ASSUME NEW p \in Pokemons
             PROVE  /\ Together(needs, p) - Together(has, p)
                         = Together(needs0, p) - Together(has0, p)
                    /\ \A v \in Trainers : Times(needs[v], p) <= Times(needs0[v], p)
  BY DEF Relieved
<1>1. /\ Together(needs, p) - Times(needs[t], p) - Times(needs[u], p)
           = Together(needs0, p) - Times(needs0[t], p) - Times(needs0[u], p)
      /\ Together(needs, p) \in Nat /\ Together(needs0, p) \in Nat
      /\ Times(needs[t], p) \in Nat /\ Times(needs0[t], p) \in Nat
      /\ Times(needs[u], p) \in Nat /\ Times(needs0[u], p) \in Nat
  BY TwoListsChange
<1>2. /\ Together(has, p) - Times(has[t], p) - Times(has[u], p)
           = Together(has0, p) - Times(has0[t], p) - Times(has0[u], p)
      /\ Together(has, p) \in Nat /\ Together(has0, p) \in Nat
      /\ Times(has[t], p) \in Nat /\ Times(has0[t], p) \in Nat
      /\ Times(has[u], p) \in Nat /\ Times(has0[u], p) \in Nat
  <2>1. \A v \in Trainers \ {t, u} : has[v] = has0[v]
    OBVIOUS
  <2> QED BY <2>1, TwoListsChange
<1>3. Together(needs, p) - Together(has, p) = Together(needs0, p) - Together(has0, p)
  <2>1. PICK a \in Int, b \in Int, c \in Int, d \in Int :
          /\ a = Times(needs[t], p) /\ b = Times(needs0[t], p)
          /\ c = Times(needs[u], p) /\ d = Times(needs0[u], p)
    BY <1>1
  <2>2. PICK e \in Int, f \in Int, g \in Int, h \in Int :
          /\ e = Times(has[t], p) /\ f = Times(has0[t], p)
          /\ g = Times(has[u], p) /\ h = Times(has0[u], p)
    BY <1>2
  <2>3. PICK i \in Int, j \in Int, k \in Int, l \in Int :
          /\ i = Together(needs, p) /\ j = Together(needs0, p)
          /\ k = Together(has, p) /\ l = Together(has0, p)
    BY <1>1, <1>2
  <2>4. i - a - c = j - b - d
    BY <1>1, <2>1, <2>3
  <2>5. k - e - g = l - f - h
    BY <1>2, <2>2, <2>3
  <2>6. (a + c) - (e + g) = (b + d) - (f + h)
    BY <2>1, <2>2 DEF LackOfTwo
  <2>7. i - k = j - l
    BY ONLY <2>4, <2>5, <2>6
  <2> QED BY <2>3, <2>7
<1>4. ASSUME NEW v \in Trainers
      PROVE  Times(needs[v], p) <= Times(needs0[v], p)
  <2>1. CASE v \in {t, u}
    BY <2>1
  <2>2. CASE v \notin {t, u}
    <3>1. needs[v] = needs0[v] /\ Times(needs0[v], p) \in Nat
      BY <2>2, TimesIs DEF Lists
    <3> QED BY <3>1
  <2> QED BY <2>1, <2>2
<1> QED BY <1>3, <1>4

\* A trade relieves, between two trainers of whom the one needs no pokemon twice that the other
\* gives.
LEMMA TradeRelieves ==
  ASSUME pokemons \in [Trainers -> Seq(Pokemons)], targets \in [Trainers -> Seq(Pokemons)],
         NEW from \in Trainers, NEW to \in Trainers, from # to, Once(targets[to])
  PROVE  Relieved(targets, pokemons,
                  TradeBetween(from, to).needs, TradeBetween(from, to).has)
<1> DEFINE given == GiveNeeded(pokemons[from], targets[to])
           back  == pokemons[to]
           U     == Useful(back, targets[from])
           i     == Min(U)
           rest  == IF back = <<>> THEN back ELSE Spare(back)
           k     == Len(back) - Len(rest)
           more  == [j \in 1..k |-> back[1]]
           needs == TradeBetween(from, to).needs
           has   == TradeBetween(from, to).has
<1>1. Lists(needs) /\ Lists(has) /\ Lists(targets) /\ Lists(pokemons)
  <2>1. needs \in [Trainers -> Seq(Pokemons)] /\ has \in [Trainers -> Seq(Pokemons)]
    BY TradeTyped
  <2> QED BY <2>1 DEF Lists
<1>2. given.has \in Seq(Pokemons) /\ given.needs \in Seq(Pokemons)
  <2>1. given \in Goods
    BY GiveNeededTyped
  <2> HIDE DEF given
  <2> QED BY <2>1 DEF Goods
<1>3. Eased(targets[to], pokemons[from], given.needs, given.has)
  BY GiveNeededEases
<1>4. back \in Seq(Pokemons) /\ Len(back) \in Nat /\ DOMAIN back = 1..Len(back)
  BY LenProperties
<1>5. \A v \in Trainers, p \in Pokemons :
        /\ Times(needs[v], p) \in Int /\ Times(has[v], p) \in Int
        /\ Times(targets[v], p) \in Int /\ Times(pokemons[v], p) \in Int
  <2> HIDE DEF needs, has
  <2>1. ASSUME NEW l, Lists(l), NEW v \in Trainers, NEW p \in Pokemons
        PROVE  Times(l[v], p) \in Int
    <3>1. Times(l[v], p) \in Nat
      BY <2>1, TimesIs DEF Lists
    <3> QED BY <3>1
  <2> QED BY <1>1, <2>1
<1>6. CASE U # {}
  <2>1. i \in U /\ U \subseteq 1..Len(back)
    <3>1. U \subseteq 1..Len(back)
      BY <1>4 DEF Useful
    <3>2. U \subseteq Nat
      BY <1>4, <3>1
    <3> QED BY <1>6, <3>1, <3>2, MinOfNaturals
  <2> DEFINE d == back[i]
             kept == RemoveAt(back, i)
             less == RemoveFirst(targets[from], d)
  <2>2. Contains(targets[from], d) /\ i \in 1..Len(back)
    BY <2>1 DEF Useful
  <2>3. TradeBetween(from, to) =
          [has   |-> [pokemons EXCEPT ![from] = given.has, ![to] = kept],
           needs |-> [targets EXCEPT ![to] = given.needs, ![from] = less]]
    BY <1>6 DEF TradeBetween
  <2>4. ASSUME NEW p \in Pokemons
        PROVE  /\ Times(kept, p) = Times(back, p) - (IF d = p THEN 1 ELSE 0)
               /\ Times(less, p) = Times(targets[from], p) - (IF d = p THEN 1 ELSE 0)
    <3>1. Times(kept, p) = Times(back, p) - (IF d = p THEN 1 ELSE 0)
      BY <1>4, <2>2, TimesRemoveAt
    <3>2. Times(less, p) = Times(targets[from], p) - (IF d = p THEN 1 ELSE 0)
      BY <2>2, TimesRemoveFirst
    <3> QED BY <3>1, <3>2
  <2> HIDE DEF given, d, kept, less
  <2>5. /\ has = [pokemons EXCEPT ![from] = given.has, ![to] = kept]
        /\ needs = [targets EXCEPT ![to] = given.needs, ![from] = less]
    BY <2>3
  <2> HIDE DEF has, needs
  <2>6. /\ has[from] = given.has /\ has[to] = kept /\ needs[from] = less /\ needs[to] = given.needs
        /\ \A v \in Trainers \ {from, to} : needs[v] = targets[v] /\ has[v] = pokemons[v]
    BY <2>5
  <2>7. ASSUME NEW p \in Pokemons
        PROVE  /\ LackOfTwo(needs, has, from, to, p) = LackOfTwo(targets, pokemons, from, to, p)
               /\ Times(needs[from], p) <= Times(targets[from], p)
               /\ Times(needs[to], p) <= Times(targets[to], p)
    <3>1. PICK a \in Int, b \in Int, c \in Int, e \in Int :
            /\ a = Times(needs[from], p) /\ b = Times(targets[from], p)
            /\ c = Times(needs[to], p) /\ e = Times(targets[to], p)
      BY <1>5
    <3>2. PICK f \in Int, g \in Int, h \in Int, l \in Int :
            /\ f = Times(has[from], p) /\ g = Times(pokemons[from], p)
            /\ h = Times(has[to], p) /\ l = Times(pokemons[to], p)
      BY <1>5
    <3>3. PICK one \in {0, 1} : one = IF d = p THEN 1 ELSE 0
      OBVIOUS
    <3>4. a = b - one /\ h = l - one
      BY <2>4, <2>6, <3>1, <3>2, <3>3
    <3>5. c <= e /\ c - f = e - g
      BY <1>3, <2>6, <3>1, <3>2 DEF Eased
    <3>6. a <= b /\ (a + c) - (f + h) = (b + e) - (g + l)
      BY ONLY <3>4, <3>5
    <3> QED BY <3>1, <3>2, <3>5, <3>6 DEF LackOfTwo
  <2>8. Relieved(targets, pokemons, needs, has)
    BY <1>1, <2>6, <2>7, TwoRelieve
  <2> QED BY <2>8 DEF needs, has
<1>7. CASE U = {}
  <2> DEFINE all == given.has \o more
             d == back[1]
  <2>1. rest \in Seq(Pokemons)
    BY <1>4, SpareTyped
  <2>2. k \in Nat /\ \A p : Times(rest, p) = Times(back, p) - (IF d = p THEN k ELSE 0)
    <3>1. CASE back = <<>>
      <4>1. rest = back
        BY <3>1
      <4>2. k = 0
        <5> HIDE DEF rest, back
        <5> QED BY <1>4, <4>1
      <4>3. \A p : Times(back, p) \in Nat
        BY <1>4, TimesIs
      <4> HIDE DEF rest, k, d, back
      <4> QED BY <4>1, <4>2, <4>3
    <3>2. CASE back # <<>>
      <4>1. rest = Spare(back)
        BY <3>2
      <4> HIDE DEF rest, back
      <4> QED BY <1>4, <4>1, SpareTakes
    <3> QED BY <3>1, <3>2
  <2>3. k # 0 => d \in Pokemons
    <3>1. k # 0 => 1 \in 1..Len(back)
      <4>1. Len(rest) \in Nat
        BY <2>1, LenProperties
      <4> HIDE DEF rest, back
      <4> QED BY <1>4, <2>2, <4>1
    <3> QED BY <1>4, <3>1, ElementOfSeq
  <2>4. TradeBetween(from, to) =
          [has   |-> [pokemons EXCEPT ![to] = rest, ![from] = all],
           needs |-> [targets EXCEPT ![to] = given.needs]]
    BY <1>7 DEF TradeBetween
  <2> HIDE DEF k, d
  <2>5. /\ more \in Seq(Pokemons)
        /\ \A p : Times(more, p) = IF d = p THEN k ELSE 0
    <3>1. more = [j \in 1..k |-> d]
      BY DEF d
    <3>2. k \in Nat
      BY <2>2
    <3> HIDE DEF more
    <3>3. more \in Seq(Pokemons) /\ Len(more) = k /\ \A j \in 1..Len(more) : more[j] = d
      BY <2>3, <3>1, <3>2, SeqDef
    <3>4. ASSUME NEW p
          PROVE  Times(more, p) = IF d = p THEN k ELSE 0
      <4>1. (\A j \in 1..Len(more) : more[j] = p) => Times(more, p) = Len(more)
        BY <3>3, TimesRepeated
      <4>2. (\A j \in 1..Len(more) : more[j] # p) => Times(more, p) = 0
        BY <3>3, TimesRepeated
      <4> QED BY <3>3, <4>1, <4>2
    <3> QED BY <3>3, <3>4
  <2> HIDE DEF more
  <2>6. \A p : Times(all, p) = Times(given.has, p) + (IF d = p THEN k ELSE 0)
    <3> SUFFICES ASSUME NEW p
                 PROVE  Times(all, p) = Times(given.has, p) + (IF d = p THEN k ELSE 0)
      OBVIOUS
    <3>1. Times(all, p) = Times(given.has, p) + Times(more, p)
      BY <1>2, <2>5, TimesConcat
    <3> QED BY <2>5, <3>1
  <2> HIDE DEF given, all, rest
  <2>7. /\ has = [pokemons EXCEPT ![to] = rest, ![from] = all]
        /\ needs = [targets EXCEPT ![to] = given.needs]
    BY <2>4
  <2> HIDE DEF has, needs
  <2>8. /\ has[from] = all /\ has[to] = rest /\ needs[from] = targets[from]
        /\ needs[to] = given.needs
        /\ \A v \in Trainers \ {from, to} : needs[v] = targets[v] /\ has[v] = pokemons[v]
    BY <2>7
  <2>9. ASSUME NEW p \in Pokemons
        PROVE  /\ LackOfTwo(needs, has, from, to, p) = LackOfTwo(targets, pokemons, from, to, p)
               /\ Times(needs[from], p) <= Times(targets[from], p)
               /\ Times(needs[to], p) <= Times(targets[to], p)
    <3>1. PICK b \in Int, c \in Int, e \in Int :
            /\ b = Times(targets[from], p)
            /\ c = Times(needs[to], p) /\ e = Times(targets[to], p)
      BY <1>5
    <3>2. PICK f \in Int, g \in Int, h \in Int, l \in Int :
            /\ f = Times(has[from], p) /\ g = Times(pokemons[from], p)
            /\ h = Times(has[to], p) /\ l = Times(pokemons[to], p)
      BY <1>5
    <3>3. PICK q \in Int : q = Times(given.has, p)
      <4>1. Times(given.has, p) \in Nat
        BY <1>2, TimesIs
      <4> QED BY <4>1
    <3>4. PICK m \in Int : m = IF d = p THEN k ELSE 0
      BY <2>2
    <3>5. f = q + m /\ h = l - m
      BY <2>2, <2>6, <2>8, <3>2, <3>3, <3>4
    <3>6. c <= e /\ c - q = e - g
      BY <1>3, <2>8, <3>1, <3>2, <3>3 DEF Eased
    <3>7. (b + c) - (f + h) = (b + e) - (g + l)
      BY ONLY <3>5, <3>6
    <3>8. Times(needs[from], p) = b
      BY <2>8, <3>1
    <3> QED BY <3>1, <3>2, <3>6, <3>7, <3>8 DEF LackOfTwo
  <2>10. Relieved(targets, pokemons, needs, has)
    BY <1>1, <2>8, <2>9, TwoRelieve
  <2> QED BY <2>10 DEF needs, has
<1> QED BY <1>6, <1>7

\* What the team needs is finite.
LEMMA TotalCountTyped == total_count \in [Pokemons -> Nat]
<1> SUFFICES ASSUME NEW p \in Pokemons
             PROVE  Together([t \in Trainers |-> Initial[t].targets], p) \in Nat
  BY DEF total_count
<1>1. PICK l : l = [t \in Trainers |-> Initial[t].targets]
  OBVIOUS
<1>2. Lists(l)
  BY <1>1, InitialTyped DEF Lists, Own
<1> QED BY <1>1, <1>2, TogetherTyped

-----------------------------------------------------------------------------
(* How many of a pokemon the team takes *)

\* The threads that have found p required, and are about to count it.
Expecting(to_add, p) == {r \in Receivers : to_add[r] # NoMessage /\ to_add[r][1].pokemon = p}

\* NoneTooMany, with what the threads are about to count: each one can be late for the
\* last of a pokemon, but the listener can also be between the two counts of a catch, and
\* does only one of these at a time.
TakingInv ==
  /\ total_caught \in [Pokemons -> Int] /\ currently_in_progress \in [Pokemons -> Int]
  /\ receiver \in [Receivers -> {NoMessage} \cup {<<a>> : a \in Appearances}]
  /\ counting # NoMessage => receiver[Listener] = NoMessage
  /\ \A p \in Pokemons :
       total_caught[p] + currently_in_progress[p] + Uncounted(p)
           + Cardinality(Expecting(receiver, p))
         <= total_count[p] + (Cardinality(Receivers) - 1)

\* There are at most as many such threads as threads, and one less if the listener is not.
LEMMA ExpectingIsFinite ==
  ASSUME NEW to_add, NEW p
  PROVE  /\ IsFiniteSet(Expecting(to_add, p)) /\ Cardinality(Expecting(to_add, p)) \in Nat
         /\ Cardinality(Receivers) \in Nat
         /\ Cardinality(Expecting(to_add, p)) <= Cardinality(Receivers)
         /\ to_add[Listener] = NoMessage
              => Cardinality(Expecting(to_add, p)) <= Cardinality(Receivers) - 1
<1> DEFINE E == Expecting(to_add, p)
<1>1. IsFiniteSet(Receivers) /\ Listener \in Receivers
  BY TeamAssumption DEF TeamAssumption
<1>2. E \subseteq Receivers /\ (to_add[Listener] = NoMessage => E \subseteq Receivers \ {Listener})
  BY DEF Expecting
<1> HIDE DEF E
<1>3. /\ IsFiniteSet(Receivers \ {Listener})
      /\ Cardinality(Receivers \ {Listener}) = Cardinality(Receivers) - 1
  BY <1>1, FS_RemoveElement
<1>4. /\ IsFiniteSet(E) /\ Cardinality(E) \in Nat /\ Cardinality(Receivers) \in Nat
      /\ Cardinality(E) <= Cardinality(Receivers)
  BY <1>1, <1>2, FS_Subset, FS_CardinalityType
<1>5. E \subseteq Receivers \ {Listener} => Cardinality(E) <= Cardinality(Receivers \ {Listener})
  BY <1>3, FS_Subset
<1> QED BY <1>2, <1>3, <1>4, <1>5 DEF E

\* A thread finds a pokemon required: there was room for it, but for the other threads.
LEMMA AppearTakes ==
  ASSUME TakingInv, NEW r \in Receivers, NEW a \in Appearances, Appear(r, a)
  PROVE  TakingInv'
<1>1. /\ receiver[r] = NoMessage /\ (r = Listener => counting = NoMessage)
      /\ receiver' = [receiver EXCEPT ![r] = <<a>>] /\ is_required(a.pokemon)
      /\ UNCHANGED <<total_caught, currently_in_progress, counting>>
  BY DEF Appear, Waits, requirements
<1>2. receiver' \in [Receivers -> {NoMessage} \cup {<<b>> : b \in Appearances}]
  BY <1>1 DEF TakingInv
<1>3. counting # NoMessage => receiver'[Listener] = NoMessage
  BY <1>1 DEF TakingInv
<1>4. ASSUME NEW p \in Pokemons
      PROVE  total_caught[p] + currently_in_progress[p] + Uncounted(p)
                 + Cardinality(Expecting(receiver', p))
               <= total_count[p] + (Cardinality(Receivers) - 1)
  <2>1. PICK to_add : to_add = receiver'
    OBVIOUS
  <2>2. /\ total_caught[p] \in Int /\ currently_in_progress[p] \in Int
        /\ total_count[p] \in Nat
    BY TotalCountTyped DEF TakingInv
  <2>3. CASE p = a.pokemon
    <3>1. total_caught[p] + currently_in_progress[p] < total_count[p]
      BY <1>1, <2>3 DEF is_required
    <3>2. /\ Cardinality(Expecting(to_add, p)) \in Nat /\ Cardinality(Receivers) \in Nat
          /\ Cardinality(Expecting(to_add, p)) <= Cardinality(Receivers)
          /\ counting # NoMessage => Cardinality(Expecting(to_add, p)) <= Cardinality(Receivers) - 1
      BY <1>3, <2>1, ExpectingIsFinite
    <3>3. Uncounted(p) \in {0, 1} /\ (counting = NoMessage => Uncounted(p) = 0)
      BY DEF Uncounted
    <3> QED BY <2>1, <2>2, <3>1, <3>2, <3>3
  <2>4. CASE p # a.pokemon
    <3>1. Expecting(to_add, p) = Expecting(receiver, p)
      BY <1>1, <2>1, <2>4 DEF Expecting, TakingInv, NoMessage
    <3> QED BY <2>1, <3>1 DEF TakingInv
  <2> QED BY <2>3, <2>4
<1> QED BY <1>1, <1>2, <1>3, <1>4 DEF TakingInv, Uncounted

\* What a thread was about to count is counted.
LEMMA RequireTakes ==
  ASSUME TakingInv, NEW r \in Receivers, Require(r)
  PROVE  TakingInv'
<1> DEFINE o == receiver[r][1].pokemon
<1>1. /\ receiver[r] # NoMessage /\ receiver' = [receiver EXCEPT ![r] = NoMessage]
      /\ currently_in_progress' = [currently_in_progress EXCEPT ![o] = @ + 1]
      /\ UNCHANGED <<total_caught, counting>>
  BY DEF Require
<1>0. o \in Pokemons
  BY <1>1 DEF TakingInv, Appearances
<1> HIDE DEF o
<1>2. /\ receiver' \in [Receivers -> {NoMessage} \cup {<<b>> : b \in Appearances}]
      /\ currently_in_progress' \in [Pokemons -> Int]
      /\ counting # NoMessage => receiver'[Listener] = NoMessage
  <2>1. receiver \in [Receivers -> {NoMessage} \cup {<<b>> : b \in Appearances}]
    BY DEF TakingInv
  <2>2. receiver' \in [Receivers -> {NoMessage} \cup {<<b>> : b \in Appearances}]
    BY <1>1, <2>1
  <2>3. currently_in_progress' \in [Pokemons -> Int]
    BY <1>1, <1>0 DEF TakingInv
  <2>4. counting # NoMessage => receiver'[Listener] = NoMessage
    BY <1>1, <2>1, TeamAssumption DEF TakingInv, TeamAssumption
  <2> QED BY <2>2, <2>3, <2>4
<1>3. ASSUME NEW p \in Pokemons
      PROVE  total_caught[p] + currently_in_progress'[p] + Uncounted(p)
                 + Cardinality(Expecting(receiver', p))
               <= total_count[p] + (Cardinality(Receivers) - 1)
  <2>1. PICK to_add : to_add = receiver'
    OBVIOUS
  <2>2. Expecting(to_add, p) = IF p = o THEN Expecting(receiver, p) \ {r}
                                        ELSE Expecting(receiver, p)
    BY <1>1, <2>1 DEF Expecting, TakingInv, o
  <2>3. r \in Expecting(receiver, p) <=> p = o
    BY <1>1 DEF Expecting, o
  <2>4. /\ IsFiniteSet(Expecting(receiver, p)) /\ Cardinality(Expecting(receiver, p)) \in Nat
        /\ Cardinality(Receivers) \in Nat
    BY ExpectingIsFinite
  <2>5. Cardinality(Expecting(to_add, p))
          = Cardinality(Expecting(receiver, p)) - (IF p = o THEN 1 ELSE 0)
    <3>1. p = o => Cardinality(Expecting(receiver, p) \ {r}) = Cardinality(Expecting(receiver, p)) - 1
      BY <2>3, <2>4, FS_RemoveElement
    <3> QED BY <2>2, <2>4, <3>1
  <2>6. /\ currently_in_progress'[p] = currently_in_progress[p] + (IF p = o THEN 1 ELSE 0)
        /\ total_caught[p] \in Int /\ currently_in_progress[p] \in Int
        /\ total_count[p] \in Nat /\ Uncounted(p) \in {0, 1}
    <3>1. total_caught \in [Pokemons -> Int] /\ currently_in_progress \in [Pokemons -> Int]
      BY DEF TakingInv
    <3>2. Uncounted(p) \in {0, 1}
      BY DEF Uncounted
    <3> QED BY <1>1, <1>0, <3>1, <3>2, TotalCountTyped
  <2>7. total_caught[p] + currently_in_progress[p] + Uncounted(p)
            + Cardinality(Expecting(receiver, p))
          <= total_count[p] + (Cardinality(Receivers) - 1)
    BY DEF TakingInv
  <2> QED BY <2>1, <2>4, <2>5, <2>6, <2>7
<1> QED BY <1>1, <1>2, <1>3 DEF TakingInv, Uncounted

\* Neither a catch nor an escape takes anything.
LEMMA CatchTakes ==
  ASSUME TakingInv, Counted \/ \E t \in Trainers : Caught(t) \/ Escaped(t) \/ Register(t)
  PROVE  TakingInv'
<1>1. UNCHANGED receiver
  BY DEF Caught, Escaped, Register, Counted, messages
<1>2. /\ total_caught' \in [Pokemons -> Int] /\ currently_in_progress' \in [Pokemons -> Int]
      /\ counting' # NoMessage => receiver[Listener] = NoMessage
  <2>1. PICK o : /\ \/ currently_in_progress' = currently_in_progress
                    \/ currently_in_progress' = [currently_in_progress EXCEPT ![o] = @ - 1]
                 /\ \/ total_caught' = total_caught
                    \/ total_caught' = [total_caught EXCEPT ![o] = @ + 1]
    BY DEF Caught, Escaped, Register, Counted, Hold, Count
  <2>2. counting' # NoMessage => counting # NoMessage \/ receiver[Listener] = NoMessage
    BY DEF Caught, Escaped, Register, Counted, Hears, Waits, messages
  <2>3. total_caught \in [Pokemons -> Int] /\ currently_in_progress \in [Pokemons -> Int]
    BY DEF TakingInv
  <2>4. total_caught' \in [Pokemons -> Int] /\ currently_in_progress' \in [Pokemons -> Int]
    BY <2>1, <2>3
  <2> QED BY <2>2, <2>4 DEF TakingInv
<1>3. ASSUME NEW p \in Pokemons
      PROVE  /\ total_caught'[p] + currently_in_progress'[p] + Uncounted(p)'
                  <= total_caught[p] + currently_in_progress[p] + Uncounted(p)
             /\ Uncounted(p) \in Int /\ Uncounted(p)' \in Int
  <2>1. /\ total_caught[p] \in Int /\ currently_in_progress[p] \in Int
        /\ Uncounted(p) \in Int /\ Uncounted(p)' \in Int
    BY DEF TakingInv, Uncounted
  <2>2. CASE \E t \in Trainers : Caught(t)
    <3>1. PICK t, o : /\ counting = NoMessage /\ counting' = <<t, o>> /\ total_caught' = total_caught
                      /\ currently_in_progress' = [currently_in_progress EXCEPT ![o] = @ - 1]
      BY <2>2 DEF Caught, Hears, Waits, Hold
    <3>2. Uncounted(p) = 0 /\ Uncounted(p)' = IF p = o THEN 1 ELSE 0
      BY <3>1 DEF Uncounted, NoMessage
    <3>3. currently_in_progress'[p] = currently_in_progress[p] - (IF p = o THEN 1 ELSE 0)
      BY <3>1, <2>1 DEF TakingInv
    <3> QED BY <2>1, <3>1, <3>2, <3>3
  <2>3. CASE \E t \in Trainers : Escaped(t) \/ Register(t)
    <3>1. PICK o :
            /\ counting' = counting
            /\ currently_in_progress' = [currently_in_progress EXCEPT ![o] = @ - 1]
            /\ total_caught' = total_caught \/ total_caught' = [total_caught EXCEPT ![o] = @ + 1]
      BY <2>3 DEF Escaped, Register, Hold, Count, messages
    <3>2. /\ Uncounted(p)' = Uncounted(p)
          /\ currently_in_progress'[p] = currently_in_progress[p] - (IF p = o THEN 1 ELSE 0)
          /\ total_caught'[p] \in {total_caught[p], total_caught[p] + (IF p = o THEN 1 ELSE 0)}
      BY <3>1, <2>1 DEF TakingInv, Uncounted
    <3> QED BY <2>1, <3>2
  <2>4. CASE Counted
    <3>1. /\ counting # NoMessage /\ counting' = NoMessage
          /\ currently_in_progress' = currently_in_progress
          /\ total_caught' = [total_caught EXCEPT ![counting[2]] = @ + 1]
      BY <2>4 DEF Counted, Count
    <3>2. PICK q : q = counting[2]
      OBVIOUS
    <3>3. /\ Uncounted(p) = (IF p = q THEN 1 ELSE 0) /\ Uncounted(p)' = 0
          /\ total_caught'[p] = total_caught[p] + (IF p = q THEN 1 ELSE 0)
      BY <3>1, <3>2, <2>1 DEF Uncounted, TakingInv
    <3> QED BY <2>1, <3>1, <3>3
  <2> QED BY <2>1, <2>2, <2>3, <2>4
<1>4. ASSUME NEW p \in Pokemons
      PROVE  total_caught'[p] + currently_in_progress'[p] + Uncounted(p)'
                 + Cardinality(Expecting(receiver, p))
               <= total_count[p] + (Cardinality(Receivers) - 1)
  <2>1. total_caught[p] + currently_in_progress[p] + Uncounted(p)
            + Cardinality(Expecting(receiver, p))
          <= total_count[p] + (Cardinality(Receivers) - 1)
    BY DEF TakingInv
  <2>2. /\ Cardinality(Expecting(receiver, p)) \in Nat /\ Cardinality(Receivers) \in Nat
        /\ total_caught[p] \in Int /\ currently_in_progress[p] \in Int /\ total_count[p] \in Nat
        /\ total_caught'[p] \in Int /\ currently_in_progress'[p] \in Int
    BY <1>2, ExpectingIsFinite, TotalCountTyped DEF TakingInv
  <2>3. PICK before \in Int, after \in Int :
          /\ before = total_caught[p] + currently_in_progress[p] + Uncounted(p)
          /\ after = total_caught'[p] + currently_in_progress'[p] + Uncounted(p)'
    BY <1>3, <2>2
  <2>4. after <= before
    BY <1>3, <2>3
  <2>5. before + Cardinality(Expecting(receiver, p)) <= total_count[p] + (Cardinality(Receivers) - 1)
    BY <2>1, <2>3
  <2>6. after + Cardinality(Expecting(receiver, p)) <= total_count[p] + (Cardinality(Receivers) - 1)
    BY <2>2, <2>4, <2>5
  <2> QED BY <2>3, <2>6
<1> QED BY <1>1, <1>2, <1>4 DEF TakingInv

LEMMA TakingInit == Init => TakingInv
<1> SUFFICES ASSUME Init PROVE TakingInv
  OBVIOUS
<1>1. /\ counting = NoMessage /\ receiver = [r \in Receivers |-> NoMessage]
      /\ total_caught = [p \in Pokemons |-> 0] /\ currently_in_progress = [p \in Pokemons |-> 0]
  BY DEF Init
<1>2. ASSUME NEW p \in Pokemons
      PROVE  total_caught[p] + currently_in_progress[p] + Uncounted(p)
                 + Cardinality(Expecting(receiver, p))
               <= total_count[p] + (Cardinality(Receivers) - 1)
  <2>1. /\ Cardinality(Expecting(receiver, p)) \in Nat /\ Cardinality(Receivers) \in Nat
        /\ Cardinality(Expecting(receiver, p)) <= Cardinality(Receivers) - 1
    BY <1>1, TeamAssumption, ExpectingIsFinite DEF TeamAssumption
  <2>2. /\ total_caught[p] = 0 /\ currently_in_progress[p] = 0 /\ Uncounted(p) = 0
        /\ total_count[p] \in Nat
    BY <1>1, TotalCountTyped DEF Uncounted
  <2> QED BY <2>1, <2>2
<1> QED BY <1>1, <1>2 DEF TakingInv

LEMMA TakingNext == TakingInv /\ [Next]_vars => TakingInv'
<1> SUFFICES ASSUME TakingInv, [Next]_vars PROVE TakingInv'
  OBVIOUS
<1>1. CASE UNCHANGED <<total_caught, currently_in_progress, receiver, counting>>
  BY <1>1 DEF TakingInv, Uncounted
<1>2. CASE UNCHANGED vars \/ Connect
  BY <1>1, <1>2 DEF vars, Connect, requirements, messages
<1>3. CASE \E r \in Receivers : Require(r) \/ \E a \in Appearances : Appear(r, a)
  BY <1>3, AppearTakes, RequireTakes
<1>4. CASE Counted \/ \E t \in Trainers : Caught(t) \/ Escaped(t) \/ TrainerStep(t)
  <2>1. CASE Counted
    BY <2>1, CatchTakes
  <2>2. ASSUME NEW t \in Trainers, Caught(t) \/ Escaped(t) \/ Register(t)
        PROVE  TakingInv'
    BY <2>2, CatchTakes
  <2>3. ASSUME NEW t \in Trainers,
               \/ CycleOfNothing(t) \/ Move(t) \/ Arrive(t) \/ CycleAwaiting(t) \/ WaitToTrade(t)
               \/ Trade(t) \/ EndCycle(t) \/ SendCatch(t)
        PROVE  TakingInv'
    BY <1>1, <2>3
       DEF CycleOfNothing, Move, Arrive, CycleAwaiting, WaitToTrade, Trade, EndCycle, SendCatch,
           requirements, messages
  <2> QED BY <1>4, <2>1, <2>2, <2>3 DEF TrainerStep
<1>5. CASE PlannerStep
  BY <1>1, <1>5 DEF PlannerStep, Wake, Assign, Sort, Test, Lock, Unlock, requirements, messages
<1> QED BY <1>2, <1>3, <1>4, <1>5 DEF Next

LEMMA TakingKept == Spec => []TakingInv
BY TakingInit, TakingNext, PTL DEF Spec

LEMMA TakingInvImplies == TakingInv => NoneTooMany
<1> SUFFICES ASSUME TakingInv, NEW p \in Pokemons
             PROVE  total_caught[p] + currently_in_progress[p] + Uncounted(p)
                      <= total_count[p] + (Cardinality(Receivers) - 1)
  BY DEF NoneTooMany
<1>1. total_caught[p] + currently_in_progress[p] + Uncounted(p)
          + Cardinality(Expecting(receiver, p))
        <= total_count[p] + (Cardinality(Receivers) - 1)
  BY DEF TakingInv
<1>2. /\ Cardinality(Expecting(receiver, p)) \in Nat /\ Cardinality(Receivers) \in Nat
      /\ total_caught[p] \in Int /\ currently_in_progress[p] \in Int /\ total_count[p] \in Nat
      /\ Uncounted(p) \in Int
  BY ExpectingIsFinite, TotalCountTyped DEF TakingInv, Uncounted
<1> QED BY <1>1, <1>2

\* NoneTooMany: however many threads test is_required and count (process_pokemon_message),
\* and wherever the listener is between the two counts of a catch, all the threads but one
\* can each take one pokemon too many of a species, and no more.
THEOREM NoneTakenTooMany == Spec => []NoneTooMany
BY TakingKept, TakingInvImplies, PTL

-----------------------------------------------------------------------------
(* The invariant of the whole team *)

\* One thread processes messages: the listener, when no GameBoy sends the team any.  (If the
\* broker is not there, no catch is heard of, and the one thread is the server's.)
OneReceiver == Receivers = {Listener}

\* The types of what the token is not about.
StateTyped ==
  /\ planning_alg \in Plannings /\ has_broker_connection \in BOOLEAN
  /\ x \in [Trainers -> Positions]
  /\ pokemons \in [Trainers -> Seq(Pokemons)] /\ targets \in [Trainers -> Seq(Pokemons)]
  /\ status \in [Trainers -> {"NEW", "READY", "EXEC", "BLOCKED", "EXIT"}]
  /\ activity \in [Trainers -> Activity]
  /\ quantum_counter \in [Trainers -> 0..Quantum]
  /\ trading_counter \in [Trainers -> 0..TradingCycles]
  /\ total_caught \in [Pokemons -> Nat]
  /\ currently_in_progress \in [Pokemons -> Int]
  /\ required_pokemons \in Seq(Appearances)
  /\ receiver \in [Receivers -> {NoMessage} \cup {<<a>> : a \in Appearances}]
  /\ counting \in {NoMessage} \cup Trainers \X Pokemons
  /\ finished \in BOOLEAN /\ crashed \in BOOLEAN

\* Whom an assignment of activities has capture p, and where a list has it.
IsCapture(a) == a.type \in {"CAPTURING", "AWAITING_CAPTURE_RESULT"}
CapturingIn(act, p) == {t \in Trainers : IsCapture(act[t]) /\ act[t].pokemon = p}
WaitingFor(list, p) == {i \in DOMAIN list : list[i].pokemon = p}

Reserved(list, act, progress) ==
  \A p \in Pokemons :
    progress[p] = Cardinality(WaitingFor(list, p)) + Cardinality(CapturingIn(act, p))

Enough(caught, progress) == \A p \in Pokemons : caught[p] + progress[p] <= total_count[p]

\* What is in progress, with the catch that the listener is counting: its trainer still
\* awaits the result.
Taken == [p \in Pokemons |-> currently_in_progress[p] + Uncounted(p)]

OnlyNeeded == Enough(total_caught, Taken)

BeingCounted ==
  counting # NoMessage => /\ activity[counting[1]].type = "AWAITING_CAPTURE_RESULT"
                          /\ activity[counting[1]].pokemon = counting[2]

\* A trainer that is dealing with its arrival has still to capture.
AtWork == \A t \in Trainers : pc[t] \in {"send", "register"} => activity[t].type = "CAPTURING"

\* Trades begin when the team has caught all it needs, and one at a time.
TradingLate ==
  (\E t \in Trainers : activity[t].type = "TRADING") => requirements_are_finished(total_caught)

OneTrading ==
  \A t, u \in Trainers : activity[t].type = "TRADING" /\ activity[u].type = "TRADING" => t = u

\* With a quantum, a trainer that waits for its next cycle has some of it left.
QuantumLeft ==
  planning_alg = "RR" => \A t \in Trainers : pc[t] = "wait" => quantum_counter[t] < Quantum

TeamInv ==
  /\ TokenInv /\ StateTyped /\ OnlyNeeded
  /\ Reserved(required_pokemons, activity, Taken)
  /\ BeingCounted /\ AtWork /\ TradingLate /\ OneTrading /\ QuantumLeft

-----------------------------------------------------------------------------
(* Counting what is in progress *)

\* The kinds of activity, and their fields.
LEMMA Activities ==
  ASSUME NEW a \in Activity
  PROVE  /\ a = NoActivity \/ IsCapture(a) \/ a.type = "TRADING"
         /\ a = NoActivity => ~IsCapture(a) /\ a.type = "none"
         /\ IsCapture(a) => a.pokemon \in Pokemons /\ a.x \in Positions /\ a.type # "TRADING"
         /\ a.type = "TRADING" => a.with \in Trainers /\ ~IsCapture(a)
BY DEF Activity, IsCapture, NoActivity

\* The places and the trainers that are counted are finitely many.
LEMMA CountsFinite ==
  ASSUME NEW list \in Seq(Appearances), NEW act, NEW p
  PROVE  /\ IsFiniteSet(CapturingIn(act, p)) /\ Cardinality(CapturingIn(act, p)) \in Nat
         /\ Cardinality(WaitingFor(list, p)) \in Nat /\ IsFiniteSet(WaitingFor(list, p))
         /\ WaitingFor(list, p) = PlacesOf(list, {a \in Appearances : a.pokemon = p})
<1> DEFINE X == {a \in Appearances : a.pokemon = p}
<1>1. CapturingIn(act, p) \in SUBSET Trainers
  BY DEF CapturingIn
<1>2. DOMAIN list = 1..Len(list) /\ \A i \in 1..Len(list) : list[i] \in Appearances
  BY LenProperties, ElementOfSeq
<1>3. WaitingFor(list, p) = PlacesOf(list, X)
  BY <1>2 DEF WaitingFor, PlacesOf
<1> HIDE DEF X
<1>4. IsFiniteSet(PlacesOf(list, X)) /\ Cardinality(PlacesOf(list, X)) \in Nat
  BY PlacesAreFinite
<1> QED BY <1>1, <1>3, <1>4, TeamIsFinite DEF X

\* Whoever captures is counted.
LEMMA CaptureCounted ==
  ASSUME NEW list \in Seq(Appearances), NEW act \in [Trainers -> Activity],
         NEW progress \in [Pokemons -> Nat], Reserved(list, act, progress),
         NEW t \in Trainers, IsCapture(act[t])
  PROVE  act[t].pokemon \in Pokemons /\ progress[act[t].pokemon] > 0
<1> DEFINE p == act[t].pokemon
<1>1. p \in Pokemons
  BY Activities
<1>2. t \in CapturingIn(act, p)
  BY DEF CapturingIn
<1> HIDE DEF p
<1>3. /\ IsFiniteSet(CapturingIn(act, p)) /\ Cardinality(CapturingIn(act, p)) \in Nat
      /\ Cardinality(WaitingFor(list, p)) \in Nat
  BY CountsFinite
<1>4. Cardinality(CapturingIn(act, p)) # 0
  BY <1>2, <1>3, FS_EmptySet
<1>5. progress[p] = Cardinality(WaitingFor(list, p)) + Cardinality(CapturingIn(act, p))
  BY <1>1 DEF Reserved
<1> QED BY <1>1, <1>3, <1>4, <1>5 DEF p

\* What is taken, in a team of which the invariant holds, and what of it is in progress.
LEMMA TakenTyped ==
  ASSUME TeamInv
  PROVE  /\ Taken \in [Pokemons -> Nat] /\ currently_in_progress \in [Pokemons -> Nat]
         /\ counting # NoMessage => counting[1] \in Trainers /\ IsCapture(activity[counting[1]])
<1>1. StateTyped /\ Reserved(required_pokemons, activity, Taken) /\ BeingCounted
  BY DEF TeamInv
<1>2. ASSUME NEW p \in Pokemons
      PROVE  Taken[p] \in Nat
  <2>1. /\ Cardinality(WaitingFor(required_pokemons, p)) \in Nat
        /\ Cardinality(CapturingIn(activity, p)) \in Nat
    BY <1>1, CountsFinite DEF StateTyped
  <2> QED BY <1>1, <2>1 DEF Reserved
<1>3. Taken \in [Pokemons -> Nat]
  BY <1>2 DEF Taken
<1>4. counting # NoMessage =>
        /\ counting[1] \in Trainers /\ counting[2] \in Pokemons
        /\ IsCapture(activity[counting[1]]) /\ activity[counting[1]].pokemon = counting[2]
  BY <1>1 DEF StateTyped, BeingCounted, IsCapture
<1>5. counting # NoMessage => Taken[counting[2]] > 0
  <2> SUFFICES ASSUME counting # NoMessage PROVE Taken[counting[2]] > 0
    OBVIOUS
  <2>1. PICK t, taken : t = counting[1] /\ taken = Taken
    OBVIOUS
  <2>2. /\ t \in Trainers /\ IsCapture(activity[t]) /\ activity \in [Trainers -> Activity]
        /\ required_pokemons \in Seq(Appearances) /\ taken \in [Pokemons -> Nat]
        /\ Reserved(required_pokemons, activity, taken)
    BY <1>1, <1>3, <1>4, <2>1 DEF StateTyped
  <2>3. taken[activity[t].pokemon] > 0
    BY <2>2, CaptureCounted
  <2> QED BY <1>4, <2>1, <2>3
<1>6. ASSUME NEW p \in Pokemons
      PROVE  currently_in_progress[p] \in Nat
  <2>1. currently_in_progress[p] \in Int /\ Taken[p] = currently_in_progress[p] + Uncounted(p)
    BY <1>1 DEF StateTyped, Taken
  <2>2. CASE counting # NoMessage /\ counting[2] = p
    BY <1>2, <1>5, <2>1, <2>2 DEF Uncounted
  <2>3. CASE ~(counting # NoMessage /\ counting[2] = p)
    BY <1>2, <2>1, <2>3 DEF Uncounted
  <2> QED BY <2>2, <2>3
<1> QED BY <1>1, <1>3, <1>4, <1>6 DEF StateTyped

\* The invariant says what the properties do.
LEMMA TeamInvImplies == TeamInv => TypeOK /\ ReservationsKept
<1> SUFFICES ASSUME TeamInv PROVE TypeOK /\ ReservationsKept
  OBVIOUS
<1>1. TypeOK
  BY TakenTyped DEF TeamInv, TokenInv, PlanningTyped, StateTyped, TypeOK
<1>2. \A p \in Pokemons : CapturingIn(activity, p) = Capturing(p)
  BY DEF CapturingIn, IsCapture, Capturing
<1>3. ReservationsKept
  BY <1>2 DEF TeamInv, Reserved, WaitingFor, ReservationsKept, Taken
<1> QED BY <1>1, <1>3

\* What a step takes, or gives back.
LEMMA TakenStays ==
  ASSUME UNCHANGED <<currently_in_progress, counting>>
  PROVE  Taken' = Taken
BY DEF Taken, Uncounted

LEMMA TakenChanges ==
  ASSUME currently_in_progress \in [Pokemons -> Int], UNCHANGED counting, NEW p \in Pokemons
  PROVE  /\ currently_in_progress' = [currently_in_progress EXCEPT ![p] = @ - 1]
              => Taken' = [Taken EXCEPT ![p] = @ - 1]
         /\ currently_in_progress' = [currently_in_progress EXCEPT ![p] = @ + 1]
              => Taken' = [Taken EXCEPT ![p] = @ + 1]
<1>1. \A q \in Pokemons : /\ Uncounted(q)' = Uncounted(q) /\ Uncounted(q) \in Int
                          /\ Taken[q] = currently_in_progress[q] + Uncounted(q)
                          /\ Taken'[q] = currently_in_progress'[q] + Uncounted(q)
  BY DEF Taken, Uncounted
<1>2. DOMAIN Taken = Pokemons /\ DOMAIN Taken' = Pokemons
      /\ Taken = [q \in Pokemons |-> Taken[q]] /\ Taken' = [q \in Pokemons |-> Taken'[q]]
  BY DEF Taken
<1>3. ASSUME currently_in_progress' = [currently_in_progress EXCEPT ![p] = @ - 1]
      PROVE  \A q \in Pokemons : Taken'[q] = IF q = p THEN Taken[q] - 1 ELSE Taken[q]
  BY <1>1, <1>3
<1>4. ASSUME currently_in_progress' = [currently_in_progress EXCEPT ![p] = @ + 1]
      PROVE  \A q \in Pokemons : Taken'[q] = IF q = p THEN Taken[q] + 1 ELSE Taken[q]
  BY <1>1, <1>4
<1> QED BY <1>2, <1>3, <1>4

\* When all that is needed is caught, nothing is in progress and nobody captures.
LEMMA NothingInProgress ==
  ASSUME NEW list \in Seq(Appearances), NEW act \in [Trainers -> Activity],
         NEW progress \in [Pokemons -> Nat], NEW caught \in [Pokemons -> Nat],
         Reserved(list, act, progress), Enough(caught, progress),
         requirements_are_finished(caught)
  PROVE  /\ \A p \in Pokemons : progress[p] = 0
         /\ \A t \in Trainers : ~IsCapture(act[t])
<1>1. ASSUME NEW p \in Pokemons PROVE progress[p] = 0
  <2>1. caught[p] + progress[p] <= total_count[p] /\ caught[p] >= total_count[p]
    BY DEF Enough, requirements_are_finished
  <2>2. caught[p] \in Nat /\ progress[p] \in Nat /\ total_count[p] \in Nat
    BY TotalCountTyped
  <2> QED BY <2>1, <2>2
<1>2. ASSUME NEW t \in Trainers, IsCapture(act[t]) PROVE FALSE
  BY <1>1, <1>2, CaptureCounted
<1> QED BY <1>1, <1>2

\* Without captures, the same is reserved whatever else the trainers do.
LEMMA ReservedWithoutCaptures ==
  ASSUME NEW list, NEW act, NEW other, NEW progress, Reserved(list, act, progress),
         \A t \in Trainers : ~IsCapture(act[t]) /\ ~IsCapture(other[t])
  PROVE  Reserved(list, other, progress)
<1>1. \A p \in Pokemons : CapturingIn(act, p) = CapturingIn(other, p)
  BY DEF CapturingIn
<1> QED BY <1>1 DEF Reserved

-----------------------------------------------------------------------------
(* What a capture or a trade leaves *)

Statuses == {"NEW", "READY", "EXEC", "BLOCKED", "EXIT"}

\* From the activities and the ready queue that it leaves, a detection at most has one
\* trainer go to another one to trade, when nothing is left to catch.
Resumed(act0, queue0, caught, act, queue) ==
  \/ act = act0 /\ queue = queue0
  \/ /\ requirements_are_finished(caught)
     /\ \E root, u \in Trainers :
          /\ root # u
          /\ act = [act0 EXCEPT ![u] = [type |-> "TRADING", with |-> root]]
          /\ queue = Append(queue0, u)

\* What a detection does to what it is given, or nothing, is to resume.
LEMMA DetectedResumes ==
  ASSUME NEW after, after.status \in [Trainers -> Statuses], NEW caught, NEW s,
         s # after => requirements_are_finished(caught) /\ Detected(after, s)
  PROVE  /\ s.status \in [Trainers -> Statuses]
         /\ Resumed(after.activity, after.ready, caught, s.activity, s.ready)
<1>1. CASE s = after
  BY <1>1 DEF Resumed
<1>2. CASE s # after
  <2>1. PICK root \in Trainers, u \in Trainers :
          /\ root # u
          /\ s.status = [after.status EXCEPT ![root] = "BLOCKED", ![u] = "READY"]
          /\ s.activity = [after.activity EXCEPT ![u] = [type |-> "TRADING", with |-> root]]
          /\ s.ready = Append(after.ready, u)
    BY <1>2 DEF Detected
  <2>2. s.status \in [Trainers -> Statuses]
    BY <2>1 DEF Statuses
  <2> QED BY <1>2, <2>1, <2>2 DEF Resumed
<1> QED BY <1>1, <1>2

\* What a trainer has caught joins its pokemons, or leaves its targets.
LEMMA HoldIs ==
  ASSUME TeamInv, NEW t \in Trainers, IsCapture(activity[t]), Hold(t)
  PROVE  /\ pokemons' \in [Trainers -> Seq(Pokemons)] /\ targets' \in [Trainers -> Seq(Pokemons)]
         /\ activity[t].pokemon \in Pokemons
         /\ currently_in_progress' = [currently_in_progress EXCEPT ![activity[t].pokemon] = @ - 1]
         /\ currently_in_progress' \in [Pokemons -> Int]
<1> DEFINE p == activity[t].pokemon
           own == Diff([pokemons |-> Append(pokemons[t], p), targets |-> targets[t]])
<1>1. StateTyped
  BY DEF TeamInv
<1>2. p \in Pokemons
  BY <1>1, Activities DEF StateTyped
<1>3. own.pokemons \in Seq(Pokemons) /\ own.targets \in Seq(Pokemons)
  <2>1. Append(pokemons[t], p) \in Seq(Pokemons)
    BY <1>1, <1>2, AppendProperties DEF StateTyped
  <2>2. [pokemons |-> Append(pokemons[t], p), targets |-> targets[t]] \in Own
    BY <1>1, <2>1 DEF Own, StateTyped
  <2>3. own \in Own
    BY <2>2, DiffTyped
  <2> HIDE DEF own
  <2> QED BY <2>3 DEF Own
<1>4. /\ pokemons' = [pokemons EXCEPT ![t] = own.pokemons]
      /\ targets' = [targets EXCEPT ![t] = own.targets]
      /\ currently_in_progress' = [currently_in_progress EXCEPT ![p] = @ - 1]
  BY DEF Hold
<1> HIDE DEF own
<1>5. pokemons' \in [Trainers -> Seq(Pokemons)] /\ targets' \in [Trainers -> Seq(Pokemons)]
  BY <1>1, <1>3, <1>4 DEF StateTyped
<1>6. currently_in_progress' \in [Pokemons -> Int]
  <2> HIDE DEF p
  <2> QED BY <1>1, <1>2, <1>4 DEF StateTyped
<1> QED BY <1>2, <1>4, <1>5, <1>6

\* The count of a catch ends the trainer's activity.
LEMMA CountIs ==
  ASSUME TeamInv, NEW t \in Trainers, NEW p, NEW completed \in {"NEW", "EXIT"},
         Count(t, p, completed)
  PROVE  /\ total_caught' = [total_caught EXCEPT ![p] = @ + 1]
         /\ finished' \in BOOLEAN /\ status' \in [Trainers -> Statuses]
         /\ Resumed([activity EXCEPT ![t] = NoActivity], ready_queue, total_caught',
                    activity', ready_queue')
<1> DEFINE st0 == [status EXCEPT ![t] = IF targets'[t] = <<>> THEN completed ELSE "NEW"]
           act0 == [activity EXCEPT ![t] = NoActivity]
           after == [status |-> st0, activity |-> act0, ready |-> ready_queue]
<1>1. StateTyped
  BY DEF TeamInv
<1>2. /\ total_caught' = [total_caught EXCEPT ![p] = @ + 1]
      /\ finished' = is_globally_completed(targets')
  BY DEF Count
<1>3. \E s : /\ \/ s = after
                \/ /\ requirements_are_finished(total_caught')
                   /\ Detected(after, s)
             /\ status' = s.status /\ activity' = s.activity /\ ready_queue' = s.ready
  <2>1. Detected(after, detect_circular_chains(pokemons', targets', after))
    <3> HIDE DEF after
    <3> QED BY DetectionIs
  <2>2. \E s : /\ s = IF requirements_are_finished(total_caught') /\ ~finished'
                      THEN detect_circular_chains(pokemons', targets', after) ELSE after
               /\ status' = s.status /\ activity' = s.activity /\ ready_queue' = s.ready
    BY DEF Count
  <2> HIDE DEF after
  <2> QED BY <2>1, <2>2
<1>4. /\ after.status = st0 /\ after.activity = act0 /\ after.ready = ready_queue
      /\ st0 \in [Trainers -> Statuses]
  <2>1. st0 \in [Trainers -> Statuses]
    BY <1>1 DEF StateTyped, Statuses
  <2> HIDE DEF st0, act0
  <2> QED BY <2>1
<1> HIDE DEF after, st0, act0
<1>5. /\ status' \in [Trainers -> Statuses]
      /\ Resumed(act0, ready_queue, total_caught', activity', ready_queue')
  <2>1. PICK s : /\ \/ s = after
                    \/ /\ requirements_are_finished(total_caught')
                       /\ Detected(after, s)
                 /\ status' = s.status /\ activity' = s.activity /\ ready_queue' = s.ready
    BY <1>3
  <2>2. PICK caught : caught = total_caught'
    OBVIOUS
  <2>3. requirements_are_finished(total_caught') <=> requirements_are_finished(caught)
    BY <2>2
  <2>4. s # after => requirements_are_finished(caught) /\ Detected(after, s)
    BY <2>1, <2>3
  <2>5. /\ s.status \in [Trainers -> Statuses]
        /\ Resumed(after.activity, after.ready, caught, s.activity, s.ready)
    <3>1. after.status \in [Trainers -> Statuses]
      BY <1>4
    <3> QED BY <2>4, <3>1, DetectedResumes
  <2> QED BY <1>4, <2>1, <2>2, <2>5
<1>6. finished' \in BOOLEAN
  BY <1>2 DEF is_globally_completed
<1> QED BY <1>2, <1>5, <1>6 DEF act0

\* A trade ends that of both trainers.
LEMMA TradeIs ==
  ASSUME TeamInv, NEW t \in Trainers, Trade(t)
  PROVE  /\ pokemons' \in [Trainers -> Seq(Pokemons)] /\ targets' \in [Trainers -> Seq(Pokemons)]
         /\ finished' \in BOOLEAN /\ status' \in [Trainers -> Statuses]
         /\ \E friend \in Trainers :
              Resumed([activity EXCEPT ![t] = NoActivity, ![friend] = NoActivity],
                      RemoveFirst(ready_queue, t), total_caught, activity', ready_queue')
<1> DEFINE friend == activity[t].with
           trade == Traded(t, friend)
           st0 == [status EXCEPT ![t] = "NEW", ![friend] = "NEW"]
           act0 == [activity EXCEPT ![t] = NoActivity, ![friend] = NoActivity]
           queue0 == RemoveFirst(ready_queue, t)
           after == [status |-> st0, activity |-> act0, ready |-> queue0]
<1>1. StateTyped /\ requirements_are_finished(total_caught)
  BY DEF TeamInv, TradingLate, Trade
<1>2. friend \in Trainers
  BY <1>1, Activities DEF StateTyped, Trade
<1>3. trade.has \in [Trainers -> Seq(Pokemons)] /\ trade.needs \in [Trainers -> Seq(Pokemons)]
  BY <1>1, <1>2, TradeTyped DEF Traded, StateTyped
<1>4. /\ pokemons' = trade.has /\ targets' = trade.needs
      /\ finished' = is_globally_completed(trade.needs)
  BY DEF Trade
<1>5. \E s : /\ Detected(after, s)
             /\ status' = s.status /\ activity' = s.activity /\ ready_queue' = s.ready
  <2>1. \E s : /\ s = detect_circular_chains(trade.has, trade.needs, after)
               /\ status' = s.status /\ activity' = s.activity /\ ready_queue' = s.ready
    BY DEF Trade
  <2> HIDE DEF after, trade
  <2> QED BY <2>1, DetectionIs
<1>6. /\ after.status = st0 /\ after.activity = act0 /\ after.ready = queue0
      /\ st0 \in [Trainers -> Statuses]
  <2>1. st0 \in [Trainers -> Statuses]
    <3> HIDE DEF friend
    <3> QED BY <1>1, <1>2 DEF StateTyped, Statuses
  <2> HIDE DEF st0, act0, queue0
  <2> QED BY <2>1
<1> HIDE DEF after, st0, act0, queue0
<1>7. /\ status' \in [Trainers -> Statuses]
      /\ Resumed(act0, queue0, total_caught, activity', ready_queue')
  <2>1. PICK s : /\ Detected(after, s)
                 /\ status' = s.status /\ activity' = s.activity /\ ready_queue' = s.ready
    BY <1>5
  <2>2. /\ s.status \in [Trainers -> Statuses]
        /\ Resumed(after.activity, after.ready, total_caught, s.activity, s.ready)
    BY <1>1, <1>6, <2>1, DetectedResumes
  <2> QED BY <1>6, <2>1, <2>2
<1>8. finished' \in BOOLEAN
  BY <1>4 DEF is_globally_completed
<1>9. Resumed([activity EXCEPT ![t] = NoActivity, ![friend] = NoActivity],
              RemoveFirst(ready_queue, t), total_caught, activity', ready_queue')
  BY <1>7 DEF act0, queue0
<1> HIDE DEF friend, trade
<1> QED BY <1>2, <1>3, <1>4, <1>7, <1>8, <1>9

-----------------------------------------------------------------------------
(* The steps of the team *)

\* What the activities are then: all that was reserved still is, and one trainer trades if
\* nothing is left to catch.
Settled(list, act0, progress, caught, act) ==
  /\ act \in [Trainers -> Activity] /\ Reserved(list, act, progress)
  /\ (\E u \in Trainers : act[u].type = "TRADING") => requirements_are_finished(caught)
  /\ \A u, v \in Trainers : act[u].type = "TRADING" /\ act[v].type = "TRADING" => u = v
  /\ \A u \in Trainers : IsCapture(act0[u]) => act[u] = act0[u]

\* A trainer that a detection sends to trade keeps nobody from what it has reserved.
LEMMA ResumedKeeps ==
  ASSUME NEW list \in Seq(Appearances), NEW act0 \in [Trainers -> Activity],
         NEW progress \in [Pokemons -> Nat], NEW caught \in [Pokemons -> Nat],
         Reserved(list, act0, progress), Enough(caught, progress),
         \A u \in Trainers : act0[u].type # "TRADING",
         NEW queue0, NEW act, NEW queue, Resumed(act0, queue0, caught, act, queue)
  PROVE  Settled(list, act0, progress, caught, act)
<1>1. CASE act = act0
  BY <1>1 DEF Settled
<1>2. CASE act # act0
  <2>1. requirements_are_finished(caught)
    BY <1>2 DEF Resumed
  <2>2. PICK root \in Trainers, u \in Trainers :
          act = [act0 EXCEPT ![u] = [type |-> "TRADING", with |-> root]]
    BY <1>2 DEF Resumed
  <2>3. [type |-> "TRADING", with |-> root] \in Activity
    BY DEF Activity
  <2>4. act \in [Trainers -> Activity] /\ act[u].type = "TRADING"
        /\ \A v \in Trainers : v # u => act[v] = act0[v]
    BY <2>2, <2>3
  <2>5. \A v \in Trainers : ~IsCapture(act0[v])
    BY <2>1, NothingInProgress
  <2>6. \A v \in Trainers : ~IsCapture(act[v])
    BY <2>4, <2>5 DEF IsCapture
  <2>7. Reserved(list, act, progress)
    BY <2>5, <2>6, ReservedWithoutCaptures
  <2>8. \A v \in Trainers : act[v].type = "TRADING" => v = u
    BY <2>4
  <2> QED BY <2>1, <2>4, <2>5, <2>7, <2>8 DEF Settled
<1> QED BY <1>1, <1>2

\* Without a trainer's capture, its pokemon is one less in progress.
LEMMA CaptureReleased ==
  ASSUME NEW list \in Seq(Appearances), NEW act \in [Trainers -> Activity],
         NEW progress \in [Pokemons -> Nat], Reserved(list, act, progress),
         NEW t \in Trainers, IsCapture(act[t])
  PROVE  /\ [act EXCEPT ![t] = NoActivity] \in [Trainers -> Activity]
         /\ [progress EXCEPT ![act[t].pokemon] = @ - 1] \in [Pokemons -> Nat]
         /\ Reserved(list, [act EXCEPT ![t] = NoActivity],
                     [progress EXCEPT ![act[t].pokemon] = @ - 1])
<1> DEFINE p == act[t].pokemon
           act0 == [act EXCEPT ![t] = NoActivity]
           progress0 == [progress EXCEPT ![p] = @ - 1]
<1>1. p \in Pokemons /\ progress[p] > 0
  BY CaptureCounted
<1>2. act0 \in [Trainers -> Activity]
  BY DEF Activity
<1>3. progress0 \in [Pokemons -> Nat]
  <2> HIDE DEF p
  <2> QED BY <1>1
<1>4. ASSUME NEW q \in Pokemons
      PROVE  progress0[q] = Cardinality(WaitingFor(list, q)) + Cardinality(CapturingIn(act0, q))
  <2>1. progress[q] = Cardinality(WaitingFor(list, q)) + Cardinality(CapturingIn(act, q))
    BY DEF Reserved
  <2>2. /\ IsFiniteSet(CapturingIn(act, q)) /\ Cardinality(CapturingIn(act, q)) \in Nat
        /\ Cardinality(WaitingFor(list, q)) \in Nat
    BY CountsFinite
  <2>3. CapturingIn(act0, q) = CapturingIn(act, q) \ {t}
    BY Activities DEF CapturingIn, NoActivity, IsCapture
  <2>4. t \in CapturingIn(act, q) <=> q = p
    BY DEF CapturingIn
  <2>5. Cardinality(CapturingIn(act0, q))
          = IF q = p THEN Cardinality(CapturingIn(act, q)) - 1 ELSE Cardinality(CapturingIn(act, q))
    BY <2>2, <2>3, <2>4, FS_RemoveElement
  <2>6. progress0[q] = IF q = p THEN progress[q] - 1 ELSE progress[q]
    BY <1>1
  <2> HIDE DEF p, act0, progress0
  <2> QED BY <2>1, <2>2, <2>5, <2>6
<1>5. Reserved(list, act0, progress0)
  <2> HIDE DEF act0, progress0
  <2> QED BY <1>4 DEF Reserved
<1> QED BY <1>2, <1>3, <1>5

\* Steps that leave the activities and the requirements as they are.
LEMMA QuietKeeps ==
  ASSUME TeamInv, TokenInv',
         UNCHANGED <<planning_alg, pokemons, targets, activity, total_caught,
                     currently_in_progress, required_pokemons, counting>>,
         receiver' \in [Receivers -> {NoMessage} \cup {<<a>> : a \in Appearances}],
         has_broker_connection' \in BOOLEAN, finished' \in BOOLEAN, crashed' \in BOOLEAN,
         x' \in [Trainers -> Positions], status' \in [Trainers -> Statuses],
         quantum_counter' \in [Trainers -> 0..Quantum],
         trading_counter' \in [Trainers -> 0..TradingCycles],
         AtWork', QuantumLeft'
  PROVE  TeamInv'
<1>1. StateTyped'
  BY DEF TeamInv, StateTyped, Statuses
<1>2. Taken' = Taken
  BY TakenStays
<1>3. Reserved(required_pokemons, activity, Taken)' /\ OnlyNeeded'
  BY <1>2 DEF TeamInv, OnlyNeeded, Enough
<1>4. BeingCounted' /\ TradingLate' /\ OneTrading'
  BY DEF TeamInv, BeingCounted, TradingLate, OneTrading, requirements_are_finished
<1> QED BY <1>1, <1>3, <1>4 DEF TeamInv

\* A trainer that begins its cycle has had some of its quantum left.
LEMMA CycleKeeps ==
  ASSUME TeamInv, NEW t \in Trainers, NEW next \in {"send", "register", "end"}, Cycle(t, next),
         UNCHANGED <<planning_alg, activity>>,
         next \in {"send", "register"} => activity[t].type = "CAPTURING"
  PROVE  /\ quantum_counter' \in [Trainers -> 0..Quantum]
         /\ AtWork' /\ QuantumLeft'
<1>1. /\ quantum_counter \in [Trainers -> 0..Quantum]
      /\ pc \in [Trainers -> {"wait", "send", "register", "end"}]
      /\ planning_alg \in {"FIFO", "RR"} /\ Quantum \in Nat \ {0}
  BY TeamAssumption DEF TeamInv, StateTyped, TokenInv, PlanningTyped, TeamAssumption
<1>2. /\ pc[t] = "wait" /\ pc' = [pc EXCEPT ![t] = next]
      /\ quantum_counter' = [quantum_counter EXCEPT ![t] = IF planning_alg = "RR" THEN @ + 1 ELSE @]
  BY DEF Cycle
<1>3. planning_alg = "RR" => quantum_counter[t] < Quantum
  BY <1>2 DEF TeamInv, QuantumLeft
<1>4. quantum_counter' \in [Trainers -> 0..Quantum]
  BY <1>1, <1>2, <1>3
<1>5. QuantumLeft'
  <2> SUFFICES ASSUME planning_alg' = "RR", NEW u \in Trainers, pc'[u] = "wait"
               PROVE  quantum_counter'[u] < Quantum
    BY DEF QuantumLeft
  <2>1. u # t
    BY <1>1, <1>2
  <2>2. pc[u] = "wait" /\ quantum_counter'[u] = quantum_counter[u]
    BY <1>1, <1>2, <2>1
  <2> QED BY <2>2 DEF TeamInv, QuantumLeft
<1>6. AtWork'
  <2> SUFFICES ASSUME NEW u \in Trainers, pc'[u] \in {"send", "register"}
               PROVE  activity[u].type = "CAPTURING"
    BY DEF AtWork
  <2>1. CASE u = t
    BY <1>1, <1>2, <2>1
  <2>2. CASE u # t
    BY <1>1, <1>2, <2>2 DEF TeamInv, AtWork
  <2> QED BY <2>1, <2>2
<1> QED BY <1>4, <1>5, <1>6

\* The planner's steps but for the assignment.
LEMMA PlannerKeepsTeam ==
  ASSUME TeamInv, TokenInv', Wake \/ Sort \/ Test \/ Lock \/ Unlock
  PROVE  TeamInv'
<1>1. UNCHANGED <<config, x, pokemons, targets, activity, quantum_counter, trading_counter, pc,
                  requirements, required_pokemons, messages, finished>>
  BY DEF Wake, Sort, Test, Lock, Unlock, trainer, thread, outcome
<1>2. UNCHANGED <<planning_alg, has_broker_connection, x, pokemons, targets, activity,
                  quantum_counter, trading_counter, pc, total_caught, currently_in_progress,
                  required_pokemons, receiver, counting, finished>>
  BY <1>1 DEF config, requirements, messages
<1>3. StateTyped /\ AtWork /\ QuantumLeft /\ ready_queue \in Seq(Trainers)
  BY DEF TeamInv, TokenInv, PlanningTyped
<1>4. status' \in [Trainers -> Statuses]
  <2>1. CASE Sort
    <3>1. CASE ready_queue # <<>> /\ executing_trainer = Nobody
      <4>1. Head(ready_queue) \in Trainers
        BY <1>3, <3>1, HeadTailProperties
      <4>2. status' = [status EXCEPT ![Head(ready_queue)] = "EXEC"]
        BY <2>1, <3>1 DEF Sort
      <4> QED BY <1>3, <4>1, <4>2 DEF StateTyped, Statuses
    <3>2. CASE ~(ready_queue # <<>> /\ executing_trainer = Nobody)
      BY <1>3, <2>1, <3>2 DEF Sort, StateTyped, Statuses
    <3> QED BY <3>1, <3>2
  <2>2. CASE Wake \/ Test \/ Lock \/ Unlock
    BY <1>3, <2>2 DEF Wake, Test, Lock, Unlock, trainer, StateTyped, Statuses
  <2> QED BY <2>1, <2>2
<1>5. crashed' \in BOOLEAN
  BY <1>3 DEF Wake, Sort, Test, Lock, Unlock, outcome, StateTyped
<1>6. AtWork' /\ QuantumLeft'
  BY <1>2, <1>3 DEF AtWork, QuantumLeft
<1> QED BY <1>2, <1>3, <1>4, <1>5, <1>6, QuietKeeps DEF StateTyped

\* A trainer's steps but for the catch, the capture and the trade.
LEMMA TrainerKeepsTeam ==
  ASSUME TeamInv, TokenInv', NEW t \in Trainers,
         \/ CycleOfNothing(t) \/ Move(t) \/ Arrive(t) \/ CycleAwaiting(t) \/ WaitToTrade(t)
         \/ EndCycle(t)
  PROVE  TeamInv'
<1>1. UNCHANGED <<config, pokemons, targets, status, activity, requirements, required_pokemons,
                  messages, finished>>
  BY DEF CycleOfNothing, Move, Arrive, CycleAwaiting, WaitToTrade, EndCycle, trainer, outcome
<1>2. UNCHANGED <<planning_alg, has_broker_connection, pokemons, targets, status, activity,
                  total_caught, currently_in_progress, required_pokemons, receiver, counting, finished>>
  BY <1>1 DEF config, requirements, messages
<1>3. StateTyped /\ AtWork /\ QuantumLeft /\ Quantum \in Nat \ {0}
      /\ pc \in [Trainers -> {"wait", "send", "register", "end"}]
  BY TeamAssumption DEF TeamInv, TeamAssumption, TokenInv, PlanningTyped
<1>4. CASE CycleOfNothing(t) \/ Move(t) \/ Arrive(t) \/ CycleAwaiting(t) \/ WaitToTrade(t)
  <2>1. PICK next \in {"send", "register", "end"} :
          Cycle(t, next) /\ (next \in {"send", "register"} => activity[t].type = "CAPTURING")
    BY <1>4 DEF CycleOfNothing, Move, Arrive, CycleAwaiting, WaitToTrade
  <2>2. quantum_counter' \in [Trainers -> 0..Quantum] /\ AtWork' /\ QuantumLeft'
    BY <1>2, <2>1, CycleKeeps
  <2>3. x' \in [Trainers -> Positions]
    <3>1. CASE Move(t)
      <4>1. /\ x[t] # Goal(t)
            /\ x' = [x EXCEPT ![t] = IF @ < Goal(t) THEN @ + 1 ELSE @ - 1]
            /\ activity[t].type \in {"CAPTURING", "TRADING"}
        BY <3>1 DEF Move
      <4>2. Goal(t) \in Positions
        BY <1>3, <4>1, Activities DEF Goal, StateTyped, IsCapture
      <4>3. x[t] \in Positions /\ x \in [Trainers -> Positions]
        BY <1>3 DEF StateTyped
      <4>4. x[t] \in Int /\ Goal(t) \in Int /\ x[t]..Goal(t) \subseteq Positions
            /\ Goal(t)..x[t] \subseteq Positions
        BY <4>2, <4>3, TeamAssumption DEF TeamAssumption
      <4>5. (IF x[t] < Goal(t) THEN x[t] + 1 ELSE x[t] - 1) \in Positions
        <5>1. CASE x[t] < Goal(t)
          <6>1. x[t] + 1 \in x[t]..Goal(t)
            BY <4>4, <5>1
          <6> QED BY <4>4, <5>1, <6>1
        <5>2. CASE ~(x[t] < Goal(t))
          <6>1. x[t] - 1 \in Goal(t)..x[t]
            BY <4>1, <4>4, <5>2
          <6> QED BY <4>4, <5>2, <6>1
        <5> QED BY <5>1, <5>2
      <4> QED BY <4>1, <4>3, <4>5
    <3>2. CASE ~Move(t)
      BY <1>3, <1>4, <3>2
         DEF CycleOfNothing, Arrive, CycleAwaiting, WaitToTrade, trainer, StateTyped
    <3> QED BY <3>1, <3>2
  <2>4. trading_counter' \in [Trainers -> 0..TradingCycles]
    <3>1. CASE WaitToTrade(t)
      BY <1>3, <3>1, TeamAssumption DEF WaitToTrade, StateTyped, TeamAssumption
    <3>2. CASE ~WaitToTrade(t)
      BY <1>3, <1>4, <3>2 DEF CycleOfNothing, Move, Arrive, CycleAwaiting, StateTyped
    <3> QED BY <3>1, <3>2
  <2>5. crashed' \in BOOLEAN
    BY <1>3, <1>4 DEF CycleOfNothing, Move, Arrive, CycleAwaiting, WaitToTrade, outcome, StateTyped
  <2> QED BY <1>2, <1>3, <2>2, <2>3, <2>4, <2>5, QuietKeeps DEF StateTyped, Statuses
<1>5. CASE EndCycle(t)
  <2>1. /\ pc[t] = "end" /\ pc' = [pc EXCEPT ![t] = "wait"]
        /\ UNCHANGED <<x, trading_counter, crashed>>
        /\ quantum_counter' = IF QuantumOver(t) THEN [quantum_counter EXCEPT ![t] = 0]
                                                ELSE quantum_counter
    BY <1>5 DEF EndCycle, trainer, outcome
  <2>2. quantum_counter' \in [Trainers -> 0..Quantum]
    BY <1>3, <2>1 DEF StateTyped
  <2>3. AtWork'
    BY <1>2, <1>3, <2>1 DEF AtWork
  <2>4. QuantumLeft'
    <3> SUFFICES ASSUME planning_alg' = "RR", NEW u \in Trainers, pc'[u] = "wait"
                 PROVE  quantum_counter'[u] < Quantum
      BY DEF QuantumLeft
    <3>1. CASE u = t
      <4>1. CASE QuantumOver(t)
        BY <1>3, <2>1, <3>1, <4>1 DEF StateTyped
      <4>2. CASE ~QuantumOver(t)
        <5>1. quantum_counter[t] # Quantum /\ quantum_counter[t] \in 0..Quantum
          BY <1>2, <1>3, <4>2 DEF QuantumOver, StateTyped
        <5> QED BY <1>3, <2>1, <3>1, <4>2, <5>1
      <4> QED BY <4>1, <4>2
    <3>2. CASE u # t
      <4>1. pc[u] = "wait" /\ quantum_counter'[u] = quantum_counter[u]
        BY <1>3, <2>1, <3>2 DEF StateTyped
      <4> QED BY <1>2, <1>3, <4>1 DEF QuantumLeft
    <3> QED BY <3>1, <3>2
  <2> QED BY <1>2, <1>3, <2>1, <2>2, <2>3, <2>4, QuietKeeps DEF StateTyped, Statuses
<1> QED BY <1>4, <1>5

\* The broker is connected to.
LEMMA ConnectKeepsTeam ==
  ASSUME TeamInv, TokenInv', Connect
  PROVE  TeamInv'
<1>1. UNCHANGED <<planning_alg, trainer, thread, requirements, required_pokemons, messages,
                  outcome>> /\ has_broker_connection' = TRUE
  BY DEF Connect
<1>2. UNCHANGED <<planning_alg, x, pokemons, targets, status, activity, quantum_counter,
                  trading_counter, pc, total_caught, currently_in_progress, required_pokemons,
                  receiver, counting, finished, crashed>>
  BY <1>1 DEF trainer, thread, requirements, messages, outcome
<1>3. StateTyped /\ AtWork /\ QuantumLeft
  BY DEF TeamInv
<1>4. AtWork' /\ QuantumLeft'
  BY <1>2, <1>3 DEF AtWork, QuantumLeft
<1> QED BY <1>1, <1>2, <1>3, <1>4, QuietKeeps DEF StateTyped, Statuses

-----------------------------------------------------------------------------
(* Requirements *)

\* A thread finds a pokemon required.
LEMMA AppearKeepsTeam ==
  ASSUME TeamInv, TokenInv', NEW r \in Receivers, NEW a \in Appearances, Appear(r, a)
  PROVE  TeamInv'
<1>1. /\ receiver' = [receiver EXCEPT ![r] = <<a>>]
      /\ UNCHANGED <<config, trainer, thread, requirements, required_pokemons, counting, outcome>>
  BY DEF Appear
<1>2. UNCHANGED <<planning_alg, has_broker_connection, x, pokemons, targets, status, activity,
                  quantum_counter, trading_counter, pc, total_caught, currently_in_progress,
                  required_pokemons, counting, finished, crashed>>
  BY <1>1 DEF config, trainer, thread, requirements, outcome
<1>3. StateTyped /\ AtWork /\ QuantumLeft
  BY DEF TeamInv
<1>4. receiver' \in [Receivers -> {NoMessage} \cup {<<b>> : b \in Appearances}]
  BY <1>1, <1>3 DEF StateTyped
<1>5. AtWork' /\ QuantumLeft'
  BY <1>2, <1>3 DEF AtWork, QuantumLeft
<1> QED BY <1>2, <1>3, <1>4, <1>5, QuietKeeps DEF StateTyped, Statuses

\* The pokemon is put on the list, and in progress.
LEMMA RequireKeepsTeam ==
  ASSUME TeamInv, TokenInv', OnlyNeeded', NEW r \in Receivers, Require(r)
  PROVE  TeamInv'
<1> DEFINE a == receiver[r][1]
           p == a.pokemon
<1>1. /\ receiver[r] # NoMessage
      /\ currently_in_progress' = [currently_in_progress EXCEPT ![p] = @ + 1]
      /\ required_pokemons' = Append(required_pokemons, a)
      /\ receiver' = [receiver EXCEPT ![r] = NoMessage]
      /\ UNCHANGED <<config, trainer, thread, total_caught, counting, outcome>>
  BY DEF Require
<1>2. UNCHANGED <<planning_alg, has_broker_connection, x, pokemons, targets, status, activity,
                  quantum_counter, trading_counter, pc, total_caught, counting, finished,
                  crashed>>
  BY <1>1 DEF config, trainer, thread, outcome
<1>3. StateTyped
  BY DEF TeamInv
<1>4. a \in Appearances /\ p \in Pokemons
  <2>1. receiver[r] \in {<<b>> : b \in Appearances}
    BY <1>1, <1>3 DEF StateTyped
  <2>2. a \in Appearances
    BY <2>1
  <2> QED BY <2>2 DEF Appearances
<1> HIDE DEF a, p
<1>5. Taken' = [Taken EXCEPT ![p] = @ + 1] /\ Taken \in [Pokemons -> Nat]
  BY <1>1, <1>3, <1>4, TakenChanges, TakenTyped DEF StateTyped
<1>6. /\ currently_in_progress' \in [Pokemons -> Int]
      /\ required_pokemons' \in Seq(Appearances)
      /\ receiver' \in [Receivers -> {NoMessage} \cup {<<b>> : b \in Appearances}]
  BY <1>1, <1>3, <1>4, AppendProperties DEF StateTyped
<1>7. StateTyped'
  BY <1>2, <1>3, <1>6 DEF StateTyped
<1>8. Reserved(required_pokemons, activity, Taken)'
  <2> SUFFICES ASSUME NEW q \in Pokemons
               PROVE  Taken'[q] = Cardinality(WaitingFor(required_pokemons', q))
                            + Cardinality(CapturingIn(activity', q))
    BY DEF Reserved
  <2>1. Taken[q] = Cardinality(WaitingFor(required_pokemons, q))
                     + Cardinality(CapturingIn(activity, q))
    BY DEF TeamInv, Reserved
  <2>2. /\ Cardinality(WaitingFor(required_pokemons, q)) \in Nat
        /\ Cardinality(CapturingIn(activity, q)) \in Nat
    BY <1>3, CountsFinite DEF StateTyped
  <2>3. Cardinality(WaitingFor(required_pokemons', q))
          = Cardinality(WaitingFor(required_pokemons, q)) + (IF p = q THEN 1 ELSE 0)
    <3> DEFINE X == {b \in Appearances : b.pokemon = q}
    <3>1. /\ WaitingFor(required_pokemons, q) = PlacesOf(required_pokemons, X)
          /\ WaitingFor(Append(required_pokemons, a), q) = PlacesOf(Append(required_pokemons, a), X)
      <4>1. /\ required_pokemons \in Seq(Appearances)
            /\ Append(required_pokemons, a) \in Seq(Appearances)
        BY <1>3, <1>4, AppendProperties DEF StateTyped
      <4> QED BY <1>3, <4>1, CountsFinite DEF StateTyped
    <3>2. a \in X <=> p = q
      BY <1>4 DEF p
    <3> HIDE DEF X
    <3>3. Cardinality(PlacesOf(Append(required_pokemons, a), X))
            = Cardinality(PlacesOf(required_pokemons, X)) + (IF a \in X THEN 1 ELSE 0)
      BY <1>3, <1>4, CountAppend DEF StateTyped
    <3> QED BY <1>1, <3>1, <3>2, <3>3
  <2>4. Taken'[q] = Taken[q] + (IF p = q THEN 1 ELSE 0)
    BY <1>4, <1>5
  <2>5. activity' = activity
    BY <1>2
  <2> QED BY <2>1, <2>2, <2>3, <2>4, <2>5
<1>9. BeingCounted'
  BY <1>2 DEF TeamInv, BeingCounted
<1>10. AtWork' /\ TradingLate' /\ OneTrading' /\ QuantumLeft'
  BY <1>2 DEF TeamInv, AtWork, TradingLate, OneTrading, QuantumLeft, requirements_are_finished
<1> QED BY <1>7, <1>8, <1>9, <1>10 DEF TeamInv

\* A pokemon that has escaped is no longer in progress.
LEMMA EscapedKeepsTeam ==
  ASSUME TeamInv, TokenInv', OnlyNeeded', NEW t \in Trainers, Escaped(t)
  PROVE  TeamInv'
<1> DEFINE p == activity[t].pokemon
<1>1. /\ IsCapture(activity[t]) /\ counting = NoMessage /\ counting' = NoMessage
      /\ currently_in_progress' = [currently_in_progress EXCEPT ![p] = @ - 1]
      /\ activity' = [activity EXCEPT ![t] = NoActivity]
      /\ status' = [status EXCEPT ![t] = "NEW"]
      /\ UNCHANGED <<config, x, pokemons, targets, thread, total_caught, required_pokemons,
                     receiver, outcome>>
  BY DEF Escaped, Hears, Waits, messages, IsCapture
<1>2. UNCHANGED <<planning_alg, has_broker_connection, x, pokemons, targets, quantum_counter,
                  trading_counter, pc, total_caught, required_pokemons, receiver, finished,
                  crashed>>
  BY <1>1 DEF config, thread, outcome
<1>3. StateTyped /\ Reserved(required_pokemons, activity, Taken)
  BY DEF TeamInv
<1>4. p \in Pokemons
  BY <1>1, <1>3, Activities DEF StateTyped
<1>5. PICK taken : taken = Taken
  OBVIOUS
<1>6. taken \in [Pokemons -> Nat]
  BY <1>5, TakenTyped
<1>7. /\ [activity EXCEPT ![t] = NoActivity] \in [Trainers -> Activity]
      /\ Reserved(required_pokemons, [activity EXCEPT ![t] = NoActivity],
                  [taken EXCEPT ![activity[t].pokemon] = @ - 1])
  BY <1>1, <1>3, <1>5, <1>6, CaptureReleased DEF StateTyped
<1> HIDE DEF p
<1>8. /\ Taken' = [taken EXCEPT ![p] = @ - 1]
      /\ currently_in_progress' \in [Pokemons -> Int]
  <2>1. currently_in_progress \in [Pokemons -> Int]
    BY <1>3 DEF StateTyped
  <2>2. UNCHANGED counting
    BY <1>1
  <2>3. Taken' = [Taken EXCEPT ![p] = @ - 1]
    BY <1>1, <1>4, <2>1, <2>2, TakenChanges
  <2>4. currently_in_progress' \in [Pokemons -> Int]
    BY <1>1, <1>4, <2>1
  <2> QED BY <1>5, <2>3, <2>4
<1>9. Reserved(required_pokemons, activity, Taken)'
  BY <1>1, <1>2, <1>7, <1>8 DEF p
<1>10. StateTyped'
  BY <1>1, <1>2, <1>3, <1>7, <1>8 DEF StateTyped
<1>11. \A u \in Trainers : activity'[u] = IF u = t THEN NoActivity ELSE activity[u]
  BY <1>1, <1>3 DEF StateTyped
<1>12. AtWork' /\ BeingCounted'
  <2>1. activity[t].type = "AWAITING_CAPTURE_RESULT"
    BY DEF Escaped, Hears
  <2> QED BY <1>1, <1>2, <1>11, <2>1 DEF TeamInv, AtWork, BeingCounted
<1>13. TradingLate' /\ OneTrading'
  <2>1. \A u \in Trainers : activity'[u].type = "TRADING" => activity[u].type = "TRADING"
    BY <1>11 DEF NoActivity
  <2> QED BY <1>2, <2>1 DEF TeamInv, TradingLate, OneTrading, requirements_are_finished
<1>14. QuantumLeft'
  BY <1>2 DEF TeamInv, QuantumLeft
<1> QED BY <1>9, <1>10, <1>12, <1>13, <1>14 DEF TeamInv

\* An assignment moves what is in progress from the list to a trainer.
LEMMA AssignKeepsTeam ==
  ASSUME TeamInv, TokenInv', Assign
  PROVE  TeamInv'
<1> DEFINE a == Head(required_pokemons)
           work == [type |-> "CAPTURING", pokemon |-> a.pokemon, x |-> a.x]
<1>1. PICK t \in Trainers :
        /\ IsClosest(t, a) /\ activity' = [activity EXCEPT ![t] = work]
        /\ status' = [status EXCEPT ![t] = "READY"]
  BY DEF Assign
<1>2. /\ required_pokemons # <<>> /\ required_pokemons' = Tail(required_pokemons)
      /\ UNCHANGED <<config, x, pokemons, targets, thread, requirements, messages, outcome>>
  BY DEF Assign
<1>3. UNCHANGED <<planning_alg, has_broker_connection, x, pokemons, targets, quantum_counter,
                  trading_counter, pc, total_caught, currently_in_progress, receiver, counting,
                  finished, crashed>>
  BY <1>2 DEF config, thread, requirements, messages, outcome
<1>4. StateTyped /\ Reserved(required_pokemons, activity, Taken)
      /\ Taken \in [Pokemons -> Nat] /\ Taken' = Taken
  BY <1>3, TakenTyped, TakenStays DEF TeamInv
<1>5. a \in Appearances /\ required_pokemons' \in Seq(Appearances)
  BY <1>2, <1>4, HeadTailProperties DEF StateTyped
<1>6. activity[t] = NoActivity
  BY <1>1 DEF IsClosest, Candidates, is_free
<1>7. work \in Activity /\ IsCapture(work) /\ work.pokemon = a.pokemon /\ work.type = "CAPTURING"
  BY <1>5 DEF Activity, IsCapture, Appearances
<1> HIDE DEF a, work
<1>8. \A u \in Trainers : activity'[u] = IF u = t THEN work ELSE activity[u]
  BY <1>1, <1>4 DEF StateTyped
<1>9. StateTyped'
  BY <1>1, <1>3, <1>4, <1>5, <1>7 DEF StateTyped
<1>10. Reserved(required_pokemons, activity, Taken)'
  <2> SUFFICES ASSUME NEW q \in Pokemons
               PROVE  Taken[q] = Cardinality(WaitingFor(required_pokemons', q))
                            + Cardinality(CapturingIn(activity', q))
    BY <1>4 DEF Reserved
  <2> DEFINE X == {b \in Appearances : b.pokemon = q}
             one == IF a.pokemon = q THEN 1 ELSE 0
  <2>1. Taken[q] = Cardinality(WaitingFor(required_pokemons, q))
                     + Cardinality(CapturingIn(activity, q))
    BY <1>4 DEF Reserved
  <2>2. /\ Cardinality(WaitingFor(required_pokemons, q)) \in Nat
        /\ Cardinality(WaitingFor(required_pokemons', q)) \in Nat
        /\ IsFiniteSet(CapturingIn(activity, q)) /\ Cardinality(CapturingIn(activity, q)) \in Nat
        /\ WaitingFor(required_pokemons, q) = PlacesOf(required_pokemons, X)
        /\ WaitingFor(required_pokemons', q) = PlacesOf(required_pokemons', X)
    BY <1>4, <1>5, CountsFinite DEF StateTyped
  <2>3. a \in X <=> a.pokemon = q
    BY <1>5
  <2> HIDE DEF X
  <2>4. Cardinality(PlacesOf(required_pokemons, X))
          = Cardinality(PlacesOf(required_pokemons', X)) + (IF a \in X THEN 1 ELSE 0)
    BY <1>2, <1>4, CountTail DEF StateTyped, a
  <2>5. t \notin CapturingIn(activity, q)
    BY <1>6, Activities DEF CapturingIn, IsCapture, NoActivity
  <2>6. CapturingIn(activity', q)
          = IF a.pokemon = q THEN CapturingIn(activity, q) \cup {t} ELSE CapturingIn(activity, q)
    <3>1. \A u \in Trainers : u \in CapturingIn(activity', q) <=>
                                IF u = t THEN a.pokemon = q ELSE u \in CapturingIn(activity, q)
      BY <1>7, <1>8 DEF CapturingIn
    <3>2. /\ CapturingIn(activity', q) \subseteq Trainers
          /\ CapturingIn(activity, q) \subseteq Trainers
      BY DEF CapturingIn
    <3> QED BY <2>5, <3>1, <3>2
  <2>7. Cardinality(CapturingIn(activity', q)) = Cardinality(CapturingIn(activity, q)) + one
    <3>1. Cardinality(CapturingIn(activity, q) \cup {t}) = Cardinality(CapturingIn(activity, q)) + 1
      BY <2>2, <2>5, FS_AddElement
    <3> QED BY <2>2, <2>6, <3>1
  <2> QED BY <2>1, <2>2, <2>3, <2>4, <2>7
<1>11. OnlyNeeded' /\ BeingCounted'
  <2>1. OnlyNeeded'
    BY <1>3, <1>4 DEF TeamInv, OnlyNeeded, Enough
  <2>2. counting # NoMessage => counting[1] # t
    BY <1>6 DEF TeamInv, BeingCounted, NoActivity
  <2> QED BY <1>3, <1>4, <1>8, <2>1, <2>2 DEF TeamInv, BeingCounted, StateTyped
<1>12. AtWork'
  BY <1>3, <1>7, <1>8 DEF TeamInv, AtWork
<1>13. TradingLate' /\ OneTrading'
  <2>1. \A u \in Trainers : activity'[u].type = "TRADING" => activity[u].type = "TRADING"
    BY <1>7, <1>8
  <2> QED BY <1>3, <2>1 DEF TeamInv, TradingLate, OneTrading, requirements_are_finished
<1>14. QuantumLeft'
  BY <1>3 DEF TeamInv, QuantumLeft
<1> QED BY <1>9, <1>10, <1>11, <1>12, <1>13, <1>14 DEF TeamInv

\* A trainer that has sent its catch still captures.
LEMMA SendCatchKeepsTeam ==
  ASSUME TeamInv, TokenInv', NEW t \in Trainers, SendCatch(t)
  PROVE  TeamInv'
<1>1. /\ pc[t] = "send" /\ pc' = [pc EXCEPT ![t] = "end"]
      /\ activity' = [activity EXCEPT ![t].type = "AWAITING_CAPTURE_RESULT"]
      /\ status' = [status EXCEPT ![t] = "BLOCKED"]
      /\ UNCHANGED <<config, x, pokemons, targets, quantum_counter, trading_counter,
                     requirements, required_pokemons, messages, outcome>>
  BY DEF SendCatch
<1>2. UNCHANGED <<planning_alg, has_broker_connection, x, pokemons, targets, quantum_counter,
                  trading_counter, total_caught, currently_in_progress, required_pokemons,
                  receiver, counting, finished, crashed>>
  BY <1>1 DEF config, requirements, messages, outcome
<1>3. StateTyped /\ pc \in [Trainers -> {"wait", "send", "register", "end"}]
      /\ activity[t].type = "CAPTURING"
  BY <1>1 DEF TeamInv, TokenInv, PlanningTyped, AtWork
<1>4. PICK work : work = [activity[t] EXCEPT !.type = "AWAITING_CAPTURE_RESULT"]
  OBVIOUS
<1>5. work \in Activity /\ IsCapture(work) /\ work.pokemon = activity[t].pokemon
      /\ work.type = "AWAITING_CAPTURE_RESULT"
  <2>1. activity[t] \in [type : {"CAPTURING", "AWAITING_CAPTURE_RESULT"}, pokemon : Pokemons,
                         x : Positions]
    BY <1>3 DEF StateTyped, Activity, NoActivity
  <2> QED BY <1>4, <2>1 DEF Activity, IsCapture
<1>6. activity' = [activity EXCEPT ![t] = work]
  BY <1>1, <1>4
<1>7. \A u \in Trainers : activity'[u] = IF u = t THEN work ELSE activity[u]
  BY <1>3, <1>6 DEF StateTyped
<1>8. StateTyped'
  BY <1>1, <1>2, <1>3, <1>5, <1>6, ZenonT(40) DEF StateTyped
<1>9. \A q \in Pokemons : CapturingIn(activity', q) = CapturingIn(activity, q)
  <2>1. \A u \in Trainers : /\ IsCapture(activity'[u]) <=> IsCapture(activity[u])
                            /\ activity'[u].pokemon = activity[u].pokemon
    BY <1>3, <1>5, <1>7 DEF IsCapture
  <2> QED BY <2>1 DEF CapturingIn
<1>10. Reserved(required_pokemons, activity, Taken)'
  BY <1>2, <1>9, TakenStays DEF TeamInv, Reserved
<1>11. OnlyNeeded' /\ BeingCounted'
  <2>1. OnlyNeeded'
    BY <1>2, TakenStays DEF TeamInv, OnlyNeeded, Enough
  <2>2. counting # NoMessage => counting[1] # t
    BY <1>3 DEF TeamInv, BeingCounted
  <2> QED BY <1>2, <1>3, <1>7, <2>1, <2>2 DEF TeamInv, BeingCounted, StateTyped
<1>12. AtWork'
  BY <1>1, <1>3, <1>7 DEF TeamInv, AtWork
<1>13. TradingLate' /\ OneTrading'
  <2>1. \A u \in Trainers : activity'[u].type = "TRADING" => activity[u].type = "TRADING"
    BY <1>5, <1>7
  <2> QED BY <1>2, <2>1 DEF TeamInv, TradingLate, OneTrading, requirements_are_finished
<1>14. QuantumLeft'
  BY <1>1, <1>2, <1>3 DEF TeamInv, QuantumLeft
<1> QED BY <1>8, <1>10, <1>11, <1>12, <1>13, <1>14 DEF TeamInv

\* While somebody captures, nobody trades.
LEMMA CaptureBeforeTrades ==
  ASSUME TeamInv, NEW t \in Trainers, IsCapture(activity[t])
  PROVE  \A u \in Trainers : activity[u].type # "TRADING"
<1> SUFFICES ASSUME NEW u \in Trainers, activity[u].type = "TRADING" PROVE FALSE
  OBVIOUS
<1>1. requirements_are_finished(total_caught)
  BY DEF TeamInv, TradingLate
<1>2. /\ StateTyped /\ Reserved(required_pokemons, activity, Taken)
      /\ Enough(total_caught, Taken) /\ Taken \in [Pokemons -> Nat]
  BY TakenTyped DEF TeamInv, OnlyNeeded
<1>3. ~IsCapture(activity[t])
  BY <1>1, <1>2, NothingInProgress DEF StateTyped
<1> QED BY <1>3

\* The count of a catch, when what it took is given back.
LEMMA CountKeepsTeam ==
  ASSUME TeamInv, TokenInv', OnlyNeeded', NEW t \in Trainers, IsCapture(activity[t]),
         NEW completed \in {"NEW", "EXIT"}, Count(t, activity[t].pokemon, completed),
         pokemons' \in [Trainers -> Seq(Pokemons)], targets' \in [Trainers -> Seq(Pokemons)],
         currently_in_progress' \in [Pokemons -> Int],
         Taken' = [Taken EXCEPT ![activity[t].pokemon] = @ - 1],
         \/ counting' = NoMessage
         \/ counting' = counting /\ (counting # NoMessage => counting[1] # t),
         UNCHANGED <<config, x, quantum_counter, trading_counter, required_pokemons, receiver,
                     crashed>>,
         \A u \in Trainers : pc'[u] \in {"send", "register"}
                                 => pc[u] \in {"send", "register"} /\ u # t,
         QuantumLeft'
  PROVE  TeamInv'
<1> DEFINE p == activity[t].pokemon
           act0 == [activity EXCEPT ![t] = NoActivity]
<1>1. StateTyped /\ Reserved(required_pokemons, activity, Taken) /\ AtWork
  BY DEF TeamInv
<1>2. /\ total_caught' = [total_caught EXCEPT ![p] = @ + 1]
      /\ finished' \in BOOLEAN /\ status' \in [Trainers -> Statuses]
      /\ Resumed(act0, ready_queue, total_caught', activity', ready_queue')
  BY CountIs
<1>3. PICK taken, list, caught, progress, queue0, act, queue :
        /\ taken = Taken /\ list = required_pokemons /\ caught = total_caught'
        /\ queue0 = ready_queue /\ progress = Taken' /\ act = activity' /\ queue = ready_queue'
  OBVIOUS
<1>4. taken \in [Pokemons -> Nat] /\ progress = [taken EXCEPT ![activity[t].pokemon] = @ - 1]
  BY <1>3, TakenTyped
<1>5. p \in Pokemons
  BY <1>1, Activities DEF StateTyped
<1>6. /\ act0 \in [Trainers -> Activity] /\ progress \in [Pokemons -> Nat]
      /\ Reserved(list, act0, progress)
  <2>1. /\ required_pokemons \in Seq(Appearances) /\ activity \in [Trainers -> Activity]
        /\ Reserved(required_pokemons, activity, taken)
    BY <1>1, <1>3 DEF StateTyped
  <2>2. /\ [activity EXCEPT ![t] = NoActivity] \in [Trainers -> Activity]
        /\ [taken EXCEPT ![activity[t].pokemon] = @ - 1] \in [Pokemons -> Nat]
        /\ Reserved(required_pokemons, [activity EXCEPT ![t] = NoActivity],
                    [taken EXCEPT ![activity[t].pokemon] = @ - 1])
    BY <1>4, <2>1, CaptureReleased
  <2> QED BY <1>3, <1>4, <2>2
<1>7. \A u \in Trainers : act0[u] = IF u = t THEN NoActivity ELSE activity[u]
  BY <1>1 DEF StateTyped
<1>8. \A u \in Trainers : act0[u].type # "TRADING"
  BY <1>7, CaptureBeforeTrades DEF NoActivity
<1> HIDE DEF act0, p
<1>9. total_caught' \in [Pokemons -> Nat]
  BY <1>1, <1>2, <1>5 DEF StateTyped
<1>10. Settled(list, act0, progress, caught, act)
  <2>1. /\ list \in Seq(Appearances) /\ caught \in [Pokemons -> Nat]
        /\ Enough(caught, progress) /\ Resumed(act0, queue0, caught, act, queue)
    BY <1>1, <1>2, <1>3, <1>9 DEF StateTyped, OnlyNeeded, Enough
  <2> QED BY <1>6, <1>8, <2>1, ResumedKeeps
<1>11. UNCHANGED <<planning_alg, has_broker_connection, x, quantum_counter, trading_counter,
                   required_pokemons, receiver, crashed>>
  BY DEF config
<1>12. StateTyped'
  BY <1>1, <1>2, <1>3, <1>9, <1>10, <1>11 DEF StateTyped, Statuses, Settled
<1>13. Reserved(required_pokemons, activity, Taken)' /\ TradingLate' /\ OneTrading'
  BY <1>3, <1>10, <1>11 DEF TradingLate, OneTrading, Settled
<1>14. AtWork'
  <2> SUFFICES ASSUME NEW u \in Trainers, pc'[u] \in {"send", "register"}
               PROVE  activity'[u].type = "CAPTURING"
    BY DEF AtWork
  <2>1. pc[u] \in {"send", "register"} /\ u # t
    OBVIOUS
  <2>2. activity[u].type = "CAPTURING"
    BY <1>1, <2>1 DEF AtWork
  <2>3. act0[u] = activity[u] /\ IsCapture(act0[u])
    BY <1>7, <2>1, <2>2 DEF IsCapture
  <2>4. act[u] = act0[u]
    BY <1>10, <2>3 DEF Settled
  <2> QED BY <1>3, <2>2, <2>3, <2>4
<1>15. BeingCounted'
  <2> SUFFICES ASSUME counting' # NoMessage
               PROVE  /\ activity'[counting[1]].type = "AWAITING_CAPTURE_RESULT"
                      /\ activity'[counting[1]].pokemon = counting[2]
    BY DEF BeingCounted
  <2>1. /\ counting[1] \in Trainers /\ IsCapture(activity[counting[1]]) /\ counting[1] # t
        /\ activity[counting[1]].type = "AWAITING_CAPTURE_RESULT"
        /\ activity[counting[1]].pokemon = counting[2]
    BY TakenTyped DEF TeamInv, BeingCounted
  <2> QED BY <1>3, <1>7, <1>10, <2>1 DEF Settled
<1> QED BY <1>12, <1>13, <1>14, <1>15 DEF TeamInv

\* A catch that the listener hears of is no longer in progress, but still taken.
LEMMA CaughtKeepsTeam ==
  ASSUME TeamInv, TokenInv', NEW t \in Trainers, Caught(t)
  PROVE  TeamInv'
<1> DEFINE p == activity[t].pokemon
<1>1. /\ IsCapture(activity[t]) /\ activity[t].type = "AWAITING_CAPTURE_RESULT"
      /\ Hold(t) /\ counting = NoMessage /\ counting' = <<t, p>>
      /\ UNCHANGED <<config, x, status, activity, thread, total_caught, required_pokemons,
                     receiver, outcome>>
  BY DEF Caught, Hears, Waits, IsCapture
<1>2. UNCHANGED <<planning_alg, has_broker_connection, x, status, activity, quantum_counter,
                  trading_counter, pc, total_caught, required_pokemons, receiver, finished,
                  crashed>>
  BY <1>1 DEF config, thread, outcome
<1>3. /\ pokemons' \in [Trainers -> Seq(Pokemons)] /\ targets' \in [Trainers -> Seq(Pokemons)]
      /\ p \in Pokemons /\ currently_in_progress' \in [Pokemons -> Int]
      /\ currently_in_progress' = [currently_in_progress EXCEPT ![p] = @ - 1]
  BY <1>1, HoldIs
<1> HIDE DEF p
<1>4. Taken' = Taken
  <2>1. currently_in_progress \in [Pokemons -> Int]
    BY DEF TeamInv, StateTyped
  <2>2. ASSUME NEW q \in Pokemons
        PROVE  currently_in_progress'[q] + Uncounted(q)' = currently_in_progress[q] + Uncounted(q)
    <3>1. Uncounted(q) = 0 /\ Uncounted(q)' = IF q = p THEN 1 ELSE 0
      BY <1>1 DEF Uncounted, NoMessage
    <3>2. currently_in_progress'[q]
            = IF q = p THEN currently_in_progress[q] - 1 ELSE currently_in_progress[q]
      BY <1>3, <2>1
    <3> QED BY <2>1, <3>1, <3>2
  <2> QED BY <2>2 DEF Taken
<1>5. StateTyped'
  <2>1. counting' \in {NoMessage} \cup Trainers \X Pokemons
    BY <1>1, <1>3
  <2> QED BY <1>2, <1>3, <2>1 DEF TeamInv, StateTyped
<1>6. Reserved(required_pokemons, activity, Taken)' /\ OnlyNeeded'
  BY <1>2, <1>4 DEF TeamInv, OnlyNeeded, Enough
<1>7. BeingCounted'
  BY <1>1 DEF BeingCounted, p
<1>8. AtWork' /\ TradingLate' /\ OneTrading' /\ QuantumLeft'
  BY <1>2 DEF TeamInv, AtWork, TradingLate, OneTrading, QuantumLeft, requirements_are_finished
<1> QED BY <1>5, <1>6, <1>7, <1>8 DEF TeamInv

\* What the listener has counted no longer waits to be.
LEMMA CountedTakes ==
  ASSUME TeamInv, Counted, NEW t, t = counting[1]
  PROVE  Taken' = [Taken EXCEPT ![activity[t].pokemon] = @ - 1]
<1>1. /\ counting # NoMessage /\ counting' = NoMessage
      /\ UNCHANGED currently_in_progress
  BY DEF Counted
<1>2. activity[t].pokemon = counting[2] /\ counting[2] \in Pokemons /\ StateTyped
  BY <1>1, TakenTyped DEF TeamInv, BeingCounted, StateTyped
<1>3. PICK p : p = counting[2]
  OBVIOUS
<1>4. \A q \in Pokemons : Uncounted(q) = (IF q = p THEN 1 ELSE 0) /\ Uncounted(q)' = 0
  BY <1>1, <1>3 DEF Uncounted
<1>5. \A q \in Pokemons : currently_in_progress[q] \in Int
  BY <1>2 DEF StateTyped
<1>6. \A q \in Pokemons :
        Taken'[q] = currently_in_progress[q]
          /\ Taken[q] = currently_in_progress[q] + (IF q = p THEN 1 ELSE 0)
  BY <1>1, <1>4, <1>5 DEF Taken
<1>7. \A q \in Pokemons : Taken'[q] = IF q = p THEN Taken[q] - 1 ELSE Taken[q]
  BY <1>5, <1>6
<1>8. Taken = [q \in Pokemons |-> Taken[q]] /\ Taken' = [q \in Pokemons |-> Taken'[q]]
  BY DEF Taken
<1>9. Taken' = [Taken EXCEPT ![p] = @ - 1]
  BY <1>7, <1>8
<1> QED BY <1>2, <1>3, <1>9

\* Once it is counted as caught it is no longer taken.
LEMMA CountedKeepsTeam ==
  ASSUME TeamInv, TokenInv', OnlyNeeded', Counted
  PROVE  TeamInv'
<1>1. PICK t : t = counting[1]
  OBVIOUS
<1>2. /\ counting # NoMessage /\ counting' = NoMessage
      /\ Count(t, counting[2], "NEW")
      /\ UNCHANGED <<config, x, pokemons, targets, thread, currently_in_progress,
                     required_pokemons, receiver, crashed>>
  BY <1>1 DEF Counted
<1>3. /\ t \in Trainers /\ IsCapture(activity[t]) /\ activity[t].pokemon = counting[2]
      /\ activity[t].type = "AWAITING_CAPTURE_RESULT" /\ counting[2] \in Pokemons
  BY <1>1, <1>2, TakenTyped DEF TeamInv, BeingCounted, StateTyped
<1>4. StateTyped /\ AtWork /\ QuantumLeft
  BY DEF TeamInv
<1>5. PICK p : p = counting[2]
  OBVIOUS
<1>6. Taken' = [Taken EXCEPT ![activity[t].pokemon] = @ - 1]
  BY <1>1, CountedTakes
<1>7. UNCHANGED <<quantum_counter, trading_counter, pc, planning_alg>>
  BY <1>2 DEF thread, config
<1>8. \A u \in Trainers : pc'[u] \in {"send", "register"}
                              => pc[u] \in {"send", "register"} /\ u # t
  BY <1>3, <1>4, <1>7 DEF AtWork
<1>9. QuantumLeft'
  BY <1>4, <1>7 DEF QuantumLeft
<1>10. /\ pokemons' \in [Trainers -> Seq(Pokemons)] /\ targets' \in [Trainers -> Seq(Pokemons)]
       /\ currently_in_progress' \in [Pokemons -> Int]
  BY <1>2, <1>4 DEF StateTyped
<1>11. Count(t, activity[t].pokemon, "NEW")
  BY <1>2, <1>3
<1> QED BY <1>2, <1>3, <1>6, <1>7, <1>8, <1>9, <1>10, <1>11, CountKeepsTeam

\* What a trainer does without a broker.
LEMMA RegisterKeepsTeam ==
  ASSUME TeamInv, TokenInv', OnlyNeeded', NEW t \in Trainers, Register(t)
  PROVE  TeamInv'
<1>1. /\ Hold(t) /\ Count(t, activity[t].pokemon, "EXIT") /\ pc[t] = "register"
      /\ pc' = [pc EXCEPT ![t] = "end"]
      /\ UNCHANGED <<config, x, quantum_counter, trading_counter, required_pokemons, receiver,
                     counting, crashed>>
  BY DEF Register, messages
<1>2. /\ AtWork /\ QuantumLeft /\ StateTyped
      /\ pc \in [Trainers -> {"wait", "send", "register", "end"}]
  BY DEF TeamInv, TokenInv, PlanningTyped
<1>3. IsCapture(activity[t]) /\ activity[t].type = "CAPTURING"
  BY <1>1, <1>2 DEF IsCapture, AtWork
<1>4. /\ pokemons' \in [Trainers -> Seq(Pokemons)] /\ targets' \in [Trainers -> Seq(Pokemons)]
      /\ activity[t].pokemon \in Pokemons /\ currently_in_progress' \in [Pokemons -> Int]
      /\ currently_in_progress' = [currently_in_progress EXCEPT ![activity[t].pokemon] = @ - 1]
  BY <1>1, <1>3, HoldIs
<1>5. Taken' = [Taken EXCEPT ![activity[t].pokemon] = @ - 1]
  BY <1>1, <1>2, <1>4, TakenChanges DEF StateTyped
<1>6. counting # NoMessage => counting[1] # t
  BY <1>3 DEF TeamInv, BeingCounted
<1>7. \A u \in Trainers : pc'[u] \in {"send", "register"}
                              => pc[u] \in {"send", "register"} /\ u # t
  BY <1>1, <1>2
<1>8. QuantumLeft'
  BY <1>1, <1>2 DEF QuantumLeft, config
<1> QED BY <1>1, <1>3, <1>4, <1>5, <1>6, <1>7, <1>8, CountKeepsTeam

\* A trade takes nobody from a capture: nothing is in progress any more.
LEMMA TradeKeepsTeam ==
  ASSUME TeamInv, TokenInv', NEW t \in Trainers, Trade(t)
  PROVE  TeamInv'
<1>1. /\ StateTyped /\ Reserved(required_pokemons, activity, Taken)
      /\ OnlyNeeded /\ BeingCounted /\ AtWork /\ QuantumLeft /\ OneTrading
      /\ requirements_are_finished(total_caught) /\ activity[t].type = "TRADING"
  BY DEF TeamInv, TradingLate, Trade
<1>2. /\ Cycle(t, "end") /\ trading_counter' = [trading_counter EXCEPT ![t] = 0]
      /\ UNCHANGED <<config, x, requirements, required_pokemons, messages, crashed>>
  BY DEF Trade
<1>3. UNCHANGED <<planning_alg, has_broker_connection, x, total_caught, currently_in_progress,
                  required_pokemons, receiver, counting, crashed>>
  BY <1>2 DEF config, requirements, messages
<1>4. PICK friend \in Trainers :
        /\ pokemons' \in [Trainers -> Seq(Pokemons)] /\ targets' \in [Trainers -> Seq(Pokemons)]
        /\ finished' \in BOOLEAN /\ status' \in [Trainers -> Statuses]
        /\ Resumed([activity EXCEPT ![t] = NoActivity, ![friend] = NoActivity],
                   RemoveFirst(ready_queue, t), total_caught, activity', ready_queue')
  BY TradeIs
<1> DEFINE act0 == [activity EXCEPT ![t] = NoActivity, ![friend] = NoActivity]
<1>5. \A u \in Trainers : act0[u] = IF u = t \/ u = friend THEN NoActivity ELSE activity[u]
  BY <1>1 DEF StateTyped
<1>6. act0 \in [Trainers -> Activity]
  BY <1>1 DEF StateTyped, Activity
<1>7. PICK queue0 : queue0 = RemoveFirst(ready_queue, t)
  OBVIOUS
<1>8. Resumed(act0, queue0, total_caught, activity', ready_queue')
  BY <1>4, <1>7
<1> HIDE DEF act0
<1>9. /\ Enough(total_caught, Taken) /\ Taken' = Taken
      /\ required_pokemons \in Seq(Appearances) /\ activity \in [Trainers -> Activity]
      /\ total_caught \in [Pokemons -> Nat] /\ Taken \in [Pokemons -> Nat]
  BY <1>1, <1>3, TakenTyped, TakenStays DEF OnlyNeeded, StateTyped
<1>10. \A u \in Trainers : ~IsCapture(activity[u])
  BY <1>1, <1>9, NothingInProgress
<1>11. \A u \in Trainers : ~IsCapture(act0[u]) /\ act0[u].type # "TRADING"
  BY <1>1, <1>5, <1>10 DEF OneTrading, NoActivity, IsCapture
<1>12. Reserved(required_pokemons, act0, Taken)
  BY <1>1, <1>10, <1>11, ReservedWithoutCaptures
<1>13. PICK act, queue : act = activity' /\ queue = ready_queue'
  OBVIOUS
<1>14. Settled(required_pokemons, act0, Taken, total_caught, act)
  <2>1. Resumed(act0, queue0, total_caught, act, queue)
    BY <1>8, <1>13
  <2> QED BY <1>6, <1>9, <1>11, <1>12, <2>1, ResumedKeeps
<1>15. trading_counter' \in [Trainers -> 0..TradingCycles]
  BY <1>1, <1>2, TeamAssumption DEF StateTyped, TeamAssumption
<1>16. pc \in [Trainers -> {"wait", "send", "register", "end"}] /\ pc' = [pc EXCEPT ![t] = "end"]
  BY <1>2 DEF TeamInv, TokenInv, PlanningTyped, Cycle
<1>17. AtWork'
  <2>1. \A u \in Trainers : pc'[u] \notin {"send", "register"}
    <3> SUFFICES ASSUME NEW u \in Trainers, pc[u] \in {"send", "register"} PROVE FALSE
      BY <1>16
    <3>1. activity[u].type = "CAPTURING"
      BY <1>1 DEF AtWork
    <3> QED BY <1>10, <3>1 DEF IsCapture
  <2> QED BY <2>1 DEF AtWork
<1>18. quantum_counter' \in [Trainers -> 0..Quantum] /\ QuantumLeft'
  <2>1. /\ quantum_counter \in [Trainers -> 0..Quantum]
        /\ planning_alg \in {"FIFO", "RR"} /\ Quantum \in Nat \ {0}
    BY <1>1, TeamAssumption DEF StateTyped, TeamAssumption
  <2>2. /\ pc[t] = "wait"
        /\ quantum_counter' = [quantum_counter EXCEPT ![t] = IF planning_alg = "RR" THEN @ + 1 ELSE @]
    BY <1>2 DEF Cycle
  <2>3. planning_alg = "RR" => quantum_counter[t] < Quantum
    BY <1>1, <2>2 DEF QuantumLeft
  <2>4. quantum_counter' \in [Trainers -> 0..Quantum]
    BY <2>1, <2>2, <2>3
  <2>5. \A u \in Trainers : pc'[u] = "wait" => pc[u] = "wait" /\ quantum_counter'[u] = quantum_counter[u]
    BY <1>16, <2>1, <2>2
  <2> QED BY <1>1, <1>3, <2>4, <2>5 DEF QuantumLeft
<1>19. StateTyped'
  BY <1>1, <1>3, <1>4, <1>13, <1>14, <1>15, <1>18 DEF StateTyped, Statuses, Settled
<1>20. Reserved(required_pokemons, activity, Taken)' /\ TradingLate' /\ OneTrading'
  BY <1>3, <1>9, <1>13, <1>14 DEF TradingLate, OneTrading, Settled
<1>21. OnlyNeeded' /\ BeingCounted'
  <2>1. counting = NoMessage
    BY <1>10, TakenTyped
  <2> QED BY <1>1, <1>3, <1>9, <2>1 DEF OnlyNeeded, Enough, BeingCounted
<1> QED BY <1>17, <1>18, <1>19, <1>20, <1>21 DEF TeamInv

-----------------------------------------------------------------------------
(* The theorems about every team *)

\* The team starts with nothing in progress.
LEMMA TeamInit == Init => TeamInv
<1> SUFFICES ASSUME Init PROVE TeamInv
  OBVIOUS
<1>1. TokenInv
  BY TokenInit
<1>2. StateTyped
  <2>1. x \in [Trainers -> Positions] /\ planning_alg \in Plannings
    BY TeamAssumption DEF Init, TeamAssumption
  <2>2. pokemons \in [Trainers -> Seq(Pokemons)] /\ targets \in [Trainers -> Seq(Pokemons)]
    <3>1. \A t \in Trainers : Initial[t].pokemons \in Seq(Pokemons)
                              /\ Initial[t].targets \in Seq(Pokemons)
      BY InitialTyped DEF Own
    <3> QED BY <3>1 DEF Init
  <2>3. /\ activity \in [Trainers -> Activity]
        /\ status \in [Trainers -> {"NEW", "READY", "EXEC", "BLOCKED", "EXIT"}]
    BY DEF Init, Activity
  <2>4. /\ quantum_counter \in [Trainers -> 0..Quantum]
        /\ trading_counter \in [Trainers -> 0..TradingCycles]
    BY TeamAssumption DEF Init, TeamAssumption
  <2>5. required_pokemons \in Seq(Appearances)
    BY EmptySeq DEF Init
  <2>6. /\ total_caught \in [Pokemons -> Nat] /\ currently_in_progress \in [Pokemons -> Int]
        /\ receiver \in [Receivers -> {NoMessage} \cup {<<a>> : a \in Appearances}]
        /\ counting \in {NoMessage} \cup Trainers \X Pokemons
    BY DEF Init
  <2>7. has_broker_connection \in BOOLEAN /\ finished \in BOOLEAN /\ crashed \in BOOLEAN
    BY DEF Init
  <2> QED BY <2>1, <2>2, <2>3, <2>4, <2>5, <2>6, <2>7 DEF StateTyped
<1>3. \A t \in Trainers : activity[t] = NoActivity /\ ~IsCapture(activity[t])
                          /\ activity[t].type # "TRADING"
  BY DEF Init, NoActivity, IsCapture
<1>4. \A p \in Pokemons : total_caught[p] = 0 /\ Taken[p] = 0
  BY DEF Init, Taken, Uncounted
<1>5. Reserved(required_pokemons, activity, Taken)
  <2> SUFFICES ASSUME NEW p \in Pokemons
               PROVE  0 = Cardinality(WaitingFor(required_pokemons, p))
                            + Cardinality(CapturingIn(activity, p))
    BY <1>4 DEF Reserved
  <2>1. WaitingFor(required_pokemons, p) = {}
    BY DEF Init, WaitingFor
  <2>2. CapturingIn(activity, p) = {}
    BY <1>3 DEF CapturingIn
  <2> QED BY <2>1, <2>2, FS_EmptySet
<1>6. OnlyNeeded
  BY <1>4, TotalCountTyped DEF OnlyNeeded, Enough
<1>7. BeingCounted /\ AtWork /\ QuantumLeft
  BY TeamAssumption DEF Init, BeingCounted, AtWork, QuantumLeft, TeamAssumption
<1>8. TradingLate /\ OneTrading
  BY <1>3 DEF TradingLate, OneTrading
<1> QED BY <1>1, <1>2, <1>5, <1>6, <1>7, <1>8 DEF TeamInv

\* Every step that takes only what is needed keeps the invariant.
LEMMA TeamNext == TeamInv /\ OnlyNeeded' /\ [Next]_vars => TeamInv'
<1> SUFFICES ASSUME TeamInv, OnlyNeeded', [Next]_vars PROVE TeamInv'
  OBVIOUS
<1>1. TokenInv'
  BY TokenNext DEF TeamInv
<1>2. CASE UNCHANGED vars
  <2>1. UNCHANGED <<planning_alg, has_broker_connection, x, pokemons, targets, status, activity,
                    quantum_counter, trading_counter, pc, total_caught, currently_in_progress,
                    required_pokemons, receiver, counting, finished, crashed>>
    BY <1>2 DEF vars, config, trainer, thread, requirements, messages, outcome
  <2>2. StateTyped /\ AtWork /\ QuantumLeft
    BY DEF TeamInv
  <2>3. AtWork' /\ QuantumLeft'
    BY <2>1, <2>2 DEF AtWork, QuantumLeft
  <2> QED BY <1>1, <2>1, <2>2, <2>3, QuietKeeps DEF StateTyped, Statuses
<1>3. CASE Connect
  BY <1>1, <1>3, ConnectKeepsTeam
<1>4. CASE \E r \in Receivers : Require(r) \/ \E a \in Appearances : Appear(r, a)
  BY <1>1, <1>4, AppearKeepsTeam, RequireKeepsTeam
<1>5. CASE \E t \in Trainers : Caught(t) \/ Escaped(t) \/ TrainerStep(t)
  <2>1. PICK t \in Trainers : Caught(t) \/ Escaped(t) \/ TrainerStep(t)
    BY <1>5
  <2>2. CASE Caught(t)
    BY <1>1, <2>2, CaughtKeepsTeam
  <2>7. CASE Register(t)
    BY <1>1, <2>7, RegisterKeepsTeam
  <2>3. CASE Escaped(t)
    BY <1>1, <2>3, EscapedKeepsTeam
  <2>4. CASE SendCatch(t)
    BY <1>1, <2>4, SendCatchKeepsTeam
  <2>5. CASE Trade(t)
    BY <1>1, <2>5, TradeKeepsTeam
  <2>6. CASE \/ CycleOfNothing(t) \/ Move(t) \/ Arrive(t) \/ CycleAwaiting(t) \/ WaitToTrade(t)
             \/ EndCycle(t)
    BY <1>1, <2>6, TrainerKeepsTeam
  <2> QED BY <2>1, <2>2, <2>3, <2>4, <2>5, <2>6, <2>7 DEF TrainerStep
<1>6. CASE PlannerStep
  <2>1. CASE Assign
    BY <1>1, <2>1, AssignKeepsTeam
  <2>2. CASE Wake \/ Sort \/ Test \/ Lock \/ Unlock
    BY <1>1, <2>2, PlannerKeepsTeam
  <2> QED BY <1>6, <2>1, <2>2 DEF PlannerStep
<1>7. CASE Counted
  BY <1>1, <1>7, CountedKeepsTeam
<1> QED BY <1>2, <1>3, <1>4, <1>5, <1>6, <1>7 DEF Next

\* The listener alone takes only what is needed.
LEMMA OnlyNeededKept ==
  ASSUME OneReceiver
  PROVE  Spec => []OnlyNeeded
<1>1. Cardinality(Receivers) = 1
  BY FS_Singleton DEF OneReceiver
<1>2. NoneTooMany /\ TakingInv => OnlyNeeded
  <2> SUFFICES ASSUME NoneTooMany, TakingInv, NEW p \in Pokemons
               PROVE  total_caught[p] + Taken[p] <= total_count[p]
    BY DEF OnlyNeeded, Enough
  <2>1. total_caught[p] + currently_in_progress[p] + Uncounted(p) <= total_count[p] + 0
    BY <1>1 DEF NoneTooMany
  <2>2. /\ total_caught[p] \in Int /\ currently_in_progress[p] \in Int /\ Uncounted(p) \in Int
        /\ total_count[p] \in Nat /\ Taken[p] = currently_in_progress[p] + Uncounted(p)
    BY TotalCountTyped DEF TakingInv, Uncounted, Taken
  <2> QED BY <2>1, <2>2
<1> QED BY <1>2, TakingKept, NoneTakenTooMany, PTL

\* Hence the invariant always holds.
LEMMA TeamKept ==
  ASSUME OneReceiver
  PROVE  Spec => []TeamInv
<1>1. Spec => []OnlyNeeded
  BY OnlyNeededKept
<1> QED BY <1>1, TeamInit, TeamNext, PTL DEF Spec

\* TypeOK, for a team with one thread that processes messages.
THEOREM TeamTypes ==
  ASSUME OneReceiver
  PROVE  Spec => []TypeOK
<1>1. Spec => []TeamInv
  BY TeamKept
<1> QED BY <1>1, TeamInvImplies, PTL

\* ReservationsKept: currently_in_progress is the requirements on the list and on the
\* trainers, whatever is caught, escapes and is traded.
THEOREM WhatIsReservedIsInProgress ==
  ASSUME OneReceiver
  PROVE  Spec => []ReservationsKept
<1>1. Spec => []TeamInv
  BY TeamKept
<1> QED BY <1>1, TeamInvImplies, PTL

-----------------------------------------------------------------------------
(* Captures and trades neither lose nor make a pokemon *)

\* No trainer wants two of a pokemon.
DistinctObjectives == \A t \in Trainers : Once(Objectives[t])

\* PokemonsConserved, and that nobody needs more than it set out for.
Conserved(needs, has, caught) ==
  \A p \in Pokemons :
    /\ Together(needs, p) - Together(has, p)
         = Together(Objectives, p) - Together(Owned, p) - caught[p]
    /\ \A t \in Trainers : Times(needs[t], p) <= Times(Objectives[t], p)

\* Trades are with somebody else.
WithOthers(act) == \A t \in Trainers : act[t].type = "TRADING" => act[t].with # t

\* What trainers have been given, counted as caught or not yet.
Gathered == [p \in Pokemons |-> total_caught[p] + Uncounted(p)]

ConservedInv == Conserved(targets, pokemons, Gathered) /\ WithOthers(activity)

\* The invariant says what the property does.
LEMMA ConservedInvImplies == ConservedInv => PokemonsConserved
BY DEF ConservedInv, Conserved, PokemonsConserved, Gathered

\* What the configuration gives each trainer are lists of pokemons.
LEMMA ConfigurationIsLists == Lists(Objectives) /\ Lists(Owned)
<1>1. Trainers = 1..Len(Objectives)
  BY TeamAssumption, LenProperties DEF TeamAssumption, Trainers
<1>2. \A t \in Trainers : Objectives[t] \in Seq(Pokemons)
  BY <1>1, TeamAssumption, ElementOfSeq DEF TeamAssumption
<1>3. \A t \in Trainers : Owned[t] \in Seq(Pokemons)
  BY TeamAssumption DEF TeamAssumption
<1> QED BY <1>2, <1>3 DEF Lists

\* At first each trainer's pokemons have left its targets, and those its pokemons.
LEMMA ConservedInitially == Init => ConservedInv
<1> SUFFICES ASSUME Init PROVE ConservedInv
  OBVIOUS
<1>1. /\ targets = [t \in Trainers |-> Initial[t].targets]
      /\ pokemons = [t \in Trainers |-> Initial[t].pokemons]
      /\ activity = [t \in Trainers |-> NoActivity] /\ total_caught = [p \in Pokemons |-> 0]
  BY DEF Init
<1>2. PICK needs, has : needs = targets /\ has = pokemons
  OBVIOUS
<1>3. Lists(needs) /\ Lists(has)
  BY <1>1, <1>2, InitialTyped DEF Lists, Own
<1>4. \A t \in Trainers : Eased(Objectives[t], Owned[t], needs[t], has[t])
  <2> SUFFICES ASSUME NEW t \in Trainers
               PROVE  Eased(Objectives[t], Owned[t], needs[t], has[t])
    OBVIOUS
  <2> DEFINE own == [pokemons |-> Owned[t], targets |-> Objectives[t]]
  <2>1. own \in Own /\ own.targets = Objectives[t] /\ own.pokemons = Owned[t]
    BY ConfigurationIsLists DEF Own, Lists
  <2>2. Initial[t] = Diff(own)
    BY DEF Initial
  <2> HIDE DEF own
  <2>3. Eased(own.targets, own.pokemons, Diff(own).targets, Diff(own).pokemons)
    BY <2>1, DiffTyped
  <2> QED BY <1>1, <1>2, <2>1, <2>2, <2>3
<1>5. Conserved(targets, pokemons, Gathered)
  <2> SUFFICES ASSUME NEW p \in Pokemons
               PROVE  /\ Together(needs, p) - Together(has, p)
                           = Together(Objectives, p) - Together(Owned, p) - Gathered[p]
                      /\ \A t \in Trainers : Times(needs[t], p) <= Times(Objectives[t], p)
    BY <1>2 DEF Conserved
  <2>1. \A t \in Trainers : /\ Times(needs[t], p) <= Times(Objectives[t], p)
                            /\ Times(needs[t], p) - Times(has[t], p)
                                 = Times(Objectives[t], p) - Times(Owned[t], p)
    BY <1>4 DEF Eased
  <2>2. Together(needs, p) - Together(has, p) = Together(Objectives, p) - Together(Owned, p)
    BY <1>3, <2>1, ConfigurationIsLists, LacksAddUp
  <2>3. Together(Objectives, p) \in Nat /\ Together(Owned, p) \in Nat
    BY ConfigurationIsLists, TogetherTyped
  <2>4. Gathered[p] = 0
    BY DEF Init, Gathered, Uncounted
  <2> QED BY <2>1, <2>2, <2>3, <2>4
<1>6. WithOthers(activity)
  BY <1>1 DEF WithOthers, NoActivity
<1> QED BY <1>5, <1>6 DEF ConservedInv

\* What is caught is one less that is lacked.
LEMMA CaughtIsConserved ==
  ASSUME NEW needs, needs \in [Trainers -> Seq(Pokemons)],
         NEW has, has \in [Trainers -> Seq(Pokemons)],
         NEW caught \in [Pokemons -> Nat], Conserved(needs, has, caught),
         NEW t \in Trainers, NEW p \in Pokemons,
         NEW own, own = Diff([pokemons |-> Append(has[t], p), targets |-> needs[t]])
  PROVE  Conserved([needs EXCEPT ![t] = own.targets], [has EXCEPT ![t] = own.pokemons],
                   [caught EXCEPT ![p] = @ + 1])
<1> DEFINE with == Append(has[t], p)
           before == [pokemons |-> with, targets |-> needs[t]]
<1>0. PICK needs1, has1, caught1 :
        /\ needs1 = [needs EXCEPT ![t] = own.targets]
        /\ has1 = [has EXCEPT ![t] = own.pokemons]
        /\ caught1 = [caught EXCEPT ![p] = @ + 1]
  OBVIOUS
<1>1. before \in Own /\ before.targets = needs[t] /\ before.pokemons = with
      /\ with \in Seq(Pokemons)
  BY AppendProperties DEF Own
<1>2. own = Diff(before)
  OBVIOUS
<1> HIDE DEF before, with
<1>3. own \in Own /\ Eased(needs[t], with, own.targets, own.pokemons)
  BY <1>1, <1>2, DiffTyped
<1>4. own.targets \in Seq(Pokemons) /\ own.pokemons \in Seq(Pokemons)
  BY <1>3 DEF Own
<1>5. /\ Lists(needs) /\ Lists(has) /\ Lists(needs1) /\ Lists(has1)
      /\ needs1[t] = own.targets /\ has1[t] = own.pokemons
      /\ \A u \in Trainers \ {t} : needs1[u] = needs[u] /\ has1[u] = has[u]
  BY <1>0, <1>4 DEF Lists
<1> SUFFICES ASSUME NEW q \in Pokemons
             PROVE  /\ Together(needs1, q) - Together(has1, q)
                         = Together(Objectives, q) - Together(Owned, q) - caught1[q]
                    /\ \A u \in Trainers : Times(needs1[u], q) <= Times(Objectives[u], q)
  BY <1>0 DEF Conserved
<1>6. PICK one \in {0, 1} : one = IF q = p THEN 1 ELSE 0
  OBVIOUS
<1>7. caught1[q] = caught[q] + one /\ caught[q] \in Nat
  BY <1>0, <1>6
<1>8. /\ Together(needs1, q) - Times(own.targets, q) = Together(needs, q) - Times(needs[t], q)
      /\ Together(needs1, q) \in Nat /\ Together(needs, q) \in Nat
      /\ Times(own.targets, q) \in Nat /\ Times(needs[t], q) \in Nat
  <2>1. Lists(needs) /\ Lists(needs1) /\ \A u \in Trainers \ {t} : needs1[u] = needs[u]
    BY <1>5
  <2>2. /\ Together(needs1, q) - Times(needs1[t], q) = Together(needs, q) - Times(needs[t], q)
        /\ Together(needs1, q) \in Nat /\ Together(needs, q) \in Nat
        /\ Times(needs1[t], q) \in Nat /\ Times(needs[t], q) \in Nat
    BY ONLY <2>1, OneListChanges
  <2>3. needs1[t] = own.targets
    BY <1>5
  <2> QED BY ONLY <2>2, <2>3
<1>9. /\ Together(has1, q) - Times(own.pokemons, q) = Together(has, q) - Times(has[t], q)
      /\ Together(has1, q) \in Nat /\ Together(has, q) \in Nat
      /\ Times(own.pokemons, q) \in Nat /\ Times(has[t], q) \in Nat
  <2>1. Lists(has) /\ Lists(has1) /\ \A u \in Trainers \ {t} : has1[u] = has[u]
    BY <1>5
  <2>2. /\ Together(has1, q) - Times(has1[t], q) = Together(has, q) - Times(has[t], q)
        /\ Together(has1, q) \in Nat /\ Together(has, q) \in Nat
        /\ Times(has1[t], q) \in Nat /\ Times(has[t], q) \in Nat
    BY ONLY <2>1, OneListChanges
  <2>3. has1[t] = own.pokemons
    BY <1>5
  <2> QED BY ONLY <2>2, <2>3
<1>10. Times(with, q) = Times(has[t], q) + one
  BY <1>6, TimesAppend DEF with
<1>11. /\ Times(own.targets, q) - Times(own.pokemons, q) = Times(needs[t], q) - Times(with, q)
       /\ Times(own.targets, q) <= Times(needs[t], q)
  BY <1>3 DEF Eased
<1>12. /\ Together(needs, q) - Together(has, q)
            = Together(Objectives, q) - Together(Owned, q) - caught[q]
       /\ \A u \in Trainers : Times(needs[u], q) <= Times(Objectives[u], q)
  BY DEF Conserved
<1>13. Together(Objectives, q) \in Nat /\ Together(Owned, q) \in Nat
  BY ConfigurationIsLists, TogetherTyped
<1>14. Together(needs1, q) - Together(has1, q)
         = Together(Objectives, q) - Together(Owned, q) - caught1[q]
  <2>1. PICK a \in Int, b \in Int, c \in Int, d \in Int :
          /\ a = Times(own.targets, q) /\ b = Times(needs[t], q)
          /\ c = Together(needs1, q) /\ d = Together(needs, q)
    BY <1>8
  <2>2. PICK e \in Int, f \in Int, g \in Int, h \in Int :
          /\ e = Times(own.pokemons, q) /\ f = Times(has[t], q)
          /\ g = Together(has1, q) /\ h = Together(has, q)
    BY <1>9
  <2>3. PICK i \in Int, j \in Int, k \in Int, l \in Int :
          /\ i = Together(Objectives, q) /\ j = Together(Owned, q)
          /\ k = caught[q] /\ l = caught1[q]
    BY <1>6, <1>7, <1>13
  <2>4. c - a = d - b
    BY <1>8, <2>1
  <2>5. g - e = h - f
    BY <1>9, <2>2
  <2>6. a - e = b - (f + one)
    BY <1>10, <1>11, <2>1, <2>2
  <2>7. d - h = i - j - k
    BY <1>12, <2>1, <2>2, <2>3
  <2>8. l = k + one
    BY <1>7, <2>3
  <2>9. c - g = i - j - l
    BY ONLY <1>6, <2>4, <2>5, <2>6, <2>7, <2>8
  <2> QED BY <2>1, <2>2, <2>3, <2>9
<1>15. ASSUME NEW u \in Trainers
       PROVE  Times(needs1[u], q) <= Times(Objectives[u], q)
  <2>1. CASE u = t
    <3>1. Times(Objectives[t], q) \in Nat
      BY ConfigurationIsLists, TimesIs DEF Lists
    <3> QED BY <1>5, <1>8, <1>11, <1>12, <2>1, <3>1
  <2>2. CASE u # t
    BY <1>5, <1>12, <2>2
  <2> QED BY <2>1, <2>2
<1> QED BY <1>14, <1>15

\* Trades are with others before and after a detection.
LEMMA ResumedWithOthers ==
  ASSUME NEW act0, WithOthers(act0), DOMAIN act0 = Trainers, NEW queue0, NEW caught,
         NEW act, NEW queue, Resumed(act0, queue0, caught, act, queue)
  PROVE  WithOthers(act)
<1>1. CASE act = act0
  BY <1>1
<1>2. CASE act # act0
  <2>1. PICK root \in Trainers, u \in Trainers :
          root # u /\ act = [act0 EXCEPT ![u] = [type |-> "TRADING", with |-> root]]
    BY <1>2 DEF Resumed
  <2>2. \A t \in Trainers :
          act[t] = IF t = u THEN [type |-> "TRADING", with |-> root] ELSE act0[t]
    BY <2>1
  <2> QED BY <2>1, <2>2 DEF WithOthers
<1> QED BY <1>1, <1>2

\* Who is given a pokemon lacks it no longer, ...
LEMMA HoldConserves ==
  ASSUME TeamInv, ConservedInv, NEW t \in Trainers, IsCapture(activity[t]), Hold(t),
         \A p \in Pokemons :
           Gathered'[p] = IF p = activity[t].pokemon THEN Gathered[p] + 1 ELSE Gathered[p]
  PROVE  Conserved(targets, pokemons, Gathered)'
<1> DEFINE p == activity[t].pokemon
<1>1. /\ pokemons \in [Trainers -> Seq(Pokemons)] /\ targets \in [Trainers -> Seq(Pokemons)]
      /\ activity \in [Trainers -> Activity] /\ total_caught \in [Pokemons -> Nat]
  BY DEF TeamInv, StateTyped
<1>2. p \in Pokemons
  BY <1>1, Activities
<1>3. PICK own : own = Diff([pokemons |-> Append(pokemons[t], p), targets |-> targets[t]])
  OBVIOUS
<1>4. /\ pokemons' = [pokemons EXCEPT ![t] = own.pokemons]
      /\ targets' = [targets EXCEPT ![t] = own.targets]
  BY <1>3 DEF Hold
<1>5. PICK had, gathered : had = Gathered /\ gathered = Gathered'
  OBVIOUS
<1>6. had \in [Pokemons -> Nat]
  BY <1>1, <1>5 DEF Gathered, Uncounted
<1> HIDE DEF p
<1>7. gathered = [had EXCEPT ![p] = @ + 1]
  <2>1. gathered = [q \in Pokemons |-> gathered[q]]
    BY <1>5 DEF Gathered
  <2>2. \A q \in Pokemons : gathered[q] = IF q = p THEN had[q] + 1 ELSE had[q]
    BY <1>5 DEF p
  <2> QED BY <1>2, <1>6, <2>1, <2>2
<1>8. PICK needs, has : needs = targets' /\ has = pokemons'
  OBVIOUS
<1>9. Conserved(needs, has, gathered)
  <2>1. Conserved(targets, pokemons, had)
    BY <1>5 DEF ConservedInv
  <2>2. Conserved([targets EXCEPT ![t] = own.targets], [pokemons EXCEPT ![t] = own.pokemons],
                  [had EXCEPT ![p] = @ + 1])
    BY <1>1, <1>2, <1>3, <1>6, <2>1, CaughtIsConserved
  <2> QED BY <1>4, <1>7, <1>8, <2>2
<1> QED BY <1>5, <1>8, <1>9

\* ... the count has nobody trade with itself, ...
LEMMA CountKeepsOthers ==
  ASSUME TeamInv, WithOthers(activity), NEW t \in Trainers, NEW p,
         NEW completed \in {"NEW", "EXIT"}, Count(t, p, completed)
  PROVE  WithOthers(activity)'
<1>1. activity \in [Trainers -> Activity]
  BY DEF TeamInv, StateTyped
<1>2. PICK act0, act, queue, caught :
        /\ act0 = [activity EXCEPT ![t] = NoActivity] /\ act = activity' /\ queue = ready_queue'
        /\ caught = total_caught'
  OBVIOUS
<1>3. Resumed(act0, ready_queue, caught, act, queue)
  <2>1. Resumed([activity EXCEPT ![t] = NoActivity], ready_queue, total_caught',
                activity', ready_queue')
    BY CountIs
  <2> QED BY <1>2, <2>1
<1>4. DOMAIN act0 = Trainers /\ WithOthers(act0)
  BY <1>1, <1>2 DEF WithOthers, NoActivity
<1>5. WithOthers(act)
  BY <1>3, <1>4, ResumedWithOthers
<1> QED BY <1>2, <1>5

\* ... and a catch keeps the invariant in both its halves, ...
LEMMA CatchConserves ==
  ASSUME TeamInv, ConservedInv, Counted \/ \E t \in Trainers : Caught(t) \/ Register(t)
  PROVE  ConservedInv'
<1>1. /\ total_caught \in [Pokemons -> Nat] /\ AtWork
      /\ counting # NoMessage => counting[1] \in Trainers
  BY TakenTyped DEF TeamInv, StateTyped
<1>2. CASE \E t \in Trainers : Caught(t)
  <2>1. PICK t \in Trainers : Caught(t)
    BY <1>2
  <2>2. PICK p : p = activity[t].pokemon
    OBVIOUS
  <2>3. /\ IsCapture(activity[t]) /\ Hold(t) /\ counting = NoMessage /\ counting' = <<t, p>>
        /\ UNCHANGED <<activity, total_caught>>
    BY <2>1, <2>2 DEF Caught, Hears, Waits, IsCapture
  <2>4. \A q \in Pokemons : Gathered'[q] = IF q = p THEN Gathered[q] + 1 ELSE Gathered[q]
    <3> SUFFICES ASSUME NEW q \in Pokemons
                 PROVE  Gathered'[q] = IF q = p THEN Gathered[q] + 1 ELSE Gathered[q]
      OBVIOUS
    <3>1. Uncounted(q) = 0 /\ Uncounted(q)' = IF q = p THEN 1 ELSE 0
      BY <2>3 DEF Uncounted, NoMessage
    <3> QED BY <1>1, <2>3, <3>1 DEF Gathered
  <2>5. Conserved(targets, pokemons, Gathered)'
    BY <2>2, <2>3, <2>4, HoldConserves
  <2>6. WithOthers(activity)'
    BY <2>3 DEF ConservedInv
  <2> QED BY <2>5, <2>6 DEF ConservedInv
<1>3. CASE \E t \in Trainers : Register(t)
  <2>1. PICK t \in Trainers : Register(t)
    BY <1>3
  <2>2. PICK p : p = activity[t].pokemon
    OBVIOUS
  <2>3. /\ IsCapture(activity[t]) /\ Hold(t) /\ Count(t, p, "EXIT") /\ counting' = counting
        /\ total_caught' = [total_caught EXCEPT ![p] = @ + 1]
    BY <1>1, <2>1, <2>2 DEF Register, IsCapture, AtWork, messages, Count
  <2>4. \A q \in Pokemons : Gathered'[q] = IF q = p THEN Gathered[q] + 1 ELSE Gathered[q]
    <3> SUFFICES ASSUME NEW q \in Pokemons
                 PROVE  Gathered'[q] = IF q = p THEN Gathered[q] + 1 ELSE Gathered[q]
      OBVIOUS
    <3>1. Uncounted(q)' = Uncounted(q) /\ Uncounted(q) \in Nat
      BY <2>3 DEF Uncounted
    <3>2. total_caught'[q] = IF q = p THEN total_caught[q] + 1 ELSE total_caught[q]
      BY <1>1, <2>3
    <3> QED BY <1>1, <3>1, <3>2 DEF Gathered
  <2>5. Conserved(targets, pokemons, Gathered)'
    BY <2>2, <2>3, <2>4, HoldConserves
  <2>6. WithOthers(activity)'
    BY <2>3, CountKeepsOthers DEF ConservedInv
  <2> QED BY <2>5, <2>6 DEF ConservedInv
<1>4. CASE Counted
  <2>1. PICK t, p : t = counting[1] /\ p = counting[2]
    OBVIOUS
  <2>2. /\ t \in Trainers /\ counting # NoMessage /\ counting' = NoMessage
        /\ UNCHANGED <<pokemons, targets>> /\ Count(t, p, "NEW")
        /\ total_caught' = [total_caught EXCEPT ![p] = @ + 1]
    BY <1>1, <1>4, <2>1 DEF Counted, Count
  <2>3. \A q \in Pokemons : Gathered'[q] = Gathered[q]
    <3> SUFFICES ASSUME NEW q \in Pokemons PROVE Gathered'[q] = Gathered[q]
      OBVIOUS
    <3>1. Uncounted(q) = (IF q = p THEN 1 ELSE 0) /\ Uncounted(q)' = 0
      BY <2>1, <2>2 DEF Uncounted
    <3>2. total_caught'[q] = IF q = p THEN total_caught[q] + 1 ELSE total_caught[q]
      BY <1>1, <2>2
    <3> QED BY <1>1, <3>1, <3>2 DEF Gathered
  <2>4. Gathered' = Gathered
    BY <2>3 DEF Gathered
  <2>5. Conserved(targets, pokemons, Gathered)'
    BY <2>2, <2>4 DEF ConservedInv
  <2>6. WithOthers(activity)'
    BY <2>2, CountKeepsOthers DEF ConservedInv
  <2> QED BY <2>5, <2>6 DEF ConservedInv
<1> QED BY <1>2, <1>3, <1>4

\* ... a trade does, as nobody trades with itself, ...
LEMMA TradeConserves ==
  ASSUME DistinctObjectives, TeamInv, ConservedInv, NEW t \in Trainers, Trade(t)
  PROVE  ConservedInv'
<1> DEFINE friend == activity[t].with
<1>1. /\ pokemons \in [Trainers -> Seq(Pokemons)] /\ targets \in [Trainers -> Seq(Pokemons)]
      /\ activity \in [Trainers -> Activity] /\ total_caught \in [Pokemons -> Nat]
  BY DEF TeamInv, StateTyped
<1>2. activity[t].type = "TRADING" /\ friend \in Trainers /\ friend # t
  BY <1>1, Activities DEF Trade, ConservedInv, WithOthers
<1>3. PICK trade : trade = Traded(t, friend)
  OBVIOUS
<1>4. pokemons' = trade.has /\ targets' = trade.needs /\ Gathered' = Gathered
  BY <1>3 DEF Trade, requirements, messages, Gathered, Uncounted
<1>5. ASSUME NEW u \in Trainers
      PROVE  Once(targets[u])
  <2> SUFFICES ASSUME NEW p \in Pokemons PROVE Times(targets[u], p) <= 1
    BY DEF Once
  <2>1. Times(targets[u], p) <= Times(Objectives[u], p) /\ Times(Objectives[u], p) <= 1
    BY DEF ConservedInv, Conserved, DistinctObjectives, Once
  <2>2. Times(targets[u], p) \in Nat /\ Times(Objectives[u], p) \in Nat
    BY <1>1, ConfigurationIsLists, TimesIs DEF Lists
  <2> QED BY <2>1, <2>2
<1>6. Relieved(targets, pokemons, trade.needs, trade.has)
  BY <1>1, <1>2, <1>3, <1>5, TradeRelieves DEF Traded
<1>7. PICK act0, act, queue0, queue :
        /\ \A u \in Trainers : act0[u] = NoActivity \/ act0[u] = activity[u]
        /\ DOMAIN act0 = Trainers /\ act = activity'
        /\ Resumed(act0, queue0, total_caught, act, queue)
  <2>1. PICK other \in Trainers :
          Resumed([activity EXCEPT ![t] = NoActivity, ![other] = NoActivity],
                  RemoveFirst(ready_queue, t), total_caught, activity', ready_queue')
    BY TradeIs
  <2>2. PICK act0, act, queue0, queue :
          /\ act0 = [activity EXCEPT ![t] = NoActivity, ![other] = NoActivity]
          /\ act = activity' /\ queue0 = RemoveFirst(ready_queue, t) /\ queue = ready_queue'
    OBVIOUS
  <2>3. /\ \A u \in Trainers : act0[u] = NoActivity \/ act0[u] = activity[u]
        /\ DOMAIN act0 = Trainers
    BY <1>1, <2>2
  <2>4. Resumed(act0, queue0, total_caught, act, queue)
    BY <2>1, <2>2
  <2> QED BY <2>2, <2>3, <2>4
<1>8. WithOthers(act0)
  BY <1>7 DEF ConservedInv, WithOthers, NoActivity
<1>9. WithOthers(act)
  BY <1>7, <1>8, ResumedWithOthers
<1>10. Conserved(trade.needs, trade.has, Gathered)
  <2> SUFFICES ASSUME NEW p \in Pokemons
               PROVE  /\ Together(trade.needs, p) - Together(trade.has, p)
                           = Together(Objectives, p) - Together(Owned, p) - Gathered[p]
                      /\ \A u \in Trainers : Times(trade.needs[u], p) <= Times(Objectives[u], p)
    BY DEF Conserved
  <2>1. /\ Together(trade.needs, p) - Together(trade.has, p)
             = Together(targets, p) - Together(pokemons, p)
        /\ \A u \in Trainers : Times(trade.needs[u], p) <= Times(targets[u], p)
    BY <1>6 DEF Relieved
  <2>2. /\ Together(targets, p) - Together(pokemons, p)
             = Together(Objectives, p) - Together(Owned, p) - Gathered[p]
        /\ \A u \in Trainers : Times(targets[u], p) <= Times(Objectives[u], p)
    BY DEF ConservedInv, Conserved
  <2>3. ASSUME NEW u \in Trainers
        PROVE  Times(trade.needs[u], p) <= Times(Objectives[u], p)
    <3>1. trade.needs \in [Trainers -> Seq(Pokemons)]
      BY <1>1, <1>2, <1>3, TradeTyped DEF Traded
    <3>2. trade.needs[u] \in Seq(Pokemons) /\ targets[u] \in Seq(Pokemons)
          /\ Objectives[u] \in Seq(Pokemons)
      BY <1>1, <3>1, ConfigurationIsLists DEF Lists
    <3>3. /\ Times(trade.needs[u], p) \in Nat /\ Times(targets[u], p) \in Nat
          /\ Times(Objectives[u], p) \in Nat
      BY <3>2, TimesIs
    <3>4. Times(trade.needs[u], p) <= Times(targets[u], p)
          /\ Times(targets[u], p) <= Times(Objectives[u], p)
      BY <2>1, <2>2
    <3> QED BY <3>3, <3>4
  <2> QED BY <2>1, <2>2, <2>3
<1> QED BY <1>4, <1>7, <1>9, <1>10 DEF ConservedInv

\* ... and so does what gives and takes no pokemon.
LEMMA QuietConserves ==
  ASSUME ConservedInv, UNCHANGED <<pokemons, targets, total_caught, counting>>,
         \A t \in Trainers : activity'[t].type = "TRADING" => activity'[t] = activity[t]
  PROVE  ConservedInv'
<1>1. WithOthers(activity)'
  BY DEF ConservedInv, WithOthers
<1>2. Conserved(targets, pokemons, Gathered)'
  <2>1. Gathered' = Gathered
    BY DEF Gathered, Uncounted
  <2> QED BY <2>1 DEF ConservedInv
<1> QED BY <1>1, <1>2 DEF ConservedInv

LEMMA ConservedNext ==
  ASSUME DistinctObjectives
  PROVE  TeamInv /\ ConservedInv /\ [Next]_vars => ConservedInv'
<1> SUFFICES ASSUME TeamInv, ConservedInv, [Next]_vars PROVE ConservedInv'
  OBVIOUS
<1>1. activity \in [Trainers -> Activity] /\ AtWork
  BY DEF TeamInv, StateTyped
<1>2. CASE UNCHANGED <<pokemons, targets, total_caught, activity, counting>>
  BY <1>2, QuietConserves
<1>3. CASE UNCHANGED vars
  BY <1>2, <1>3 DEF vars, trainer, requirements, messages
<1>4. CASE Connect
  BY <1>2, <1>4 DEF Connect, trainer, requirements, messages
<1>5. CASE \E r \in Receivers : Require(r) \/ \E a \in Appearances : Appear(r, a)
  BY <1>2, <1>5 DEF Require, Appear, trainer, requirements
<1>6. CASE \E t \in Trainers : Caught(t) \/ Escaped(t) \/ TrainerStep(t)
  <2>1. PICK t \in Trainers : Caught(t) \/ Escaped(t) \/ TrainerStep(t)
    BY <1>6
  <2>2. CASE Caught(t) \/ Register(t)
    BY <2>2, CatchConserves
  <2>4. CASE Escaped(t)
    <3>1. \A u \in Trainers : activity'[u].type = "TRADING" => activity'[u] = activity[u]
      BY <1>1, <2>4 DEF Escaped, NoActivity
    <3> QED BY <2>4, <3>1, QuietConserves DEF Escaped, messages
  <2>5. CASE SendCatch(t)
    <3>1. \A u \in Trainers : activity'[u].type = "TRADING" => activity'[u] = activity[u]
      <4>1. activity' = [activity EXCEPT ![t].type = "AWAITING_CAPTURE_RESULT"]
        BY <2>5 DEF SendCatch
      <4>2. activity[t].type = "CAPTURING"
        BY <1>1, <2>5 DEF SendCatch, AtWork
      <4>3. activity'[t].type = "AWAITING_CAPTURE_RESULT"
        BY <1>1, <4>1, <4>2 DEF Activity, NoActivity
      <4>4. \A u \in Trainers : u # t => activity'[u] = activity[u]
        BY <1>1, <4>1
      <4> QED BY <4>3, <4>4
    <3> QED BY <2>5, <3>1, QuietConserves DEF SendCatch, requirements, messages
  <2>6. CASE Trade(t)
    BY <2>6, TradeConserves
  <2>7. CASE \/ CycleOfNothing(t) \/ Move(t) \/ Arrive(t) \/ CycleAwaiting(t) \/ WaitToTrade(t)
             \/ EndCycle(t)
    BY <1>2, <2>7
       DEF CycleOfNothing, Move, Arrive, CycleAwaiting, WaitToTrade, EndCycle, trainer, requirements,
           messages
  <2> QED BY <2>1, <2>2, <2>4, <2>5, <2>6, <2>7 DEF TrainerStep
<1>7. CASE PlannerStep
  <2>1. CASE Assign
    <3>1. \A u \in Trainers : activity'[u].type = "TRADING" => activity'[u] = activity[u]
      <4>1. PICK t \in Trainers : activity' = [activity EXCEPT ![t] =
              [type |-> "CAPTURING", pokemon |-> Head(required_pokemons).pokemon,
               x |-> Head(required_pokemons).x]]
        BY <2>1 DEF Assign
      <4> QED BY <1>1, <4>1
    <3> QED BY <2>1, <3>1, QuietConserves DEF Assign, requirements, messages
  <2>2. CASE Wake \/ Sort \/ Test \/ Lock \/ Unlock
    BY <1>2, <2>2 DEF Wake, Sort, Test, Lock, Unlock, trainer, requirements, messages
  <2> QED BY <1>7, <2>1, <2>2 DEF PlannerStep
<1>8. CASE Counted
  BY <1>8, CatchConserves
<1> QED BY <1>3, <1>4, <1>5, <1>6, <1>7, <1>8 DEF Next

\* PokemonsConserved: captures and trades (_trade, _diff_my_caught_pokemons) neither lose nor
\* make a pokemon in a team where no trainer wants two of a kind; where one does, a trade that
\* gives it both takes another pokemon from the one who gives as well.
THEOREM NoPokemonIsLost ==
  ASSUME OneReceiver, DistinctObjectives
  PROVE  Spec => []PokemonsConserved
<1>1. Spec => []TeamInv
  BY TeamKept
<1>2. TeamInv /\ ConservedInv /\ [Next]_vars => ConservedInv'
  BY ConservedNext
<1> QED BY <1>1, <1>2, ConservedInitially, ConservedInvImplies, PTL DEF Spec

-----------------------------------------------------------------------------
(* First come, first served: who has work is in line for it *)

\* Who is taken from the ready queue is in it once less...
LEMMA TimesTail ==
  ASSUME NEW s \in Seq(Trainers), s # <<>>, NEW t
  PROVE  Times(s, t) = Times(Tail(s), t) + (IF t = Head(s) THEN 1 ELSE 0)
<1>1. Tail(s) \in Seq(Trainers)
  BY HeadTailProperties
<1>2. Times(Tail(s), t) = Cardinality(PlacesOf(Tail(s), {t}))
      /\ Times(s, t) = Cardinality(PlacesOf(s, {t}))
  BY <1>1, TimesIs
<1>3. Cardinality(PlacesOf(s, {t}))
        = Cardinality(PlacesOf(Tail(s), {t})) + (IF Head(s) \in {t} THEN 1 ELSE 0)
  BY CountTail
<1> QED BY <1>2, <1>3

\* ... and nothing is removed for who is not in it.
LEMMA RemoveNobody ==
  ASSUME NEW s \in Seq(Trainers), NEW t, Times(s, t) = 0
  PROVE  RemoveFirst(s, t) = s
<1>1. Cardinality(PlacesOf(s, {t})) = 0 /\ IsFiniteSet(PlacesOf(s, {t}))
      /\ PlacesOf(s, {t}) = {i \in 1..Len(s) : s[i] \in {t}}
  BY TimesIs, PlacesAreFinite
<1>2. PlacesOf(s, {t}) = {}
  BY <1>1, FS_EmptySet
<1>3. \A i \in 1..Len(s) : s[i] # t
  BY <1>1, <1>2
<1> QED BY <1>3 DEF RemoveFirst

\* The trainers that have work to do, given what they are to do and where they are.
Busy(act, pcs, t) == act[t].type \in {"CAPTURING", "TRADING"} /\ pcs[t] \notin {"send", "register"}

Balanced(queue, executing, act, pcs) ==
  \A t \in Trainers :
    Times(queue, t) + (IF executing = t THEN 1 ELSE 0) = (IF Busy(act, pcs, t) THEN 1 ELSE 0)

\* Nobody is awake but the trainer that executes.
AwakeExecutes == \A t \in Trainers : ~stats_mutex[t] => executing_trainer = t

FifoInv ==
  planning_alg = "FIFO" =>
    Balanced(ready_queue, executing_trainer, activity, pc) /\ AwakeExecutes

\* The invariant says what the property does.
LEMMA FifoInvImplies == FifoInv => NoTrainerForgotten
BY DEF FifoInv, Balanced, Busy, NoTrainerForgotten, WithWork

\* Who executes has work, and is not in the ready queue.
LEMMA ExecutingIsBusy ==
  ASSUME NEW queue \in Seq(Trainers), NEW act, NEW pcs, NEW t \in Trainers,
         Balanced(queue, t, act, pcs)
  PROVE  Busy(act, pcs, t) /\ Times(queue, t) = 0 /\ RemoveFirst(queue, t) = queue
<1>1. Times(queue, t) \in Nat
  BY TimesIs
<1>2. Times(queue, t) + 1 = (IF Busy(act, pcs, t) THEN 1 ELSE 0)
  BY DEF Balanced
<1>3. Busy(act, pcs, t) /\ Times(queue, t) = 0
  BY <1>1, <1>2
<1> QED BY <1>3, RemoveNobody

\* It stays so if the same trainers are busy.
LEMMA BalanceStays ==
  ASSUME NEW queue, NEW executing, NEW act, NEW pcs, Balanced(queue, executing, act, pcs),
         NEW act1, NEW pcs1, \A t \in Trainers : Busy(act1, pcs1, t) <=> Busy(act, pcs, t)
  PROVE  Balanced(queue, executing, act1, pcs1)
BY DEF Balanced

\* A detection that has a trainer trade when nobody is busy puts it in line.
LEMMA ResumedBalanced ==
  ASSUME NEW queue0 \in Seq(Trainers), NEW executing, NEW act0 \in [Trainers -> Activity],
         NEW pcs, Balanced(queue0, executing, act0, pcs),
         NEW caught, NEW act, NEW queue, Resumed(act0, queue0, caught, act, queue),
         requirements_are_finished(caught) =>
           \A u \in Trainers : ~Busy(act0, pcs, u) /\ pcs[u] \notin {"send", "register"}
  PROVE  Balanced(queue, executing, act, pcs)
<1>1. CASE act = act0 /\ queue = queue0
  BY <1>1
<1>2. CASE ~(act = act0 /\ queue = queue0)
  <2>1. \A u \in Trainers : ~Busy(act0, pcs, u) /\ pcs[u] \notin {"send", "register"}
    BY <1>2 DEF Resumed
  <2>2. PICK root \in Trainers, u \in Trainers :
          /\ act = [act0 EXCEPT ![u] = [type |-> "TRADING", with |-> root]]
          /\ queue = Append(queue0, u)
    BY <1>2 DEF Resumed
  <2>3. act[u].type = "TRADING" /\ \A t \in Trainers : t # u => act[t] = act0[t]
    BY <2>2
  <2>4. \A t \in Trainers : Busy(act, pcs, t) <=> t = u
    BY <2>1, <2>3 DEF Busy
  <2> SUFFICES ASSUME NEW t \in Trainers
               PROVE  Times(queue, t) + (IF executing = t THEN 1 ELSE 0)
                        = (IF t = u THEN 1 ELSE 0)
    BY <2>4 DEF Balanced
  <2>5. Times(queue0, t) + (IF executing = t THEN 1 ELSE 0) = 0 /\ Times(queue0, t) \in Nat
    BY <2>1, TimesIs DEF Balanced
  <2>6. Times(queue, t) = Times(queue0, t) + (IF t = u THEN 1 ELSE 0)
    BY <2>2, TimesAppend
  <2> QED BY <2>5, <2>6
<1> QED BY <1>1, <1>2

\* Steps after which the same trainers are busy, and no other one is awake.
LEMMA QuietKeepsFifo ==
  ASSUME FifoInv,
         UNCHANGED <<planning_alg, ready_queue, executing_trainer>>,
         \A t \in Trainers : /\ Busy(activity', pc', t) <=> Busy(activity, pc, t)
                             /\ ~stats_mutex'[t] => ~stats_mutex[t]
  PROVE  FifoInv'
<1> SUFFICES ASSUME planning_alg = "FIFO"
             PROVE  Balanced(ready_queue, executing_trainer, activity, pc)' /\ AwakeExecutes'
  BY DEF FifoInv
<1>1. Balanced(ready_queue, executing_trainer, activity, pc) /\ AwakeExecutes
  BY DEF FifoInv
<1>2. PICK queue, executing, act1, pcs1 :
        /\ queue = ready_queue /\ executing = executing_trainer /\ act1 = activity' /\ pcs1 = pc'
  OBVIOUS
<1>3. \A t \in Trainers : Busy(act1, pcs1, t) <=> Busy(activity, pc, t)
  BY <1>2
<1>4. Balanced(queue, executing, act1, pcs1)
  BY <1>1, <1>2, <1>3, BalanceStays
<1>5. Balanced(ready_queue, executing_trainer, activity, pc)'
  BY <1>2, <1>4
<1>6. AwakeExecutes'
  BY <1>1 DEF AwakeExecutes
<1> QED BY <1>5, <1>6

\* A cycle is of the trainer that executes, and nobody is awake after it has begun.
LEMMA CycleExecutes ==
  ASSUME TeamInv, FifoInv, planning_alg = "FIFO", NEW t \in Trainers, NEW next, Cycle(t, next)
  PROVE  /\ executing_trainer = t /\ Busy(activity, pc, t) /\ Times(ready_queue, t) = 0
         /\ RemoveFirst(ready_queue, t) = ready_queue
         /\ \A u \in Trainers : stats_mutex'[u]
         /\ \A u \in Trainers : pc'[u] = IF u = t THEN next ELSE pc[u]
<1>1. /\ stats_mutex \in [Trainers -> BOOLEAN] /\ ready_queue \in Seq(Trainers)
      /\ pc \in [Trainers -> {"wait", "send", "register", "end"}]
  BY DEF TeamInv, TokenInv, PlanningTyped
<1>2. ~stats_mutex[t] /\ stats_mutex' = [stats_mutex EXCEPT ![t] = TRUE]
      /\ pc' = [pc EXCEPT ![t] = next]
  BY DEF Cycle
<1>3. \A u \in Trainers : ~stats_mutex[u] => executing_trainer = u
  BY DEF FifoInv, AwakeExecutes
<1>4. executing_trainer = t
  BY <1>2, <1>3
<1>5. Balanced(ready_queue, t, activity, pc)
  BY <1>4 DEF FifoInv
<1>6. \A u \in Trainers : stats_mutex'[u]
  BY <1>1, <1>2, <1>3, <1>4
<1> QED BY <1>1, <1>2, <1>4, <1>5, <1>6, ExecutingIsBusy

\* The steps of a cycle that keep the trainer executing.
LEMMA TrainerKeepsFifo ==
  ASSUME TeamInv, FifoInv, NEW t \in Trainers,
         \/ CycleOfNothing(t) \/ Move(t) \/ CycleAwaiting(t) \/ WaitToTrade(t)
         \/ EndCycle(t) \/ SendCatch(t) \/ Escaped(t)
  PROVE  FifoInv'
<1> SUFFICES ASSUME planning_alg = "FIFO" PROVE FifoInv'
  BY DEF FifoInv, CycleOfNothing, Move, CycleAwaiting, WaitToTrade, EndCycle, SendCatch, Escaped,
         config
<1>1. /\ pc \in [Trainers -> {"wait", "send", "register", "end"}] /\ AtWork
      /\ activity \in [Trainers -> Activity] /\ stats_mutex \in [Trainers -> BOOLEAN]
  BY DEF TeamInv, TokenInv, PlanningTyped, StateTyped
<1>2. UNCHANGED <<planning_alg, ready_queue, executing_trainer>>
  BY DEF CycleOfNothing, Move, CycleAwaiting, WaitToTrade, EndCycle, SendCatch, Escaped, config,
         planning, QuantumOver
<1>3. CASE CycleOfNothing(t) \/ Move(t) \/ CycleAwaiting(t) \/ WaitToTrade(t)
  <2>1. Cycle(t, "end") /\ UNCHANGED activity
    BY <1>3 DEF CycleOfNothing, Move, CycleAwaiting, WaitToTrade, trainer
  <2>2. pc[t] = "wait"
    BY <2>1 DEF Cycle
  <2>3. \A u \in Trainers : stats_mutex'[u] /\ pc'[u] = IF u = t THEN "end" ELSE pc[u]
    BY <2>1, CycleExecutes
  <2>4. \A u \in Trainers : Busy(activity', pc', u) <=> Busy(activity, pc, u)
    BY <2>1, <2>2, <2>3 DEF Busy
  <2> QED BY <1>2, <2>3, <2>4, QuietKeepsFifo
<1>4. CASE EndCycle(t)
  <2>1. pc[t] = "end" /\ pc' = [pc EXCEPT ![t] = "wait"] /\ UNCHANGED <<activity, stats_mutex>>
    BY <1>4 DEF EndCycle, trainer
  <2>2. \A u \in Trainers : Busy(activity', pc', u) <=> Busy(activity, pc, u)
    BY <1>1, <2>1 DEF Busy
  <2> QED BY <1>2, <2>1, <2>2, QuietKeepsFifo
<1>5. CASE SendCatch(t)
  <2>1. /\ pc[t] = "send" /\ pc' = [pc EXCEPT ![t] = "end"] /\ UNCHANGED stats_mutex
        /\ activity' = [activity EXCEPT ![t].type = "AWAITING_CAPTURE_RESULT"]
    BY <1>5 DEF SendCatch
  <2>2. activity[t].type = "CAPTURING"
    BY <1>1, <2>1 DEF AtWork
  <2>3. activity[t] \in [type : {"CAPTURING", "AWAITING_CAPTURE_RESULT"},
                         pokemon : Pokemons, x : Positions]
    BY <1>1, <2>2 DEF Activity, NoActivity
  <2>4. activity'[t].type = "AWAITING_CAPTURE_RESULT"
        /\ \A u \in Trainers : u # t => activity'[u] = activity[u]
    BY <1>1, <2>1, <2>3
  <2>5. \A u \in Trainers : Busy(activity', pc', u) <=> Busy(activity, pc, u)
    BY <1>1, <2>1, <2>4 DEF Busy
  <2> QED BY <1>2, <2>1, <2>5, QuietKeepsFifo
<1>6. CASE Escaped(t)
  <2>1. /\ activity[t].type = "AWAITING_CAPTURE_RESULT" /\ UNCHANGED <<pc, stats_mutex>>
        /\ activity' = [activity EXCEPT ![t] = NoActivity]
    BY <1>6 DEF Escaped, Hears, thread
  <2>2. \A u \in Trainers : Busy(activity', pc', u) <=> Busy(activity, pc, u)
    BY <1>1, <2>1 DEF Busy, NoActivity
  <2> QED BY <1>2, <2>1, <2>2, QuietKeepsFifo
<1> QED BY <1>3, <1>4, <1>5, <1>6

\* A trainer that arrives no longer executes, and has its arrival to deal with.
LEMMA ArriveKeepsFifo ==
  ASSUME TeamInv, FifoInv, NEW t \in Trainers, Arrive(t)
  PROVE  FifoInv'
<1> SUFFICES ASSUME planning_alg = "FIFO"
             PROVE  Balanced(ready_queue, executing_trainer, activity, pc)' /\ AwakeExecutes'
  BY DEF FifoInv, Arrive, config
<1>1. PICK next \in {"send", "register"} : Cycle(t, next)
  BY DEF Arrive
<1>2. /\ executing_trainer = t /\ Times(ready_queue, t) = 0
      /\ RemoveFirst(ready_queue, t) = ready_queue
      /\ \A u \in Trainers : stats_mutex'[u] /\ pc'[u] = IF u = t THEN next ELSE pc[u]
  BY <1>1, CycleExecutes
<1>3. ready_queue' = ready_queue /\ executing_trainer' = Nobody /\ UNCHANGED activity
  BY <1>2 DEF Arrive, LeavePlanning, trainer
<1>4. \A u \in Trainers : Times(ready_queue, u) + (IF t = u THEN 1 ELSE 0)
                            = (IF Busy(activity, pc, u) THEN 1 ELSE 0)
  BY <1>2 DEF FifoInv, Balanced
<1>5. \A u \in Trainers : Times(ready_queue, u)
                            = (IF u # t /\ Busy(activity, pc, u) THEN 1 ELSE 0)
  <2> SUFFICES ASSUME NEW u \in Trainers
               PROVE  Times(ready_queue, u) = (IF u # t /\ Busy(activity, pc, u) THEN 1 ELSE 0)
    OBVIOUS
  <2>1. Times(ready_queue, u) \in Nat
    BY TimesIs DEF TeamInv, TokenInv, PlanningTyped
  <2> QED BY <1>2, <1>4, <2>1
<1>6. PICK queue, act, pcs : queue = ready_queue /\ act = activity /\ pcs = pc'
  OBVIOUS
<1>7. \A u \in Trainers : Busy(act, pcs, u) <=> u # t /\ Busy(activity, pc, u)
  BY <1>2, <1>6 DEF Busy
<1>8. Balanced(queue, Nobody, act, pcs)
  <2> SUFFICES ASSUME NEW u \in Trainers
               PROVE  Times(queue, u) + 0 = (IF Busy(act, pcs, u) THEN 1 ELSE 0)
    BY TeamIsFinite DEF Balanced
  <2> QED BY <1>5, <1>6, <1>7
<1>9. Balanced(ready_queue, executing_trainer, activity, pc)'
  BY <1>3, <1>6, <1>8
<1> QED BY <1>2, <1>9 DEF AwakeExecutes

\* The planner gives work to who has none, and puts it in line.
LEMMA AssignKeepsFifo ==
  ASSUME TeamInv, FifoInv, Assign
  PROVE  FifoInv'
<1> SUFFICES ASSUME planning_alg = "FIFO"
             PROVE  Balanced(ready_queue, executing_trainer, activity, pc)' /\ AwakeExecutes'
  BY DEF FifoInv, Assign, config
<1>1. /\ ready_queue \in Seq(Trainers) /\ activity \in [Trainers -> Activity] /\ AtWork
      /\ Balanced(ready_queue, executing_trainer, activity, pc) /\ AwakeExecutes
  BY DEF TeamInv, TokenInv, PlanningTyped, StateTyped, FifoInv
<1>2. PICK t \in Trainers :
        /\ is_free(t) /\ ready_queue' = Append(ready_queue, t)
        /\ activity' = [activity EXCEPT ![t] =
             [type |-> "CAPTURING", pokemon |-> Head(required_pokemons).pokemon,
              x |-> Head(required_pokemons).x]]
  BY DEF Assign, IsClosest, Candidates
<1>3. UNCHANGED <<executing_trainer, pc, stats_mutex>>
  BY DEF Assign, thread
<1>4. activity[t].type = "none"
  BY <1>2 DEF is_free, NoActivity
<1>5. pc[t] \notin {"send", "register"}
  BY <1>1, <1>4 DEF AtWork
<1>6. PICK queue, executing, act, pcs :
        queue = ready_queue' /\ executing = executing_trainer /\ act = activity' /\ pcs = pc
  OBVIOUS
<1>7. act[t].type = "CAPTURING" /\ \A u \in Trainers : u # t => act[u] = activity[u]
  BY <1>1, <1>2, <1>6
<1>8. \A u \in Trainers : Busy(act, pcs, u) <=> u = t \/ Busy(activity, pc, u)
  BY <1>5, <1>6, <1>7 DEF Busy
<1>9. ~Busy(activity, pc, t)
  BY <1>4 DEF Busy
<1>10. Balanced(queue, executing, act, pcs)
  <2> SUFFICES ASSUME NEW u \in Trainers
               PROVE  Times(queue, u) + (IF executing = u THEN 1 ELSE 0)
                        = (IF Busy(act, pcs, u) THEN 1 ELSE 0)
    BY DEF Balanced
  <2>1. Times(queue, u) = Times(ready_queue, u) + (IF u = t THEN 1 ELSE 0)
        /\ Times(ready_queue, u) \in Nat
    <3>1. ready_queue \in Seq(Trainers)
      BY <1>1
    <3>2. queue = Append(ready_queue, t)
      BY <1>2, <1>6
    <3>3. Times(ready_queue, u) \in Nat
      BY <3>1, TimesIs
    <3>4. Times(Append(ready_queue, t), u)
            = Times(ready_queue, u) + (IF u = t THEN 1 ELSE 0)
      BY <3>1, TimesAppend
    <3> QED BY <3>2, <3>3, <3>4
  <2>2. Times(ready_queue, u) + (IF executing = u THEN 1 ELSE 0)
          = (IF Busy(activity, pc, u) THEN 1 ELSE 0)
    BY <1>1, <1>6 DEF Balanced
  <2> QED BY <1>8, <1>9, <2>1, <2>2
<1>11. Balanced(ready_queue, executing_trainer, activity, pc)'
  BY <1>3, <1>6, <1>10
<1> QED BY <1>1, <1>3, <1>11 DEF AwakeExecutes

\* Who is first in line executes.
LEMMA SortKeepsFifo ==
  ASSUME TeamInv, FifoInv, Sort
  PROVE  FifoInv'
<1> SUFFICES ASSUME planning_alg = "FIFO"
             PROVE  Balanced(ready_queue, executing_trainer, activity, pc)' /\ AwakeExecutes'
  BY DEF FifoInv, Sort, config
<1>1. /\ ready_queue \in Seq(Trainers)
      /\ Balanced(ready_queue, executing_trainer, activity, pc) /\ AwakeExecutes
      /\ UNCHANGED <<activity, pc, stats_mutex>>
  BY DEF TeamInv, TokenInv, PlanningTyped, FifoInv, Sort, thread
<1>2. CASE ready_queue # <<>> /\ executing_trainer = Nobody
  <2>1. PICK h : h = Head(ready_queue)
    OBVIOUS
  <2>2. executing_trainer' = h /\ ready_queue' = Tail(ready_queue) /\ h \in Trainers
    BY <1>1, <1>2, <2>1, HeadTailProperties DEF Sort
  <2>3. \A u \in Trainers : Times(ready_queue, u) = (IF Busy(activity, pc, u) THEN 1 ELSE 0)
    <3> SUFFICES ASSUME NEW u \in Trainers
                 PROVE  Times(ready_queue, u) = (IF Busy(activity, pc, u) THEN 1 ELSE 0)
      OBVIOUS
    <3>1. Times(ready_queue, u) + 0 = (IF Busy(activity, pc, u) THEN 1 ELSE 0)
      BY <1>1, <1>2, TeamIsFinite DEF Balanced
    <3>2. Times(ready_queue, u) \in Nat
      BY <1>1, TimesIs
    <3> QED BY <3>1, <3>2
  <2>4. \A u \in Trainers :
          Times(ready_queue, u) = Times(Tail(ready_queue), u) + (IF u = h THEN 1 ELSE 0)
    BY <1>1, <1>2, <2>1, TimesTail
  <2>5. PICK queue, act, pcs : queue = Tail(ready_queue) /\ act = activity /\ pcs = pc
    OBVIOUS
  <2>6. Balanced(queue, h, act, pcs)
    BY <2>3, <2>4, <2>5 DEF Balanced
  <2>7. Balanced(ready_queue, executing_trainer, activity, pc)'
    BY <1>1, <2>2, <2>5, <2>6
  <2>8. \A u \in Trainers : stats_mutex[u] \/ executing_trainer = u
    BY <1>1 DEF AwakeExecutes
  <2>9. AwakeExecutes'
    BY <1>1, <1>2, <2>8, TeamIsFinite DEF AwakeExecutes
  <2> QED BY <2>7, <2>9
<1>3. CASE ~(ready_queue # <<>> /\ executing_trainer = Nobody)
  <2>1. UNCHANGED <<ready_queue, executing_trainer>>
    BY <1>3 DEF Sort
  <2> QED BY <1>1, <2>1 DEF AwakeExecutes
<1> QED BY <1>2, <1>3

\* The planner wakes the trainer that executes, and messages that bring no capture are
\* none of the queue's business.
LEMMA OthersKeepFifo ==
  ASSUME TeamInv, FifoInv,
         \/ Wake \/ Test \/ Lock \/ Unlock \/ Connect
         \/ \E r \in Receivers : Require(r) \/ \E a \in Appearances : Appear(r, a)
         \/ \E t \in Trainers : Caught(t)
  PROVE  FifoInv'
<1>1. UNCHANGED <<planning_alg, ready_queue, executing_trainer, activity, pc>>
  BY DEF Wake, Test, Lock, Unlock, Connect, Require, Appear, Caught, config, trainer, thread, planning
<1>2. /\ stats_mutex \in [Trainers -> BOOLEAN]
      /\ \/ UNCHANGED stats_mutex
         \/ /\ executing_trainer # Nobody
            /\ stats_mutex' = [stats_mutex EXCEPT ![executing_trainer] = FALSE]
  BY DEF Wake, Test, Lock, Unlock, Connect, Require, Appear, Caught, thread, TeamInv, TokenInv,
         PlanningTyped
<1>3. \A u \in Trainers : ~stats_mutex'[u] => ~stats_mutex[u] \/ executing_trainer = u
  BY <1>2
<1>4. Balanced(ready_queue, executing_trainer, activity, pc)
        => Balanced(ready_queue, executing_trainer, activity, pc)'
  BY <1>1
<1>5. AwakeExecutes => AwakeExecutes'
  BY <1>1, <1>3 DEF AwakeExecutes
<1> QED BY <1>1, <1>4, <1>5 DEF FifoInv

\* The count of a catch leaves the trainer without work; if it was the last one, nobody has
\* any, and the trainer that a detection has trade is put in line.
LEMMA CountKeepsFifo ==
  ASSUME TeamInv, OnlyNeeded', FifoInv, planning_alg = "FIFO", planning_alg' = "FIFO",
         NEW t \in Trainers, IsCapture(activity[t]), ~Busy(activity, pc, t),
         NEW completed \in {"NEW", "EXIT"}, Count(t, activity[t].pokemon, completed),
         Taken' = [Taken EXCEPT ![activity[t].pokemon] = @ - 1],
         UNCHANGED <<executing_trainer, stats_mutex>>,
         UNCHANGED pc \/ pc' = [pc EXCEPT ![t] = "end"],
         pc[t] \in {"send", "register"} => pc' = [pc EXCEPT ![t] = "end"]
  PROVE  FifoInv'
<1> SUFFICES Balanced(ready_queue, executing_trainer, activity, pc)' /\ AwakeExecutes'
  BY DEF FifoInv
<1>1. /\ StateTyped /\ Reserved(required_pokemons, activity, Taken)
      /\ AtWork /\ Balanced(ready_queue, executing_trainer, activity, pc)
      /\ AwakeExecutes /\ ready_queue \in Seq(Trainers)
      /\ pc \in [Trainers -> {"wait", "send", "register", "end"}]
  BY DEF TeamInv, TokenInv, PlanningTyped, FifoInv
<1>2. \A u \in Trainers : pc'[u] \in {"send", "register"}
                              => pc[u] \in {"send", "register"} /\ u # t
  BY <1>1
<1>3. /\ total_caught' = [total_caught EXCEPT ![activity[t].pokemon] = @ + 1]
      /\ Resumed([activity EXCEPT ![t] = NoActivity], ready_queue, total_caught', activity',
                 ready_queue')
  BY CountIs
<1>4. PICK act0, caught, taken, progress, act, queue, pcs :
        /\ act0 = [activity EXCEPT ![t] = NoActivity] /\ caught = total_caught' /\ taken = Taken
        /\ progress = Taken' /\ act = activity' /\ queue = ready_queue' /\ pcs = pc'
  OBVIOUS
<1>5. taken \in [Pokemons -> Nat] /\ progress = [taken EXCEPT ![activity[t].pokemon] = @ - 1]
  BY <1>4, TakenTyped
<1>6. /\ act0 \in [Trainers -> Activity] /\ progress \in [Pokemons -> Nat]
      /\ Reserved(required_pokemons, act0, progress)
  <2>1. /\ required_pokemons \in Seq(Appearances) /\ activity \in [Trainers -> Activity]
        /\ Reserved(required_pokemons, activity, taken)
    BY <1>1, <1>4 DEF StateTyped
  <2>2. /\ [activity EXCEPT ![t] = NoActivity] \in [Trainers -> Activity]
        /\ [taken EXCEPT ![activity[t].pokemon] = @ - 1] \in [Pokemons -> Nat]
        /\ Reserved(required_pokemons, [activity EXCEPT ![t] = NoActivity],
                    [taken EXCEPT ![activity[t].pokemon] = @ - 1])
    BY <1>5, <2>1, CaptureReleased
  <2> QED BY <1>4, <1>5, <2>2
<1>7. \A u \in Trainers : act0[u] = IF u = t THEN NoActivity ELSE activity[u]
  BY <1>1, <1>4 DEF StateTyped
<1>8. caught \in [Pokemons -> Nat] /\ Enough(caught, progress)
  <2>1. activity[t].pokemon \in Pokemons
    BY <1>1, Activities DEF StateTyped
  <2> QED BY <1>1, <1>3, <1>4, <2>1 DEF StateTyped, OnlyNeeded, Enough
<1>9. \A u \in Trainers : act0[u].type # "TRADING"
  BY <1>7, CaptureBeforeTrades DEF NoActivity
<1>10. requirements_are_finished(caught) =>
         \A u \in Trainers : ~Busy(act0, pcs, u) /\ pcs[u] \notin {"send", "register"}
  <2> SUFFICES ASSUME requirements_are_finished(caught), NEW u \in Trainers
               PROVE  ~Busy(act0, pcs, u) /\ pcs[u] \notin {"send", "register"}
    OBVIOUS
  <2>1. ~IsCapture(act0[u])
    BY <1>1, <1>6, <1>8, NothingInProgress DEF StateTyped
  <2>2. ~Busy(act0, pcs, u)
    BY <1>9, <2>1 DEF Busy, IsCapture
  <2>3. pcs[u] \in {"send", "register"} => act0[u].type = "CAPTURING"
    BY <1>1, <1>2, <1>4, <1>7 DEF AtWork
  <2> QED BY <2>1, <2>2, <2>3 DEF IsCapture
<1>11. Balanced(ready_queue, executing_trainer, act0, pcs)
  <2>1. \A u \in Trainers : Busy(act0, pcs, u) <=> Busy(activity, pc, u)
    <3> SUFFICES ASSUME NEW u \in Trainers PROVE Busy(act0, pcs, u) <=> Busy(activity, pc, u)
      OBVIOUS
    <3>1. CASE u = t
      BY <1>7, <3>1 DEF Busy, NoActivity
    <3>2. CASE u # t
      BY <1>1, <1>4, <1>7, <3>2 DEF Busy
    <3> QED BY <3>1, <3>2
  <2> QED BY <1>1, <2>1, BalanceStays
<1>12. PICK queue0, executing : queue0 = ready_queue /\ executing = executing_trainer
  OBVIOUS
<1>13. Balanced(queue, executing, act, pcs)
  <2>1. Resumed(act0, queue0, caught, act, queue)
    BY <1>3, <1>4, <1>12
  <2>2. Balanced(queue0, executing, act0, pcs) /\ queue0 \in Seq(Trainers)
    BY <1>1, <1>11, <1>12
  <2> QED BY <1>6, <1>10, <2>1, <2>2, ResumedBalanced
<1>14. Balanced(ready_queue, executing_trainer, activity, pc)'
  BY <1>4, <1>12, <1>13
<1> QED BY <1>1, <1>14 DEF AwakeExecutes

\* The listener counts the catch of a trainer that has no work, ...
LEMMA CountedKeepsFifo ==
  ASSUME TeamInv, OnlyNeeded', FifoInv, Counted
  PROVE  FifoInv'
<1> SUFFICES ASSUME planning_alg = "FIFO" PROVE FifoInv'
  BY DEF FifoInv, Counted, config
<1>1. PICK t : t = counting[1]
  OBVIOUS
<1>2. /\ t \in Trainers /\ IsCapture(activity[t]) /\ activity[t].pokemon = counting[2]
      /\ activity[t].type = "AWAITING_CAPTURE_RESULT" /\ AtWork
  BY <1>1, TakenTyped DEF TeamInv, BeingCounted, Counted
<1>3. /\ Count(t, activity[t].pokemon, "NEW") /\ planning_alg' = "FIFO"
      /\ UNCHANGED <<executing_trainer, stats_mutex, pc>>
  BY <1>1, <1>2 DEF Counted, config, thread
<1>4. ~Busy(activity, pc, t) /\ pc[t] \notin {"send", "register"}
  BY <1>2 DEF Busy, AtWork
<1>5. Taken' = [Taken EXCEPT ![activity[t].pokemon] = @ - 1]
  BY <1>1, <1>2, CountedTakes
<1> QED BY <1>2, <1>3, <1>4, <1>5, CountKeepsFifo

\* ... and a trainer without a broker that of its own.
LEMMA RegisterKeepsFifo ==
  ASSUME TeamInv, OnlyNeeded', FifoInv, NEW t \in Trainers, Register(t)
  PROVE  FifoInv'
<1> SUFFICES ASSUME planning_alg = "FIFO" PROVE FifoInv'
  BY DEF FifoInv, Register, config
<1>1. /\ Hold(t) /\ Count(t, activity[t].pokemon, "EXIT") /\ pc[t] = "register"
      /\ pc' = [pc EXCEPT ![t] = "end"] /\ planning_alg' = "FIFO"
      /\ UNCHANGED <<executing_trainer, stats_mutex, counting>>
  BY DEF Register, messages, config
<1>2. AtWork /\ currently_in_progress \in [Pokemons -> Int]
  BY DEF TeamInv, StateTyped
<1>3. IsCapture(activity[t]) /\ ~Busy(activity, pc, t)
  BY <1>1, <1>2 DEF IsCapture, AtWork, Busy
<1>4. /\ activity[t].pokemon \in Pokemons
      /\ currently_in_progress' = [currently_in_progress EXCEPT ![activity[t].pokemon] = @ - 1]
  BY <1>1, <1>3, HoldIs
<1>5. Taken' = [Taken EXCEPT ![activity[t].pokemon] = @ - 1]
  BY <1>1, <1>2, <1>4, TakenChanges
<1> QED BY <1>1, <1>3, <1>5, CountKeepsFifo

\* A trade leaves nobody with work, but who is to trade next.
LEMMA TradeKeepsFifo ==
  ASSUME TeamInv, FifoInv, NEW t \in Trainers, Trade(t)
  PROVE  FifoInv'
<1> SUFFICES ASSUME planning_alg = "FIFO"
             PROVE  Balanced(ready_queue, executing_trainer, activity, pc)' /\ AwakeExecutes'
  BY DEF FifoInv, Trade, config
<1>1. /\ StateTyped /\ Reserved(required_pokemons, activity, Taken)
      /\ Enough(total_caught, Taken) /\ Taken \in [Pokemons -> Nat] /\ requirements_are_finished(total_caught)
      /\ AtWork /\ OneTrading /\ ready_queue \in Seq(Trainers)
      /\ Balanced(ready_queue, executing_trainer, activity, pc)
  BY TakenTyped DEF TeamInv, OnlyNeeded, TradingLate, Trade, TokenInv, PlanningTyped, FifoInv
<1>2. Cycle(t, "end") /\ activity[t].type = "TRADING" /\ executing_trainer' = Nobody
  BY DEF Trade
<1>3. /\ Times(ready_queue, t) = 0 /\ RemoveFirst(ready_queue, t) = ready_queue
      /\ executing_trainer = t
      /\ \A u \in Trainers : stats_mutex'[u] /\ pc'[u] = IF u = t THEN "end" ELSE pc[u]
  BY <1>2, CycleExecutes
<1>4. PICK friend \in Trainers :
        Resumed([activity EXCEPT ![t] = NoActivity, ![friend] = NoActivity],
                RemoveFirst(ready_queue, t), total_caught, activity', ready_queue')
  BY TradeIs
<1>5. PICK act0, act, queue, queue0, pcs :
        /\ act0 = [activity EXCEPT ![t] = NoActivity, ![friend] = NoActivity]
        /\ act = activity' /\ queue = ready_queue' /\ queue0 = ready_queue /\ pcs = pc'
  OBVIOUS
<1>6. \A u \in Trainers : ~IsCapture(activity[u]) /\ pc[u] \notin {"send", "register"}
  <2>1. \A u \in Trainers : ~IsCapture(activity[u])
    BY <1>1, NothingInProgress DEF StateTyped
  <2> QED BY <1>1, <2>1 DEF AtWork, IsCapture
<1>7. \A u \in Trainers : u # t => ~Busy(activity, pc, u)
  BY <1>1, <1>2, <1>6 DEF OneTrading, Busy, IsCapture
<1>8. /\ act0 \in [Trainers -> Activity]
      /\ \A u \in Trainers : act0[u] = IF u \in {t, friend} THEN NoActivity ELSE activity[u]
  <2>1. NoActivity \in Activity
    BY DEF Activity
  <2> QED BY <1>1, <1>5, <2>1 DEF StateTyped
<1>9. \A u \in Trainers : ~Busy(act0, pcs, u) /\ pcs[u] \notin {"send", "register"}
  <2>1. \A u \in Trainers : pcs[u] = IF u = t THEN "end" ELSE pc[u]
    BY <1>3, <1>5
  <2>2. \A u \in Trainers : u # t => act0[u].type \notin {"CAPTURING", "TRADING"}
    BY <1>6, <1>7, <1>8 DEF Busy, NoActivity
  <2>3. act0[t].type = "none"
    BY <1>8 DEF NoActivity
  <2> QED BY <1>6, <2>1, <2>2, <2>3 DEF Busy
<1>10. \A u \in Trainers : Times(queue0, u) = 0
  <2> SUFFICES ASSUME NEW u \in Trainers, u # t PROVE Times(queue0, u) = 0
    BY <1>3, <1>5
  <2>1. Times(ready_queue, u) + 0 = 0
    BY <1>1, <1>3, <1>7 DEF Balanced
  <2>2. Times(ready_queue, u) \in Nat
    BY <1>1, TimesIs
  <2> QED BY <1>5, <2>1, <2>2
<1>11. Balanced(queue0, Nobody, act0, pcs)
  BY <1>9, <1>10, TeamIsFinite DEF Balanced
<1>12. Resumed(act0, queue0, total_caught, act, queue)
  BY <1>3, <1>4, <1>5
<1>13. Balanced(queue, Nobody, act, pcs)
  <2>1. queue0 \in Seq(Trainers)
    BY <1>1, <1>5
  <2> QED BY <1>8, <1>9, <1>11, <1>12, <2>1, ResumedBalanced
<1>14. Balanced(ready_queue, executing_trainer, activity, pc)'
  BY <1>2, <1>5, <1>13
<1> QED BY <1>3, <1>14 DEF AwakeExecutes

\* Nobody has work at first.
LEMMA FifoInit == Init => FifoInv
<1> SUFFICES ASSUME Init PROVE FifoInv
  OBVIOUS
<1>1. AwakeExecutes
  BY DEF Init, AwakeExecutes
<1>2. Balanced(ready_queue, executing_trainer, activity, pc)
  <2> SUFFICES ASSUME NEW t \in Trainers
               PROVE  Times(<<>>, t) + (IF Nobody = t THEN 1 ELSE 0)
                        = (IF Busy(activity, pc, t) THEN 1 ELSE 0)
    BY DEF Init, Balanced
  <2>1. ~Busy(activity, pc, t) /\ Nobody # t
    BY TeamIsFinite DEF Init, Busy, NoActivity
  <2>2. Times(<<>>, t) = 0
    <3>1. Occurrences(<<>>, t) = {}
      BY DEF Occurrences
    <3> QED BY <3>1, FS_EmptySet DEF Times
  <2> QED BY <2>1, <2>2
<1> QED BY <1>1, <1>2 DEF FifoInv

\* Every step keeps who has work in line.
LEMMA FifoNext == TeamInv /\ OnlyNeeded' /\ FifoInv /\ [Next]_vars => FifoInv'
<1> SUFFICES ASSUME TeamInv, OnlyNeeded', FifoInv, [Next]_vars PROVE FifoInv'
  OBVIOUS
<1>1. CASE UNCHANGED vars
  <2>1. UNCHANGED <<planning_alg, ready_queue, executing_trainer, activity, pc, stats_mutex>>
    BY <1>1 DEF vars, config, trainer, thread, planning
  <2> QED BY <2>1 DEF FifoInv, AwakeExecutes
<1>2. CASE Connect \/ \E r \in Receivers : Require(r) \/ \E a \in Appearances : Appear(r, a)
  BY <1>2, OthersKeepFifo
<1>3. CASE \E t \in Trainers : Caught(t) \/ Escaped(t) \/ TrainerStep(t)
  BY <1>3, OthersKeepFifo, RegisterKeepsFifo, TradeKeepsFifo, ArriveKeepsFifo, TrainerKeepsFifo
     DEF TrainerStep
<1>4. CASE PlannerStep
  BY <1>4, AssignKeepsFifo, SortKeepsFifo, OthersKeepFifo DEF PlannerStep
<1>5. CASE Counted
  BY <1>5, CountedKeepsFifo
<1> QED BY <1>1, <1>2, <1>3, <1>4, <1>5 DEF Next

\* Hence they always are, when the listener alone processes messages.
LEMMA FifoKept ==
  ASSUME OneReceiver
  PROVE  Spec => [](TeamInv /\ FifoInv)
<1>1. Spec => []TeamInv
  BY TeamKept
<1>2. TeamInv => OnlyNeeded
  BY DEF TeamInv
<1> QED BY <1>1, <1>2, FifoNext, FifoInit, PTL DEF Spec

\* NoTrainerForgotten: if first come is first served, who has work is in the ready queue,
\* once, or executing, and nobody else is.
THEOREM WhoHasWorkIsInLine ==
  ASSUME OneReceiver
  PROVE  Spec => []NoTrainerForgotten
<1>1. Spec => [](TeamInv /\ FifoInv)
  BY FifoKept
<1> QED BY <1>1, FifoInvImplies, PTL

-----------------------------------------------------------------------------
(* A planner that pauses for longer than trainers compute *)

\* While the planner plans, nobody is awake or captures on its own, and the trainer that
\* the planner is about to wake executes.
PauseInv ==
  planning_alg = "FIFO" /\ Pause =>
    /\ ~crashed
    /\ planner # "sleep" =>
         \A t \in Trainers : stats_mutex[t] /\ pc[t] \in {"wait", "send", "end"}
    /\ planner \in {"lock", "unlock"} => executing_trainer # Nobody

\* A cycle begins only while the planner sleeps, and ends before it wakes.
LEMMA PauseNext == TeamInv /\ FifoInv /\ PauseInv /\ [Next]_vars => PauseInv'
<1> SUFFICES ASSUME TeamInv, FifoInv, PauseInv, [Next]_vars, planning_alg' = "FIFO", Pause
             PROVE  /\ ~crashed'
                    /\ planner' # "sleep" =>
                         \A t \in Trainers : stats_mutex'[t] /\ pc'[t] \in {"wait", "send", "end"}
                    /\ planner' \in {"lock", "unlock"} => executing_trainer' # Nobody
  BY DEF PauseInv
<1>1. planning_alg = "FIFO"
  <2>1. CASE Connect \/ \E r \in Receivers : Require(r) \/ \E a \in Appearances : Appear(r, a)
    BY <2>1 DEF config, Connect, Require, Appear
  <2>2. CASE \E t \in Trainers : Caught(t) \/ Escaped(t) \/ Register(t) \/ Trade(t) \/ SendCatch(t)
    BY <2>2 DEF config, Caught, Escaped, Register, Trade, SendCatch
  <2>3. CASE \E t \in Trainers : \/ CycleOfNothing(t) \/ Move(t) \/ Arrive(t) \/ CycleAwaiting(t)
                                 \/ WaitToTrade(t) \/ EndCycle(t)
    BY <2>3 DEF config, CycleOfNothing, Move, Arrive, CycleAwaiting, WaitToTrade, EndCycle
  <2>4. CASE Counted
    BY <2>4 DEF config, Counted
  <2>5. CASE PlannerStep
    BY <2>5 DEF config, PlannerStep, Wake, Assign, Sort, Test, Lock, Unlock
  <2>6. CASE UNCHANGED vars
    BY <2>6 DEF vars, config
  <2> QED BY <2>1, <2>2, <2>3, <2>4, <2>5, <2>6 DEF Next, TrainerStep
<1>2. /\ ~crashed
      /\ planner # "sleep" =>
           \A t \in Trainers : stats_mutex[t] /\ pc[t] \in {"wait", "send", "end"}
      /\ planner \in {"lock", "unlock"} => executing_trainer # Nobody
  BY <1>1 DEF PauseInv
<1>3. /\ pc \in [Trainers -> {"wait", "send", "register", "end"}]
      /\ stats_mutex \in [Trainers -> BOOLEAN]
  BY DEF TeamInv, TokenInv, PlanningTyped
<1>4. CASE \/ UNCHANGED vars \/ Connect
           \/ \E r \in Receivers : Require(r) \/ \E a \in Appearances : Appear(r, a)
           \/ \E t \in Trainers : Caught(t) \/ Escaped(t)
           \/ Counted
  <2>1. UNCHANGED <<crashed, planner, stats_mutex, pc, executing_trainer>>
    BY <1>4 DEF vars, thread, planning, outcome, Connect, Require, Appear, Caught, Escaped, Counted
  <2> QED BY <1>2, <2>1
<1>5. CASE \E t \in Trainers : TrainerStep(t)
  <2>1. PICK t \in Trainers : TrainerStep(t)
    BY <1>5
  <2>2. CASE SendCatch(t) \/ Register(t) \/ EndCycle(t)
    <3>1. /\ UNCHANGED <<crashed, planner, stats_mutex, executing_trainer>>
          /\ \E next \in {"end", "wait"} : pc' = [pc EXCEPT ![t] = next]
      BY <1>1, <2>2 DEF SendCatch, Register, EndCycle, QuantumOver, planning, outcome
    <3> QED BY <1>2, <1>3, <3>1
  <2>3. CASE \E next \in {"end", "send", "register"} : Cycle(t, next)
    <3>1. planner = "sleep" /\ Busy(activity, pc, t)
      BY <1>1, <1>2, <2>3, CycleExecutes DEF Cycle
    <3>2. activity[t] # NoActivity
      BY <3>1 DEF Busy, NoActivity
    <3>3. UNCHANGED <<crashed, planner>>
      BY <2>1, <2>3, <3>2 DEF TrainerStep, CycleOfNothing, Move, Arrive, SendCatch, Register,
         CycleAwaiting, WaitToTrade, Trade, EndCycle, planning, outcome, Cycle
    <3> QED BY <1>2, <3>1, <3>3
  <2> QED BY <2>1, <2>2, <2>3 DEF TrainerStep, CycleOfNothing, Move, Arrive, CycleAwaiting,
            WaitToTrade, Trade
<1>6. CASE Wake
  <2>1. /\ \A t \in Trainers : stats_mutex[t] /\ pc[t] \in {"wait", "send"}
        /\ planner' = "plan" /\ UNCHANGED <<crashed, stats_mutex, pc>>
    BY <1>6 DEF Wake, thread, outcome
  <2> QED BY <1>2, <2>1
<1>7. CASE Assign \/ Sort \/ Test \/ Lock
  <2>1. /\ planner # "sleep" /\ UNCHANGED <<crashed, stats_mutex, pc>>
        /\ planner' \in {"lock", "unlock"} => executing_trainer' # Nobody
    BY <1>2, <1>7 DEF Assign, Sort, Test, Lock, thread, outcome
  <2> QED BY <1>2, <2>1
<1>8. CASE Unlock
  <2>1. planner = "unlock" /\ executing_trainer # Nobody
    BY <1>2, <1>8 DEF Unlock
  <2>2. planner' = "sleep" /\ UNCHANGED crashed
    BY <1>8, <2>1 DEF Unlock
  <2> QED BY <1>2, <2>2
<1> QED BY <1>4, <1>5, <1>6, <1>7, <1>8 DEF Next, PlannerStep

\* NoNullDereferenced: if first come is first served and the planner pauses for longer than
\* trainers compute, whom it wakes is there, and has an activity.
THEOREM NothingNullIsDereferenced ==
  ASSUME OneReceiver
  PROVE  Spec => []NoNullDereferenced
<1>1. Spec => [](TeamInv /\ FifoInv)
  BY FifoKept
<1>2. Init => PauseInv
  BY DEF Init, PauseInv
<1>3. PauseInv => NoNullDereferenced
  BY DEF PauseInv, NoNullDereferenced
<1> QED BY <1>1, <1>2, <1>3, PauseNext, PTL DEF Spec

=============================================================================
