-------------------------- MODULE BrokerMemoryProofs --------------------------
(***************************************************************************)
(* What every run of the broker's message cache keeps, for any memory,     *)
(* configurations and payload sizes, when one connection at a time         *)
(* publishes.  The invariant is IInv: the partitions lie end to end, what  *)
(* is occupied belongs to a message, every message in the index has its    *)
(* bytes in its partition, and a publication has found what it thinks.     *)
(* UInv adds to it that no two partitions in use have the same time, which *)
(* makes of the partitions a list of messages: with it the cache is the    *)
(* store of MessageStore.                                                  *)
(***************************************************************************)
EXTENDS BrokerMemory, OrderProofs

\* One connection at a time publishes: what MemoryRace shows cannot happen then.
OnePublisher == \A p, q \in Publishers : p = q

\* The partitions of a layout lie end to end over the memory, each numbered by its place.
Tiled(s) ==
  /\ s.list \in Seq(Refs) /\ s.list # <<>>
  /\ \A i, j \in DOMAIN s.list : s.list[i] = s.list[j] => i = j
  /\ s.heap \in [Refs -> Partition]
  /\ s.heap[s.list[1]].start = 0
  /\ \A i \in DOMAIN s.list :
       LET x == s.heap[s.list[i]]
       IN  /\ x.number = i - 1
           /\ x.size > 0
           /\ x.start + x.size = IF i = Len(s.list) THEN MemorySize ELSE s.heap[s.list[i + 1]].start

\* A free partition has no message.
FreeIsEmpty(s) ==
  \A i \in DOMAIN s.list : s.heap[s.list[i]].is_free => s.heap[s.list[i]].message = NoMessage

\* Each partition of the buddy system is a block of its kind.
Block(x) ==
  /\ \E k \in 0..MemorySize : x.size = Power[k]
  /\ x.start % x.size = 0

Blocks(s) ==
  CONFIG.memory_alg = "BUDDY_SYSTEM" => \A i \in DOMAIN s.list : Block(s.heap[s.list[i]])

LayoutOK(s) == Tiled(s) /\ FreeIsEmpty(s) /\ Blocks(s)

InList(r) == \E i \in DOMAIN partitions : partitions[i] = r

\* An occupied partition is that of a message in the index, or of a publication that is
\* about to register it.
Owned ==
  \A i \in DOMAIN partitions :
    LET r == partitions[i]
    IN  ~part[r].is_free =>
          \/ part[r].message \in messages_index /\ location[part[r].message] = r
          \/ part[r].message = NoMessage /\ \E p \in Publishers : pc[p] = "register" /\ found[p] = r

\* A message in the index has its partition, and its bytes are at the beginning of it.
HasPayload(r, m) ==
  /\ InList(r) /\ ~part[r].is_free
  /\ m \in DOMAIN sizes /\ sizes[m] <= part[r].size
  /\ PayloadAt(part[r].start, m)

Indexed ==
  \A m \in messages_index : part[location[m]].message = m /\ HasPayload(location[m], m)

\* Where a publication is, and what it has found.
Publishing(p) ==
  /\ pc[p] = "idle" <=> cur[p] = NoMessage
  /\ pc[p] # "idle" => /\ cur[p] \in DOMAIN sizes /\ cur[p] \notin messages_index
                       /\ Wanted(p) <= MemorySize
  /\ pc[p] \notin {"split", "claim", "register"} => found[p] = NoRef
  /\ pc[p] \in {"split", "claim"} => InList(found[p]) /\ part[found[p]].is_free
  /\ pc[p] = "split" => Wanted(p) < part[found[p]].size
  /\ pc[p] = "claim" => Wanted(p) <= part[found[p]].size
  /\ pc[p] = "register" => HasPayload(found[p], cur[p]) /\ part[found[p]].message = NoMessage
  /\ pc[p] = "evict" => Fitting(Wanted(p)) = {}
  /\ pc[p] = "check" => CONFIG.memory_alg = "PARTITIONS"
  /\ pc[p] = "compact" => CONFIG.memory_alg = "BUDDY_SYSTEM"

\* The only free buddies are the halves of the split under way.
BuddiesApart ==
  CONFIG.memory_alg = "BUDDY_SYSTEM" =>
    \A j \in 1..(Len(partitions) - 1) : FreeBuddies(Layout, j) =>
      \E p \in Publishers : pc[p] \in {"split", "claim"} /\ found[p] = partitions[j]

\* A thread that delivers a message reads at its partition, or above where a compaction has
\* moved it to since.
Readers ==
  \A m \in Messages : sender[m] # "none" =>
    /\ location[m] \in Refs
    /\ sender[m] = "reading" /\ m \in messages_index =>
         IF CONFIG.memory_alg = "PARTITIONS" THEN part[location[m]].start <= reading[m]
                                             ELSE part[location[m]].start = reading[m]

IInv ==
  /\ TypeOK /\ LayoutOK(Layout)
  /\ Owned /\ Indexed /\ \A p \in Publishers : Publishing(p)
  /\ Readers
  /\ BuddiesApart
  /\ ~crashed

-----------------------------------------------------------------------------
(* Powers of two *)

\* Each power is twice the one before, and greater than its exponent.
LEMMA Powers ==
  /\ Power[0] = 1
  /\ \A k \in Nat : Power[k] \in Nat /\ Power[k + 1] = 2 * Power[k] /\ Power[k] > k
<1> DEFINE Step == [x \in Nat \X Nat |-> 2 * x[2]]
<1>1. Step \in [Nat \X Nat -> Nat] /\ 1 \in Nat
  OBVIOUS
<1>2. PICK f \in [Nat -> Nat] : IsRecursionOverNat(f, 1, Step)
  <2> HIDE DEF Step
  <2> QED BY <1>1, RecursionOverNat
<1>3. f[0] = 1 /\ \A n \in Nat \ {0} : f[n] = 2 * f[n - 1]
  <2>1. f[0] = 1 /\ \A n \in Nat \ {0} : f[n] = Step[<<n, f[n - 1]>>]
    <3> HIDE DEF Step
    <3> QED BY <1>2 DEF IsRecursionOverNat
  <2>2. ASSUME NEW n \in Nat \ {0} PROVE f[n] = 2 * f[n - 1]
    <3>1. n \in Nat /\ n - 1 \in Nat
      OBVIOUS
    <3>2. Step[<<n, f[n - 1]>>] = 2 * f[n - 1]
      BY <3>1
    <3> QED BY <2>1, <3>2
  <2> QED BY <2>1, <2>2
<1>4. f = [k \in Nat |-> IF k = 0 THEN 1 ELSE 2 * f[k - 1]]
  <2>1. f = [k \in Nat |-> f[k]]
    OBVIOUS
  <2> HIDE DEF Step
  <2> QED BY <1>3, <2>1
<1>5. Power = [k \in Nat |-> IF k = 0 THEN 1 ELSE 2 * Power[k - 1]]
  BY <1>4 DEF Power
<1>6. Power[0] = 1 /\ \A k \in Nat : Power[k + 1] = 2 * Power[k]
  <2>1. \A k \in Nat : k + 1 \in Nat /\ k + 1 # 0 /\ k + 1 - 1 = k
    OBVIOUS
  <2> QED BY <1>5, <2>1
<1> DEFINE S == {k \in Nat : Power[k] \in Nat /\ Power[k] > k}
<1>7. 0 \in S
  BY <1>6
<1>8. \A k \in Nat : k \in S => k + 1 \in S
  BY <1>6
<1>9. \A k \in Nat : k \in S
  <2> HIDE DEF S
  <2> QED BY <1>7, <1>8, Induction
<1> QED BY <1>6, <1>9

\* A greater power is at least twice a smaller one.
LEMMA PowersDouble ==
  ASSUME NEW j \in Nat, NEW k \in Nat, Power[j] < Power[k]
  PROVE  k > 0 /\ Power[k - 1] >= Power[j] /\ Power[k] = 2 * Power[k - 1]
<1> DEFINE S == {n \in Nat : \A m \in 0..n : Power[m] <= Power[n]}
<1>1. 0 \in S
  BY Powers
<1>2. ASSUME NEW n \in Nat, n \in S PROVE n + 1 \in S
  <2> SUFFICES ASSUME NEW m \in 0..(n + 1) PROVE Power[m] <= Power[n + 1]
    OBVIOUS
  <2>1. Power[n] \in Nat /\ Power[n + 1] = 2 * Power[n]
    BY Powers
  <2>2. m \in Nat /\ Power[m] \in Nat
    BY Powers
  <2>3. CASE m = n + 1
    BY <2>2, <2>3
  <2>4. CASE m # n + 1
    <3>1. m \in 0..n
      BY <2>4
    <3>2. Power[m] <= Power[n]
      BY <1>2, <3>1
    <3> QED BY <2>1, <2>2, <3>2
  <2> QED BY <2>3, <2>4
<1>3. \A n \in Nat : n \in S
  <2> HIDE DEF S
  <2> QED BY <1>1, <1>2, Induction
<1>4. Power[j] \in Nat /\ Power[k] \in Nat
  BY Powers
<1>5. j < k
  <2> SUFFICES ASSUME k <= j PROVE FALSE
    OBVIOUS
  <2>1. k \in 0..j
    OBVIOUS
  <2>2. Power[k] <= Power[j]
    BY <1>3, <2>1
  <2> QED BY <1>4, <2>2
<1>6. k - 1 \in Nat /\ j \in 0..(k - 1) /\ k - 1 + 1 = k
  BY <1>5
<1>7. Power[j] <= Power[k - 1]
  BY <1>3, <1>6
<1>8. Power[k - 1 + 1] = 2 * Power[k - 1] /\ Power[k - 1] \in Nat
  BY <1>6, Powers
<1> QED BY <1>4, <1>6, <1>7, <1>8

\* closest_bs_size finds a power of two that is not less.
LEMMA ClosestIs ==
  ASSUME NEW size \in Nat \ {0}
  PROVE  /\ closest_bs_size(size) \in Nat /\ closest_bs_size(size) >= size
         /\ \E k \in Nat : closest_bs_size(size) = Power[k]
<1> DEFINE S == {n \in {Power[k] : k \in 1..size} : n >= size}
<1>1. S \subseteq Nat
  BY Powers
<1>2. Power[size] \in S
  <2>1. size \in 1..size /\ size \in Nat
    OBVIOUS
  <2>2. Power[size] \in Nat /\ Power[size] > size
    BY Powers
  <2> QED BY <2>1, <2>2
<1>3. Min(S) \in S
  <2> HIDE DEF S
  <2> QED BY <1>1, <1>2, MinOfNaturals
<1>4. \E k \in 1..size : Min(S) = Power[k]
  BY <1>3
<1> QED BY <1>1, <1>3, <1>4 DEF closest_bs_size

\* What a payload asks for is not less than it, and a power of two in the buddy system.
LEMMA SizeAsked ==
  ASSUME CONFIG \in Configs, NEW size \in Sizes
  PROVE  /\ PartitionSize(size) \in Nat \ {0} /\ PartitionSize(size) >= size
         /\ CONFIG.memory_alg = "BUDDY_SYSTEM" => \E k \in Nat : PartitionSize(size) = Power[k]
<1>1. size \in Nat \ {0} /\ CONFIG.partition_min_size \in Nat \ {0}
  BY MemoryAssumption
<1> QED BY <1>1, ClosestIs DEF PartitionSize

-----------------------------------------------------------------------------
(* Partitions end to end *)

\* A partition's fields.
LEMMA Fields ==
  ASSUME NEW x \in Partition
  PROVE  /\ x.number \in Int /\ x.number >= 0 /\ x.number <= MemorySize
         /\ x.start \in Int /\ x.start >= 0 /\ x.start <= MemorySize
         /\ x.size \in Int /\ x.size >= 0 /\ x.size <= MemorySize
         /\ x.is_free \in BOOLEAN /\ x.message \in Messages \cup {NoMessage}
         /\ x.entry_time \in Nat /\ x.access_time \in Nat
         /\ MemorySize \in Nat \ {0}
BY MemoryAssumption DEF Partition

\* In a list that tiles, who comes later starts later, and at the place at least.
LEMMA TiledInOrder ==
  ASSUME NEW s, Tiled(s)
  PROVE  /\ Len(s.list) \in Nat \ {0} /\ DOMAIN s.list = 1..Len(s.list)
         /\ \A i \in 1..Len(s.list) : s.list[i] \in Refs /\ s.heap[s.list[i]] \in Partition
         /\ \A j \in 1..Len(s.list), i \in 1..Len(s.list) : i < j =>
              s.heap[s.list[i]].start + s.heap[s.list[i]].size <= s.heap[s.list[j]].start
         /\ \A j \in 1..Len(s.list) : /\ s.heap[s.list[j]].start >= j - 1
                                      /\ s.heap[s.list[j]].start + s.heap[s.list[j]].size <= MemorySize
         /\ Len(s.list) <= MemorySize
<1> DEFINE n == Len(s.list)
           Start(i) == s.heap[s.list[i]].start
           Size(i)  == s.heap[s.list[i]].size
<1>1. n \in Nat \ {0} /\ DOMAIN s.list = 1..n
  BY EmptySeq, LenProperties DEF Tiled
<1>2. \A i \in 1..n : s.list[i] \in Refs
  BY <1>1, ElementOfSeq DEF Tiled
<1>3. \A i \in 1..n : s.heap[s.list[i]] \in Partition
  BY <1>2 DEF Tiled
<1>4. \A i \in 1..n : Start(i) \in Int /\ Size(i) \in Int /\ Start(i) <= MemorySize /\ Start(i) >= 0
  BY <1>3, Fields
<1>5. \A i \in 1..n : Size(i) > 0 /\ Start(i) + Size(i) = IF i = n THEN MemorySize ELSE Start(i + 1)
  BY <1>1 DEF Tiled
<1>6. Start(1) = 0 /\ MemorySize \in Int
  BY MemoryAssumption DEF Tiled
<1> DEFINE S == {j \in 0..n : j > 0 => /\ Start(j) >= j - 1
                                       /\ \A i \in 1..n : i < j => Start(i) + Size(i) <= Start(j)}
<1> HIDE DEF Start, Size, n
<1>7. 0 \in S
  BY <1>1
<1>8. ASSUME NEW j \in 1..n, j - 1 \in S PROVE j \in S
  <2>1. CASE j = 1
    BY <1>1, <1>6, <2>1
  <2>2. CASE j # 1
    <3>1. j - 1 \in 1..n /\ j - 1 # n /\ j - 1 + 1 = j
      BY <1>1, <2>2
    <3>2. Start(j) = Start(j - 1) + Size(j - 1) /\ Size(j - 1) > 0
      BY <1>5, <3>1
    <3>3. Start(j - 1) \in Int /\ Size(j - 1) \in Int
      BY <1>4, <3>1
    <3>4. Start(j - 1) >= j - 1 - 1
          /\ \A i \in 1..n : i < j - 1 => Start(i) + Size(i) <= Start(j - 1)
      BY <1>8, <3>1
    <3>5. ASSUME NEW i \in 1..n, i < j PROVE Start(i) + Size(i) <= Start(j)
      <4>1. CASE i = j - 1
        BY <3>2, <3>3, <4>1
      <4>2. CASE i # j - 1
        <5>1. i < j - 1
          BY <1>1, <3>5, <4>2
        <5> QED BY <1>4, <3>2, <3>3, <3>4, <5>1
      <4> QED BY <4>1, <4>2
    <3> QED BY <1>1, <3>2, <3>3, <3>4, <3>5
  <2> QED BY <2>1, <2>2
<1>9. \A j \in 0..n : j \in S
  <2> HIDE DEF S
  <2> QED BY <1>1, <1>7, <1>8, InductionUpTo
<1>10. ASSUME NEW j \in 1..n
       PROVE  /\ Start(j) >= j - 1 /\ \A i \in 1..n : i < j => Start(i) + Size(i) <= Start(j)
              /\ Start(j) + Size(j) <= MemorySize
  <2>1. j \in S /\ j > 0
    BY <1>1, <1>9
  <2>2. CASE j = n
    BY <1>4, <1>5, <1>6, <2>1, <2>2
  <2>3. CASE j # n
    <3>1. j + 1 \in 1..n
      BY <1>1, <2>3
    <3> QED BY <1>4, <1>5, <2>1, <2>3, <3>1
  <2> QED BY <2>2, <2>3
<1>11. n <= MemorySize
  <2>1. n \in 1..n
    BY <1>1
  <2>2. Start(n) >= n - 1 /\ Start(n) + Size(n) = MemorySize /\ Size(n) > 0
    BY <1>5, <1>10, <2>1
  <2> QED BY <1>1, <1>4, <1>6, <2>1, <2>2
<1> QED BY <1>1, <1>2, <1>3, <1>10, <1>11 DEF Start, Size, n
-----------------------------------------------------------------------------
(* Merging partitions *)

\* A list without one of its elements.
LEMMA RemoveAtIs ==
  ASSUME NEW R, NEW l \in Seq(R), NEW j \in 1..Len(l)
  PROVE  /\ RemoveAt(l, j) \in Seq(R) /\ Len(RemoveAt(l, j)) = Len(l) - 1
         /\ \A i \in 1..(Len(l) - 1) : RemoveAt(l, j)[i] = l[IF i < j THEN i ELSE i + 1]
<1> DEFINE a == SubSeq(l, 1, j - 1)
           b == SubSeq(l, j + 1, Len(l))
<1>1. Len(l) \in Nat /\ \A i \in 1..Len(l) : l[i] \in R
  BY LenProperties, ElementOfSeq
<1>2. a \in Seq(R) /\ Len(a) = j - 1 /\ \A i \in 1..(j - 1) : a[i] = l[i]
  <2>1. \A i \in 1..(j - 1) : l[i] \in R
    BY <1>1
  <2>2. /\ a \in Seq(R) /\ Len(a) = IF 1 <= j - 1 THEN j - 1 - 1 + 1 ELSE 0
        /\ \A i \in 1..(j - 1 - 1 + 1) : a[i] = l[1 + i - 1]
    <3>1. 1 \in Int /\ j - 1 \in Int
      OBVIOUS
    <3> QED BY <2>1, <3>1, SubSeqProperties
  <2> HIDE DEF a
  <2> QED BY <2>2
<1>3. /\ b \in Seq(R) /\ Len(b) = Len(l) - j
      /\ \A i \in 1..(Len(l) - j) : b[i] = l[j + i]
  <2>1. \A i \in (j + 1)..Len(l) : l[i] \in R
    BY <1>1
  <2>2. /\ b \in Seq(R) /\ Len(b) = IF j + 1 <= Len(l) THEN Len(l) - (j + 1) + 1 ELSE 0
        /\ \A i \in 1..(Len(l) - (j + 1) + 1) : b[i] = l[j + 1 + i - 1]
    <3>1. j + 1 \in Int /\ Len(l) \in Int
      BY <1>1
    <3> QED BY <2>1, <3>1, SubSeqProperties
  <2> HIDE DEF b
  <2> QED BY <1>1, <2>2
<1> HIDE DEF a, b
<1>4. /\ a \o b \in Seq(R) /\ Len(a \o b) = Len(a) + Len(b)
      /\ \A i \in 1..(Len(a) + Len(b)) : (a \o b)[i] = IF i <= Len(a) THEN a[i] ELSE b[i - Len(a)]
  BY <1>2, <1>3, ConcatProperties
<1>5. RemoveAt(l, j) = a \o b
  BY DEF RemoveAt, a, b
<1>6. ASSUME NEW i \in 1..(Len(l) - 1) PROVE (a \o b)[i] = l[IF i < j THEN i ELSE i + 1]
  <2>1. i \in 1..(Len(a) + Len(b))
    BY <1>1, <1>2, <1>3
  <2>2. CASE i < j
    BY <1>2, <1>4, <2>1, <2>2
  <2>3. CASE ~(i < j)
    <3>1. i - (j - 1) \in 1..(Len(l) - j) /\ j + (i - (j - 1)) = i + 1 /\ ~(i <= j - 1)
      BY <1>1, <2>3
    <3>2. (a \o b)[i] = b[i - (j - 1)]
      BY <1>2, <1>4, <2>1, <3>1
    <3>3. b[i - (j - 1)] = l[i + 1]
      BY <1>3, <3>1
    <3> QED BY <2>3, <3>2, <3>3
  <2> QED BY <2>2, <2>3
<1>7. Len(a \o b) = Len(l) - 1
  BY <1>1, <1>2, <1>3, <1>4
<1> QED BY <1>4, <1>5, <1>6, <1>7

\* A struct that moves, grows or is renumbered keeps its message and its times.
SameUse(y, x) ==
  y.message = x.message /\ y.entry_time = x.entry_time /\ y.access_time = x.access_time

\* The partition at j of one layout has absorbed the next, in the other.
IsAbsorbed(s, t, j) ==
  /\ t \in [list : Seq(Refs), heap : [Refs -> Partition]]
  /\ Len(t.list) = Len(s.list) - 1
  /\ \A i \in 1..(Len(s.list) - 1) : t.list[i] = s.list[IF i <= j THEN i ELSE i + 1]
  /\ \A i \in 1..Len(s.list) : i # j + 1 =>
       LET x == s.heap[s.list[i]]
           y == t.heap[s.list[i]]
       IN  /\ y.start = x.start /\ y.is_free = x.is_free /\ SameUse(y, x)
           /\ y.number = IF i <= j THEN x.number ELSE x.number - 1
           /\ y.size = IF i = j THEN x.size + s.heap[s.list[j + 1]].size ELSE x.size

\* Absorb does that.
LEMMA AbsorbIs ==
  ASSUME NEW s, Tiled(s), NEW j \in 1..(Len(s.list) - 1)
  PROVE  IsAbsorbed(s, Absorb(s, j), j)
<1> DEFINE list  == RemoveAt(s.list, j + 1)
           grown == [s.heap EXCEPT ![s.list[j]].size = @ + s.heap[s.list[j + 1]].size]
           n     == grown[s.list[j]].number
           later == {r \in ToSet(list) : grown[r].number > n}
           heap  == Shifted(grown, later, -1)
           len   == Len(s.list)
<1>1. /\ len \in Nat \ {0} /\ DOMAIN s.list = 1..len
      /\ \A i \in 1..len : s.list[i] \in Refs /\ s.heap[s.list[i]] \in Partition
      /\ s.heap[s.list[j + 1]].start + s.heap[s.list[j + 1]].size <= MemorySize
      /\ j \in 1..len /\ j + 1 \in 1..len
  <2>1. j \in 1..len /\ j + 1 \in 1..len
    BY TiledInOrder
  <2> QED BY <2>1, TiledInOrder
<1>2. /\ s.list \in Seq(Refs) /\ s.heap \in [Refs -> Partition]
      /\ \A i, k \in 1..len : s.list[i] = s.list[k] => i = k
      /\ \A i \in 1..len : s.heap[s.list[i]].number = i - 1
      /\ s.heap[s.list[j]].start + s.heap[s.list[j]].size = s.heap[s.list[j + 1]].start
  <2>1. \A i \in 1..len : s.heap[s.list[i]].number = i - 1
    BY <1>1 DEF Tiled
  <2>2. s.heap[s.list[j]].start + s.heap[s.list[j]].size
          = IF j = len THEN MemorySize ELSE s.heap[s.list[j + 1]].start
    BY <1>1 DEF Tiled
  <2>3. j # len
    BY <1>1
  <2> QED BY <1>1, <2>1, <2>2, <2>3 DEF Tiled
<1>3. Absorb(s, j) = [list |-> list, heap |-> heap]
  BY DEF Absorb, Renumber
<1>4. /\ list \in Seq(Refs) /\ Len(list) = len - 1
      /\ \A i \in 1..(len - 1) : list[i] = s.list[IF i < j + 1 THEN i ELSE i + 1]
  <2>1. j + 1 \in 1..Len(s.list)
    BY <1>1
  <2>2. /\ list \in Seq(Refs) /\ Len(list) = Len(s.list) - 1
        /\ \A i \in 1..(Len(s.list) - 1) : list[i] = s.list[IF i < j + 1 THEN i ELSE i + 1]
    BY <1>2, <2>1, RemoveAtIs
  <2> QED BY <2>2
<1> HIDE DEF list
<1>5. ToSet(list) = {s.list[i] : i \in {k \in 1..len : k # j + 1}}
  <2>1. DOMAIN list = 1..(len - 1)
    BY <1>4, LenProperties
  <2>2. ASSUME NEW i \in 1..(len - 1) PROVE list[i] \in {s.list[k] : k \in {k \in 1..len : k # j + 1}}
    <3> DEFINE k == IF i < j + 1 THEN i ELSE i + 1
    <3>1. k \in {q \in 1..len : q # j + 1}
      BY <1>1
    <3> QED BY <1>4, <3>1
  <2>3. ASSUME NEW k \in 1..len, k # j + 1 PROVE \E i \in 1..(len - 1) : list[i] = s.list[k]
    <3>1. CASE k < j + 1
      <4>1. k \in 1..(len - 1)
        BY <1>1, <3>1
      <4> QED BY <1>4, <3>1, <4>1
    <3>2. CASE ~(k < j + 1)
      <4>1. k - 1 \in 1..(len - 1) /\ ~(k - 1 < j + 1) /\ k - 1 + 1 = k
        BY <1>1, <2>3, <3>2
      <4> QED BY <1>4, <4>1
    <3> QED BY <3>1, <3>2
  <2> HIDE DEF len
  <2> QED BY <2>1, <2>2, <2>3 DEF ToSet
<1> DEFINE a == s.heap[s.list[j]]
           b == s.heap[s.list[j + 1]]
<1>6. /\ a \in Partition /\ b \in Partition /\ a.size + b.size \in 0..MemorySize
      /\ grown = [s.heap EXCEPT ![s.list[j]] = [a EXCEPT !.size = a.size + b.size]]
  <2>1. a \in Partition /\ b \in Partition
    BY <1>1
  <2>2. a.start + a.size = b.start /\ b.start + b.size <= MemorySize
    BY <1>1, <1>2
  <2>3. a.size + b.size \in 0..MemorySize
    <3> HIDE DEF a, b
    <3> QED BY <2>1, <2>2, Fields
  <2>4. s.list[j] \in Refs
    BY <1>1
  <2> QED BY <1>2, <2>1, <2>3, <2>4
<1>7. [a EXCEPT !.size = a.size + b.size] \in Partition
  <2> HIDE DEF a, b
  <2> QED BY <1>6 DEF Partition
<1>8. grown \in [Refs -> Partition] /\ n = j - 1
  <2>1. s.list[j] \in Refs /\ a.number = j - 1 /\ a \in Partition
    BY <1>1, <1>2
  <2> HIDE DEF a, b, grown
  <2> QED BY <1>2, <1>6, <1>7, <2>1 DEF Partition, n
<1>9. ASSUME NEW i \in 1..len, i # j + 1
      PROVE  /\ s.list[i] \in later <=> i > j
             /\ grown[s.list[i]].number = i - 1
             /\ grown[s.list[i]] = IF i = j THEN [a EXCEPT !.size = a.size + b.size] ELSE s.heap[s.list[i]]
  <2>1. s.list[i] \in Refs /\ s.list[j] \in Refs /\ (s.list[i] = s.list[j] <=> i = j)
    BY <1>1, <1>2
  <2>2. grown[s.list[i]] = IF i = j THEN [a EXCEPT !.size = a.size + b.size] ELSE s.heap[s.list[i]]
    <3> HIDE DEF a, b, grown
    <3> QED BY <1>2, <1>6, <2>1
  <2>3. grown[s.list[i]].number = i - 1
    <3>1. a \in Partition /\ a.number = j - 1 /\ s.heap[s.list[i]].number = i - 1
      BY <1>1, <1>2
    <3> HIDE DEF a, b, grown
    <3> QED BY <2>2, <3>1 DEF Partition
  <2>4. s.list[i] \in ToSet(list)
    BY <1>5, <1>9
  <2>5. s.list[i] \in later <=> grown[s.list[i]].number > n
    <3> HIDE DEF grown, n
    <3> QED BY <2>4
  <2>6. s.list[i] \in later <=> i > j
    <3> HIDE DEF grown, n, later
    <3> QED BY <1>8, <2>3, <2>5
  <2> HIDE DEF grown, n, a, b, later
  <2> QED BY <2>2, <2>3, <2>6
<1>10. \A r \in later : r \in Refs /\ grown[r].number > 0
  <2> SUFFICES ASSUME NEW r \in later PROVE r \in Refs /\ grown[r].number > 0
    OBVIOUS
  <2>1. PICK i \in 1..len : i # j + 1 /\ r = s.list[i]
    BY <1>5
  <2>2. i > j /\ grown[s.list[i]].number = i - 1 /\ s.list[i] \in Refs
    BY <1>1, <1>9, <2>1
  <2> HIDE DEF grown, later
  <2> QED BY <2>1, <2>2
<1> HIDE DEF grown, n, later, a, b
<1>11. heap = [r \in Refs |-> IF r \in later THEN [grown[r] EXCEPT !.number = grown[r].number + (-1)] ELSE grown[r]]
  BY DEF Shifted
<1>12. heap \in [Refs -> Partition]
  <2>1. ASSUME NEW r \in Refs PROVE heap[r] \in Partition
    <3>1. grown[r] \in Partition
      BY <1>8
    <3>2. CASE r \in later
      <4>1. grown[r].number + (-1) \in 0..MemorySize
        BY <1>10, <3>1, <3>2, Fields
      <4> QED BY <1>11, <3>1, <3>2, <4>1 DEF Partition
    <3> QED BY <1>11, <3>1, <3>2
  <2> QED BY <1>11, <2>1
<1>13. ASSUME NEW i \in 1..len, i # j + 1
       PROVE  LET x == s.heap[s.list[i]]
                  y == heap[s.list[i]]
              IN  /\ y.start = x.start /\ y.is_free = x.is_free /\ SameUse(y, x)
                  /\ y.number = IF i <= j THEN x.number ELSE x.number - 1
                  /\ y.size = IF i = j THEN x.size + s.heap[s.list[j + 1]].size ELSE x.size
  <2> DEFINE x == s.heap[s.list[i]]
             y == heap[s.list[i]]
             z == grown[s.list[i]]
  <2>1. s.list[i] \in Refs /\ x \in Partition /\ x.number = i - 1 /\ z \in Partition
    BY <1>1, <1>2, <1>8
  <2>2. y = IF i > j THEN [z EXCEPT !.number = z.number + (-1)] ELSE z
    BY <1>9, <1>11, <1>13, <2>1
  <2>3. z = IF i = j THEN [x EXCEPT !.size = x.size + b.size] ELSE x
    BY <1>9, <1>13 DEF a
  <2> HIDE DEF x, y, z
  <2>4. /\ y.start = x.start /\ y.is_free = x.is_free /\ SameUse(y, x)
        /\ y.number = IF i <= j THEN x.number ELSE x.number - 1
        /\ y.size = IF i = j THEN x.size + b.size ELSE x.size
    <3>1. CASE i > j
      <4>1. y = [x EXCEPT !.number = x.number + (-1)] /\ ~(i <= j) /\ i # j
        BY <2>2, <2>3, <3>1
      <4>2. x.number + (-1) = x.number - 1
        BY <2>1
      <4> QED BY <2>1, <4>1, <4>2 DEF Partition, SameUse
    <3>2. CASE i = j
      <4>1. y = [x EXCEPT !.size = x.size + b.size] /\ i <= j
        BY <2>2, <2>3, <3>2
      <4> QED BY <2>1, <3>2, <4>1 DEF Partition, SameUse
    <3>3. CASE i < j
      <4>1. y = x /\ i <= j /\ i # j
        BY <2>2, <2>3, <3>3
      <4> QED BY <4>1 DEF SameUse
    <3> QED BY <3>1, <3>2, <3>3
  <2> QED BY <2>4 DEF x, y, b
<1>14. \A i \in 1..(len - 1) : list[i] = s.list[IF i <= j THEN i ELSE i + 1]
  BY <1>1, <1>4
<1> DEFINE t == [list |-> list, heap |-> heap]
<1>15. t \in [list : Seq(Refs), heap : [Refs -> Partition]] /\ t.list = list /\ t.heap = heap
  <2> HIDE DEF heap
  <2> QED BY <1>4, <1>12
<1> HIDE DEF t, heap, len
<1> QED
  <2>1. IsAbsorbed(s, t, j)
    BY <1>4, <1>13, <1>14, <1>15 DEF IsAbsorbed, len
  <2> QED BY <1>3, <2>1 DEF t
OccupiedIn(s, r) == ~s.heap[r].is_free /\ \E i \in DOMAIN s.list : s.list[i] = r

\* Two layouts have the same occupied partitions, in the same places.
SameOccupied(s, t) ==
  \A r \in Refs :
    /\ OccupiedIn(t, r) <=> OccupiedIn(s, r)
    /\ OccupiedIn(s, r) => /\ t.heap[r].start = s.heap[r].start
                           /\ t.heap[r].size = s.heap[r].size
                           /\ SameUse(t.heap[r], s.heap[r])

\* When a free partition absorbs a free one the partitions still tile the memory, and the
\* occupied ones are as they were.
LEMMA AbsorbedTiles ==
  ASSUME NEW s, Tiled(s), FreeIsEmpty(s), NEW j \in 1..(Len(s.list) - 1),
         s.heap[s.list[j]].is_free, s.heap[s.list[j + 1]].is_free,
         NEW t, IsAbsorbed(s, t, j)
  PROVE  Tiled(t) /\ FreeIsEmpty(t) /\ SameOccupied(s, t)
<1> DEFINE len == Len(s.list)
           old(i) == IF i <= j THEN i ELSE i + 1
           X(i) == s.heap[s.list[i]]
           Y(i) == t.heap[s.list[i]]
<1>1. /\ len \in Nat \ {0} /\ DOMAIN s.list = 1..len
      /\ \A i \in 1..len : s.list[i] \in Refs /\ X(i) \in Partition
  BY TiledInOrder
<1>2. /\ \A i, k \in 1..len : s.list[i] = s.list[k] => i = k
      /\ X(1).start = 0
      /\ \A i \in 1..len : /\ X(i).number = i - 1 /\ X(i).size > 0
                           /\ X(i).start + X(i).size = IF i = len THEN MemorySize ELSE X(i + 1).start
  BY <1>1 DEF Tiled
<1>3. \A i \in 1..len : X(i).start \in Int /\ X(i).size \in Int /\ MemorySize \in Int
  BY <1>1, Fields
<1>4. /\ t.list \in Seq(Refs) /\ t.heap \in [Refs -> Partition] /\ Len(t.list) = len - 1
      /\ \A i \in 1..(len - 1) : t.list[i] = s.list[old(i)]
      /\ DOMAIN t.list = 1..(len - 1)
  <2>1. t.list \in Seq(Refs) /\ t.heap \in [Refs -> Partition] /\ Len(t.list) = len - 1
        /\ \A i \in 1..(len - 1) : t.list[i] = s.list[old(i)]
    BY DEF IsAbsorbed
  <2>2. DOMAIN t.list = 1..Len(t.list)
    BY <2>1, LenProperties
  <2> QED BY <2>1, <2>2
<1>5. \A i \in 1..len : i # j + 1 =>
        /\ Y(i).start = X(i).start /\ Y(i).is_free = X(i).is_free /\ SameUse(Y(i), X(i))
        /\ Y(i).number = IF i <= j THEN X(i).number ELSE X(i).number - 1
        /\ Y(i).size = IF i = j THEN X(i).size + X(j + 1).size ELSE X(i).size
  BY DEF IsAbsorbed
<1>6. \A i \in 1..(len - 1) : old(i) \in 1..len /\ old(i) # j + 1
  BY <1>1
<1>7. \A i \in 1..len : i # j + 1 => \E k \in 1..(len - 1) : old(k) = i
  <2> SUFFICES ASSUME NEW i \in 1..len, i # j + 1 PROVE \E k \in 1..(len - 1) : old(k) = i
    OBVIOUS
  <2>1. CASE i <= j
    <3>1. i \in 1..(len - 1) /\ old(i) = i
      BY <1>1, <2>1
    <3> QED BY <3>1
  <2>2. CASE ~(i <= j)
    <3>1. i - 1 \in 1..(len - 1) /\ old(i - 1) = i
      BY <1>1, <2>2
    <3> QED BY <3>1
  <2> QED BY <2>1, <2>2
<1> HIDE DEF X, Y, len
<1>8. \A i \in 1..(len - 1) : t.heap[t.list[i]] = Y(old(i))
  BY <1>4 DEF Y
<1>9. ASSUME NEW i \in 1..(len - 1)
      PROVE  /\ Y(old(i)).number = i - 1
             /\ Y(old(i)).size > 0
             /\ Y(old(i)).start + Y(old(i)).size = IF i = len - 1 THEN MemorySize ELSE Y(old(i + 1)).start
  <2>1. CASE i < j
    <3>1. i \in 1..len /\ i + 1 \in 1..len /\ i # len /\ i # len - 1 /\ i # j + 1 /\ i + 1 # j + 1 /\ i # j /\ i <= j
      BY <1>1, <2>1
    <3>2. old(i) = i /\ old(i + 1) = i + 1
      BY <2>1
    <3>3. Y(i).start = X(i).start /\ Y(i).number = X(i).number /\ Y(i).size = X(i).size /\ Y(i + 1).start = X(i + 1).start
      BY <1>5, <3>1
    <3> HIDE DEF old
    <3> QED BY <1>2, <3>1, <3>2, <3>3
  <2>2. CASE i = j
    <3>1. i \in 1..len /\ i + 1 \in 1..len /\ i # len /\ i # j + 1
      BY <1>1, <2>2
    <3>2. old(i) = i /\ old(i + 1) = i + 2
      BY <2>2
    <3>3. Y(i).start = X(i).start /\ Y(i).number = X(i).number /\ Y(i).size = X(i).size + X(i + 1).size
      BY <1>5, <2>2, <3>1
    <3>4. X(i).start + X(i).size = X(i + 1).start /\ X(i).size > 0 /\ X(i + 1).size > 0 /\ X(i).number = i - 1
      BY <1>2, <3>1
    <3>5. X(i + 1).start + X(i + 1).size = IF i + 1 = len THEN MemorySize ELSE X(i + 1 + 1).start
      BY <1>2, <3>1
    <3>6. i # len - 1 => Y(i + 2).start = X(i + 2).start
      <4>1. i # len - 1 => i + 2 \in 1..len /\ i + 2 # j + 1
        BY <1>1, <2>2
      <4> QED BY <1>5, <4>1
    <3>7. i + 1 + 1 = i + 2 /\ (i + 1 = len <=> i = len - 1)
      BY <1>1
    <3>8. X(i).start \in Int /\ X(i).size \in Int /\ X(i + 1).start \in Int /\ X(i + 1).size \in Int
      BY <1>3, <3>1
    <3>9. Y(i).start + Y(i).size = X(i + 1).start + X(i + 1).size /\ Y(i).size > 0
      <4>1. Y(i).start + Y(i).size = X(i).start + (X(i).size + X(i + 1).size)
        BY <3>3
      <4>2. /\ X(i).start + (X(i).size + X(i + 1).size) = (X(i).start + X(i).size) + X(i + 1).size
            /\ X(i).size + X(i + 1).size > 0
        <5>1. X(i).size > 0 /\ X(i + 1).size > 0
          BY <3>4
        <5> HIDE DEF X
        <5>2. X(i).size + X(i + 1).size > 0
          BY <3>8, <5>1
        <5>3. X(i).start + (X(i).size + X(i + 1).size) = (X(i).start + X(i).size) + X(i + 1).size
          BY <3>8
        <5> QED BY <5>2, <5>3
      <4>3. X(i).start + X(i).size = X(i + 1).start
        BY <3>4
      <4>4. Y(i).start + Y(i).size = X(i + 1).start + X(i + 1).size
        BY <4>1, <4>2, <4>3
      <4> QED BY <3>3, <4>2, <4>4
    <3> HIDE DEF old
    <3> QED BY <3>2, <3>3, <3>4, <3>5, <3>6, <3>7, <3>9
  <2>3. CASE i > j
    <3>1. i + 1 \in 1..len /\ i + 1 # j + 1 /\ i + 1 # j /\ ~(i + 1 <= j)
      BY <1>1, <2>3
    <3>2. old(i) = i + 1 /\ old(i + 1) = i + 1 + 1
      BY <2>3
    <3>3. Y(i + 1).start = X(i + 1).start /\ Y(i + 1).number = X(i + 1).number - 1 /\ Y(i + 1).size = X(i + 1).size
      BY <1>5, <3>1
    <3>4. X(i + 1).number = i + 1 - 1 /\ X(i + 1).size > 0
          /\ X(i + 1).start + X(i + 1).size = IF i + 1 = len THEN MemorySize ELSE X(i + 1 + 1).start
      BY <1>2, <3>1
    <3>5. i # len - 1 => Y(i + 1 + 1).start = X(i + 1 + 1).start
      <4>1. i # len - 1 => i + 1 + 1 \in 1..len /\ i + 1 + 1 # j + 1
        BY <1>1, <2>3
      <4> QED BY <1>5, <4>1
    <3>6. (i + 1 = len <=> i = len - 1) /\ i + 1 - 1 - 1 = i - 1
      BY <1>1
    <3> HIDE DEF old
    <3> QED BY <3>2, <3>3, <3>4, <3>5, <3>6
  <2> QED BY <2>1, <2>2, <2>3
<1>10. 1 \in 1..(len - 1) /\ old(1) = 1 /\ Y(1).start = 0
  <2>1. 1 \in 1..(len - 1) /\ old(1) = 1 /\ 1 # j + 1 /\ 1 \in 1..len
    BY <1>1 DEF len
  <2> QED BY <1>2, <1>5, <2>1
<1>11. Tiled(t)
  <2>1. t.list # <<>>
    <3>1. Len(t.list) >= 1
      BY <1>1, <1>4, <1>10
    <3> QED BY <3>1, EmptySeq
  <2>2. \A i, k \in 1..(len - 1) : t.list[i] = t.list[k] => i = k
    <3> SUFFICES ASSUME NEW i \in 1..(len - 1), NEW k \in 1..(len - 1), t.list[i] = t.list[k] PROVE i = k
      OBVIOUS
    <3>1. old(i) = old(k)
      <4>1. /\ old(i) \in 1..len /\ old(k) \in 1..len
            /\ t.list[i] = s.list[old(i)] /\ t.list[k] = s.list[old(k)]
        <5> HIDE DEF old
        <5> QED BY <1>4, <1>6
      <4> HIDE DEF old
      <4> QED BY <1>2, <4>1
    <3> QED BY <3>1
  <2>3. t.heap[t.list[1]].start = 0
    <3> HIDE DEF old
    <3> QED BY <1>8, <1>10
  <2>4. ASSUME NEW i \in 1..(len - 1)
        PROVE  LET x == t.heap[t.list[i]]
               IN  /\ x.number = i - 1 /\ x.size > 0
                   /\ x.start + x.size = IF i = Len(t.list) THEN MemorySize ELSE t.heap[t.list[i + 1]].start
    <3>1. i # len - 1 => i + 1 \in 1..(len - 1)
      BY <1>1
    <3> HIDE DEF old
    <3> QED BY <1>4, <1>8, <1>9, <3>1
  <2> HIDE DEF old
  <2> QED BY <1>4, <2>1, <2>2, <2>3, <2>4 DEF Tiled
<1>12. FreeIsEmpty(t)
  <2>1. \A i \in 1..len : X(i).is_free => X(i).message = NoMessage
    BY <1>1 DEF FreeIsEmpty, X
  <2>2. \A i \in 1..(len - 1) : Y(old(i)).is_free => Y(old(i)).message = NoMessage
    <3> HIDE DEF old
    <3> QED BY <1>5, <1>6, <2>1 DEF SameUse
  <2> HIDE DEF old
  <2> QED BY <1>4, <1>8, <2>2 DEF FreeIsEmpty
<1>13. SameOccupied(s, t)
  <2> SUFFICES ASSUME NEW r \in Refs
               PROVE  /\ OccupiedIn(t, r) <=> OccupiedIn(s, r)
                      /\ OccupiedIn(s, r) => /\ t.heap[r].start = s.heap[r].start
                                             /\ t.heap[r].size = s.heap[r].size
                                             /\ SameUse(t.heap[r], s.heap[r])
    BY DEF SameOccupied
  <2>1. ASSUME NEW i \in 1..len, r = s.list[i], ~s.heap[r].is_free
        PROVE  /\ i # j + 1 /\ i # j
               /\ ~t.heap[r].is_free /\ t.heap[r].start = s.heap[r].start
               /\ t.heap[r].size = s.heap[r].size /\ SameUse(t.heap[r], s.heap[r])
    <3>1. i # j + 1 /\ i # j
      BY <2>1
    <3> QED BY <1>5, <2>1, <3>1 DEF X, Y
  <2>2. ASSUME OccupiedIn(s, r)
        PROVE  OccupiedIn(t, r) /\ t.heap[r].start = s.heap[r].start
               /\ t.heap[r].size = s.heap[r].size /\ SameUse(t.heap[r], s.heap[r])
    <3>1. PICK i \in 1..len : s.list[i] = r
      BY <1>1, <2>2 DEF OccupiedIn
    <3>2. ~s.heap[r].is_free
      BY <2>2 DEF OccupiedIn
    <3>3. PICK k \in 1..(len - 1) : old(k) = i
      BY <1>7, <2>1, <3>1, <3>2
    <3>4. k \in DOMAIN t.list /\ t.list[k] = r
      <4> HIDE DEF old
      <4> QED BY <1>4, <3>1, <3>3
    <3> QED BY <2>1, <3>1, <3>2, <3>4 DEF OccupiedIn
  <2>3. ASSUME OccupiedIn(t, r) PROVE OccupiedIn(s, r)
    <3>1. PICK k \in 1..(len - 1) : t.list[k] = r
      BY <1>4, <2>3 DEF OccupiedIn
    <3>2. old(k) \in 1..len /\ old(k) # j + 1 /\ s.list[old(k)] = r
      <4> HIDE DEF old
      <4> QED BY <1>4, <1>6, <3>1
    <3>3. ~s.heap[r].is_free
      <4>1. ~t.heap[r].is_free
        BY <2>3 DEF OccupiedIn
      <4> HIDE DEF old
      <4> QED BY <1>5, <3>2, <4>1 DEF X, Y
    <3> HIDE DEF old
    <3> QED BY <1>1, <3>2, <3>3 DEF OccupiedIn
  <2> QED BY <2>2, <2>3
<1> QED BY <1>11, <1>12, <1>13

\* Being the same is reflexive and transitive.
LEMMA SameOccupiedAgain ==
  ASSUME NEW s
  PROVE  /\ SameOccupied(s, s)
         /\ \A t, u : SameOccupied(s, t) /\ SameOccupied(t, u) => SameOccupied(s, u)
BY DEF SameOccupied, SameUse
\* What a division leaves.
LEMMA Division ==
  ASSUME NEW a \in Nat, NEW n \in Nat \ {0}
  PROVE  a \div n \in Nat /\ a % n \in 0..(n - 1) /\ a = n * (a \div n) + (a % n)
OBVIOUS

\* A multiple leaves nothing.
LEMMA Multiples ==
  ASSUME NEW q \in Nat, NEW n \in Nat \ {0}, NEW a \in Nat, a = n * q
  PROVE  a % n = 0 /\ a \div n = q
<1>1. a \div n \in Nat /\ a % n \in Nat /\ a % n < n /\ a = n * (a \div n) + (a % n)
  <2>1. a \div n \in Nat /\ a % n \in 0..(n - 1) /\ a = n * (a \div n) + (a % n)
    BY Division
  <2> DEFINE m == a % n
  <2> HIDE DEF m
  <2>2. m \in 0..(n - 1)
    BY <2>1 DEF m
  <2>3. m \in Nat /\ m < n
    BY <2>2
  <2> QED BY <2>1, <2>3 DEF m
<1> DEFINE d == a \div n
           m == a % n
<1> HIDE DEF d, m
<1>2. d \in Nat /\ m \in Nat /\ m < n /\ n * q = n * d + m
  BY <1>1 DEF d, m
<1>3. CASE q <= d
  <2>1. n * q <= n * d
    BY <1>2, <1>3
  <2>2. m = 0 /\ n * q = n * d
    BY <1>2, <2>1
  <2>3. CASE q < d
    <3>1. n * (q + 1) <= n * d
      BY <1>2, <2>3
    <3>2. n * (q + 1) = n * q + n
      OBVIOUS
    <3> QED BY <1>2, <2>2, <3>1, <3>2
  <2> QED BY <1>2, <1>3, <2>2, <2>3 DEF d, m
<1>4. CASE d < q
  <2>1. n * (d + 1) <= n * q
    BY <1>2, <1>4
  <2>2. n * (d + 1) = n * d + n
    BY <1>2
  <2> QED BY <1>2, <2>1, <2>2
<1> QED BY <1>2, <1>3, <1>4

\* Two blocks that are buddies make one.
LEMMA BuddiesMakeBlock ==
  ASSUME NEW a \in Partition, NEW b \in Partition, Block(a), Block(b),
         a.size > 0, a.start + a.size = b.start, b.start + b.size <= MemorySize,
         a.size = b.size, BuddyOf(a.start, b.size) = b.start
  PROVE  /\ \E k \in 0..MemorySize : a.size + b.size = Power[k]
         /\ a.start % (a.size + b.size) = 0
<1> DEFINE size  == a.size
           start == a.start
<1>1. size \in Nat \ {0} /\ start \in Nat /\ MemorySize \in Nat
  BY Fields
<1>2. PICK k \in 0..MemorySize : size = Power[k]
  BY DEF Block
<1>3. a.size + b.size = 2 * size
  BY <1>1
<1>4. Power[k + 1] = 2 * size /\ Power[k + 1] > k + 1
  <2>1. k \in Nat /\ k + 1 \in Nat
    BY <1>1
  <2> QED BY <1>2, <2>1, Powers
<1>5. k + 1 \in 0..MemorySize
  <2>1. 2 * size <= MemorySize
    <3>1. start + size = b.start /\ b.start + size <= MemorySize /\ start >= 0
      BY <1>1
    <3> QED BY <1>1, <3>1
  <2> QED BY <1>1, <1>4, <2>1
<1>6. (start \div size) % 2 = 0
  <2>1. BuddyOf(start, size) = start + size
    OBVIOUS
  <2>2. start + size # start - size
    BY <1>1
  <2> HIDE DEF size, start
  <2> QED BY <2>1, <2>2 DEF BuddyOf
<1>7. start % size = 0
  BY DEF Block
<1> HIDE DEF size, start
<1> DEFINE q == start \div size
<1>8. q \in Nat /\ start = size * q
  <2>1. start \div size \in Nat /\ start = size * (start \div size) + (start % size)
    BY <1>1, Division
  <2>2. size * (start \div size) \in Nat
    BY <1>1, <2>1
  <2> QED BY <1>7, <2>1, <2>2
<1> DEFINE h == q \div 2
<1>9. h \in Nat /\ q = 2 * h
  <2>1. q \in Nat /\ q % 2 = 0
    BY <1>6, <1>8
  <2> HIDE DEF q
  <2> QED BY <2>1
<1> HIDE DEF q, h
<1>10. start = (2 * size) * h
  BY <1>1, <1>8, <1>9
<1>11. start % (2 * size) = 0
  <2>1. 2 * size \in Nat \ {0}
    BY <1>1
  <2> QED BY <1>1, <1>9, <1>10, <2>1, Multiples
<1> QED BY <1>3, <1>4, <1>5, <1>11 DEF size, start
Layouts == [list : Seq(Refs), heap : [Refs -> Partition]]

\* What is free may merge: a partition absorbs the next one.
LEMMA AbsorbOK ==
  ASSUME NEW s \in Layouts, LayoutOK(s), NEW j \in 1..(Len(s.list) - 1),
         s.heap[s.list[j]].is_free, s.heap[s.list[j + 1]].is_free,
         CONFIG.memory_alg = "BUDDY_SYSTEM" => FreeBuddies(s, j)
  PROVE  /\ Absorb(s, j) \in Layouts /\ LayoutOK(Absorb(s, j)) /\ SameOccupied(s, Absorb(s, j))
         /\ Len(Absorb(s, j).list) = Len(s.list) - 1
<1> DEFINE t == Absorb(s, j)
           len == Len(s.list)
           old(i) == IF i <= j THEN i ELSE i + 1
           X(i) == s.heap[s.list[i]]
           Y(i) == t.heap[s.list[i]]
<1>1. IsAbsorbed(s, t, j)
  BY AbsorbIs DEF LayoutOK
<1> HIDE DEF t
<1>2. Tiled(t) /\ FreeIsEmpty(t) /\ SameOccupied(s, t)
  BY <1>1, AbsorbedTiles DEF LayoutOK
<1>3. t \in Layouts /\ Len(t.list) = len - 1
  BY <1>1 DEF IsAbsorbed, Layouts
<1>4. Blocks(t)
  <2> SUFFICES ASSUME CONFIG.memory_alg = "BUDDY_SYSTEM", NEW i \in 1..(len - 1)
               PROVE  Block(t.heap[t.list[i]])
    <3>1. DOMAIN t.list = 1..(len - 1)
      BY <1>2, <1>3, TiledInOrder
    <3> QED BY <3>1 DEF Blocks
  <2>1. /\ len \in Nat \ {0} /\ DOMAIN s.list = 1..len
        /\ \A k \in 1..len : s.list[k] \in Refs /\ X(k) \in Partition
        /\ \A k \in 1..len : X(k).start + X(k).size <= MemorySize
    BY TiledInOrder DEF LayoutOK
  <2>2. \A k \in 1..len : Block(X(k)) /\ X(k).size > 0
    BY <2>1 DEF LayoutOK, Blocks, Tiled
  <2>3. old(i) \in 1..len /\ old(i) # j + 1 /\ j \in 1..len /\ j + 1 \in 1..len /\ j # len
    BY <2>1
  <2>4. t.heap[t.list[i]] = Y(old(i))
    BY <1>1 DEF IsAbsorbed
  <2>5. /\ Y(old(i)).start = X(old(i)).start
        /\ Y(old(i)).size = IF old(i) = j THEN X(j).size + X(j + 1).size ELSE X(old(i)).size
    <3> HIDE DEF old
    <3> QED BY <1>1, <2>3 DEF IsAbsorbed
  <2> HIDE DEF old, Y
  <2>6. CASE old(i) # j
    <3>1. t.heap[t.list[i]].start = X(old(i)).start /\ t.heap[t.list[i]].size = X(old(i)).size
      BY <2>4, <2>5, <2>6
    <3>2. Block(X(old(i)))
      BY <2>2, <2>3
    <3> QED BY <3>1, <3>2 DEF Block
  <2>7. CASE old(i) = j
    <3> DEFINE a == X(j)
               b == X(j + 1)
    <3>1. a.start + a.size = b.start
      <4>1. a.start + a.size = IF j = len THEN MemorySize ELSE b.start
        BY <2>1, <2>3 DEF LayoutOK, Tiled
      <4> QED BY <2>3, <4>1
    <3>2. a.size = b.size /\ BuddyOf(a.start, b.size) = b.start
      BY DEF FreeBuddies
    <3>3. /\ a \in Partition /\ b \in Partition /\ Block(a) /\ Block(b) /\ a.size > 0
          /\ b.start + b.size <= MemorySize
      BY <2>1, <2>2, <2>3
    <3> HIDE DEF a, b
    <3>4. /\ \E k \in 0..MemorySize : a.size + b.size = Power[k]
          /\ a.start % (a.size + b.size) = 0
      BY <3>1, <3>2, <3>3, BuddiesMakeBlock
    <3> QED BY <2>4, <2>5, <2>7, <3>4 DEF Block, a, b
  <2> QED BY <2>6, <2>7
<1> QED BY <1>2, <1>3, <1>4 DEF LayoutOK, t

Buddies(s) == {j \in 1..(Len(s.list) - 1) : FreeBuddies(s, j)}

\* A pass of the association.
LEMMA AssociateOnceOK ==
  ASSUME NEW s \in Layouts, LayoutOK(s), CONFIG.memory_alg = "BUDDY_SYSTEM"
  PROVE  /\ AssociateOnce(s) \in Layouts /\ LayoutOK(AssociateOnce(s))
         /\ SameOccupied(s, AssociateOnce(s))
         /\ \/ Buddies(s) = {} /\ AssociateOnce(s) = s
            \/ Len(AssociateOnce(s).list) = Len(s.list) - 1
<1>1. CASE Buddies(s) = {}
  <2>1. AssociateOnce(s) = s
    BY <1>1 DEF AssociateOnce, Buddies
  <2> QED BY <1>1, <2>1, SameOccupiedAgain
<1>2. CASE Buddies(s) # {}
  <2> DEFINE j == Min(Buddies(s))
  <2>1. Len(s.list) \in Nat
    BY LenProperties DEF Layouts
  <2>2. Buddies(s) \subseteq Nat
    BY <2>1 DEF Buddies
  <2>3. j \in Buddies(s)
    BY <1>2, <2>2, MinOfNaturals
  <2>4. AssociateOnce(s) = Absorb(s, j)
    BY <1>2 DEF AssociateOnce, Buddies
  <2> HIDE DEF j
  <2>5. j \in 1..(Len(s.list) - 1) /\ FreeBuddies(s, j)
    BY <2>3 DEF Buddies
  <2>6. s.heap[s.list[j]].is_free /\ s.heap[s.list[j + 1]].is_free
    BY <2>5 DEF FreeBuddies
  <2> QED BY <2>4, <2>5, <2>6, AbsorbOK
<1> QED BY <1>1, <1>2

\* The association leaves no free buddies.
LEMMA AssociateOK ==
  ASSUME NEW s \in Layouts, LayoutOK(s), CONFIG.memory_alg = "BUDDY_SYSTEM"
  PROVE  /\ Associate(s) \in Layouts /\ LayoutOK(Associate(s)) /\ SameOccupied(s, Associate(s))
         /\ Buddies(Associate(s)) = {}
<1> DEFINE V == {t \in Layouts : LayoutOK(t) /\ SameOccupied(s, t)}
           n == Len(s.list)
           Step == [x \in (1..n) \X V |-> AssociateOnce(x[2])]
<1>1. n \in Nat \ {0} /\ s \in V
  BY TiledInOrder, SameOccupiedAgain DEF LayoutOK
<1>2. ASSUME NEW t \in V PROVE AssociateOnce(t) \in V
  <2>1. /\ AssociateOnce(t) \in Layouts /\ LayoutOK(AssociateOnce(t))
        /\ SameOccupied(t, AssociateOnce(t))
    BY AssociateOnceOK
  <2> QED BY <2>1, SameOccupiedAgain
<1>3. PICK f \in [0..n -> V] : IsRecursion(f, n, s, Step)
  <2> HIDE DEF V
  <2>1. Step \in [(1..n) \X V -> V]
    BY <1>2
  <2> HIDE DEF Step
  <2> QED BY <1>1, <2>1, RecursionExists
<1>4. f = [k \in 0..n |-> IF k = 0 THEN s ELSE AssociateOnce(f[k - 1])]
  <2> HIDE DEF V
  <2>1. \A k \in 1..n : Step[<<k, f[k - 1]>>] = AssociateOnce(f[k - 1])
    <3> SUFFICES ASSUME NEW k \in 1..n PROVE Step[<<k, f[k - 1]>>] = AssociateOnce(f[k - 1])
      OBVIOUS
    <3>1. f[k - 1] \in V
      BY <1>1
    <3> QED BY <3>1
  <2> HIDE DEF Step
  <2>2. f = [k \in 0..n |-> IF k = 0 THEN s ELSE Step[<<k, f[k - 1]>>]]
    BY <1>3 DEF IsRecursion
  <2>3. \A k \in 0..n : f[k] = IF k = 0 THEN s ELSE AssociateOnce(f[k - 1])
    <3> HIDE DEF n
    <3> QED BY <1>1, <2>1, <2>2
  <2> HIDE DEF n
  <2> QED BY <2>2, <2>3
<1>5. \E g : g = [k \in 0..n |-> IF k = 0 THEN s ELSE AssociateOnce(g[k - 1])] /\ Associate(s) = g[n]
  BY <1>4 DEF Associate
<1>6. PICK g : g = [k \in 0..n |-> IF k = 0 THEN s ELSE AssociateOnce(g[k - 1])] /\ Associate(s) = g[n]
  BY <1>5
<1>7. g[0] = s /\ \A k \in 1..n : g[k] = AssociateOnce(g[k - 1])
  <2> HIDE DEF n
  <2> QED BY <1>1, <1>6
<1> HIDE DEF n
<1>8. \A k \in 0..n : g[k] \in V
  <2>1. \A k \in 1..n : g[k - 1] \in V => g[k] \in V
    BY <1>2, <1>7
  <2> HIDE DEF V
  <2> QED BY <1>1, <1>7, <2>1, RecursionStays
<1> DEFINE S == {k \in 0..n : Buddies(g[k]) = {} \/ Len(g[k].list) = n - k}
<1>9. 0 \in S
  BY <1>1, <1>7 DEF n
<1>10. ASSUME NEW k \in 1..n, k - 1 \in S PROVE k \in S
  <2>1. k - 1 \in 0..n /\ g[k - 1] \in V /\ g[k] = AssociateOnce(g[k - 1])
    BY <1>1, <1>7, <1>8
  <2>2. \/ Buddies(g[k - 1]) = {} /\ g[k] = g[k - 1]
        \/ Len(g[k].list) = Len(g[k - 1].list) - 1
    BY <2>1, AssociateOnceOK
  <2>3. CASE Buddies(g[k - 1]) = {} /\ g[k] = g[k - 1]
    BY <2>3
  <2>4. CASE Len(g[k].list) = Len(g[k - 1].list) - 1 /\ ~(Buddies(g[k - 1]) = {})
    <3>1. Len(g[k - 1].list) = n - (k - 1)
      BY <1>10, <2>4
    <3> QED BY <1>1, <2>4, <3>1
  <2>5. CASE Len(g[k].list) = Len(g[k - 1].list) - 1 /\ Buddies(g[k - 1]) = {}
    <3>1. AssociateOnce(g[k - 1]) = g[k - 1]
      BY <2>5 DEF AssociateOnce, Buddies
    <3> QED BY <2>1, <2>5, <3>1
  <2> QED BY <2>2, <2>3, <2>4, <2>5
<1>11. n \in S
  <2>1. \A k \in 0..n : k \in S
    <3> HIDE DEF S
    <3> QED BY <1>1, <1>9, <1>10, InductionUpTo
  <2> HIDE DEF S
  <2> QED BY <1>1, <2>1
<1>12. g[n] \in Layouts /\ LayoutOK(g[n]) /\ SameOccupied(s, g[n])
  BY <1>1, <1>8
<1>13. Len(g[n].list) # n - n
  <2>1. Len(g[n].list) \in Nat \ {0}
    BY <1>12, TiledInOrder DEF LayoutOK
  <2> QED BY <1>1, <2>1
<1> QED BY <1>6, <1>11, <1>12, <1>13

\* The consolidation of the dynamic partitions.
LEMMA ConsolidateOK ==
  ASSUME NEW s \in Layouts, LayoutOK(s), CONFIG.memory_alg # "BUDDY_SYSTEM"
  PROVE  Consolidate(s) \in Layouts /\ LayoutOK(Consolidate(s)) /\ SameOccupied(s, Consolidate(s))
<1> DEFINE V == {t \in Layouts : LayoutOK(t) /\ SameOccupied(s, t)}
           n == Len(s.list)
           Step == [x \in (1..n) \X V |-> ConsolidateAt(x[2], x[1])]
<1>1. n \in Nat \ {0} /\ s \in V
  BY TiledInOrder, SameOccupiedAgain DEF LayoutOK
<1>2. ASSUME NEW j \in 1..n, NEW t \in V PROVE ConsolidateAt(t, j) \in V
  <2> DEFINE merge == /\ j < Len(t.list)
                      /\ t.heap[t.list[j]].is_free /\ t.heap[t.list[j + 1]].is_free
  <2>1. CASE ~merge
    <3>1. ConsolidateAt(t, j) = t
      BY <2>1 DEF ConsolidateAt
    <3> QED BY <3>1
  <2>2. CASE merge
    <3>1. ConsolidateAt(t, j) = Absorb(t, j)
      BY <2>2 DEF ConsolidateAt
    <3>2. Len(t.list) \in Nat
      BY LenProperties DEF Layouts
    <3>3. j \in 1..(Len(t.list) - 1)
      BY <2>2, <3>2
    <3>4. Absorb(t, j) \in Layouts /\ LayoutOK(Absorb(t, j)) /\ SameOccupied(t, Absorb(t, j))
      BY <2>2, <3>3, AbsorbOK
    <3> QED BY <3>1, <3>4, SameOccupiedAgain
  <2> QED BY <2>1, <2>2
<1>3. PICK f \in [0..n -> V] : IsRecursion(f, n, s, Step)
  <2> HIDE DEF V
  <2>1. Step \in [(1..n) \X V -> V]
    BY <1>2
  <2> HIDE DEF Step
  <2> QED BY <1>1, <2>1, RecursionExists
<1>4. f = [k \in 0..n |-> IF k = 0 THEN s ELSE ConsolidateAt(f[k - 1], k)]
  <2> HIDE DEF V
  <2>1. \A k \in 1..n : Step[<<k, f[k - 1]>>] = ConsolidateAt(f[k - 1], k)
    <3> SUFFICES ASSUME NEW k \in 1..n PROVE Step[<<k, f[k - 1]>>] = ConsolidateAt(f[k - 1], k)
      OBVIOUS
    <3>1. f[k - 1] \in V
      BY <1>1
    <3> QED BY <3>1
  <2> HIDE DEF Step
  <2>2. f = [k \in 0..n |-> IF k = 0 THEN s ELSE Step[<<k, f[k - 1]>>]]
    BY <1>3 DEF IsRecursion
  <2>3. \A k \in 0..n : f[k] = IF k = 0 THEN s ELSE ConsolidateAt(f[k - 1], k)
    <3> HIDE DEF n
    <3> QED BY <1>1, <2>1, <2>2
  <2> HIDE DEF n
  <2> QED BY <2>2, <2>3
<1>5. PICK g : g = [k \in 0..n |-> IF k = 0 THEN s ELSE ConsolidateAt(g[k - 1], k)] /\ Consolidate(s) = g[n]
  <2>1. \E g : g = [k \in 0..n |-> IF k = 0 THEN s ELSE ConsolidateAt(g[k - 1], k)] /\ Consolidate(s) = g[n]
    BY <1>4 DEF Consolidate
  <2> QED BY <2>1
<1>6. g[0] = s /\ \A k \in 1..n : g[k] = ConsolidateAt(g[k - 1], k)
  <2> HIDE DEF n
  <2> QED BY <1>1, <1>5
<1> HIDE DEF n
<1>7. \A k \in 0..n : g[k] \in V
  <2>1. \A k \in 1..n : g[k - 1] \in V => g[k] \in V
    BY <1>2, <1>6
  <2> HIDE DEF V
  <2> QED BY <1>1, <1>6, <2>1, RecursionStays
<1> QED BY <1>1, <1>5, <1>7
-----------------------------------------------------------------------------
(* Splitting a partition *)

Spliced(l, i, a, b) == SubSeq(l, 1, i - 1) \o <<a, b>> \o SubSeq(l, i + 1, Len(l))

IsSpliced(x, R, l, i, a, b) ==
  /\ x \in Seq(R) /\ Len(x) = Len(l) + 1
  /\ x[i] = a /\ x[i + 1] = b
  /\ \A k \in 1..(i - 1) : x[k] = l[k]
  /\ \A k \in (i + 1)..Len(l) : x[k + 1] = l[k]

\* A list with two elements in the place of one.
LEMMA SplicedIs ==
  ASSUME NEW R, NEW l \in Seq(R), NEW i \in 1..Len(l), NEW a \in R, NEW b \in R
  PROVE  IsSpliced(Spliced(l, i, a, b), R, l, i, a, b)
<1> DEFINE p == SubSeq(l, 1, i - 1)
           q == SubSeq(l, i + 1, Len(l))
           ab == <<a, b>>
           pab == p \o ab
           x == pab \o q
<1>1. Len(l) \in Nat /\ \A k \in 1..Len(l) : l[k] \in R
  BY LenProperties, ElementOfSeq
<1>2. p \in Seq(R) /\ Len(p) = i - 1 /\ \A k \in 1..(i - 1) : p[k] = l[k]
  <2>1. \A k \in 1..(i - 1) : l[k] \in R
    BY <1>1
  <2>2. /\ p \in Seq(R) /\ Len(p) = IF 1 <= i - 1 THEN i - 1 - 1 + 1 ELSE 0
        /\ \A k \in 1..(i - 1 - 1 + 1) : p[k] = l[1 + k - 1]
    <3>1. 1 \in Int /\ i - 1 \in Int
      OBVIOUS
    <3> QED BY <2>1, <3>1, SubSeqProperties
  <2> HIDE DEF p
  <2> QED BY <2>2
<1>3. /\ q \in Seq(R) /\ Len(q) = Len(l) - i
      /\ \A k \in 1..(Len(l) - i) : q[k] = l[i + k]
  <2>1. \A k \in (i + 1)..Len(l) : l[k] \in R
    BY <1>1
  <2>2. /\ q \in Seq(R) /\ Len(q) = IF i + 1 <= Len(l) THEN Len(l) - (i + 1) + 1 ELSE 0
        /\ \A k \in 1..(Len(l) - (i + 1) + 1) : q[k] = l[i + 1 + k - 1]
    <3>1. i + 1 \in Int /\ Len(l) \in Int
      BY <1>1
    <3> QED BY <2>1, <3>1, SubSeqProperties
  <2> HIDE DEF q
  <2> QED BY <1>1, <2>2
<1>4. ab \in Seq(R) /\ Len(ab) = 2 /\ ab[1] = a /\ ab[2] = b
  OBVIOUS
<1> HIDE DEF p, q, ab
<1>5. /\ pab \in Seq(R) /\ Len(pab) = i + 1
      /\ pab[i] = a /\ pab[i + 1] = b /\ \A k \in 1..(i - 1) : pab[k] = l[k]
  <2>1. /\ p \o ab \in Seq(R) /\ Len(p \o ab) = Len(p) + Len(ab)
        /\ \A k \in 1..(Len(p) + Len(ab)) : (p \o ab)[k] = IF k <= Len(p) THEN p[k] ELSE ab[k - Len(p)]
    BY <1>2, <1>4, ConcatProperties
  <2> HIDE DEF pab
  <2>2. /\ pab \in Seq(R) /\ Len(pab) = i + 1
        /\ \A k \in 1..(i + 1) : pab[k] = IF k <= i - 1 THEN p[k] ELSE ab[k - (i - 1)]
    <3>1. Len(p) + Len(ab) = i + 1
      BY <1>2, <1>4
    <3> QED BY <1>2, <2>1, <3>1 DEF pab
  <2>3. pab[i] = a
    <3>1. i \in 1..(i + 1) /\ ~(i <= i - 1) /\ i - (i - 1) = 1
      OBVIOUS
    <3> QED BY <1>4, <2>2, <3>1
  <2>4. pab[i + 1] = b
    <3>1. i + 1 \in 1..(i + 1) /\ ~(i + 1 <= i - 1) /\ i + 1 - (i - 1) = 2
      OBVIOUS
    <3> QED BY <1>4, <2>2, <3>1
  <2> QED BY <1>2, <2>2, <2>3, <2>4
<1> HIDE DEF pab
<1>6. /\ x \in Seq(R) /\ Len(x) = Len(l) + 1
      /\ \A k \in 1..(Len(l) + 1) : x[k] = IF k <= i + 1 THEN pab[k] ELSE q[k - (i + 1)]
  <2>1. /\ pab \o q \in Seq(R) /\ Len(pab \o q) = Len(pab) + Len(q)
        /\ \A k \in 1..(Len(pab) + Len(q)) : (pab \o q)[k] = IF k <= Len(pab) THEN pab[k] ELSE q[k - Len(pab)]
    BY <1>3, <1>5, ConcatProperties
  <2>2. Len(pab) + Len(q) = Len(l) + 1
    BY <1>1, <1>3, <1>5
  <2> QED BY <1>5, <2>1, <2>2 DEF x
<1> HIDE DEF x
<1>7. x[i] = a /\ x[i + 1] = b /\ \A k \in 1..(i - 1) : x[k] = l[k]
  <2>1. i \in 1..(Len(l) + 1) /\ i <= i + 1 /\ i + 1 \in 1..(Len(l) + 1)
    BY <1>1
  <2>2. \A k \in 1..(i - 1) : k \in 1..(Len(l) + 1) /\ k <= i + 1
    BY <1>1
  <2> QED BY <1>5, <1>6, <2>1, <2>2
<1>8. ASSUME NEW k \in (i + 1)..Len(l) PROVE x[k + 1] = l[k]
  <2>1. k + 1 \in 1..(Len(l) + 1) /\ ~(k + 1 <= i + 1) /\ k + 1 - (i + 1) = k - i
        /\ k - i \in 1..(Len(l) - i) /\ i + (k - i) = k
    BY <1>1
  <2>2. x[k + 1] = q[k + 1 - (i + 1)]
    BY <1>6, <2>1
  <2>3. q[k - i] = l[i + (k - i)]
    BY <1>3, <2>1
  <2> QED BY <2>1, <2>2, <2>3
<1>9. IsSpliced(x, R, l, i, a, b)
  BY <1>6, <1>7, <1>8 DEF IsSpliced
<1> QED BY <1>9 DEF Spliced, x, pab, p, q, ab

\* The partition at i of one layout is two in the other, the first of a size.
IsSplit(s, t, i, a, b, size) ==
  LET x == s.heap[s.list[i]]
  IN  /\ t \in Layouts /\ Len(t.list) = Len(s.list) + 1
      /\ t.list[i] = a /\ t.list[i + 1] = b
      /\ \A k \in 1..(i - 1) : t.list[k] = s.list[k]
      /\ \A k \in (i + 1)..Len(s.list) : t.list[k + 1] = s.list[k]
      /\ a # b /\ \A k \in 1..Len(s.list) : k # i => s.list[k] # a /\ s.list[k] # b
      /\ \A k \in 1..Len(s.list) : k # i =>
           LET y == s.heap[s.list[k]]
               z == t.heap[s.list[k]]
           IN  /\ z.start = y.start /\ z.is_free = y.is_free /\ SameUse(z, y)
               /\ z.size = y.size
               /\ z.number = IF k < i THEN y.number ELSE y.number + 1
      /\ LET y == t.heap[a]
         IN  /\ y.number = i - 1 /\ y.start = x.start /\ y.size = size
             /\ y.is_free /\ y.message = NoMessage
      /\ LET y == t.heap[b]
         IN  /\ y.number = i /\ y.start = x.start + size /\ y.size = x.size - size
             /\ y.is_free /\ y.message = NoMessage

\* The parts of a free partition tile the memory with the others, which are as they were.
LEMMA SplitTiles ==
  ASSUME NEW s, Tiled(s), FreeIsEmpty(s), NEW i \in 1..Len(s.list),
         s.heap[s.list[i]].is_free, NEW size \in Nat \ {0}, size < s.heap[s.list[i]].size,
         NEW t, NEW a, NEW b, IsSplit(s, t, i, a, b, size)
  PROVE  Tiled(t) /\ FreeIsEmpty(t) /\ SameOccupied(s, t)
<1> DEFINE len == Len(s.list)
           X(k) == s.heap[s.list[k]]
           Y(k) == t.heap[s.list[k]]
           T(k) == t.heap[t.list[k]]
<1>1. /\ len \in Nat \ {0} /\ DOMAIN s.list = 1..len
      /\ \A k \in 1..len : s.list[k] \in Refs /\ X(k) \in Partition
  BY TiledInOrder
<1>2. /\ \A j, k \in 1..len : s.list[j] = s.list[k] => j = k
      /\ X(1).start = 0
      /\ \A k \in 1..len : /\ X(k).number = k - 1 /\ X(k).size > 0
                           /\ X(k).start + X(k).size = IF k = len THEN MemorySize ELSE X(k + 1).start
  BY <1>1 DEF Tiled
<1>3. \A k \in 1..len : X(k).start \in Int /\ X(k).size \in Int /\ MemorySize \in Int
  BY <1>1, Fields
<1>4. /\ t.list \in Seq(Refs) /\ t.heap \in [Refs -> Partition] /\ Len(t.list) = len + 1
      /\ t.list[i] = a /\ t.list[i + 1] = b
      /\ \A k \in 1..(i - 1) : t.list[k] = s.list[k]
      /\ \A k \in (i + 1)..len : t.list[k + 1] = s.list[k]
      /\ a # b /\ \A k \in 1..len : k # i => s.list[k] # a /\ s.list[k] # b
      /\ DOMAIN t.list = 1..(len + 1)
  <2>1. t.list \in Seq(Refs) /\ t.heap \in [Refs -> Partition] /\ Len(t.list) = len + 1
    BY DEF IsSplit, Layouts
  <2>2. DOMAIN t.list = 1..Len(t.list)
    BY <2>1, LenProperties
  <2> QED BY <2>1, <2>2 DEF IsSplit
<1>5. \A k \in 1..len : k # i =>
        /\ Y(k).start = X(k).start /\ Y(k).is_free = X(k).is_free /\ SameUse(Y(k), X(k))
        /\ Y(k).size = X(k).size
        /\ Y(k).number = IF k < i THEN X(k).number ELSE X(k).number + 1
  BY DEF IsSplit
<1>6. /\ T(i).number = i - 1 /\ T(i).start = X(i).start /\ T(i).size = size
      /\ T(i).is_free /\ T(i).message = NoMessage
  BY <1>4 DEF IsSplit
<1>7. /\ T(i + 1).number = i /\ T(i + 1).start = X(i).start + size /\ T(i + 1).size = X(i).size - size
      /\ T(i + 1).is_free /\ T(i + 1).message = NoMessage
  BY <1>4 DEF IsSplit
<1> HIDE DEF len
<1>8. /\ \A k \in 1..(i - 1) : T(k) = Y(k) /\ k \in 1..len /\ k # i /\ k < i
      /\ \A k \in (i + 2)..(len + 1) : /\ T(k) = Y(k - 1) /\ k - 1 \in 1..len /\ k - 1 # i /\ ~(k - 1 < i)
                                       /\ t.list[k] = s.list[k - 1]
  <2>1. ASSUME NEW k \in 1..(i - 1) PROVE T(k) = Y(k) /\ k \in 1..len /\ k # i /\ k < i
    BY <1>1, <1>4 DEF len
  <2>2. ASSUME NEW k \in (i + 2)..(len + 1)
        PROVE  T(k) = Y(k - 1) /\ k - 1 \in 1..len /\ k - 1 # i /\ ~(k - 1 < i) /\ t.list[k] = s.list[k - 1]
    <3>1. k - 1 \in (i + 1)..len /\ k - 1 + 1 = k
      BY <1>1
    <3>2. t.list[k] = s.list[k - 1]
      BY <1>4, <3>1
    <3> QED BY <3>1, <3>2
  <2> QED BY <2>1, <2>2
<1>9. i \in 1..len /\ len \in Nat
  BY <1>1 DEF len
<1> HIDE DEF X, Y, T
<1>10. ASSUME NEW k \in 1..(len + 1)
       PROVE  /\ T(k).number = k - 1 /\ T(k).size > 0
              /\ T(k).start + T(k).size = IF k = len + 1 THEN MemorySize ELSE T(k + 1).start
  <2>1. CASE k < i - 1
    <3>1. k \in 1..(i - 1) /\ k + 1 \in 1..(i - 1) /\ k # len /\ k # len + 1
      BY <1>9, <2>1
    <3> QED BY <1>2, <1>5, <1>8, <3>1
  <2>2. CASE k = i - 1
    <3>1. k \in 1..(i - 1) /\ k + 1 = i /\ k # len /\ k # len + 1
      BY <1>9, <2>2
    <3> QED BY <1>2, <1>5, <1>6, <1>8, <3>1
  <2>3. CASE k = i
    <3>1. k # len + 1
      BY <1>9, <2>3
    <3>2. T(i).start + T(i).size = T(i + 1).start
      BY <1>6, <1>7
    <3>3. size > 0
      OBVIOUS
    <3> QED BY <1>6, <2>3, <3>1, <3>2, <3>3
  <2>4. CASE k = i + 1
    <3>1. X(i).start + X(i).size = IF i = len THEN MemorySize ELSE X(i + 1).start
      BY <1>2, <1>9
    <3>2. X(i).size > size /\ X(i).start \in Int /\ X(i).size \in Int
      BY <1>3, <1>9 DEF X
    <3>3. T(i + 1).start + T(i + 1).size = X(i).start + X(i).size /\ T(i + 1).size > 0
      <4>1. T(i + 1).start = X(i).start + size /\ T(i + 1).size = X(i).size - size
        BY <1>7
      <4>2. \A u, v \in Int : v > size => u + size + (v - size) = u + v /\ v - size > 0
        OBVIOUS
      <4>3. T(i + 1).start + T(i + 1).size = X(i).start + size + (X(i).size - size)
        BY <4>1
      <4> QED BY <3>2, <4>1, <4>2, <4>3
    <3>4. i # len => T(i + 2).start = X(i + 1).start
      <4>1. i # len => i + 2 \in (i + 2)..(len + 1) /\ i + 2 - 1 = i + 1
        BY <1>9
      <4> QED BY <1>5, <1>8, <4>1
    <3>5. k - 1 = i /\ (k = len + 1 <=> i = len) /\ k + 1 = i + 2
      BY <1>9, <2>4
    <3> QED BY <1>7, <2>4, <3>1, <3>3, <3>4, <3>5
  <2>5. CASE k > i + 1
    <3>1. k \in (i + 2)..(len + 1)
      BY <1>9, <2>5
    <3>2. k - 1 \in 1..len /\ k - 1 # i /\ ~(k - 1 < i) /\ T(k) = Y(k - 1)
      BY <1>8, <3>1
    <3>3. T(k).number = X(k - 1).number + 1 /\ T(k).size = X(k - 1).size /\ T(k).start = X(k - 1).start
      BY <1>5, <3>2
    <3>4. /\ X(k - 1).number = k - 1 - 1 /\ X(k - 1).size > 0
          /\ X(k - 1).start + X(k - 1).size = IF k - 1 = len THEN MemorySize ELSE X(k - 1 + 1).start
      BY <1>2, <3>2
    <3>5. k # len + 1 => T(k + 1).start = X(k).start
      <4>1. k # len + 1 => k + 1 \in (i + 2)..(len + 1) /\ k + 1 - 1 = k
        BY <1>9, <3>1
      <4> QED BY <1>5, <1>8, <4>1
    <3>6. (k - 1 = len <=> k = len + 1) /\ k - 1 + 1 = k /\ k - 1 - 1 + 1 = k - 1
      BY <1>9
    <3> QED BY <3>3, <3>4, <3>5, <3>6
  <2> QED BY <1>9, <2>1, <2>2, <2>3, <2>4, <2>5
<1>11. Tiled(t)
  <2>1. t.list # <<>>
    <3>1. Len(t.list) >= 1
      BY <1>4, <1>9
    <3> QED BY <3>1, EmptySeq
  <2>2. ASSUME NEW j \in 1..(len + 1), NEW k \in 1..(len + 1), t.list[j] = t.list[k] PROVE j = k
    <3> DEFINE o(q) == IF q < i THEN q ELSE q - 1
    <3>1. ASSUME NEW q \in 1..(len + 1), q # i, q # i + 1
          PROVE  t.list[q] = s.list[o(q)] /\ o(q) \in 1..len /\ o(q) # i
      <4>1. CASE q < i
        <5>1. q \in 1..(i - 1)
          BY <1>9, <4>1
        <5> QED BY <1>4, <1>8, <4>1, <5>1
      <4>2. CASE ~(q < i)
        <5>1. q \in (i + 2)..(len + 1)
          BY <1>9, <3>1, <4>2
        <5> QED BY <1>8, <4>2, <5>1
      <4> QED BY <4>1, <4>2
    <3>2. ASSUME NEW q \in 1..(len + 1), q # i, q # i + 1 PROVE t.list[q] # a /\ t.list[q] # b
      <4>1. t.list[q] = s.list[o(q)] /\ o(q) \in 1..len /\ o(q) # i
        BY <3>1, <3>2
      <4> HIDE DEF o
      <4> QED BY <1>4, <4>1
    <3>3. CASE j \in {i, i + 1} \/ k \in {i, i + 1}
      BY <1>4, <2>2, <3>2, <3>3
    <3>4. CASE j \notin {i, i + 1} /\ k \notin {i, i + 1}
      <4>1. o(j) = o(k)
        <5> HIDE DEF o
        <5> QED BY <1>2, <2>2, <3>1, <3>4
      <4> QED BY <3>4, <4>1
    <3> QED BY <3>3, <3>4
  <2>3. T(1).start = 0
    <3>1. CASE i = 1
      BY <1>2, <1>6, <3>1
    <3>2. CASE i # 1
      <4>1. 1 \in 1..(i - 1)
        BY <1>9, <3>2
      <4> QED BY <1>2, <1>5, <1>8, <4>1
    <3> QED BY <3>1, <3>2
  <2>4. DOMAIN t.list = 1..(len + 1) /\ Len(t.list) = len + 1
    BY <1>4
  <2>5. t.heap[t.list[1]].start = 0
    BY <2>3 DEF T
  <2>6. \A k \in DOMAIN t.list :
          LET y == t.heap[t.list[k]]
          IN  /\ y.number = k - 1 /\ y.size > 0
              /\ y.start + y.size = IF k = Len(t.list) THEN MemorySize ELSE t.heap[t.list[k + 1]].start
    BY <1>10, <2>4 DEF T
  <2>7. \A j, k \in DOMAIN t.list : t.list[j] = t.list[k] => j = k
    BY <2>2, <2>4
  <2> QED BY <1>4, <2>1, <2>5, <2>6, <2>7 DEF Tiled
<1>12. FreeIsEmpty(t)
  <2>1. \A k \in 1..len : X(k).is_free => X(k).message = NoMessage
    BY <1>1 DEF FreeIsEmpty, X
  <2>2. ASSUME NEW k \in 1..(len + 1), T(k).is_free PROVE T(k).message = NoMessage
    <3>1. CASE k < i
      <4>1. k \in 1..(i - 1)
        BY <1>9, <3>1
      <4> QED BY <1>5, <1>8, <2>1, <2>2, <4>1 DEF SameUse
    <3>2. CASE k = i \/ k = i + 1
      BY <1>6, <1>7, <3>2
    <3>3. CASE k > i + 1
      <4>1. k \in (i + 2)..(len + 1)
        BY <1>9, <3>3
      <4> QED BY <1>5, <1>8, <2>1, <2>2, <4>1 DEF SameUse
    <3> QED BY <1>9, <3>1, <3>2, <3>3
  <2> QED BY <1>4, <2>2 DEF FreeIsEmpty, T
<1>13. SameOccupied(s, t)
  <2> SUFFICES ASSUME NEW r \in Refs
               PROVE  /\ OccupiedIn(t, r) <=> OccupiedIn(s, r)
                      /\ OccupiedIn(s, r) => /\ t.heap[r].start = s.heap[r].start
                                             /\ t.heap[r].size = s.heap[r].size
                                             /\ SameUse(t.heap[r], s.heap[r])
    BY DEF SameOccupied
  <2>1. ASSUME OccupiedIn(s, r)
        PROVE  OccupiedIn(t, r) /\ t.heap[r].start = s.heap[r].start
               /\ t.heap[r].size = s.heap[r].size /\ SameUse(t.heap[r], s.heap[r])
    <3>1. PICK k \in 1..len : s.list[k] = r /\ ~s.heap[r].is_free
      BY <1>1, <2>1 DEF OccupiedIn
    <3>2. k # i
      BY <3>1
    <3>3. \E q \in 1..(len + 1) : t.list[q] = r
      <4>1. CASE k < i
        <5>1. k \in 1..(i - 1) /\ k \in 1..(len + 1)
          BY <1>9, <4>1
        <5> QED BY <1>4, <3>1, <5>1
      <4>2. CASE k > i
        <5>1. k \in (i + 1)..len /\ k + 1 \in 1..(len + 1)
          BY <1>9, <4>2
        <5> QED BY <1>4, <3>1, <5>1
      <4> QED BY <1>9, <3>2, <4>1, <4>2
    <3> QED BY <1>4, <1>5, <3>1, <3>2, <3>3 DEF OccupiedIn, X, Y
  <2>2. ASSUME OccupiedIn(t, r) PROVE OccupiedIn(s, r)
    <3>1. PICK k \in 1..(len + 1) : t.list[k] = r /\ ~T(k).is_free
      BY <1>4, <2>2 DEF OccupiedIn, T
    <3>2. k # i /\ k # i + 1
      BY <1>6, <1>7, <3>1
    <3>3. CASE k < i
      <4>1. k \in 1..(i - 1)
        BY <1>9, <3>3
      <4>2. k \in 1..len /\ ~X(k).is_free /\ s.list[k] = r
        BY <1>4, <1>5, <1>8, <3>1, <4>1
      <4> QED BY <1>1, <4>2 DEF OccupiedIn, X
    <3>4. CASE k > i + 1
      <4>1. k \in (i + 2)..(len + 1)
        BY <1>9, <3>4
      <4>2. k - 1 \in 1..len /\ ~X(k - 1).is_free /\ s.list[k - 1] = r
        BY <1>5, <1>8, <3>1, <4>1
      <4> QED BY <1>1, <4>2 DEF OccupiedIn, X
    <3> QED BY <1>9, <3>2, <3>3, <3>4
  <2> QED BY <2>1, <2>2
<1> QED BY <1>11, <1>12, <1>13
\* A list of n elements has at most n different ones.
LEMMA ImageBound ==
  ASSUME NEW n \in Nat, NEW T, NEW f \in [1..n -> T], \A x \in T : \E i \in 1..n : f[i] = x
  PROVE  IsFiniteSet(T) /\ Cardinality(T) <= n
<1>1. IsFiniteSet(1..n) /\ Cardinality(1..n) = n
  <2>1. 1 \in Int /\ n \in Int /\ (1 > n => n = 0)
    OBVIOUS
  <2> QED BY <2>1, FS_Interval
<1>2. f \in Surjection(1..n, T)
  BY DEF Surjection
<1>3. IsFiniteSet(T) /\ Cardinality(T) <= Cardinality(1..n)
  BY <1>1, <1>2, FS_Surjection
<1> QED BY <1>1, <1>3

\* What a search has found is in the list.
FoundIsThere == \A p \in Publishers : found[p] = NoRef \/ InList(found[p])

\* There is memory for the struct of one more partition, and of a second.
LEMMA NewRefIs ==
  ASSUME Tiled(Layout), location \in [Messages -> Refs \cup {NoRef}], FoundIsThere,
         NEW taken, IsFiniteSet(taken), Cardinality(taken) <= 1
  PROVE  /\ NewRef(taken) \in Refs /\ ~InList(NewRef(taken)) /\ NewRef(taken) \notin taken
         /\ \A m \in Messages : location[m] # NewRef(taken)
         /\ \A p \in Publishers : found[p] # NewRef(taken)
<1> DEFINE listed == ToSet(partitions)
           locations == {location[m] : m \in Messages}
           founds == {found[p] : p \in Publishers}
           used == listed \cup taken \cup locations \cup founds
           free == Refs \ used
           c == listed \cup taken \cup locations
           len == Len(partitions)
<1>0. MemorySize \in Nat \ {0} /\ MaxMessages \in Nat
  BY MemoryAssumption
<1>1. len \in Nat \ {0} /\ DOMAIN partitions = 1..len /\ partitions \in Seq(Refs) /\ len <= MemorySize
  <2>1. /\ Len(Layout.list) \in Nat \ {0} /\ DOMAIN Layout.list = 1..Len(Layout.list)
        /\ Len(Layout.list) <= MemorySize
    BY TiledInOrder
  <2> QED BY <2>1 DEF Layout, Tiled
<1>2. IsFiniteSet(listed) /\ Cardinality(listed) <= len
  <2>1. partitions \in [1..len -> listed] /\ \A x \in listed : \E i \in 1..len : partitions[i] = x
    <3>1. partitions \in [1..len -> Refs]
      BY <1>1, LenProperties
    <3> QED BY <1>1, <3>1 DEF ToSet
  <2> HIDE DEF listed, len
  <2> QED BY <1>1, <2>1, ImageBound
<1>3. IsFiniteSet(locations) /\ Cardinality(locations) <= MaxMessages
  <2>1. location \in [1..MaxMessages -> locations]
        /\ \A x \in locations : \E i \in 1..MaxMessages : location[i] = x
    BY DEF Messages
  <2> HIDE DEF locations
  <2> QED BY <1>0, <2>1, ImageBound
<1>4. IsFiniteSet(c) /\ Cardinality(c) <= MemorySize + MaxMessages + 1 /\ Cardinality(c) \in Nat
  <2> HIDE DEF listed, locations, len
  <2>1. /\ IsFiniteSet(listed \cup taken)
        /\ Cardinality(listed \cup taken) = Cardinality(listed) + Cardinality(taken) - Cardinality(listed \cap taken)
    BY <1>2, FS_Union
  <2>2. /\ IsFiniteSet((listed \cup taken) \cup locations)
        /\ Cardinality((listed \cup taken) \cup locations)
             = Cardinality(listed \cup taken) + Cardinality(locations) - Cardinality((listed \cup taken) \cap locations)
    BY <1>3, <2>1, FS_Union
  <2>3. /\ IsFiniteSet(listed \cap taken) /\ IsFiniteSet((listed \cup taken) \cap locations)
    BY <1>3, FS_Subset
  <2>4. /\ Cardinality(listed) \in Nat /\ Cardinality(taken) \in Nat /\ Cardinality(locations) \in Nat
        /\ Cardinality(listed \cap taken) \in Nat /\ Cardinality((listed \cup taken) \cap locations) \in Nat
        /\ Cardinality(listed \cup taken) \in Nat /\ Cardinality((listed \cup taken) \cup locations) \in Nat
    BY <1>2, <1>3, <2>1, <2>2, <2>3, FS_CardinalityType
  <2> QED BY <1>0, <1>1, <1>2, <1>3, <2>1, <2>2, <2>4
<1>5. IsFiniteSet(Refs) /\ Cardinality(Refs) = MemorySize + MaxMessages + 2
  <2>1. 1 \in Int /\ MemorySize + MaxMessages + 2 \in Int /\ ~(1 > MemorySize + MaxMessages + 2)
    BY <1>0
  <2>2. MemorySize + MaxMessages + 2 - 1 + 1 = MemorySize + MaxMessages + 2
    BY <1>0
  <2> QED BY <2>1, <2>2, FS_Interval DEF Refs
<1>6. \E r \in Refs : r \notin c
  <2> SUFFICES ASSUME Refs \subseteq c PROVE FALSE
    OBVIOUS
  <2> HIDE DEF c
  <2>1. Cardinality(Refs) <= Cardinality(c)
    BY <1>4, FS_Subset
  <2> QED BY <1>0, <1>4, <1>5, <2>1
<1>7. \A r \in Refs : r \in used <=> r \in c
  <2>1. \A p \in Publishers : found[p] \in Refs => found[p] \in listed
    <3>1. NoRef \notin Refs
      BY <1>0 DEF NoRef, Refs
    <3>2. \A r : InList(r) => r \in listed
      BY DEF InList, ToSet
    <3> QED BY <3>1, <3>2 DEF FoundIsThere
  <2> HIDE DEF listed, locations
  <2> QED BY <2>1
<1>8. free # {} /\ free \subseteq Nat
  <2>1. Refs \subseteq Nat
    BY <1>0 DEF Refs
  <2> HIDE DEF used, c
  <2> QED BY <1>6, <1>7, <2>1
<1> HIDE DEF free
<1>9. Min(free) \in free /\ \A q \in free : Min(free) <= q
  BY <1>8, MinOfNaturals
<1>10. NewRef(taken) \in free
  <2>1. NewRef(taken) = CHOOSE r \in free : \A q \in free : r <= q
    BY DEF NewRef, free
  <2> QED BY <1>9, <2>1
<1>11. \A r : InList(r) => r \in listed
  BY DEF InList, ToSet
<1> HIDE DEF listed
<1> QED BY <1>10, <1>11 DEF free

\* What has been found is at its place.
LEMMA PlaceFound ==
  ASSUME Tiled(Layout), NEW r, InList(r)
  PROVE  /\ r \in Refs /\ part[r] \in Partition
         /\ part[r].number + 1 \in 1..Len(partitions) /\ partitions[part[r].number + 1] = r
         /\ part[r].start + part[r].size <= MemorySize
         /\ part[r].number + 1 <= MemorySize
<1> DEFINE len == Len(partitions)
<1>1. /\ len \in Nat \ {0} /\ DOMAIN partitions = 1..len /\ len <= MemorySize
      /\ \A k \in 1..len : partitions[k] \in Refs /\ part[partitions[k]] \in Partition
      /\ \A k \in 1..len : part[partitions[k]].start + part[partitions[k]].size <= MemorySize
  <2>1. Layout.list = partitions /\ Layout.heap = part
    BY DEF Layout
  <2> QED BY <2>1, TiledInOrder
<1>2. \A k \in 1..len : part[partitions[k]].number = k - 1
  BY <1>1 DEF Tiled, Layout
<1>3. PICK k \in 1..len : partitions[k] = r
  BY <1>1 DEF InList
<1>4. part[r].number = k - 1 /\ k - 1 + 1 = k
  BY <1>2, <1>3
<1>5. k <= MemorySize
  BY <1>1, MemoryAssumption
<1> QED BY <1>1, <1>3, <1>4, <1>5
\* The first part of a dynamic partition keeps its struct, and the rest has a new one.
LEMMA SplitPartitionIs ==
  ASSUME LayoutOK(Layout), location \in [Messages -> Refs \cup {NoRef}], FoundIsThere,
         NEW r, InList(r), part[r].is_free, NEW size \in Nat \ {0}, size < part[r].size
  PROVE  IsSplit(Layout, SplitPartition(r, size), part[r].number + 1, r, NewRef({}), size)
<1> DEFINE n == part[r].number
           i == n + 1
           len == Len(partitions)
           rest == NewRef({})
           tail == SubSeq(partitions, n + 2, len)
           list == SubSeq(partitions, 1, n) \o <<r, rest>> \o tail
           x == part[r]
           later == ToSet(tail)
           shifted == Shifted(part, later, 1)
           cut == [shifted EXCEPT ![r].size = size]
           new == partition_create(n + 1, x.start + size, x.size - size)
           heap == [shifted EXCEPT ![r].size = size, ![rest] = new]
<1>1. /\ r \in Refs /\ x \in Partition /\ i \in 1..len /\ partitions[i] = r
      /\ x.start + x.size <= MemorySize /\ i <= MemorySize
  BY PlaceFound DEF LayoutOK
<1>2. /\ len \in Nat \ {0} /\ DOMAIN partitions = 1..len /\ len <= MemorySize
      /\ \A k \in 1..len : partitions[k] \in Refs /\ part[partitions[k]] \in Partition
  <2>1. Layout.list = partitions /\ Layout.heap = part
    BY DEF Layout
  <2> QED BY <2>1, TiledInOrder DEF LayoutOK
<1>3. /\ partitions \in Seq(Refs) /\ part \in [Refs -> Partition]
      /\ \A j, k \in 1..len : partitions[j] = partitions[k] => j = k
      /\ \A k \in 1..len : part[partitions[k]].number = k - 1
      /\ part[r].message = NoMessage
  <2>1. Layout.list = partitions /\ Layout.heap = part
    BY DEF Layout
  <2> QED BY <1>1, <1>2, <2>1 DEF LayoutOK, Tiled, FreeIsEmpty
<1>4. rest \in Refs /\ \A k \in 1..len : partitions[k] # rest
  <2>1. IsFiniteSet({}) /\ Cardinality({}) <= 1
    BY FS_EmptySet
  <2> QED BY <1>2, <2>1, NewRefIs DEF LayoutOK, InList
<1>5. SplitPartition(r, size) = [list |-> list, heap |-> heap]
  BY DEF SplitPartition
<1>6. n \in Nat /\ i - 1 = n /\ i + 1 = n + 2
  <2>1. n \in Int /\ n >= 0
    BY <1>1, Fields
  <2> HIDE DEF n
  <2> QED BY <2>1
<1> HIDE DEF n, i, len, rest, x
<1>7. /\ list \in Seq(Refs) /\ Len(list) = len + 1
      /\ list[i] = r /\ list[i + 1] = rest
      /\ \A k \in 1..(i - 1) : list[k] = partitions[k]
      /\ \A k \in (i + 1)..len : list[k + 1] = partitions[k]
  <2> DEFINE y == SubSeq(partitions, 1, i - 1) \o <<r, rest>> \o SubSeq(partitions, i + 1, len)
  <2>1. /\ y \in Seq(Refs) /\ Len(y) = len + 1
        /\ y[i] = r /\ y[i + 1] = rest
        /\ \A k \in 1..(i - 1) : y[k] = partitions[k]
        /\ \A k \in (i + 1)..len : y[k + 1] = partitions[k]
    <3>1. partitions \in Seq(Refs) /\ i \in 1..Len(partitions) /\ r \in Refs /\ rest \in Refs
      BY <1>1, <1>3, <1>4 DEF len
    <3>2. IsSpliced(Spliced(partitions, i, r, rest), Refs, partitions, i, r, rest)
      BY <3>1, SplicedIs
    <3>3. y = Spliced(partitions, i, r, rest)
      BY DEF Spliced, len
    <3> HIDE DEF y
    <3> QED BY <3>2, <3>3 DEF IsSpliced, len
  <2>2. list = y
    BY <1>6
  <2> HIDE DEF list, y
  <2> QED BY <2>1, <2>2
<1>8. later = {partitions[k] : k \in (i + 1)..len}
  <2>1. \A k \in (n + 2)..len : partitions[k] \in Refs
    BY <1>2, <1>6
  <2>2. /\ tail \in Seq(Refs) /\ Len(tail) = IF n + 2 <= len THEN len - (n + 2) + 1 ELSE 0
        /\ \A k \in 1..(len - (n + 2) + 1) : tail[k] = partitions[n + 2 + k - 1]
    <3>1. n + 2 \in Int /\ len \in Int
      BY <1>2, <1>6
    <3> HIDE DEF tail
    <3> QED BY <2>1, <3>1, SubSeqProperties DEF tail
  <2> HIDE DEF tail
  <2>3. DOMAIN tail = 1..(len - i) /\ \A k \in 1..(len - i) : tail[k] = partitions[i + k]
    <3>1. Len(tail) = len - i
      BY <1>1, <1>2, <1>6, <2>2
    <3>2. \A k \in 1..(len - i) : k \in 1..(len - (n + 2) + 1) /\ n + 2 + k - 1 = i + k
      BY <1>1, <1>2, <1>6
    <3> QED BY <2>2, <3>1, <3>2, LenProperties
  <2>4. \A k \in (i + 1)..len : k - i \in 1..(len - i) /\ i + (k - i) = k
    BY <1>1, <1>2
  <2>5. \A k \in 1..(len - i) : i + k \in (i + 1)..len
    BY <1>1, <1>2
  <2>6. ASSUME NEW y \in ToSet(tail) PROVE y \in {partitions[k] : k \in (i + 1)..len}
    BY <2>3, <2>5 DEF ToSet
  <2>7. ASSUME NEW k \in (i + 1)..len PROVE partitions[k] \in ToSet(tail)
    <3>1. tail[k - i] = partitions[k] /\ k - i \in DOMAIN tail
      BY <2>3, <2>4
    <3> QED BY <3>1 DEF ToSet
  <2> QED BY <2>6, <2>7
<1> HIDE DEF list, later
<1>9. \A k \in 1..len : partitions[k] \in later <=> k > i
  <2> SUFFICES ASSUME NEW k \in 1..len PROVE partitions[k] \in later <=> k > i
    OBVIOUS
  <2>1. k > i => k \in (i + 1)..len
    BY <1>1, <1>2
  <2>2. \A q \in (i + 1)..len : q \in 1..len /\ q > i
    BY <1>1, <1>2
  <2> QED BY <1>3, <1>8, <2>1, <2>2
<1>10. shifted = [q \in Refs |-> IF q \in later THEN [part[q] EXCEPT !.number = part[q].number + 1] ELSE part[q]]
  BY DEF Shifted
<1>11. r \notin later /\ rest \notin later
  <2>1. ~(i > i) /\ \A k \in (i + 1)..len : k \in 1..len
    BY <1>1, <1>2
  <2> QED BY <1>1, <1>4, <1>8, <1>9, <2>1
<1>12. shifted \in [Refs -> Partition]
  <2>1. ASSUME NEW q \in Refs PROVE shifted[q] \in Partition
    <3>1. CASE q \in later
      <4>1. PICK k \in (i + 1)..len : q = partitions[k]
        BY <1>8, <3>1
      <4>2. k \in 1..len /\ k <= MemorySize
        BY <1>1, <1>2, <4>1, MemoryAssumption
      <4>3. part[q].number + 1 \in 0..MemorySize
        BY <1>3, <4>1, <4>2, MemoryAssumption
      <4>4. part[q] \in Partition /\ shifted[q] = [part[q] EXCEPT !.number = part[q].number + 1]
        BY <1>3, <1>10, <3>1
      <4> QED BY <4>3, <4>4 DEF Partition
    <3>2. CASE q \notin later
      BY <1>3, <1>10, <3>2
    <3> QED BY <3>1, <3>2
  <2> QED BY <1>10, <2>1
<1>13. shifted[r] = x
  BY <1>1, <1>10, <1>11 DEF x
<1> HIDE DEF shifted
<1>14. cut = [shifted EXCEPT ![r] = [x EXCEPT !.size = size]]
  BY <1>1, <1>12, <1>13
<1>15. size \in 0..MemorySize /\ [x EXCEPT !.size = size] \in Partition
  <2>1. size \in 0..MemorySize
    BY <1>1, Fields DEF x
  <2> QED BY <1>1, <2>1 DEF Partition
<1>16. new \in Partition /\ x.start + size \in Int
  <2>1. /\ n + 1 \in 0..MemorySize /\ x.start + size \in 0..MemorySize /\ x.size - size \in 0..MemorySize
    BY <1>1, <1>6, Fields DEF x, i
  <2>2. 0 \in Nat /\ NoMessage \in Messages \cup {NoMessage}
    OBVIOUS
  <2> QED BY <2>1, <2>2 DEF Partition, partition_create
<1> HIDE DEF cut, heap
<1>17. r # rest
  BY <1>1, <1>4
<1>17a. heap = [cut EXCEPT ![rest] = new]
  BY DEF heap, cut
<1>18. heap \in [Refs -> Partition] /\ heap[r] = [x EXCEPT !.size = size] /\ heap[rest] = new
       /\ \A q \in Refs : q # r /\ q # rest => heap[q] = shifted[q]
  <2> HIDE DEF new
  <2> QED BY <1>1, <1>4, <1>12, <1>14, <1>15, <1>16, <1>17, <1>17a
<1> DEFINE t == [list |-> list, heap |-> heap]
<1>19. t \in Layouts /\ t.list = list /\ t.heap = heap
  BY <1>7, <1>18 DEF Layouts
<1> HIDE DEF t
<1>20. ASSUME NEW k \in 1..len, k # i
       PROVE  LET y == part[partitions[k]]
                  z == heap[partitions[k]]
              IN  /\ z.start = y.start /\ z.is_free = y.is_free /\ SameUse(z, y)
                  /\ z.size = y.size
                  /\ z.number = IF k < i THEN y.number ELSE y.number + 1
  <2>1. partitions[k] \in Refs /\ partitions[k] # r /\ partitions[k] # rest
    BY <1>1, <1>2, <1>3, <1>4, <1>20
  <2>2. heap[partitions[k]] = shifted[partitions[k]]
    BY <1>18, <2>1
  <2>3. CASE k < i
    <3>1. partitions[k] \notin later
      BY <1>1, <1>2, <1>9, <2>3
    <3> QED BY <1>10, <2>1, <2>2, <2>3, <3>1 DEF SameUse
  <2>4. CASE ~(k < i)
    <3>1. partitions[k] \in later
      BY <1>1, <1>2, <1>9, <1>20, <2>4
    <3>2. heap[partitions[k]] = [part[partitions[k]] EXCEPT !.number = part[partitions[k]].number + 1]
      BY <1>10, <2>1, <2>2, <3>1
    <3>3. part[partitions[k]] \in Partition
      BY <1>2
    <3> QED BY <2>4, <3>2, <3>3 DEF Partition, SameUse
  <2> QED BY <2>3, <2>4
<1>21. /\ heap[r].number = i - 1 /\ heap[r].start = x.start /\ heap[r].size = size
       /\ heap[r].is_free /\ heap[r].message = NoMessage
  <2>1. x.number = i - 1 /\ x.is_free /\ x.message = NoMessage
    BY <1>3, <1>6 DEF x, n
  <2> QED BY <1>1, <1>18, <2>1 DEF Partition
<1>22. /\ heap[rest].number = i /\ heap[rest].start = x.start + size /\ heap[rest].size = x.size - size
       /\ heap[rest].is_free /\ heap[rest].message = NoMessage
  BY <1>18 DEF partition_create, i
<1>23. \A k \in 1..len : k # i => partitions[k] # r /\ partitions[k] # rest
  BY <1>1, <1>2, <1>3, <1>4
<1>24. Layout.list = partitions /\ Layout.heap = part /\ x = part[partitions[i]]
  BY <1>1 DEF Layout, x
<1>25. IsSplit(Layout, t, i, r, rest, size)
  BY <1>7, <1>17, <1>19, <1>20, <1>21, <1>22, <1>23, <1>24 DEF IsSplit, len
<1> QED BY <1>5, <1>25 DEF t, i, n, rest
\* Half of a partition of the buddy system goes to each of two new structs.
LEMMA BuddySplitIs ==
  ASSUME LayoutOK(Layout), location \in [Messages -> Refs \cup {NoRef}], FoundIsThere,
         NEW r, InList(r), part[r].is_free, NEW half \in Nat \ {0}, part[r].size = 2 * half,
         NEW low, low = NewRef({}), NEW high, high = NewRef({low})
  PROVE  IsSplit(Layout, bs_split_partition(r, low, high), part[r].number + 1, low, high, half)
<1> DEFINE n == part[r].number
           i == n + 1
           len == Len(partitions)
           at == SelectInSeq(partitions, LAMBDA q : q = r)
           list == SubSeq(partitions, 1, at - 1) \o <<low, high>> \o SubSeq(partitions, at + 1, len)
           x == part[r]
           later == {q \in ToSet(partitions) : part[q].number > n}
           shifted == Shifted(part, later, 1)
           first == partition_create(n, x.start, half)
           second == partition_create(n + 1, x.start + half, half)
           heap == [shifted EXCEPT ![low] = first, ![high] = second]
<1>1. /\ r \in Refs /\ x \in Partition /\ i \in 1..len /\ partitions[i] = r
      /\ x.start + x.size <= MemorySize /\ i <= MemorySize
  BY PlaceFound DEF LayoutOK
<1>2. /\ len \in Nat \ {0} /\ DOMAIN partitions = 1..len /\ len <= MemorySize
      /\ \A k \in 1..len : partitions[k] \in Refs /\ part[partitions[k]] \in Partition
  <2>1. Layout.list = partitions /\ Layout.heap = part
    BY DEF Layout
  <2> QED BY <2>1, TiledInOrder DEF LayoutOK
<1>3. /\ partitions \in Seq(Refs) /\ part \in [Refs -> Partition]
      /\ \A j, k \in 1..len : partitions[j] = partitions[k] => j = k
      /\ \A k \in 1..len : part[partitions[k]].number = k - 1
  <2>1. Layout.list = partitions /\ Layout.heap = part
    BY DEF Layout
  <2> QED BY <1>1, <1>2, <2>1 DEF LayoutOK, Tiled
<1>4. /\ low \in Refs /\ high \in Refs /\ low # high
      /\ \A k \in 1..len : partitions[k] # low /\ partitions[k] # high
  <2>1. IsFiniteSet({}) /\ Cardinality({}) <= 1
    BY FS_EmptySet
  <2>2. low \in Refs /\ ~InList(low)
    BY <2>1, NewRefIs DEF LayoutOK
  <2>3. IsFiniteSet({low}) /\ Cardinality({low}) <= 1
    <3>1. IsFiniteSet({low}) /\ Cardinality({low}) = 1
      BY FS_Singleton
    <3> QED BY <3>1
  <2>4. high \in Refs /\ ~InList(high) /\ high \notin {low}
    BY <2>3, NewRefIs DEF LayoutOK
  <2> QED BY <1>2, <2>2, <2>4 DEF InList
<1>5. n \in Nat /\ i - 1 = n /\ n + 1 = i
  <2>1. n \in Int /\ n >= 0
    BY <1>1, Fields
  <2> HIDE DEF n
  <2> QED BY <2>1
<1>6. at = i
  <2> DEFINE I == {k \in 1..len : partitions[k] = r}
  <2>1. at = IF I # {} THEN Min(I) ELSE 0
    BY DEF SelectInSeq
  <2>2. I = {i}
    <3> HIDE DEF i, len
    <3> QED BY <1>1, <1>3
  <2>3. I \subseteq Nat
    BY <1>2
  <2> HIDE DEF I, at
  <2>4. Min(I) \in I
    BY <2>2, <2>3, MinOfNaturals
  <2> QED BY <2>1, <2>2, <2>4
<1>7. bs_split_partition(r, low, high) = [list |-> list, heap |-> heap]
  <2>1. x.size \div 2 = half
    <3> DEFINE y == x.size
    <3>1. y = 2 * half
      OBVIOUS
    <3> HIDE DEF y
    <3>2. y \div 2 = half
      BY <3>1
    <3> QED BY <3>2 DEF y
  <2>2. Renumber(Layout, n, 1) = shifted
    BY DEF Renumber, Layout
  <2> QED BY <2>1, <2>2 DEF bs_split_partition
<1> HIDE DEF n, i, len, at, x
<1>8. /\ list \in Seq(Refs) /\ Len(list) = len + 1
      /\ list[i] = low /\ list[i + 1] = high
      /\ \A k \in 1..(i - 1) : list[k] = partitions[k]
      /\ \A k \in (i + 1)..len : list[k + 1] = partitions[k]
  <2>1. partitions \in Seq(Refs) /\ i \in 1..Len(partitions) /\ low \in Refs /\ high \in Refs
    BY <1>1, <1>3, <1>4 DEF len
  <2>2. IsSpliced(Spliced(partitions, i, low, high), Refs, partitions, i, low, high)
    BY <2>1, SplicedIs
  <2>3. list = Spliced(partitions, i, low, high)
    BY <1>6 DEF Spliced, len
  <2> HIDE DEF list
  <2> QED BY <2>2, <2>3 DEF IsSpliced, len
<1> HIDE DEF list
<1>9. \A q \in later : \E k \in 1..len : q = partitions[k] /\ k > i
  <2> SUFFICES ASSUME NEW q \in later PROVE \E k \in 1..len : q = partitions[k] /\ k > i
    OBVIOUS
  <2>1. PICK k \in 1..len : q = partitions[k]
    BY <1>2 DEF ToSet
  <2>2. part[q].number = k - 1 /\ part[q].number > n
    BY <1>3, <2>1
  <2> QED BY <1>1, <1>2, <1>5, <2>1, <2>2
<1>10. \A k \in 1..len : k > i => partitions[k] \in later
  <2> SUFFICES ASSUME NEW k \in 1..len, k > i PROVE partitions[k] \in later
    OBVIOUS
  <2>1. partitions[k] \in ToSet(partitions)
    BY <1>2 DEF ToSet
  <2>2. part[partitions[k]].number > n
    BY <1>1, <1>2, <1>3, <1>5
  <2> QED BY <2>1, <2>2
<1> HIDE DEF later
<1>11. shifted = [q \in Refs |-> IF q \in later THEN [part[q] EXCEPT !.number = part[q].number + 1] ELSE part[q]]
  BY DEF Shifted
<1>12. shifted \in [Refs -> Partition]
  <2>1. ASSUME NEW q \in Refs PROVE shifted[q] \in Partition
    <3>1. CASE q \in later
      <4>1. PICK k \in 1..len : q = partitions[k]
        BY <1>9, <3>1
      <4>2. k <= MemorySize
        BY <1>2, MemoryAssumption
      <4>3. part[q].number + 1 \in 0..MemorySize
        BY <1>3, <4>1, <4>2, MemoryAssumption
      <4>4. part[q] \in Partition /\ shifted[q] = [part[q] EXCEPT !.number = part[q].number + 1]
        BY <1>3, <1>11, <3>1
      <4> QED BY <4>3, <4>4 DEF Partition
    <3>2. CASE q \notin later
      BY <1>3, <1>11, <3>2
    <3> QED BY <3>1, <3>2
  <2> QED BY <1>11, <2>1
<1> HIDE DEF shifted
<1>13. first \in Partition /\ second \in Partition
  <2>1. /\ n \in 0..MemorySize /\ n + 1 \in 0..MemorySize /\ half \in 0..MemorySize
        /\ x.start \in 0..MemorySize /\ x.start + half \in 0..MemorySize
    <3>1. x.start \in Int /\ x.start >= 0 /\ x.size = 2 * half /\ MemorySize \in Nat
      BY <1>1, Fields DEF x
    <3> QED BY <1>1, <1>5, <3>1
  <2>2. 0 \in Nat /\ NoMessage \in Messages \cup {NoMessage}
    OBVIOUS
  <2> QED BY <2>1, <2>2 DEF Partition, partition_create
<1>14. heap \in [Refs -> Partition] /\ heap[low] = first /\ heap[high] = second
       /\ \A q \in Refs : q # low /\ q # high => heap[q] = shifted[q]
  <2>1. heap = [[shifted EXCEPT ![low] = first] EXCEPT ![high] = second]
    OBVIOUS
  <2> HIDE DEF first, second, heap
  <2> QED BY <1>4, <1>12, <1>13, <2>1
<1> HIDE DEF heap
<1> DEFINE t == [list |-> list, heap |-> heap]
<1>15. t \in Layouts /\ t.list = list /\ t.heap = heap
  BY <1>8, <1>14 DEF Layouts
<1> HIDE DEF t
<1>16. ASSUME NEW k \in 1..len, k # i
       PROVE  LET y == part[partitions[k]]
                  z == heap[partitions[k]]
              IN  /\ z.start = y.start /\ z.is_free = y.is_free /\ SameUse(z, y)
                  /\ z.size = y.size
                  /\ z.number = IF k < i THEN y.number ELSE y.number + 1
  <2>1. partitions[k] \in Refs /\ partitions[k] # low /\ partitions[k] # high
    BY <1>2, <1>4
  <2>2. heap[partitions[k]] = shifted[partitions[k]]
    BY <1>14, <2>1
  <2>3. CASE k < i
    <3>1. partitions[k] \notin later
      BY <1>1, <1>2, <1>3, <1>9, <2>3
    <3> QED BY <1>11, <2>1, <2>2, <2>3, <3>1 DEF SameUse
  <2>4. CASE ~(k < i)
    <3>1. partitions[k] \in later
      BY <1>1, <1>2, <1>10, <1>16, <2>4
    <3>2. heap[partitions[k]] = [part[partitions[k]] EXCEPT !.number = part[partitions[k]].number + 1]
      BY <1>11, <2>1, <2>2, <3>1
    <3>3. part[partitions[k]] \in Partition
      BY <1>2
    <3> QED BY <2>4, <3>2, <3>3 DEF Partition, SameUse
  <2> QED BY <2>3, <2>4
<1>17. /\ heap[low].number = i - 1 /\ heap[low].start = x.start /\ heap[low].size = half
       /\ heap[low].is_free /\ heap[low].message = NoMessage
  BY <1>5, <1>14 DEF partition_create
<1>18. /\ heap[high].number = i /\ heap[high].start = x.start + half /\ heap[high].size = x.size - half
       /\ heap[high].is_free /\ heap[high].message = NoMessage
  <2>1. x.size - half = half
    BY DEF x
  <2> QED BY <1>5, <1>14, <2>1 DEF partition_create
<1>19. Layout.list = partitions /\ Layout.heap = part /\ x = part[partitions[i]]
  BY <1>1 DEF Layout, x
<1>20. IsSplit(Layout, t, i, low, high, half)
  <2>1. /\ t \in Layouts /\ Len(t.list) = Len(Layout.list) + 1
        /\ t.list[i] = low /\ t.list[i + 1] = high
        /\ \A k \in 1..(i - 1) : t.list[k] = Layout.list[k]
        /\ \A k \in (i + 1)..Len(Layout.list) : t.list[k + 1] = Layout.list[k]
    BY <1>8, <1>15, <1>19 DEF len
  <2>2. low # high /\ \A k \in 1..Len(Layout.list) : k # i => Layout.list[k] # low /\ Layout.list[k] # high
    BY <1>4, <1>19 DEF len
  <2>3. \A k \in 1..Len(Layout.list) : k # i =>
          LET y == Layout.heap[Layout.list[k]]
              z == t.heap[Layout.list[k]]
          IN  /\ z.start = y.start /\ z.is_free = y.is_free /\ SameUse(z, y)
              /\ z.size = y.size
              /\ z.number = IF k < i THEN y.number ELSE y.number + 1
    BY <1>15, <1>16, <1>19 DEF len
  <2>4. Layout.heap[Layout.list[i]] = x
    BY <1>19
  <2> QED BY <1>15, <1>17, <1>18, <2>1, <2>2, <2>3, <2>4 DEF IsSplit
<1> QED BY <1>7, <1>20 DEF t, i, n
\* The buddy of a block at an odd multiple of its size is the one before.
LEMMA OddBuddy ==
  ASSUME NEW size \in Nat \ {0}, NEW q \in Nat, NEW a \in Nat, a = size * (2 * q + 1)
  PROVE  BuddyOf(a, size) = a - size
<1>1. 2 * q + 1 \in Nat /\ (2 * q + 1) % 2 # 0
  OBVIOUS
<1>2. a \div size = 2 * q + 1
  BY <1>1, Multiples
<1> QED BY <1>1, <1>2 DEF BuddyOf

\* The halves of a block are blocks, and no free buddies but of each other.
LEMMA BuddySplitOK ==
  ASSUME LayoutOK(Layout), location \in [Messages -> Refs \cup {NoRef}], FoundIsThere,
         CONFIG.memory_alg = "BUDDY_SYSTEM",
         NEW r, InList(r), part[r].is_free, NEW e \in Nat \ {0}, part[r].size = Power[e],
         Buddies(Layout) \subseteq {part[r].number + 1},
         NEW low, low = NewRef({}), NEW high, high = NewRef({low})
  PROVE  LET t == bs_split_partition(r, low, high)
             i == part[r].number + 1
         IN  /\ t \in Layouts /\ LayoutOK(t) /\ SameOccupied(Layout, t)
             /\ i \in DOMAIN t.list /\ t.list[i] = low
             /\ t.heap[low].is_free /\ t.heap[low].size = Power[e - 1]
             /\ Buddies(t) \subseteq {i}
<1> DEFINE t == bs_split_partition(r, low, high)
           i == part[r].number + 1
           half == Power[e - 1]
           x == part[r]
           len == Len(partitions)
           X(k) == part[partitions[k]]
           Y(k) == t.heap[partitions[k]]
           T(k) == t.heap[t.list[k]]
<1>1. half \in Nat \ {0} /\ x.size = 2 * half /\ x.size > e
  <2>1. e - 1 \in Nat /\ e - 1 + 1 = e
    OBVIOUS
  <2>2. Power[e - 1] \in Nat /\ Power[e - 1 + 1] = 2 * Power[e - 1] /\ Power[e - 1] > e - 1
    BY <2>1, Powers
  <2>3. Power[e] \in Nat /\ Power[e] > e
    BY Powers
  <2> QED BY <2>1, <2>2, <2>3
<1>2. /\ r \in Refs /\ x \in Partition /\ i \in 1..len /\ partitions[i] = r
      /\ x.start + x.size <= MemorySize /\ i <= MemorySize
  BY PlaceFound DEF LayoutOK
<1>3. /\ len \in Nat \ {0} /\ DOMAIN partitions = 1..len /\ len <= MemorySize
      /\ \A k \in 1..len : partitions[k] \in Refs /\ X(k) \in Partition
  <2>1. Layout.list = partitions /\ Layout.heap = part
    BY DEF Layout
  <2> QED BY <2>1, TiledInOrder DEF LayoutOK
<1>4. /\ x.start \in Nat /\ MemorySize \in Nat /\ half < x.size /\ i \in Nat
  <2>1. x.start \in Nat /\ MemorySize \in Nat
    BY <1>2, Fields
  <2> QED BY <1>1, <1>2, <2>1
<1>5. IsSplit(Layout, t, i, low, high, half)
  BY <1>1, BuddySplitIs
<1>6. Tiled(t) /\ FreeIsEmpty(t) /\ SameOccupied(Layout, t)
  <2>1. Layout.list = partitions /\ Layout.heap = part
    BY DEF Layout
  <2>2. i \in 1..Len(Layout.list) /\ Layout.heap[Layout.list[i]] = x
    BY <1>2, <2>1
  <2> HIDE DEF t, i, half, x
  <2>3. Layout.heap[Layout.list[i]].is_free /\ half < Layout.heap[Layout.list[i]].size
    BY <1>4, <2>2 DEF x
  <2> QED BY <1>1, <1>5, <2>2, <2>3, SplitTiles DEF LayoutOK
<1> HIDE DEF t
<1>7. /\ t \in Layouts /\ Len(t.list) = len + 1 /\ DOMAIN t.list = 1..(len + 1)
      /\ t.list[i] = low /\ t.list[i + 1] = high
      /\ \A k \in 1..(i - 1) : t.list[k] = partitions[k]
      /\ \A k \in (i + 1)..len : t.list[k + 1] = partitions[k]
  <2>1. Layout.list = partitions
    BY DEF Layout
  <2>2. /\ t \in Layouts /\ Len(t.list) = len + 1
        /\ t.list[i] = low /\ t.list[i + 1] = high
        /\ \A k \in 1..(i - 1) : t.list[k] = partitions[k]
        /\ \A k \in (i + 1)..len : t.list[k + 1] = partitions[k]
    BY <1>5, <2>1 DEF IsSplit
  <2>3. DOMAIN t.list = 1..Len(t.list)
    BY <2>2, LenProperties DEF Layouts
  <2> QED BY <2>2, <2>3
<1>8. \A k \in 1..len : k # i =>
        Y(k).start = X(k).start /\ Y(k).is_free = X(k).is_free /\ Y(k).size = X(k).size
  <2>1. Layout.list = partitions /\ Layout.heap = part
    BY DEF Layout
  <2> QED BY <1>5, <2>1 DEF IsSplit
<1>9. /\ T(i).start = x.start /\ T(i).size = half /\ T(i).is_free
      /\ T(i + 1).start = x.start + half /\ T(i + 1).size = half
  <2>1. Layout.list = partitions /\ Layout.heap = part
    BY DEF Layout
  <2>2. /\ T(i).start = x.start /\ T(i).size = half /\ T(i).is_free
        /\ T(i + 1).start = x.start + half /\ T(i + 1).size = x.size - half
    BY <1>2, <1>5, <1>7, <2>1 DEF IsSplit
  <2>3. x.size - half = half
    BY <1>1
  <2> QED BY <2>2, <2>3
<1> DEFINE q == x.start \div x.size
<1>10. q \in Nat /\ x.start = half * (2 * q) /\ x.start + half = half * (2 * q + 1)
  <2>1. x.size \in Nat \ {0} /\ x.start % x.size = 0
    <3>1. Block(x)
      BY <1>2, <1>3 DEF LayoutOK, Blocks, Layout
    <3> QED BY <1>1, <3>1 DEF Block
  <2>2. q \in Nat /\ x.start = x.size * q
    <3>1. q \in Nat /\ x.start = x.size * q + 0
      <4> DEFINE a == x.start
                 n == x.size
      <4>1. a \in Nat /\ n \in Nat \ {0} /\ a % n = 0
        BY <1>4, <2>1
      <4> HIDE DEF a, n
      <4>2. a \div n \in Nat /\ a = n * (a \div n) + (a % n)
        BY <4>1, Division
      <4> QED BY <4>1, <4>2 DEF a, n
    <3>2. x.size * q \in Nat
      <4> HIDE DEF q
      <4> QED BY <2>1, <3>1
    <3> HIDE DEF q
    <3> QED BY <3>1, <3>2
  <2> HIDE DEF q, half, x
  <2>3. x.start = (2 * half) * q
    BY <1>1, <2>2
  <2>4. (2 * half) * q = half * (2 * q) /\ half * (2 * q) + half = half * (2 * q + 1)
    BY <1>1, <2>2
  <2> QED BY <2>2, <2>3, <2>4
<1> HIDE DEF q, half, i, x, len
<1>11. ASSUME NEW k \in 1..len, k < i PROVE T(k) = Y(k) /\ k # i
  BY <1>2, <1>7, <1>11
<1>12. ASSUME NEW k \in 1..(len + 1), k > i + 1 PROVE T(k) = Y(k - 1) /\ k - 1 \in 1..len /\ k - 1 # i
  <2>1. k - 1 \in (i + 1)..len /\ k - 1 + 1 = k
    BY <1>3, <1>4, <1>12
  <2>2. t.list[k] = partitions[k - 1]
    BY <1>7, <2>1
  <2> QED BY <1>3, <1>4, <2>1, <2>2
<1>13. Blocks(t)
  <2> SUFFICES ASSUME NEW k \in 1..(len + 1) PROVE Block(T(k))
    BY <1>7 DEF Blocks
  <2>1. \A j \in 1..len : Block(X(j))
    BY <1>3 DEF LayoutOK, Blocks, Layout
  <2>2. e - 1 \in 0..MemorySize
    <3>1. e < MemorySize
      BY <1>1, <1>2, <1>4
    <3> QED BY <1>4, <3>1
  <2>3. CASE k < i
    <3>1. k \in 1..len
      BY <1>2, <1>3, <2>3
    <3> QED BY <1>8, <1>11, <2>1, <2>3, <3>1 DEF Block
  <2>4. CASE k = i
    <3>1. x.start % half = 0
      <4>1. 2 * q \in Nat
        BY <1>10
      <4> QED BY <1>1, <1>4, <1>10, <4>1, Multiples
    <3> QED BY <1>9, <2>2, <2>4, <3>1 DEF Block, half
  <2>5. CASE k = i + 1
    <3>1. (x.start + half) % half = 0
      <4>1. 2 * q + 1 \in Nat /\ x.start + half \in Nat
        BY <1>1, <1>4, <1>10
      <4> QED BY <1>1, <1>10, <4>1, Multiples
    <3> QED BY <1>9, <2>2, <2>5, <3>1 DEF Block, half
  <2>6. CASE k > i + 1
    BY <1>8, <1>12, <2>1, <2>6 DEF Block
  <2> QED BY <1>3, <1>4, <2>3, <2>4, <2>5, <2>6
<1>14. ASSUME NEW j \in Buddies(t) PROVE j = i
  <2>1. j \in 1..len /\ FreeBuddies(t, j)
    BY <1>3, <1>7 DEF Buddies
  <2>2. /\ T(j).size = T(j + 1).size /\ T(j).is_free /\ T(j + 1).is_free
        /\ BuddyOf(T(j).start, T(j + 1).size) = T(j + 1).start
    BY <2>1 DEF FreeBuddies
  <2>3. \A k \in 1..(len - 1) :
          /\ X(k).size = X(k + 1).size /\ X(k).is_free /\ X(k + 1).is_free
          /\ BuddyOf(X(k).start, X(k + 1).size) = X(k + 1).start
          => k = i
    BY DEF Buddies, FreeBuddies, Layout, i, len
  <2>4. \A k \in 1..len :
          /\ X(k).start \in Int /\ X(k).size \in Int
          /\ X(k).start + X(k).size = IF k = len THEN MemorySize ELSE X(k + 1).start
    <3>1. \A k \in 1..len : X(k).start + X(k).size = IF k = len THEN MemorySize ELSE X(k + 1).start
      BY <1>3 DEF LayoutOK, Tiled, Layout, len
    <3> HIDE DEF X
    <3> QED BY <1>3, <3>1, Fields
  <2> HIDE DEF X, Y, T
  <2>5. CASE j < i - 1
    <3>1. j \in 1..(len - 1) /\ j \in 1..len /\ j + 1 \in 1..len /\ j < i /\ j + 1 < i
      BY <1>2, <1>3, <2>1, <2>5
    <3>2. T(j) = Y(j) /\ T(j + 1) = Y(j + 1) /\ j # i /\ j + 1 # i
      BY <1>11, <3>1
    <3> QED BY <1>8, <2>2, <2>3, <3>1, <3>2
  <2>6. CASE j = i - 1
    <3>1. j \in 1..len /\ j < i /\ j + 1 = i /\ j # len
      BY <1>2, <1>3, <2>1, <2>6
    <3>2. T(j).start = X(j).start /\ T(j).size = X(j).size
      BY <1>8, <1>11, <3>1
    <3>3. X(j).size = half /\ BuddyOf(X(j).start, half) = x.start
      BY <1>9, <2>2, <3>1, <3>2
    <3>4. X(j).start + half = x.start
      BY <1>2, <2>4, <3>1, <3>3 DEF X, x
    <3>5. q # 0
      <4>1. X(j).start \in Nat
        BY <1>3, <3>1, Fields DEF X
      <4> SUFFICES ASSUME q = 0 PROVE FALSE
        OBVIOUS
      <4>2. x.start = 0
        BY <1>1, <1>10
      <4> QED BY <1>1, <3>4, <4>1, <4>2
    <3>6. q - 1 \in Nat /\ X(j).start \in Nat /\ X(j).start = half * (2 * (q - 1) + 1)
      <4>1. q - 1 \in Nat
        BY <1>10, <3>5
      <4>2. X(j).start \in Nat
        BY <1>3, <3>1, Fields DEF X
      <4>3. X(j).start = half * (2 * q) - half
        BY <1>1, <1>10, <3>4, <4>2
      <4>4. half * (2 * q) - half = half * (2 * (q - 1) + 1)
        BY <1>1, <1>10
      <4> QED BY <4>1, <4>2, <4>3, <4>4
    <3>7. BuddyOf(X(j).start, half) = X(j).start - half
      BY <1>1, <3>6, OddBuddy
    <3> QED BY <1>1, <3>3, <3>4, <3>6, <3>7
  <2>7. CASE j = i + 1
    <3>1. j \in 1..(len + 1) /\ j + 1 \in 1..(len + 1) /\ j + 1 > i + 1 /\ j + 1 - 1 = i + 1 /\ i # len
      BY <1>2, <1>3, <1>4, <2>1, <2>7
    <3>2. T(j + 1) = Y(i + 1) /\ i + 1 \in 1..len /\ i + 1 # i
      BY <1>12, <3>1
    <3>3. T(j + 1).start = X(i + 1).start
      BY <1>8, <3>2
    <3>4. X(i + 1).start = x.start + x.size
      BY <1>2, <2>4, <3>1 DEF X, x
    <3> DEFINE a == x.start + half
    <3>5. BuddyOf(a, half) = X(i + 1).start
      BY <1>9, <2>2, <2>7, <3>3
    <3>6. a \in Nat /\ a = half * (2 * q + 1)
      BY <1>1, <1>4, <1>10
    <3>7. a - half # x.start + x.size
      BY <1>1, <1>4
    <3> HIDE DEF a
    <3>8. BuddyOf(a, half) = a - half
      BY <1>1, <1>10, <3>6, OddBuddy
    <3> QED BY <3>4, <3>5, <3>7, <3>8
  <2>8. CASE j > i + 1
    <3>1. j \in 1..(len + 1) /\ j + 1 \in 1..(len + 1) /\ j + 1 > i + 1 /\ j + 1 - 1 = j
          /\ j - 1 \in 1..(len - 1) /\ j - 1 + 1 = j
      BY <1>2, <1>3, <1>4, <2>1, <2>8
    <3>2. T(j) = Y(j - 1) /\ j - 1 \in 1..len /\ j - 1 # i
      BY <1>12, <2>8, <3>1
    <3>3. T(j + 1) = Y(j) /\ j \in 1..len /\ j # i
      BY <1>12, <3>1
    <3> QED BY <1>8, <2>2, <2>3, <3>1, <3>2, <3>3
  <2> QED BY <1>3, <1>4, <2>1, <2>5, <2>6, <2>7, <2>8
<1>15. i \in DOMAIN t.list /\ t.heap[low].is_free /\ t.heap[low].size = half
  BY <1>2, <1>3, <1>7, <1>9
<1> QED BY <1>6, <1>7, <1>13, <1>14, <1>15 DEF LayoutOK, t, i, half
-----------------------------------------------------------------------------
(* Compaction *)

\* The list and the structs that it names.
LEMMA LayoutIs ==
  ASSUME LayoutOK(Layout)
  PROVE  /\ Len(partitions) \in Nat \ {0} /\ DOMAIN partitions = 1..Len(partitions)
         /\ Len(partitions) <= MemorySize /\ partitions \in Seq(Refs) /\ part \in [Refs -> Partition]
         /\ \A i \in 1..Len(partitions) : /\ partitions[i] \in Refs /\ part[partitions[i]] \in Partition
                                          /\ part[partitions[i]].number = i - 1
                                          /\ part[partitions[i]].size > 0
         /\ \A i, j \in 1..Len(partitions) : partitions[i] = partitions[j] => i = j
<1>1. Layout.list = partitions /\ Layout.heap = part
  BY DEF Layout
<1>2. /\ Len(partitions) \in Nat \ {0} /\ DOMAIN partitions = 1..Len(partitions)
      /\ Len(partitions) <= MemorySize
      /\ \A i \in 1..Len(partitions) : partitions[i] \in Refs /\ part[partitions[i]] \in Partition
  BY <1>1, TiledInOrder DEF LayoutOK
<1> QED BY <1>1, <1>2 DEF LayoutOK, Tiled

SizeAt(free, i) == IF i \in Places(free) THEN part[partitions[i]].size ELSE 0

SizesSum(U, free) ==
  /\ U \in [0..Len(partitions) -> Nat] /\ U[0] = 0
  /\ \A i \in 1..Len(partitions) : U[i] = U[i - 1] + SizeAt(free, i)

\* The sizes add up along the list.
LEMMA SizeUpToIs ==
  ASSUME LayoutOK(Layout), NEW free \in BOOLEAN
  PROVE  SizesSum(SizeUpTo(free), free)
<1> DEFINE n == Len(partitions)
           Step == [x \in (1..n) \X Nat |-> x[2] + SizeAt(free, x[1])]
<1>1. n \in Nat \ {0} /\ DOMAIN partitions = 1..n /\ \A i \in 1..n : part[partitions[i]] \in Partition
  BY LayoutIs
<1>2. \A i \in 1..n : SizeAt(free, i) \in Nat
  <2> SUFFICES ASSUME NEW i \in 1..n PROVE SizeAt(free, i) \in Nat
    OBVIOUS
  <2> QED BY <1>1, Fields DEF SizeAt
<1>3. PICK f \in [0..n -> Nat] : IsRecursion(f, n, 0, Step)
  <2>1. Step \in [(1..n) \X Nat -> Nat]
    BY <1>2
  <2>2. n \in Nat /\ 0 \in Nat
    BY <1>1
  <2> HIDE DEF Step, n
  <2> QED BY <2>1, <2>2, RecursionExists
<1> HIDE DEF n
<1>4. f = [i \in 0..n |-> IF i = 0 THEN 0 ELSE f[i - 1] + SizeAt(free, i)]
  <2>1. \A k \in 1..n : Step[<<k, f[k - 1]>>] = f[k - 1] + SizeAt(free, k)
    <3> SUFFICES ASSUME NEW k \in 1..n PROVE Step[<<k, f[k - 1]>>] = f[k - 1] + SizeAt(free, k)
      OBVIOUS
    <3>1. f[k - 1] \in Nat
      BY <1>1
    <3> QED BY <3>1
  <2> HIDE DEF Step
  <2>2. f = [k \in 0..n |-> IF k = 0 THEN 0 ELSE Step[<<k, f[k - 1]>>]]
    BY <1>3 DEF IsRecursion
  <2>3. \A k \in 0..n : f[k] = IF k = 0 THEN 0 ELSE f[k - 1] + SizeAt(free, k)
    BY <1>1, <2>1, <2>2
  <2> QED BY <2>2, <2>3
<1>5. PICK g : /\ g = [i \in 0..n |-> IF i = 0 THEN 0 ELSE g[i - 1] + SizeAt(free, i)]
               /\ SizeUpTo(free) = g
  <2>1. \E g : /\ g = [i \in 0..n |-> IF i = 0 THEN 0 ELSE g[i - 1] + SizeAt(free, i)]
               /\ SizeUpTo(free) = g
    BY <1>4 DEF SizeUpTo, SizeAt, n
  <2> QED BY <2>1
<1>6. g[0] = 0 /\ \A i \in 1..n : g[i] = g[i - 1] + SizeAt(free, i)
  BY <1>1, <1>5
<1>7. \A i \in 0..n : g[i] \in Nat
  <2> DEFINE S == {i \in 0..n : g[i] \in Nat}
  <2>1. 0 \in S
    BY <1>1, <1>6
  <2>2. ASSUME NEW i \in 1..n, i - 1 \in S PROVE i \in S
    <3>1. g[i - 1] \in Nat /\ SizeAt(free, i) \in Nat /\ i \in 0..n
      BY <1>1, <1>2, <2>2
    <3>2. g[i] = g[i - 1] + SizeAt(free, i)
      BY <1>6
    <3> DEFINE d == SizeAt(free, i)
    <3> HIDE DEF d
    <3>3. g[i] \in Nat
      BY <3>1, <3>2 DEF d
    <3> QED BY <3>1, <3>3
  <2>3. \A i \in 0..n : i \in S
    <3> HIDE DEF S
    <3> QED BY <1>1, <2>1, <2>2, InductionUpTo
  <2> QED BY <2>3
<1>8. g \in [0..n -> Nat]
  BY <1>5, <1>7
<1> QED BY <1>5, <1>6, <1>8 DEF SizesSum, n

\* They never get less, and the free and the occupied make the whole memory.
LEMMA SizesAddUp ==
  ASSUME LayoutOK(Layout)
  PROVE  LET O == SizeUpTo(FALSE)
             F == SizeUpTo(TRUE)
             n == Len(partitions)
         IN  /\ \A i, j \in 0..n : i <= j => O[i] <= O[j]
             /\ \A i \in 0..n : O[i] <= MemorySize
             /\ \A i \in 1..n : O[i - 1] <= part[partitions[i]].start
             /\ O[n] + F[n] = MemorySize
<1> DEFINE O == SizeUpTo(FALSE)
           F == SizeUpTo(TRUE)
           n == Len(partitions)
           A(i) == SizeAt(FALSE, i)
           B(i) == SizeAt(TRUE, i)
           End(i) == part[partitions[i]].start + part[partitions[i]].size
<1>1. n \in Nat \ {0} /\ DOMAIN partitions = 1..n /\ \A i \in 1..n : part[partitions[i]] \in Partition
  BY LayoutIs
<1>2. SizesSum(O, FALSE) /\ SizesSum(F, TRUE)
  BY SizeUpToIs
<1> HIDE DEF O, F
<1>3. /\ O \in [0..n -> Nat] /\ O[0] = 0 /\ F \in [0..n -> Nat] /\ F[0] = 0
      /\ \A i \in 1..n : O[i] = O[i - 1] + A(i) /\ F[i] = F[i - 1] + B(i)
  BY <1>2 DEF SizesSum
<1>4. \A i \in 1..n : /\ A(i) \in Nat /\ B(i) \in Nat
                      /\ A(i) + B(i) = part[partitions[i]].size
  <2> SUFFICES ASSUME NEW i \in 1..n
               PROVE  /\ A(i) \in Nat /\ B(i) \in Nat
                      /\ A(i) + B(i) = part[partitions[i]].size
    OBVIOUS
  <2>1. part[partitions[i]].size \in Nat /\ part[partitions[i]].is_free \in BOOLEAN
    BY <1>1, Fields
  <2>2. CASE part[partitions[i]].is_free
    <3>1. i \in Places(TRUE) /\ i \notin Places(FALSE)
      BY <1>1, <2>2 DEF Places
    <3> QED BY <2>1, <3>1 DEF SizeAt
  <2>3. CASE ~part[partitions[i]].is_free
    <3>1. i \in Places(FALSE) /\ i \notin Places(TRUE)
      BY <1>1, <2>1, <2>3 DEF Places
    <3> QED BY <2>1, <3>1 DEF SizeAt
  <2> QED BY <2>2, <2>3
<1>5. \A i \in 1..n : /\ part[partitions[i]].start \in Int /\ part[partitions[i]].size \in Int
                      /\ End(i) = IF i = n THEN MemorySize ELSE part[partitions[i + 1]].start
  <2>1. \A i \in 1..n : End(i) = IF i = n THEN MemorySize ELSE part[partitions[i + 1]].start
    BY <1>1 DEF LayoutOK, Tiled, Layout
  <2> HIDE DEF End
  <2> QED BY <1>1, <2>1, Fields
<1> HIDE DEF n, A, B
<1>6. \A i \in 0..n : i \in {k \in 0..n : O[k] + F[k] = IF k = 0 THEN 0 ELSE End(k)}
  <2> DEFINE S == {k \in 0..n : O[k] + F[k] = IF k = 0 THEN 0 ELSE End(k)}
  <2>1. 0 \in S
    BY <1>1, <1>3
  <2>2. ASSUME NEW i \in 1..n, i - 1 \in S PROVE i \in S
    <3>1. O[i] + F[i] = O[i - 1] + F[i - 1] + part[partitions[i]].size
      <4>1. i - 1 \in 0..n
        BY <1>1
      <4>2. O[i - 1] \in Nat /\ F[i - 1] \in Nat
        BY <1>3, <4>1
      <4>3. O[i] = O[i - 1] + A(i) /\ F[i] = F[i - 1] + B(i)
        BY <1>3
      <4>4. /\ A(i) \in Nat /\ B(i) \in Nat
            /\ A(i) + B(i) = part[partitions[i]].size
        BY <1>4
      <4> QED BY <4>2, <4>3, <4>4
    <3>2. CASE i = 1
      <4>1. part[partitions[1]].start = 0
        BY DEF LayoutOK, Tiled, Layout
      <4>2. i - 1 = 0 /\ O[i - 1] = 0 /\ F[i - 1] = 0
        BY <1>3, <3>2
      <4>3. O[i] + F[i] = End(i)
        BY <1>5, <3>1, <3>2, <4>1, <4>2
      <4> QED BY <1>1, <4>3
    <3>3. CASE i # 1
      <4>1. i - 1 \in 1..n /\ i - 1 # n /\ i - 1 # 0 /\ i - 1 + 1 = i
        BY <1>1, <3>3
      <4>2. O[i - 1] + F[i - 1] = End(i - 1)
        BY <2>2, <4>1
      <4>3. End(i - 1) = part[partitions[i]].start
        BY <1>5, <4>1
      <4> QED BY <3>1, <4>2, <4>3
    <3> QED BY <3>2, <3>3
  <2> HIDE DEF S
  <2>3. \A i \in 0..n : i \in S
    BY <1>1, <2>1, <2>2, InductionUpTo
  <2> QED BY <2>3 DEF S
<1>7. O[n] + F[n] = MemorySize
  <2>1. n \in 0..n /\ n \in 1..n /\ n # 0
    BY <1>1
  <2> QED BY <1>5, <1>6, <2>1
<1>8. ASSUME NEW i \in 0..n PROVE \A j \in 0..n : i <= j => O[i] <= O[j]
  <2> DEFINE S == {j \in 0..n : i <= j => O[i] <= O[j]}
  <2>1. 0 \in S
    <3>1. i <= 0 => i = 0
      BY <1>1
    <3> QED BY <1>1, <1>3, <3>1
  <2>2. ASSUME NEW j \in 1..n, j - 1 \in S PROVE j \in S
    <3>1. j - 1 \in 0..n /\ j \in 0..n
      BY <1>1
    <3>2. O[j] = O[j - 1] + A(j) /\ O[j] \in Nat /\ O[j - 1] \in Nat /\ O[i] \in Nat /\ A(j) \in Nat
      BY <1>3, <1>4, <3>1
    <3>3. CASE i <= j - 1
      <4>1. O[i] <= O[j - 1]
        BY <2>2, <3>3
      <4>2. O[i] <= O[j]
        BY <3>2, <4>1
      <4> QED BY <3>1, <4>2
    <3>4. CASE ~(i <= j - 1)
      <4>1. i <= j => i = j
        BY <1>1, <3>4
      <4> QED BY <3>1, <3>2, <4>1
    <3> QED BY <3>3, <3>4
  <2>3. \A j \in 0..n : j \in S
    <3> HIDE DEF S
    <3> QED BY <1>1, <2>1, <2>2, InductionUpTo
  <2> QED BY <2>3
<1>9. \A i \in 0..n : O[i] <= MemorySize
  <2> SUFFICES ASSUME NEW i \in 0..n PROVE O[i] <= MemorySize
    OBVIOUS
  <2>1. n \in 0..n /\ i <= n
    BY <1>1
  <2>2. O[i] <= O[n] /\ O[i] \in Nat /\ O[n] \in Nat /\ F[n] \in Nat
    BY <1>3, <1>8, <2>1
  <2> QED BY <1>7, <2>2
<1>10. \A i \in 1..n : O[i - 1] <= part[partitions[i]].start
  <2> SUFFICES ASSUME NEW i \in 1..n PROVE O[i - 1] <= part[partitions[i]].start
    OBVIOUS
  <2>1. part[partitions[i]].start \in Int /\ part[partitions[i]].start >= 0
    BY <1>1, Fields DEF n
  <2>2. CASE i = 1
    BY <1>3, <2>1, <2>2
  <2>3. CASE i # 1
    <3>1. i - 1 \in 1..n /\ i - 1 \in 0..n /\ i - 1 # n /\ i - 1 # 0 /\ i - 1 + 1 = i
      BY <1>1, <2>3
    <3>2. O[i - 1] + F[i - 1] = part[partitions[i]].start
      BY <1>5, <1>6, <3>1
    <3>3. O[i - 1] \in Nat /\ F[i - 1] \in Nat
      BY <1>3, <3>1
    <3> QED BY <3>2, <3>3
  <2> QED BY <2>2, <2>3
<1> QED BY <1>7, <1>8, <1>9, <1>10 DEF O, F, n

\* The places of the occupied partitions, in their order.
LEMMA PlacesAre ==
  ASSUME LayoutOK(Layout), NEW free \in BOOLEAN
  PROVE  /\ Places(free) \subseteq 1..Len(partitions) /\ IsFiniteSet(Places(free))
         /\ Cardinality(Places(free)) \in Nat /\ Cardinality(Places(free)) <= Len(partitions)
         /\ \A k \in 1..Cardinality(Places(free)) :
              /\ Nth(Places(free), k) \in Places(free)
              /\ Cardinality({m \in Places(free) : m < Nth(Places(free), k)}) = k - 1
         /\ \A i \in Places(free) : \E k \in 1..Cardinality(Places(free)) : Nth(Places(free), k) = i
<1> DEFINE S == Places(free)
           n == Len(partitions)
<1>1. n \in Nat /\ S \subseteq 1..n /\ S \subseteq Int
  <2>1. n \in Nat /\ DOMAIN partitions = 1..n
    BY LayoutIs
  <2> QED BY <2>1 DEF Places
<1>2. IsFiniteSet(1..n) /\ Cardinality(1..n) = n
  <2>1. 1 \in Int /\ n \in Int /\ (1 > n => n = 0)
    BY <1>1
  <2> HIDE DEF n
  <2> QED BY <2>1, FS_Interval
<1> HIDE DEF S, n
<1>3. IsFiniteSet(S) /\ Cardinality(S) \in Nat /\ Cardinality(S) <= n
  BY <1>1, <1>2, FS_Subset, FS_CardinalityType
<1>4. ASSUME NEW k \in 1..Cardinality(S)
      PROVE  Nth(S, k) \in S /\ Cardinality({m \in S : m < Nth(S, k)}) = k - 1
  BY <1>1, <1>3, NthIsThere
<1>5. ASSUME NEW i \in S PROVE \E k \in 1..Cardinality(S) : Nth(S, k) = i
  BY <1>1, <1>3, NthOfAll
<1> QED BY <1>1, <1>3, <1>4, <1>5 DEF S, n

PlaceOf(k) == Nth(Places(FALSE), k)

\* Where the occupied partitions come to when they slide down: each next to the one before,
\* from the beginning, and their places are those they had less the free ones before them.
SlidesDown ==
  LET c == Cardinality(Places(FALSE))
      O == SizeUpTo(FALSE)
      n == Len(partitions)
  IN  /\ c > 0 => O[PlaceOf(1) - 1] = 0
      /\ \A k \in 1..(c - 1) :
           O[PlaceOf(k + 1) - 1] = O[PlaceOf(k) - 1] + part[partitions[PlaceOf(k)]].size
      /\ c > 0 => O[n] = O[PlaceOf(c) - 1] + part[partitions[PlaceOf(c)]].size
      /\ c = 0 => O[n] = 0
      /\ \A k \in 1..c : PlaceOf(k) - 1 - Removed(PlaceOf(k)) = k - 1

\* In a sound layout the occupied partitions slide down one after another: each starts
\* where the one before it ends, and takes its place in the new order.
LEMMA OccupiedSlideDown ==
  ASSUME LayoutOK(Layout)
  PROVE  SlidesDown
<1> DEFINE S == Places(FALSE)
           Fr == Places(TRUE)
           c == Cardinality(S)
           O == SizeUpTo(FALSE)
           n == Len(partitions)
           Size(i) == part[partitions[i]].size
           A(i) == SizeAt(FALSE, i)
           upto(i) == {m \in S : m <= i}
           below(i) == {m \in S : m < i}
           place(k) == PlaceOf(k)
           value(k) == IF k = 0 THEN 0 ELSE O[place(k) - 1] + Size(place(k))
<1>1. n \in Nat \ {0} /\ DOMAIN partitions = 1..n /\ \A i \in 1..n : part[partitions[i]] \in Partition
  BY LayoutIs
<1>2. /\ S \subseteq 1..n /\ IsFiniteSet(S) /\ c \in Nat /\ c <= n
      /\ \A k \in 1..c : place(k) \in S /\ Cardinality(below(place(k))) = k - 1
      /\ \A i \in S : \E k \in 1..c : place(k) = i
  BY PlacesAre DEF PlaceOf
<1>15. n \in Nat \ {0} /\ \A m \in S : m \in Int /\ m >= 1 /\ m <= n
  <2>1. \A m \in S : m \in 1..n
    BY <1>2
  <2> HIDE DEF S, n
  <2> QED BY <1>1, <2>1
<1>3. O \in [0..n -> Nat] /\ O[0] = 0 /\ \A i \in 1..n : O[i] = O[i - 1] + A(i)
  <2>1. SizesSum(O, FALSE)
    BY SizeUpToIs
  <2> HIDE DEF O
  <2> QED BY <2>1 DEF SizesSum
<1>4. \A i \in 1..n : A(i) = IF i \in S THEN Size(i) ELSE 0
  BY DEF SizeAt
<1> HIDE DEF S, O, n, c, A, Size
<1>5. ASSUME NEW i \in S PROVE Cardinality(below(i)) + 1 \in 1..c /\ place(Cardinality(below(i)) + 1) = i
  <2>1. PICK k \in 1..c : place(k) = i
    BY <1>2
  <2>2. Cardinality(below(i)) = k - 1
    BY <1>2, <2>1
  <2>3. Cardinality(below(i)) + 1 = k
    BY <2>2
  <2> HIDE DEF below
  <2> QED BY <2>1, <2>3
<1> HIDE DEF place
<1>6. \A i \in 1..n : upto(i - 1) = below(i)
  <2> SUFFICES ASSUME NEW i \in 1..n PROVE \A m \in S : m <= i - 1 <=> m < i
    OBVIOUS
  <2> QED BY <1>15
<1>7. \A i \in 0..n : IsFiniteSet(upto(i)) /\ Cardinality(upto(i)) \in Nat
  <2> SUFFICES ASSUME NEW i \in 0..n PROVE IsFiniteSet(upto(i)) /\ Cardinality(upto(i)) \in Nat
    OBVIOUS
  <2>1. upto(i) \subseteq S
    OBVIOUS
  <2> HIDE DEF upto
  <2> QED BY <1>2, <2>1, FS_Subset, FS_CardinalityType
<1> DEFINE I == {i \in 0..n : O[i] = value(Cardinality(upto(i)))}
<1>8. \A i \in 0..n : i \in I
  <2>1. 0 \in I
    <3>1. upto(0) = {}
      BY <1>15
    <3> HIDE DEF upto
    <3>2. Cardinality(upto(0)) = 0
      BY <3>1, FS_EmptySet
    <3> QED BY <1>1, <1>3, <3>2
  <2>2. ASSUME NEW i \in 1..n, i - 1 \in I PROVE i \in I
    <3>1. i - 1 \in 0..n /\ i \in 0..n /\ upto(i - 1) = below(i)
      BY <1>1, <1>6
    <3>2. CASE i \in S
      <4>1. upto(i) = below(i) \cup {i} /\ i \notin below(i)
        <5>1. \A m \in S : m <= i <=> m < i \/ m = i
          BY <1>15
        <5>2. i \notin below(i)
          BY <1>15
        <5>3. \A m : m \in upto(i) <=> m \in below(i) \cup {i}
          BY <1>15, <3>2, <5>1
        <5> HIDE DEF upto, below
        <5> QED BY <5>2, <5>3
      <4> HIDE DEF upto, below
      <4>2. Cardinality(upto(i)) = Cardinality(below(i)) + 1
        <5>1. IsFiniteSet(below(i))
          BY <1>7, <3>1
        <5>2. Cardinality(below(i) \cup {i}) = IF i \in below(i) THEN Cardinality(below(i)) ELSE Cardinality(below(i)) + 1
          BY <5>1, FS_AddElement
        <5> QED BY <4>1, <5>2
      <4>3. place(Cardinality(upto(i))) = i /\ Cardinality(upto(i)) # 0
        <5>1. Cardinality(below(i)) \in Nat
          BY <1>7, <3>1
        <5> QED BY <1>5, <3>2, <4>2, <5>1
      <4>4. O[i] = O[i - 1] + Size(i)
        BY <1>3, <1>4, <3>2
      <4> QED BY <3>1, <4>3, <4>4
    <3>3. CASE i \notin S
      <4>1. upto(i) = upto(i - 1)
        <5>1. \A m \in S : m <= i <=> m <= i - 1
          BY <1>15, <3>3
        <5> QED BY <5>1
      <4> HIDE DEF upto
      <4>2. O[i] = O[i - 1] + 0 /\ O[i - 1] \in Nat
        BY <1>3, <1>4, <3>1, <3>3
      <4>3. O[i] = O[i - 1]
        BY <4>2
      <4> HIDE DEF value
      <4>4. O[i - 1] = value(Cardinality(upto(i - 1)))
        BY <2>2
      <4> QED BY <3>1, <4>1, <4>3, <4>4
    <3> QED BY <3>2, <3>3
  <2> HIDE DEF I
  <2> QED BY <1>1, <2>1, <2>2, InductionUpTo
<1>9. ASSUME NEW k \in 1..c
      PROVE  place(k) - 1 \in 0..n /\ O[place(k) - 1] = value(k - 1)
  <2>1. place(k) \in 1..n /\ Cardinality(below(place(k))) = k - 1
    BY <1>2
  <2>2. place(k) - 1 \in 0..n /\ upto(place(k) - 1) = below(place(k))
    BY <1>1, <1>6, <2>1
  <2> HIDE DEF upto, below, value
  <2> QED BY <1>8, <2>1, <2>2
<1>10. O[n] = value(c)
  <2>1. n \in 0..n
    BY <1>1
  <2>2. upto(n) = S
    BY <1>15
  <2> HIDE DEF upto, value
  <2> QED BY <1>8, <2>1, <2>2 DEF c
<1>11. ASSUME NEW k \in 1..c PROVE place(k) - 1 - Removed(place(k)) = k - 1
  <2> DEFINE i == place(k)
             free == {j \in Fr : j < i}
             occupied == below(i)
  <2>1. i \in 1..n /\ Cardinality(occupied) = k - 1
    BY <1>2
  <2>2. Fr \subseteq 1..n /\ IsFiniteSet(Fr)
    BY PlacesAre DEF n
  <2>3. \A j \in 1..n : j \in Fr <=> j \notin S
    <3> SUFFICES ASSUME NEW j \in 1..n PROVE j \in Fr <=> j \notin S
      OBVIOUS
    <3>1. part[partitions[j]].is_free \in BOOLEAN
      BY <1>1, Fields
    <3> QED BY <1>1, <3>1 DEF Places, S
  <2> HIDE DEF Fr
  <2>4. free \cup occupied = 1..(i - 1) /\ free \cap occupied = {}
    <3>1. \A m \in Fr : m \in Int /\ m >= 1 /\ m <= n
      BY <1>15, <2>2
    <3>2. i \in 1..n
      BY <2>1
    <3> HIDE DEF i
    <3>3. \A j : j \in free \cup occupied <=> j \in 1..(i - 1)
      <4> SUFFICES ASSUME NEW j PROVE j \in free \cup occupied <=> j \in 1..(i - 1)
        OBVIOUS
      <4>1. ASSUME j \in free \cup occupied PROVE j \in 1..(i - 1)
        BY <1>15, <3>1, <3>2, <4>1
      <4>2. ASSUME j \in 1..(i - 1) PROVE j \in free \cup occupied
        <5>1. j \in 1..n /\ j < i
          BY <1>15, <3>2, <4>2
        <5> QED BY <2>3, <5>1
      <4> QED BY <4>1, <4>2
    <3>4. \A j \in occupied : j \notin free
      <4>1. \A j \in occupied : j \in S /\ j \in 1..n
        BY <1>15
      <4> QED BY <2>3, <4>1
    <3> HIDE DEF free, occupied
    <3> QED BY <3>3, <3>4
  <2>5. IsFiniteSet(free) /\ IsFiniteSet(occupied)
    <3>1. free \subseteq Fr /\ occupied \subseteq S
      OBVIOUS
    <3> HIDE DEF free, occupied
    <3> QED BY <1>2, <2>2, <3>1, FS_Subset
  <2>6. Cardinality(1..(i - 1)) = i - 1
    <3>1. 1 \in Int /\ i - 1 \in Int /\ (1 > i - 1 => i - 1 = 0) /\ i - 1 - 1 + 1 = i - 1
      BY <1>1, <2>1
    <3> HIDE DEF i
    <3> QED BY <3>1, FS_Interval
  <2>7. Removed(i) = Cardinality(free)
    BY DEF Removed, Fr
  <2> HIDE DEF free, occupied, i
  <2>8. Cardinality(free \cup occupied) = Cardinality(free) + Cardinality(occupied) - Cardinality({})
    BY <2>4, <2>5, FS_Union
  <2>10. Cardinality(free) \in Nat
    BY <2>5, FS_CardinalityType
  <2>9. i - 1 = Cardinality(free) + (k - 1)
    <3>1. Cardinality({}) = 0
      BY FS_EmptySet
    <3>2. i - 1 = Cardinality(free) + (k - 1) - 0
      BY <2>1, <2>4, <2>6, <2>8, <3>1
    <3> QED BY <2>10, <3>2
  <2> QED BY <2>1, <2>7, <2>9, <2>10 DEF i
<1>12. c > 0 => O[place(1) - 1] = 0
  BY <1>2, <1>9
<1>13. \A k \in 1..(c - 1) : O[place(k + 1) - 1] = O[place(k) - 1] + Size(place(k))
  <2> SUFFICES ASSUME NEW k \in 1..(c - 1) PROVE O[place(k + 1) - 1] = O[place(k) - 1] + Size(place(k))
    OBVIOUS
  <2>1. k + 1 \in 1..c /\ k + 1 - 1 = k /\ k # 0
    BY <1>2
  <2>2. O[place(k + 1) - 1] = value(k + 1 - 1)
    BY <1>9, <2>1
  <2> QED BY <2>1, <2>2
<1>14. (c > 0 => O[n] = O[place(c) - 1] + Size(place(c))) /\ (c = 0 => O[n] = 0)
  BY <1>2, <1>10
<1> QED BY <1>11, <1>12, <1>13, <1>14 DEF SlidesDown, S, c, O, n, Size, place
\* The occupied partitions of one layout are those of the other, moved down.
Moved(t) ==
  \A r \in Refs :
    /\ OccupiedIn(t, r) <=> OccupiedIn(Layout, r)
    /\ OccupiedIn(Layout, r) =>
         /\ t.heap[r].size = part[r].size /\ SameUse(t.heap[r], part[r])
         /\ \E i \in Places(FALSE) : partitions[i] = r /\ t.heap[r].start = LastPtr(i)

\* The occupied partitions end to end from the beginning of the memory, and one that is free
\* after them, make a layout.
LEMMA CompactedOK ==
  ASSUME LayoutOK(Layout), location \in [Messages -> Refs \cup {NoRef}], FoundIsThere,
         CONFIG.memory_alg # "BUDDY_SYSTEM"
  PROVE  Compacted \in Layouts /\ LayoutOK(Compacted) /\ Moved(Compacted)
<1> DEFINE S == Places(FALSE)
           c == Cardinality(S)
           O == SizeUpTo(FALSE)
           F == SizeUpTo(TRUE)
           n == Len(partitions)
           rest == NewRef({})
           place(k) == PlaceOf(k)
           Slid(i) == [part[partitions[i]] EXCEPT !.start = LastPtr(i), !.number = @ - Removed(i)]
           moved == [r \in Refs |->
                       IF \E i \in S : partitions[i] = r
                       THEN Slid(CHOOSE i \in S : partitions[i] = r) ELSE part[r]]
           last == partition_create(Len(Occupied), LastPtr(n + 1), F[n])
           t == Compacted
<1>1. /\ n \in Nat \ {0} /\ DOMAIN partitions = 1..n /\ n <= MemorySize
      /\ partitions \in Seq(Refs) /\ part \in [Refs -> Partition]
      /\ \A i \in 1..n : /\ partitions[i] \in Refs /\ part[partitions[i]] \in Partition
                         /\ part[partitions[i]].number = i - 1 /\ part[partitions[i]].size > 0
      /\ \A i, j \in 1..n : partitions[i] = partitions[j] => i = j
  BY LayoutIs
<1>2. /\ S \subseteq 1..n /\ c \in Nat /\ c <= n
      /\ \A k \in 1..c : place(k) \in S
      /\ \A i \in S : \E k \in 1..c : place(k) = i
  BY PlacesAre DEF PlaceOf
<1>3. \A k, l \in 1..c : place(k) = place(l) => k = l
  <2> SUFFICES ASSUME NEW k \in 1..c, NEW l \in 1..c, place(k) = place(l) PROVE k = l
    OBVIOUS
  <2>1. /\ Cardinality({m \in S : m < place(k)}) = k - 1
        /\ Cardinality({m \in S : m < place(l)}) = l - 1
    BY PlacesAre DEF PlaceOf
  <2>2. k - 1 = l - 1
    <3> HIDE DEF place, S
    <3> QED BY <2>1
  <2> QED BY <1>2, <2>2
<1>4. /\ O \in [0..n -> Nat] /\ F \in [0..n -> Nat]
      /\ \A i \in 0..n : O[i] <= MemorySize
      /\ O[n] + F[n] = MemorySize
  <2>1. SizesSum(O, FALSE) /\ SizesSum(F, TRUE)
    BY SizeUpToIs
  <2>2. O \in [0..n -> Nat] /\ F \in [0..n -> Nat]
    <3> HIDE DEF O, F
    <3> QED BY <2>1 DEF SizesSum
  <2> QED BY <2>2, SizesAddUp
<1>5. /\ c > 0 => O[place(1) - 1] = 0
      /\ \A k \in 1..(c - 1) : O[place(k + 1) - 1] = O[place(k) - 1] + part[partitions[place(k)]].size
      /\ c > 0 => O[n] = O[place(c) - 1] + part[partitions[place(c)]].size
      /\ c = 0 => O[n] = 0
      /\ \A k \in 1..c : place(k) - 1 - Removed(place(k)) = k - 1
  BY OccupiedSlideDown DEF SlidesDown
<1>6. /\ \A i : LastPtr(i) = O[i - 1]
      /\ LastPtr(n + 1) = O[n]
  <2>1. \A i : LastPtr(i) = O[i - 1]
    BY DEF LastPtr
  <2>2. n + 1 - 1 = n
    BY <1>1
  <2>3. LastPtr(n + 1) = O[n + 1 - 1]
    BY DEF LastPtr
  <2> HIDE DEF O, n
  <2> QED BY <2>1, <2>2, <2>3
<1>7. /\ rest \in Refs /\ \A i \in 1..n : partitions[i] # rest
  <2>1. IsFiniteSet({}) /\ Cardinality({}) <= 1
    BY FS_EmptySet
  <2> QED BY <1>1, <2>1, NewRefIs DEF LayoutOK, InList
<1>8. Occupied = [k \in 1..c |-> partitions[place(k)]]
  BY DEF Occupied, InOrder, PlaceOf
<1>9. t = IF F[n] = 0 THEN [list |-> Occupied, heap |-> moved]
          ELSE [list |-> Append(Occupied, rest), heap |-> [moved EXCEPT ![rest] = last]]
  BY DEF Compacted
<1>10. \A i \in 1..n : i \in S <=> ~part[partitions[i]].is_free
  <2> SUFFICES ASSUME NEW i \in 1..n PROVE i \in S <=> ~part[partitions[i]].is_free
    OBVIOUS
  <2>1. part[partitions[i]].is_free \in BOOLEAN
    BY <1>1, Fields
  <2> QED BY <1>1, <2>1 DEF Places
<1> HIDE DEF S, c, O, F, n, rest, place, t
<1>11. MemorySize \in Nat \ {0} /\ 0 \in 0..n /\ n \in 0..n
  BY <1>1, MemoryAssumption
<1>12. ASSUME NEW k \in 1..c
       PROVE  /\ place(k) \in 1..n /\ partitions[place(k)] \in Refs
              /\ moved[partitions[place(k)]] \in Partition
              /\ LET x == part[partitions[place(k)]]
                     y == moved[partitions[place(k)]]
                 IN  /\ y.number = k - 1 /\ y.start = O[place(k) - 1] /\ y.size = x.size
                     /\ y.is_free = x.is_free /\ SameUse(y, x)
  <2> DEFINE i == place(k)
             x == part[partitions[i]]
             j == CHOOSE j \in S : partitions[j] = partitions[i]
  <2>1. i \in S /\ i \in 1..n /\ partitions[i] \in Refs /\ x \in Partition /\ x.number = i - 1
    BY <1>1, <1>2
  <2>2. j = i
    <3>1. j \in S /\ partitions[j] = partitions[i]
      BY <2>1
    <3> HIDE DEF j, i
    <3> QED BY <1>1, <1>2, <2>1, <3>1
  <2>3. moved[partitions[i]] = Slid(i)
    <3>1. moved[partitions[i]] = Slid(j)
      BY <2>1
    <3> HIDE DEF j, i, moved
    <3> QED BY <2>2, <3>1
  <2>4. LastPtr(i) = O[i - 1] /\ x.number - Removed(i) = k - 1
    <3>1. i - 1 - Removed(i) = k - 1
      BY <1>5
    <3> HIDE DEF i
    <3> QED BY <1>6, <2>1, <3>1
  <2>5. k - 1 \in 0..MemorySize /\ O[i - 1] \in 0..MemorySize
    <3>1. i - 1 \in 0..n
      BY <1>1, <2>1
    <3>2. O[i - 1] \in Nat /\ O[i - 1] <= MemorySize
      BY <1>4, <3>1
    <3> QED BY <1>1, <1>2, <1>11, <3>2
  <2>6. moved[partitions[i]] = [x EXCEPT !.start = O[i - 1], !.number = k - 1]
    <3> HIDE DEF moved, i
    <3> QED BY <2>3, <2>4
  <2> HIDE DEF moved, i, x
  <2>7. [x EXCEPT !.start = O[i - 1], !.number = k - 1] \in Partition
    BY <2>1, <2>5 DEF Partition
  <2>8. LET y == [x EXCEPT !.start = O[i - 1], !.number = k - 1]
        IN  /\ y.number = k - 1 /\ y.start = O[i - 1] /\ y.size = x.size
            /\ y.is_free = x.is_free /\ SameUse(y, x)
    BY <2>1 DEF Partition, SameUse
  <2> QED BY <2>1, <2>6, <2>7, <2>8 DEF i, x
<1>13. moved \in [Refs -> Partition]
  <2>1. ASSUME NEW r \in Refs PROVE moved[r] \in Partition
    <3>1. CASE \E i \in S : partitions[i] = r
      <4>1. PICK i \in S : partitions[i] = r
        BY <3>1
      <4>2. PICK k \in 1..c : place(k) = i
        BY <1>2
      <4> HIDE DEF moved
      <4> QED BY <1>12, <4>1, <4>2
    <3>2. CASE ~(\E i \in S : partitions[i] = r)
      BY <1>1, <3>2
    <3> QED BY <3>1, <3>2
  <2>2. moved = [r \in Refs |-> moved[r]]
    OBVIOUS
  <2> HIDE DEF moved
  <2> QED BY <2>1, <2>2
<1> HIDE DEF moved
<1>14. Occupied \in Seq(Refs) /\ Len(Occupied) = c /\ \A k \in 1..c : Occupied[k] = partitions[place(k)]
  <2>1. \A k \in 1..c : partitions[place(k)] \in Refs
    BY <1>12
  <2>2. Occupied \in [1..c -> Refs]
    BY <1>8, <2>1
  <2>3. Occupied \in Seq(Refs) /\ Len(Occupied) = c
    BY <1>2, <2>2
  <2> QED BY <1>8, <2>3
<1>15. last \in Partition /\ F[n] \in Nat
  <2>1. F[n] \in Nat /\ O[n] \in Nat
    BY <1>4, <1>11
  <2>3. c \in 0..MemorySize /\ O[n] \in 0..MemorySize /\ F[n] \in 0..MemorySize
    BY <1>1, <1>2, <1>4, <1>11, <2>1
  <2>4. 0 \in Nat /\ NoMessage \in Messages \cup {NoMessage}
    OBVIOUS
  <2> QED BY <1>14, <2>1, <1>6, <2>3, <2>4 DEF Partition, partition_create
<1>16. last.number = c /\ last.start = O[n] /\ last.size = F[n] /\ last.is_free /\ last.message = NoMessage
  BY <1>6, <1>14 DEF partition_create
<1> HIDE DEF last
<1> DEFINE len == IF F[n] = 0 THEN c ELSE c + 1
<1>17. /\ t \in Layouts /\ Len(t.list) = len
       /\ \A k \in 1..c : t.list[k] = partitions[place(k)] /\ t.heap[t.list[k]] = moved[partitions[place(k)]]
       /\ F[n] # 0 => t.list[c + 1] = rest /\ t.heap[t.list[c + 1]] = last
       /\ \A r \in Refs : r # rest => t.heap[r] = moved[r]
  <2>1. \A k \in 1..c : partitions[place(k)] \in Refs /\ partitions[place(k)] # rest
    BY <1>7, <1>12
  <2>2. CASE F[n] = 0
    <3>1. t = [list |-> Occupied, heap |-> moved]
      BY <1>9, <2>2
    <3>2. t \in Layouts /\ t.list = Occupied /\ t.heap = moved
      BY <1>13, <1>14, <3>1 DEF Layouts
    <3> QED BY <1>14, <2>2, <3>2
  <2>3. CASE F[n] # 0
    <3> DEFINE list == Append(Occupied, rest)
               heap == [moved EXCEPT ![rest] = last]
    <3>1. t = [list |-> list, heap |-> heap]
      BY <1>9, <2>3
    <3>2. list \in Seq(Refs) /\ Len(list) = c + 1 /\ list[c + 1] = rest /\ \A k \in 1..c : list[k] = Occupied[k]
      BY <1>2, <1>7, <1>14
    <3>3. heap \in [Refs -> Partition] /\ heap[rest] = last /\ \A r \in Refs : r # rest => heap[r] = moved[r]
      BY <1>7, <1>13, <1>15
    <3> HIDE DEF list, heap
    <3>4. t \in Layouts /\ t.list = list /\ t.heap = heap
      BY <3>1, <3>2, <3>3 DEF Layouts
    <3> QED BY <1>14, <2>1, <2>3, <3>2, <3>3, <3>4
  <2> QED BY <2>2, <2>3
<1>18. /\ t.list \in Seq(Refs) /\ t.heap \in [Refs -> Partition] /\ DOMAIN t.list = 1..len /\ len \in Nat \ {0}
  <2>1. t.list \in Seq(Refs) /\ t.heap \in [Refs -> Partition]
    BY <1>17 DEF Layouts
  <2>2. DOMAIN t.list = 1..len
    BY <1>17, <2>1, LenProperties
  <2>3. F[n] = 0 => c # 0
    <3> SUFFICES ASSUME F[n] = 0, c = 0 PROVE FALSE
      OBVIOUS
    <3>1. O[n] = 0
      BY <1>5
    <3> QED BY <1>4, <1>11, <3>1
  <2> QED BY <1>2, <2>1, <2>2, <2>3
<1> DEFINE T(k) == t.heap[t.list[k]]
<1>19. ASSUME NEW k \in 1..c
       PROVE  /\ T(k).number = k - 1 /\ T(k).start = O[place(k) - 1]
              /\ T(k).size = part[partitions[place(k)]].size /\ ~T(k).is_free
              /\ SameUse(T(k), part[partitions[place(k)]])
              /\ T(k).size > 0
  <2>1. place(k) \in S /\ place(k) \in 1..n
    BY <1>2
  <2>2. T(k) = moved[partitions[place(k)]]
    BY <1>17
  <2> HIDE DEF T
  <2> QED BY <1>1, <1>10, <1>12, <2>1, <2>2
<1>20. F[n] # 0 => /\ T(c + 1).number = c /\ T(c + 1).start = O[n] /\ T(c + 1).size = F[n]
                   /\ T(c + 1).is_free /\ T(c + 1).message = NoMessage
  BY <1>16, <1>17
<1> HIDE DEF T
<1>21. ASSUME NEW k \in 1..len
       PROVE  /\ T(k).number = k - 1 /\ T(k).size > 0
              /\ T(k).start + T(k).size = IF k = len THEN MemorySize ELSE T(k + 1).start
  <2>1. CASE k < c
    <3>1. k \in 1..c /\ k + 1 \in 1..c /\ k \in 1..(c - 1) /\ k # len
      BY <1>2, <2>1
    <3>2. O[place(k + 1) - 1] = O[place(k) - 1] + part[partitions[place(k)]].size
      BY <1>5, <3>1
    <3> QED BY <1>19, <3>1, <3>2
  <2>2. CASE k = c
    <3>1. k \in 1..c /\ c > 0
      BY <1>2, <2>2
    <3>2. O[n] = T(k).start + T(k).size
      BY <1>5, <1>19, <2>2, <3>1
    <3>3. CASE F[n] = 0
      <4>1. O[n] = MemorySize /\ k = len
        <5>1. O[n] \in Nat
          BY <1>4, <1>11
        <5> QED BY <1>4, <1>11, <2>2, <3>3, <5>1
      <4> QED BY <1>19, <3>1, <3>2, <4>1
    <3>4. CASE F[n] # 0
      <4>1. k # len
        BY <1>2, <2>2, <3>4
      <4> QED BY <1>19, <1>20, <2>2, <3>1, <3>2, <3>4, <4>1
    <3> QED BY <3>3, <3>4
  <2>3. CASE k > c
    <3>1. F[n] # 0 /\ k = c + 1 /\ k = len /\ k - 1 = c
      BY <1>2, <2>3
    <3>2. F[n] \in Nat /\ F[n] > 0
      BY <1>15, <3>1
    <3> QED BY <1>4, <1>20, <3>1, <3>2
  <2> QED BY <1>2, <1>18, <2>1, <2>2, <2>3
<1>22. T(1).start = 0
  <2>1. CASE c > 0
    <3>1. 1 \in 1..c
      BY <1>2, <2>1
    <3> QED BY <1>5, <1>19, <2>1, <3>1
  <2>2. CASE ~(c > 0)
    <3>1. c = 0 /\ c + 1 = 1 /\ F[n] # 0
      BY <1>2, <1>18, <2>2
    <3> QED BY <1>5, <1>20, <3>1
  <2> QED BY <2>1, <2>2
<1>23. \A j, k \in 1..len : t.list[j] = t.list[k] => j = k
  <2> SUFFICES ASSUME NEW j \in 1..len, NEW k \in 1..len, t.list[j] = t.list[k] PROVE j = k
    OBVIOUS
  <2>1. T(j).number = j - 1 /\ T(k).number = k - 1
    BY <1>21
  <2>2. j - 1 = k - 1
    BY <2>1 DEF T
  <2> QED BY <1>18, <2>2
<1>24. Tiled(t)
  <2>1. t.list # <<>>
    <3>1. Len(t.list) # 0
      BY <1>17, <1>18
    <3> QED BY <3>1, EmptySeq
  <2> QED BY <1>17, <1>18, <1>21, <1>22, <1>23, <2>1 DEF Tiled, T
<1>25. FreeIsEmpty(t)
  <2> SUFFICES ASSUME NEW k \in 1..len, T(k).is_free PROVE T(k).message = NoMessage
    BY <1>18 DEF FreeIsEmpty, T
  <2>1. CASE k <= c
    <3>1. k \in 1..c
      BY <1>2, <2>1
    <3> QED BY <1>19, <3>1
  <2>2. CASE ~(k <= c)
    <3>1. F[n] # 0 /\ k = c + 1
      BY <1>2, <2>2
    <3> QED BY <1>20, <3>1
  <2> QED BY <2>1, <2>2
<1>26. LayoutOK(t)
  BY <1>24, <1>25 DEF LayoutOK, Blocks
<1>27. Moved(t)
  <2> SUFFICES ASSUME NEW r \in Refs
               PROVE  /\ OccupiedIn(t, r) <=> OccupiedIn(Layout, r)
                      /\ OccupiedIn(Layout, r) =>
                           /\ t.heap[r].size = part[r].size /\ SameUse(t.heap[r], part[r])
                           /\ \E i \in S : partitions[i] = r /\ t.heap[r].start = LastPtr(i)
    BY DEF Moved, S
  <2>1. ASSUME OccupiedIn(t, r) PROVE OccupiedIn(Layout, r)
    <3>1. PICK k \in 1..len : t.list[k] = r /\ ~T(k).is_free
      BY <1>18, <2>1 DEF OccupiedIn, T
    <3>2. k \in 1..c
      <4>1. CASE k <= c
        BY <1>2, <4>1
      <4>2. CASE ~(k <= c)
        <5>1. F[n] # 0 /\ k = c + 1
          BY <1>2, <4>2
        <5> QED BY <1>20, <3>1, <5>1
      <4> QED BY <4>1, <4>2
    <3>3. place(k) \in S /\ place(k) \in 1..n /\ partitions[place(k)] = r
      BY <1>2, <1>17, <3>1, <3>2
    <3>4. ~part[r].is_free
      BY <1>10, <3>3
    <3> QED BY <1>1, <3>3, <3>4 DEF OccupiedIn, Layout
  <2>2. ASSUME OccupiedIn(Layout, r)
        PROVE  /\ OccupiedIn(t, r)
               /\ t.heap[r].size = part[r].size /\ SameUse(t.heap[r], part[r])
               /\ \E i \in S : partitions[i] = r /\ t.heap[r].start = LastPtr(i)
    <3>1. PICK i \in 1..n : partitions[i] = r /\ ~part[r].is_free
      BY <1>1, <2>2 DEF OccupiedIn, Layout
    <3>2. i \in S
      BY <1>10, <3>1
    <3>3. PICK k \in 1..c : place(k) = i
      BY <1>2, <3>2
    <3>4. t.list[k] = r /\ k \in 1..len
      BY <1>2, <1>17, <3>1, <3>3
    <3>5. T(k) = t.heap[r]
      BY <3>4 DEF T
    <3>6. LastPtr(i) = O[i - 1]
      BY <1>6
    <3> QED BY <1>18, <1>19, <3>1, <3>2, <3>3, <3>4, <3>5, <3>6 DEF OccupiedIn
  <2> QED BY <2>1, <2>2
<1> QED BY <1>17, <1>26, <1>27 DEF t

\* What a byte of the memory can be.
Bytes == (Messages \X Addresses) \cup {NoByte}

\* The bytes of an occupied partition go where it goes.
LEMMA CompactedBytes ==
  ASSUME LayoutOK(Layout), memory \in [Addresses -> Bytes]
  PROVE  /\ CompactedMemory \in [Addresses -> Bytes]
         /\ \A i \in Places(FALSE) : \A d \in 0..(part[partitions[i]].size - 1) :
              /\ LastPtr(i) + d \in Addresses
              /\ CompactedMemory[LastPtr(i) + d] = memory[part[partitions[i]].start + d]
<1> DEFINE n == Len(partitions)
           O == SizeUpTo(FALSE)
           S == Places(FALSE)
           size(i) == part[partitions[i]].size
           start(i) == part[partitions[i]].start
           Sliding(a) == {i \in S : O[i - 1] <= a /\ a < O[i - 1] + size(i)}
           first(a) == CHOOSE i \in Sliding(a) : TRUE
           Byte(a) == IF Sliding(a) = {} THEN memory[a]
                      ELSE memory[start(first(a)) + (a - O[first(a) - 1])]
<1>1. /\ n \in Nat \ {0} /\ DOMAIN partitions = 1..n /\ S \subseteq 1..n
      /\ \A i \in 1..n : part[partitions[i]] \in Partition
  BY LayoutIs, PlacesAre
<1>2. MemorySize \in Nat \ {0} /\ Addresses = 0..(MemorySize - 1)
  BY MemoryAssumption DEF Addresses
<1>3. \A i \in 1..n : start(i) \in Nat /\ size(i) \in Nat /\ start(i) + size(i) <= MemorySize
  <2> SUFFICES ASSUME NEW i \in 1..n
               PROVE  start(i) \in Nat /\ size(i) \in Nat /\ start(i) + size(i) <= MemorySize
    OBVIOUS
  <2>1. start(i) \in Int /\ start(i) >= 0 /\ size(i) \in Int /\ size(i) >= 0
    BY <1>1, Fields
  <2>2. start(i) + size(i) <= MemorySize
    BY TiledInOrder DEF LayoutOK, Layout
  <2> HIDE DEF start, size
  <2> QED BY <2>1, <2>2
<1>4. /\ \A i \in 0..n : O[i] \in Nat /\ O[i] <= MemorySize
      /\ \A i, j \in 0..n : i <= j => O[i] <= O[j]
      /\ \A i \in S : O[i] = O[i - 1] + size(i)
  <2>1. SizesSum(O, FALSE)
    BY SizeUpToIs
  <2>2. /\ \A i \in 0..n : O[i] <= MemorySize
        /\ \A i, j \in 0..n : i <= j => O[i] <= O[j]
    BY SizesAddUp
  <2>3. O \in [0..n -> Nat] /\ \A i \in 1..n : O[i] = O[i - 1] + SizeAt(FALSE, i)
    <3> HIDE DEF O
    <3> QED BY <2>1 DEF SizesSum
  <2>4. \A i \in S : SizeAt(FALSE, i) = size(i)
    BY DEF SizeAt
  <2> HIDE DEF O, S, size
  <2> QED BY <1>1, <2>2, <2>3, <2>4
<1>5. CompactedMemory = [a \in Addresses |-> Byte(a)]
  BY DEF CompactedMemory, LastPtr
<1>6. \A i : LastPtr(i) = O[i - 1]
  BY DEF LastPtr
<1> HIDE DEF n, O, S, size, start
<1>7. ASSUME NEW a \in Addresses, NEW i \in Sliding(a) PROVE start(i) + (a - O[i - 1]) \in Addresses
  <2>1. i \in 1..n /\ i - 1 \in 0..n /\ O[i - 1] <= a /\ a < O[i - 1] + size(i)
    <3>1. i \in S /\ O[i - 1] <= a /\ a < O[i - 1] + size(i)
      OBVIOUS
    <3>2. i \in 1..n /\ i - 1 \in 0..n
      BY <1>1, <3>1
    <3> QED BY <3>1, <3>2
  <2>2. start(i) \in Nat /\ size(i) \in Nat /\ start(i) + size(i) <= MemorySize
    BY <1>3, <2>1
  <2>3. O[i - 1] \in Nat /\ a \in Nat
    BY <1>2, <1>4, <2>1
  <2> QED BY <1>2, <2>1, <2>2, <2>3
<1>8. ASSUME NEW a \in Addresses, NEW i \in Sliding(a), NEW j \in Sliding(a) PROVE ~(i < j)
  <2> SUFFICES ASSUME i < j PROVE FALSE
    OBVIOUS
  <2>1. i \in S /\ i \in 1..n /\ j \in 1..n /\ a < O[i - 1] + size(i) /\ O[j - 1] <= a
    BY <1>1
  <2>2. i \in 0..n /\ j - 1 \in 0..n /\ i <= j - 1
    BY <1>1, <2>1
  <2>3. O[i] <= O[j - 1] /\ O[i] = O[i - 1] + size(i) /\ O[i] \in Nat /\ O[j - 1] \in Nat
    BY <1>4, <2>1, <2>2
  <2> QED BY <1>2, <2>1, <2>3
<1>9. \A a \in Addresses : Sliding(a) # {} => first(a) \in Sliding(a)
  OBVIOUS
<1>10. ASSUME NEW a \in Addresses PROVE Byte(a) \in Bytes
  <2>1. CASE Sliding(a) = {}
    BY <2>1
  <2>2. CASE Sliding(a) # {}
    <3>1. first(a) \in Sliding(a)
      BY <1>9, <2>2
    <3>2. start(first(a)) + (a - O[first(a) - 1]) \in Addresses
      <4> HIDE DEF Sliding, first
      <4> QED BY <1>7, <3>1
    <3> HIDE DEF first, Sliding
    <3> QED BY <2>2, <3>2
  <2> QED BY <2>1, <2>2
<1>11. ASSUME NEW i \in S, NEW d \in 0..(size(i) - 1)
       PROVE  O[i - 1] + d \in Addresses /\ Byte(O[i - 1] + d) = memory[start(i) + d]
  <2> DEFINE a == O[i - 1] + d
  <2>1. i \in 1..n /\ i - 1 \in 0..n /\ i \in 0..n /\ size(i) \in Nat
    BY <1>1, <1>3
  <2>2. O[i - 1] \in Nat /\ O[i] = O[i - 1] + size(i) /\ O[i] <= MemorySize /\ d \in Nat /\ d < size(i)
    BY <1>4, <2>1
  <2>3. a \in Addresses /\ i \in Sliding(a)
    BY <1>2, <2>1, <2>2
  <2>4. first(a) \in Sliding(a)
    BY <1>9, <2>3
  <2>5. first(a) = i
    <3>1. first(a) \in 1..n
      BY <1>1, <2>4
    <3>2. ~(first(a) < i) /\ ~(i < first(a))
      <4> HIDE DEF first, Sliding, a
      <4> QED BY <1>8, <2>3, <2>4
    <3> HIDE DEF first
    <3> QED BY <2>1, <3>1, <3>2
  <2>6. a - O[i - 1] = d
    BY <2>2
  <2>7. Byte(a) = memory[start(i) + (a - O[i - 1])]
    <3> HIDE DEF first, Sliding, a
    <3> QED BY <2>3, <2>5
  <2> HIDE DEF a, Byte
  <2> QED BY <2>3, <2>6, <2>7 DEF a
<1> HIDE DEF Byte
<1>12. CompactedMemory \in [Addresses -> Bytes]
  BY <1>5, <1>10
<1>13. ASSUME NEW i \in S, NEW d \in 0..(size(i) - 1)
       PROVE  /\ LastPtr(i) + d \in Addresses
              /\ CompactedMemory[LastPtr(i) + d] = memory[start(i) + d]
  <2>1. LastPtr(i) = O[i - 1]
    BY <1>6
  <2> QED BY <1>5, <1>11, <2>1
<1> QED BY <1>12, <1>13 DEF S, size, start

-----------------------------------------------------------------------------
(* The search *)

\* Of the partitions that fit, the search has one to choose.
LEMMA ChosenIs ==
  ASSUME LayoutOK(Layout), NEW size, Fitting(size) # {}
  PROVE  /\ InList(ChosenFit(size)) /\ ChosenFit(size) \in Refs
         /\ part[ChosenFit(size)].is_free /\ part[ChosenFit(size)].size >= size
<1> DEFINE F == Fitting(size)
           Best == CONFIG.memory_alg = "PARTITIONS" /\ CONFIG.seek_alg = "BEST_FIT"
<1>1. F \subseteq Refs /\ \A r \in F : InList(r) /\ part[r].is_free /\ part[r].size >= size
  BY LayoutIs DEF Fitting, ToSet, InList
<1>2. \A r \in F : part[r].start \in 0..MemorySize /\ part[r].size \in Nat
  <2> SUFFICES ASSUME NEW r \in F PROVE part[r].start \in 0..MemorySize /\ part[r].size \in Nat
    OBVIOUS
  <2>1. part[r] \in Partition
    BY <1>1, LayoutIs
  <2> HIDE DEF F
  <2> QED BY <2>1, Fields
<1>3. MemorySize \in Nat
  BY MemoryAssumption
<1>4. F # {} /\ ChosenFit(size) = CHOOSE r \in F : \A q \in F : Preferred(r, q)
  BY DEF ChosenFit
<1> HIDE DEF F
<1>5. CASE ~Best
  <2> DEFINE S == {part[r].start : r \in F}
  <2>1. S \subseteq Nat /\ S # {}
    BY <1>2, <1>4
  <2>2. Min(S) \in S /\ \A n \in S : Min(S) <= n
    <3> HIDE DEF S
    <3> QED BY <2>1, MinOfNaturals
  <2>3. PICK r \in F : part[r].start = Min(S)
    BY <2>2
  <2>4. \A q \in F : part[r].start <= part[q].start
    BY <2>2, <2>3
  <2>5. \A q \in F : Preferred(r, q)
    BY <1>5, <2>4 DEF Preferred
  <2> QED BY <1>1, <1>4, <2>3, <2>5
<1>6. CASE Best
  <2> DEFINE S == {part[r].size : r \in F}
  <2>1. S \subseteq Nat /\ S # {}
    BY <1>2, <1>4
  <2>2. Min(S) \in S /\ \A n \in S : Min(S) <= n
    <3> HIDE DEF S
    <3> QED BY <2>1, MinOfNaturals
  <2> DEFINE least == Min(S)
             L == {MemorySize - part[r].start : r \in {q \in F : part[q].size = least}}
  <2>3. L # {} /\ L \subseteq Nat
    <3>1. PICK r \in F : part[r].size = least
      BY <2>2
    <3> HIDE DEF least
    <3>2. MemorySize - part[r].start \in L
      BY <3>1
    <3>3. \A q \in F : MemorySize - part[q].start \in Nat
      BY <1>2, <1>3
    <3>4. L \subseteq Nat
      BY <3>3
    <3> QED BY <3>2, <3>4
  <2>4. Min(L) \in L /\ \A n \in L : Min(L) <= n
    <3> HIDE DEF L
    <3> QED BY <2>3, MinOfNaturals
  <2>5. PICK r \in F : part[r].size = least /\ MemorySize - part[r].start = Min(L)
    <3> HIDE DEF least
    <3> QED BY <2>4
  <2>6. \A q \in F : least <= part[q].size
    BY <2>2
  <2>7. \A q \in F : part[q].size = least => MemorySize - part[r].start <= MemorySize - part[q].start
    <3> HIDE DEF least
    <3> QED BY <2>4, <2>5
  <2> HIDE DEF least, L, S
  <2>8. \A q \in F : \/ part[r].size < part[q].size
                     \/ part[r].size = part[q].size /\ part[r].start >= part[q].start
    <3> SUFFICES ASSUME NEW q \in F
                 PROVE  \/ part[r].size < part[q].size
                        \/ part[r].size = part[q].size /\ part[r].start >= part[q].start
      OBVIOUS
    <3>1. /\ part[r].size \in Nat /\ part[q].size \in Nat /\ part[r].size <= part[q].size
          /\ part[r].start \in Nat /\ part[q].start \in Nat
      BY <1>2, <2>5, <2>6
    <3>2. CASE part[q].size = least
      BY <1>3, <2>5, <2>7, <3>1, <3>2
    <3>3. CASE part[q].size # least
      BY <2>5, <3>1, <3>3
    <3> QED BY <3>2, <3>3
  <2>9. \A q \in F : Preferred(r, q)
    BY <1>6, <2>8 DEF Preferred
  <2> QED BY <1>1, <1>4, <2>5, <2>9
<1> QED BY <1>5, <1>6

-----------------------------------------------------------------------------
(* What the steps do to the occupied partitions *)

\* The occupied partitions of t are those of the list, as they are, but for some.
KeepsBut(t, X) ==
  \A r \in Refs :
    /\ OccupiedIn(t, r) <=> OccupiedIn(Layout, r) /\ r \notin X
    /\ OccupiedIn(t, r) => /\ t.heap[r].start = part[r].start
                           /\ t.heap[r].size = part[r].size
                           /\ SameUse(t.heap[r], part[r])

\* A partition stays where it is or, without the buddy system, moves down.
StaysOrSlides(r) ==
  IF CONFIG.memory_alg = "PARTITIONS" THEN part'[r].start <= part[r].start
                                      ELSE part'[r].start = part[r].start

\* Every message keeps its partition and its bytes, but for those whose partitions go, and
\* no other partition is occupied afterwards.
OccupiedKept(X) ==
  /\ \A r, m : HasPayload(r, m) /\ r \notin X => HasPayload(r, m)' /\ SameUse(part'[r], part[r])
  /\ \A r : OccupiedIn(Layout, r)' <=> r \notin X /\ OccupiedIn(Layout, r)
  /\ \A r : OccupiedIn(Layout, r)' => SameUse(part'[r], part[r]) /\ StaysOrSlides(r)

\* A step that leaves the deliveries alone leaves them at or above the partitions they read.
LEMMA ReadersMoved ==
  ASSUME IInv, UNCHANGED <<CONFIG, location, delivery>>, messages_index' \subseteq messages_index,
         Indexed', NEW X, OccupiedKept(X), part' \in [Refs -> Partition]
  PROVE  Readers'
<1> SUFFICES ASSUME NEW m \in Messages, sender[m] = "reading", m \in messages_index'
             PROVE  IF CONFIG.memory_alg = "PARTITIONS" THEN part'[location[m]].start <= reading[m]
                                                        ELSE part'[location[m]].start = reading[m]
  BY DEF Readers, IInv, delivery
<1>1. TypeOK /\ LayoutOK(Layout) /\ Indexed /\ m \in messages_index
  BY DEF IInv
<1>2. StaysOrSlides(location[m])
  <2> PICK r : r = location[m]
    OBVIOUS
  <2>1. (\E i \in DOMAIN partitions' : partitions'[i] = r) /\ ~part'[r].is_free
    BY DEF Indexed, HasPayload, InList
  <2>2. OccupiedIn(Layout, r)'
    BY <2>1 DEF OccupiedIn, Layout
  <2> QED BY <2>2 DEF OccupiedKept
<1>3. /\ OccupiedIn(Layout, location[m])
      /\ IF CONFIG.memory_alg = "PARTITIONS" THEN part[location[m]].start <= reading[m]
                                             ELSE part[location[m]].start = reading[m]
  BY <1>1 DEF Indexed, HasPayload, InList, OccupiedIn, Layout, IInv, Readers
<1>4. part[location[m]].start \in Int /\ reading[m] \in Int /\ part'[location[m]].start \in Int
  <2>1. location[m] \in Refs /\ reading[m] \in {Nowhere} \cup 0..MemorySize /\ MemorySize \in Int
    BY MemoryAssumption DEF IInv, Readers, TypeOK
  <2>2. part[location[m]] \in Partition /\ part'[location[m]] \in Partition
    BY <1>1, <2>1 DEF TypeOK
  <2> QED BY <2>1, <2>2, Fields DEF Nowhere
<1> QED BY <1>2, <1>3, <1>4 DEF StaysOrSlides

\* ... and one that moves no partition leaves them where they are.
LEMMA ReadersKept ==
  ASSUME IInv, UNCHANGED <<CONFIG, location, messages_index, delivery>>,
         \A r \in Refs : part'[r].start = part[r].start
  PROVE  Readers'
BY DEF IInv, Readers, delivery

\* The partitions of the list still lie end to end when only their times, their messages
\* or what is free change.
LEMMA SamePlaces ==
  ASSUME LayoutOK(Layout), NEW s \in Layouts, s.list = partitions,
         \A r \in Refs : /\ s.heap[r].number = part[r].number /\ s.heap[r].start = part[r].start
                         /\ s.heap[r].size = part[r].size
  PROVE  Tiled(s) /\ Blocks(s)
<1>1. /\ Len(partitions) \in Nat \ {0} /\ DOMAIN partitions = 1..Len(partitions)
      /\ partitions \in Seq(Refs) /\ \A i \in DOMAIN partitions : partitions[i] \in Refs
      /\ 1 \in DOMAIN partitions
      /\ \A i \in DOMAIN partitions : i # Len(partitions) => i + 1 \in DOMAIN partitions
  BY LayoutIs
<1>2. /\ partitions # <<>>
      /\ \A i, j \in DOMAIN partitions : partitions[i] = partitions[j] => i = j
      /\ part[partitions[1]].start = 0
      /\ \A i \in DOMAIN partitions :
           LET x == part[partitions[i]]
           IN  /\ x.number = i - 1 /\ x.size > 0
               /\ x.start + x.size = IF i = Len(partitions) THEN MemorySize
                                     ELSE part[partitions[i + 1]].start
  BY DEF LayoutOK, Tiled, Layout
<1>3. \A i \in DOMAIN partitions :
        LET x == s.heap[partitions[i]]
        IN  /\ x.number = i - 1 /\ x.size > 0
            /\ x.start + x.size = IF i = Len(partitions) THEN MemorySize
                                  ELSE s.heap[partitions[i + 1]].start
  <2> PICK h : h = s.heap
    OBVIOUS
  <2>1. \A i \in DOMAIN partitions :
          /\ h[partitions[i]].number = part[partitions[i]].number
          /\ h[partitions[i]].start = part[partitions[i]].start
          /\ h[partitions[i]].size = part[partitions[i]].size
    BY <1>1
  <2> TAKE i \in DOMAIN partitions
  <2>2. /\ h[partitions[i]].number = i - 1 /\ h[partitions[i]].size > 0
        /\ h[partitions[i]].start + h[partitions[i]].size
             = IF i = Len(partitions) THEN MemorySize ELSE part[partitions[i + 1]].start
    BY <1>2, <2>1
  <2>3. i # Len(partitions) => h[partitions[i + 1]].start = part[partitions[i + 1]].start
    BY <1>1, <2>1
  <2> QED BY <2>2, <2>3
<1>4. s.heap[partitions[1]].start = 0
  BY <1>1, <1>2
<1>5. s.heap \in [Refs -> Partition]
  BY DEF Layouts
<1>6. Tiled(s)
  BY <1>1, <1>2, <1>3, <1>4, <1>5 DEF Tiled
<1>7. Blocks(s)
  BY <1>1 DEF LayoutOK, Blocks, Block, Layout
<1> QED BY <1>6, <1>7

\* The partitions after a step are those of a layout.
LEMMA LayoutReplaced ==
  ASSUME CONFIG' = CONFIG, NEW t \in Layouts, LayoutOK(t), SetLayout(t)
  PROVE  /\ LayoutOK(Layout)' /\ partitions' \in Seq(Refs) /\ part' \in [Refs -> Partition]
         /\ \A r : OccupiedIn(Layout, r)' <=> OccupiedIn(t, r)
         /\ \A r : InList(r)' <=> \E i \in DOMAIN t.list : t.list[i] = r
         /\ IsInjective(partitions') /\ partitions' # <<>>
<1>1. partitions' = t.list /\ part' = t.heap
  BY DEF SetLayout
<1>2. t = [list |-> t.list, heap |-> t.heap] /\ t.list \in Seq(Refs) /\ t.heap \in [Refs -> Partition]
  BY DEF Layouts
<1>3. Layout' = t
  BY <1>1, <1>2 DEF Layout
<1>4. LayoutOK(Layout)'
  <2>1. Tiled(Layout') /\ FreeIsEmpty(Layout')
    BY <1>3 DEF LayoutOK
  <2>2. Blocks(Layout)'
    BY <1>3 DEF LayoutOK, Blocks
  <2> QED BY <2>1, <2>2 DEF LayoutOK, Tiled, FreeIsEmpty
<1>5. \A r : OccupiedIn(Layout, r)' <=> OccupiedIn(t, r)
  BY <1>3 DEF OccupiedIn
<1>6. \A r : InList(r)' <=> \E i \in DOMAIN t.list : t.list[i] = r
  BY <1>1 DEF InList
<1>7. IsInjective(partitions') /\ partitions' # <<>>
  BY <1>1 DEF LayoutOK, Tiled, IsInjective
<1> QED BY <1>1, <1>2, <1>4, <1>5, <1>6, <1>7

\* When the bytes stay and the occupied partitions too, so do the messages.
LEMMA PartitionsKept ==
  ASSUME CONFIG' = CONFIG, memory' = memory, sizes' = sizes, LayoutOK(Layout),
         NEW X, NEW t \in Layouts, LayoutOK(t), KeepsBut(t, X), SetLayout(t)
  PROVE  OccupiedKept(X)
<1>1. partitions' = t.list /\ part' = t.heap /\ \A r : OccupiedIn(Layout, r)' <=> OccupiedIn(t, r)
  BY LayoutReplaced DEF SetLayout
<1>2. \A r : OccupiedIn(Layout, r) <=> InList(r) /\ ~part[r].is_free
  BY DEF OccupiedIn, InList, Layout
<1>3. \A r : OccupiedIn(t, r) <=> InList(r)' /\ ~part'[r].is_free
  BY <1>1 DEF OccupiedIn, InList
<1>4. \A r : InList(r) => r \in Refs
  BY LayoutIs DEF InList
<1>5. \A r : InList(r)' => r \in Refs
  <2>1. partitions' \in Seq(Refs)
    BY <1>1 DEF Layouts
  <2> QED BY <2>1 DEF InList
<1>6. ASSUME NEW r, NEW m, HasPayload(r, m), r \notin X
      PROVE  HasPayload(r, m)' /\ SameUse(part'[r], part[r])
  <2>1. r \in Refs /\ OccupiedIn(Layout, r)
    BY <1>2, <1>4, <1>6 DEF HasPayload
  <2>2. /\ OccupiedIn(t, r) /\ part'[r].start = part[r].start /\ part'[r].size = part[r].size
        /\ SameUse(part'[r], part[r])
    BY <1>1, <1>6, <2>1 DEF KeepsBut
  <2>3. InList(r)' /\ ~part'[r].is_free
    BY <1>3, <2>2
  <2> QED BY <1>6, <2>2, <2>3 DEF HasPayload, PayloadAt
<1>7. ASSUME NEW r, OccupiedIn(Layout, r)'
      PROVE  /\ r \notin X /\ OccupiedIn(Layout, r) /\ SameUse(part'[r], part[r])
             /\ StaysOrSlides(r)
  <2>1. OccupiedIn(t, r) /\ r \in Refs
    BY <1>1, <1>3, <1>5, <1>7
  <2>2. /\ r \notin X /\ OccupiedIn(Layout, r) /\ SameUse(part'[r], part[r])
        /\ part'[r].start = part[r].start
    BY <1>1, <2>1 DEF KeepsBut
  <2>3. part[r].start \in Int
    BY <1>2, <2>2, LayoutIs, Fields DEF InList
  <2> QED BY <2>2, <2>3 DEF StaysOrSlides
<1>8. ASSUME NEW r, OccupiedIn(Layout, r), r \notin X PROVE OccupiedIn(Layout, r)'
  <2>1. r \in Refs
    BY <1>2, <1>4, <1>8
  <2> QED BY <1>1, <1>8, <2>1 DEF KeepsBut
<1> QED BY <1>6, <1>7, <1>8 DEF OccupiedKept

\* ... and of those that are gone no message is in the index any more.
LEMMA MessagesKept ==
  ASSUME Owned, Indexed, \A p \in Publishers : pc[p] # "register",
         location' = location, NEW X, OccupiedKept(X), \A r \in X : OccupiedIn(Layout, r),
         messages_index' = messages_index \ {part[r].message : r \in X}
  PROVE  Owned' /\ Indexed'
<1>1. \A r : OccupiedIn(Layout, r) <=> InList(r) /\ ~part[r].is_free
  BY DEF OccupiedIn, InList, Layout
<1>2. \A r : OccupiedIn(Layout, r) => part[r].message \in messages_index /\ location[part[r].message] = r
  BY <1>1 DEF Owned, InList
<1>3. ASSUME NEW i \in DOMAIN partitions', ~part'[partitions'[i]].is_free
      PROVE  /\ part'[partitions'[i]].message \in messages_index'
             /\ location'[part'[partitions'[i]].message] = partitions'[i]
  <2> PICK r : r = partitions'[i]
    OBVIOUS
  <2>1. OccupiedIn(Layout, r)'
    BY <1>3 DEF OccupiedIn, Layout
  <2>2. r \notin X /\ OccupiedIn(Layout, r) /\ part'[r].message = part[r].message
    BY <2>1 DEF OccupiedKept, SameUse
  <2>3. part[r].message \in messages_index /\ location[part[r].message] = r
    BY <1>2, <2>2
  <2>4. \A q \in X : part[q].message # part[r].message
    BY <1>2, <2>2, <2>3
  <2> QED BY <2>2, <2>3, <2>4
<1>4. Owned'
  BY <1>3 DEF Owned
<1>5. ASSUME NEW m \in messages_index'
      PROVE  (part[location[m]].message = m /\ HasPayload(location[m], m))'
  <2> PICK r : r = location[m]
    OBVIOUS
  <2>1. m \in messages_index /\ part[r].message = m /\ HasPayload(r, m) /\ location'[m] = r
    BY DEF Indexed
  <2>2. r \notin X
    BY <2>1
  <2>3. HasPayload(r, m)' /\ part'[r].message = m
    BY <2>1, <2>2 DEF OccupiedKept, SameUse
  <2>4. location[m]' = r
    BY <2>1
  <2> QED BY <2>3, <2>4 DEF HasPayload, InList, PayloadAt
<1>6. Indexed'
  BY <1>5 DEF Indexed
<1> QED BY <1>4, <1>6

\* A step that leaves the partitions and the bytes where they are, and changes at most the
\* times of the partitions.
Untouched ==
  /\ CONFIG' = CONFIG /\ partitions' = partitions /\ memory' = memory
  /\ part' \in [Refs -> Partition]
  /\ \A r \in Refs : /\ part'[r].number = part[r].number /\ part'[r].start = part[r].start
                     /\ part'[r].size = part[r].size /\ part'[r].is_free = part[r].is_free
                     /\ part'[r].message = part[r].message
  /\ \A m \in DOMAIN sizes : m \in DOMAIN sizes' /\ sizes'[m] = sizes[m]

\* Then the layout is a layout, the messages have their payloads, and a search finds what it
\* found before.
LEMMA UntouchedKeeps ==
  ASSUME LayoutOK(Layout), Untouched
  PROVE  /\ LayoutOK(Layout)'
         /\ \A r, m : HasPayload(r, m) => HasPayload(r, m)'
         /\ \A j \in 1..(Len(partitions) - 1) : FreeBuddies(Layout, j)' => FreeBuddies(Layout, j)
         /\ \A size : Fitting(size)' = Fitting(size)
         /\ \A r : InList(r)' <=> InList(r)
<1>1. partitions' = partitions /\ memory' = memory /\ CONFIG' = CONFIG
  BY DEF Untouched
<1>2. /\ Layout.list = partitions /\ Layout.heap = part
      /\ Layout'.list = partitions /\ Layout'.heap = part'
  BY <1>1 DEF Layout
<1>3. /\ DOMAIN partitions = 1..Len(partitions) /\ Len(partitions) \in Nat \ {0}
      /\ \A i \in DOMAIN partitions : partitions[i] \in Refs
  BY LayoutIs
<1>4. \A i \in DOMAIN partitions :
        LET x == part[partitions[i]]
            y == part'[partitions[i]]
        IN  /\ y.number = x.number /\ y.start = x.start /\ y.size = x.size
            /\ y.is_free = x.is_free /\ y.message = x.message
  BY <1>3 DEF Untouched
<1>5. part' \in [Refs -> Partition]
  BY DEF Untouched
<1>6. Tiled(Layout') /\ Blocks(Layout')
  <2> PICK s : s = Layout'
    OBVIOUS
  <2>1. s.list = partitions /\ s.heap = part' /\ s = [list |-> partitions, heap |-> part']
    BY <1>1 DEF Layout
  <2>2. s \in Layouts
    BY <1>5, <2>1, LayoutIs DEF Layouts
  <2>3. Tiled(s) /\ Blocks(s)
    BY <2>1, <2>2, SamePlaces DEF Untouched
  <2> QED BY <2>3
<1>7. FreeIsEmpty(Layout')
  BY <1>2, <1>4 DEF LayoutOK, FreeIsEmpty
<1>8. Blocks(Layout)'
  BY <1>1, <1>6 DEF Blocks
<1>9. LayoutOK(Layout)'
  BY <1>6, <1>7, <1>8 DEF LayoutOK, Tiled, FreeIsEmpty
<1>10. \A r : InList(r)' <=> InList(r)
  BY <1>1 DEF InList
<1>11. ASSUME NEW r, NEW m, HasPayload(r, m) PROVE HasPayload(r, m)'
  <2>1. r \in Refs /\ InList(r)'
    BY <1>3, <1>10, <1>11 DEF HasPayload, InList
  <2>2. part'[r].start = part[r].start /\ part'[r].size = part[r].size /\ part'[r].is_free = part[r].is_free
    BY <2>1 DEF Untouched
  <2>3. m \in DOMAIN sizes' /\ sizes'[m] = sizes[m]
    BY <1>11 DEF HasPayload, Untouched
  <2> QED BY <1>1, <1>11, <2>1, <2>2, <2>3 DEF HasPayload, PayloadAt
<1>12. ASSUME NEW j \in 1..(Len(partitions) - 1), FreeBuddies(Layout, j)' PROVE FreeBuddies(Layout, j)
  <2>1. j \in DOMAIN partitions /\ j + 1 \in DOMAIN partitions
    BY <1>3
  <2> QED BY <1>2, <1>4, <1>12, <2>1 DEF FreeBuddies
<1>13. \A size : Fitting(size)' = Fitting(size)
  <2>1. \A r \in ToSet(partitions) : part'[r].is_free = part[r].is_free /\ part'[r].size = part[r].size
    BY <1>4 DEF ToSet
  <2> QED BY <1>1, <2>1 DEF Fitting, ToSet
<1> QED BY <1>9, <1>10, <1>11, <1>12, <1>13

\* ... and the partitions keep their owners, when no publication comes to a partition or
\* leaves one.
LEMMA UntouchedOwners ==
  ASSUME IInv, Untouched, messages_index' = messages_index, location' = location,
         \A p \in Publishers : pc[p] \in {"split", "claim", "register"} =>
           pc'[p] = pc[p] /\ found'[p] = found[p]
  PROVE  LayoutOK(Layout)' /\ Owned' /\ Indexed' /\ BuddiesApart'
<1>1. /\ LayoutOK(Layout)'
      /\ \A r, m : HasPayload(r, m) => HasPayload(r, m)'
      /\ \A j \in 1..(Len(partitions) - 1) : FreeBuddies(Layout, j)' => FreeBuddies(Layout, j)
  BY UntouchedKeeps DEF IInv
<1>2. /\ partitions' = partitions /\ CONFIG' = CONFIG
      /\ \A i \in DOMAIN partitions : partitions[i] \in Refs
  BY LayoutIs DEF Untouched, IInv
<1>3. \A r \in Refs : part'[r].is_free = part[r].is_free /\ part'[r].message = part[r].message
  BY DEF Untouched
<1>4. ASSUME NEW i \in DOMAIN partitions, ~part[partitions[i]].is_free
      PROVE  LET r == partitions[i]
             IN  \/ part'[r].message \in messages_index' /\ location'[part'[r].message] = r
                 \/ part'[r].message = NoMessage /\ \E p \in Publishers : pc'[p] = "register" /\ found'[p] = r
  <2> PICK r : r = partitions[i]
    OBVIOUS
  <2>1. r \in Refs /\ part'[r].message = part[r].message
    BY <1>2, <1>3
  <2>2. CASE part[r].message \in messages_index /\ location[part[r].message] = r
    BY <2>1, <2>2
  <2>3. CASE part[r].message = NoMessage /\ \E p \in Publishers : pc[p] = "register" /\ found[p] = r
    BY <2>1, <2>3
  <2>4. Owned
    BY DEF IInv
  <2> QED BY <1>4, <2>2, <2>3, <2>4 DEF Owned
<1>5. Owned'
  BY <1>2, <1>3, <1>4 DEF Owned
<1>6. ASSUME NEW m \in messages_index PROVE (part[location[m]].message = m /\ HasPayload(location[m], m))'
  <2> PICK r : r = location[m]
    OBVIOUS
  <2>1. part[r].message = m /\ HasPayload(r, m)
    BY DEF IInv, Indexed
  <2>2. r \in Refs
    BY <1>2, <2>1 DEF HasPayload, InList
  <2>3. part'[r].message = m /\ HasPayload(r, m)' /\ location[m]' = r
    BY <1>1, <1>3, <2>1, <2>2
  <2> QED BY <2>3 DEF HasPayload, InList, PayloadAt
<1>7. Indexed'
  BY <1>6 DEF Indexed
<1>8. BuddiesApart'
  <2>1. BuddiesApart
    BY DEF IInv
  <2>2. ASSUME CONFIG.memory_alg = "BUDDY_SYSTEM", NEW j \in 1..(Len(partitions) - 1), FreeBuddies(Layout, j)
        PROVE  \E p \in Publishers : pc'[p] \in {"split", "claim"} /\ found'[p] = partitions[j]
    BY <2>1, <2>2 DEF BuddiesApart
  <2> QED BY <1>1, <1>2, <2>2 DEF BuddiesApart
<1> QED BY <1>1, <1>5, <1>7, <1>8

\* What a publication has found is in the list.
LEMMA FoundInList ==
  ASSUME IInv
  PROVE  FoundIsThere
BY DEF IInv, TypeOK, Publishing, FoundIsThere, HasPayload

-----------------------------------------------------------------------------
(* The steps of a publication *)

\* What a publication asks for.
LEMMA WantedIs ==
  ASSUME IInv, NEW p \in Publishers, pc[p] # "idle"
  PROVE  /\ cur[p] \in DOMAIN sizes /\ cur[p] \in Messages /\ cur[p] \notin messages_index
         /\ sizes[cur[p]] \in Sizes /\ sizes[cur[p]] \in Nat \ {0}
         /\ Wanted(p) \in Nat \ {0} /\ Wanted(p) >= sizes[cur[p]] /\ Wanted(p) <= MemorySize
         /\ CONFIG.memory_alg = "BUDDY_SYSTEM" => \E k \in Nat : Wanted(p) = Power[k]
<1>1. /\ cur[p] \in DOMAIN sizes /\ cur[p] \notin messages_index /\ cur[p] # NoMessage
      /\ Wanted(p) <= MemorySize
  BY DEF IInv, Publishing
<1>2. cur[p] \in Messages /\ sizes[cur[p]] \in Sizes /\ sizes[cur[p]] \in Nat \ {0}
  <2>1. cur[p] \in Messages \cup {NoMessage} /\ sizes \in Seq(Sizes)
    BY DEF IInv, TypeOK
  <2>2. sizes[cur[p]] \in Sizes
    <3>1. sizes \in [1..Len(sizes) -> Sizes] /\ DOMAIN sizes = 1..Len(sizes)
      BY <2>1, LenProperties
    <3> QED BY <1>1, <3>1
  <2> QED BY <1>1, <2>1, <2>2, MemoryAssumption
<1>3. CONFIG \in Configs
  BY DEF IInv, TypeOK
<1> QED BY <1>1, <1>2, <1>3, SizeAsked DEF Wanted

\* A publication begins: it has found nothing yet.
LEMMA PublishKeeps ==
  ASSUME OnePublisher, IInv, UNCHANGED CONFIG, NEW p \in Publishers, Publish(p)
  PROVE  IInv'
<1>1. PICK size \in Sizes :
        /\ sizes' = Append(sizes, size)
        /\ IF PartitionSize(size) <= MemorySize
           THEN cur' = [cur EXCEPT ![p] = Len(sizes')] /\ pc' = [pc EXCEPT ![p] = "search"]
           ELSE UNCHANGED <<cur, pc>>
  BY DEF Publish, Goto
<1>2. /\ ~crashed /\ pc[p] = "idle" /\ Len(sizes) < MaxMessages
      /\ UNCHANGED <<store, messages_index, location, found, failed_searches, delivery, crashed>>
  BY DEF Publish, Running
<1>3. TypeOK
  BY DEF IInv
<1>4. /\ sizes \in Seq(Sizes) /\ sizes' \in Seq(Sizes) /\ Len(sizes') = Len(sizes) + 1
      /\ Len(sizes) \in Nat /\ DOMAIN sizes = 1..Len(sizes) /\ DOMAIN sizes' = 1..Len(sizes')
      /\ sizes'[Len(sizes')] = size
      /\ \A m \in DOMAIN sizes : m \in DOMAIN sizes' /\ sizes'[m] = sizes[m]
  BY <1>1, <1>3, AppendProperties DEF TypeOK
<1>5. Len(sizes') \in Messages /\ Len(sizes') <= MaxMessages
  BY <1>2, <1>4, MemoryAssumption DEF Messages
<1>6. TypeOK'
  <2>1. cur' \in [Publishers -> Messages \cup {NoMessage}]
    BY <1>1, <1>3, <1>5 DEF TypeOK
  <2>2. pc' \in [Publishers -> {"idle", "search", "split", "evict", "check", "compact",
                                 "claim", "register"}]
    BY <1>1, <1>3 DEF TypeOK
  <2> QED BY <1>2, <1>3, <1>4, <1>5, <2>1, <2>2 DEF TypeOK, store, delivery
<1>7. Untouched
  BY <1>2, <1>3, <1>4 DEF Untouched, store, TypeOK
<1>8. LayoutOK(Layout)' /\ Owned' /\ Indexed' /\ BuddiesApart'
  BY <1>1, <1>2, <1>7, UntouchedOwners DEF OnePublisher
<1>9. Publishing(p)'
  <2>0. Publishing(p)
    BY DEF IInv
  <2>1. CASE PartitionSize(size) <= MemorySize
    <3>1. cur'[p] = Len(sizes') /\ pc'[p] = "search" /\ found'[p] = found[p] /\ found[p] = NoRef
      BY <1>1, <1>2, <1>3, <2>0, <2>1 DEF TypeOK, Publishing
    <3>2. cur'[p] \in DOMAIN sizes' /\ cur'[p] # NoMessage
      BY <1>4, <3>1 DEF NoMessage
    <3>3. cur'[p] \notin messages_index'
      <4>1. \A m \in messages_index : m \in DOMAIN sizes
        BY DEF IInv, Indexed, HasPayload
      <4> QED BY <1>2, <1>4, <3>1, <4>1
    <3>4. Wanted(p)' = PartitionSize(size)
      BY <1>4, <3>1 DEF Wanted, PartitionSize
    <3> QED BY <2>1, <3>1, <3>2, <3>3, <3>4 DEF Publishing
  <2>2. CASE ~(PartitionSize(size) <= MemorySize)
    <3>1. UNCHANGED <<cur, pc, found>>
      BY <1>1, <1>2, <2>2
    <3> QED BY <1>2, <2>0, <3>1 DEF Publishing
  <2> QED BY <2>1, <2>2
<1>20. Readers'
  BY <1>2, ReadersKept DEF store
<1> QED BY <1>2, <1>3, <1>6, <1>8, <1>9, <1>20 DEF IInv, OnePublisher

\* A search that finds a partition has one of the list, free, at least of the size wanted.
LEMMA SearchHitKeeps ==
  ASSUME OnePublisher, IInv, UNCHANGED CONFIG, NEW p \in Publishers, SearchHit(p)
  PROVE  IInv'
<1> PICK r : r = ChosenFit(Wanted(p))
  OBVIOUS
<1> PICK label : label = IF part[r].size = Wanted(p) THEN "claim" ELSE "split"
  OBVIOUS
<1>1. /\ ~crashed /\ pc[p] = "search" /\ Fitting(Wanted(p)) # {}
      /\ found' = [found EXCEPT ![p] = r] /\ pc' = [pc EXCEPT ![p] = label]
      /\ UNCHANGED <<store, messages_index, location, sizes, cur, failed_searches, delivery, crashed>>
  BY DEF SearchHit, Running, Goto
<1>2. TypeOK /\ LayoutOK(Layout) /\ Publishing(p)
  BY DEF IInv
<1>3. InList(r) /\ r \in Refs /\ part[r].is_free /\ part[r].size >= Wanted(p)
  BY <1>1, <1>2, ChosenIs
<1>4. part[r].size \in Nat /\ Wanted(p) \in Nat
  <2>1. part[r] \in Partition
    BY <1>2, <1>3 DEF TypeOK
  <2> QED BY <1>1, <2>1, Fields, WantedIs
<1>5. label \in {"claim", "split"} /\ (label = "split" => Wanted(p) < part[r].size)
  BY <1>3, <1>4
<1>6. TypeOK'
  BY <1>1, <1>2, <1>3, <1>5 DEF TypeOK, store, delivery
<1>7. Untouched
  BY <1>1, <1>2 DEF Untouched, store, TypeOK
<1>8. LayoutOK(Layout)' /\ Owned' /\ Indexed' /\ BuddiesApart'
  BY <1>1, <1>7, UntouchedOwners DEF OnePublisher
<1>9. Publishing(p)'
  <2>1. pc'[p] = label /\ found'[p] = r /\ UNCHANGED <<cur, sizes, messages_index, part, partitions>>
    BY <1>1, <1>2 DEF TypeOK, store
  <2>2. InList(r)' /\ Wanted(p)' = Wanted(p)
    BY <1>3, <2>1 DEF InList, Wanted, PartitionSize
  <2> QED BY <1>1, <1>2, <1>3, <1>5, <2>1, <2>2 DEF Publishing
<1>20. Readers'
  BY <1>1, ReadersKept DEF store
<1> QED BY <1>1, <1>6, <1>8, <1>9, <1>20 DEF IInv, OnePublisher

\* A search that finds nothing goes on with an eviction or an association.
LEMMA SearchMissKeeps ==
  ASSUME OnePublisher, IInv, UNCHANGED CONFIG, NEW p \in Publishers, SearchMiss(p)
  PROVE  IInv'
<1> DEFINE buddy == CONFIG.memory_alg = "BUDDY_SYSTEM"
<1>1. /\ ~crashed /\ pc[p] = "search" /\ Fitting(Wanted(p)) = {}
      /\ UNCHANGED <<store, messages_index, location, sizes, cur, found, delivery, crashed>>
  BY DEF SearchMiss, Running
<1>2. TypeOK /\ LayoutOK(Layout) /\ Publishing(p)
  BY DEF IInv
<1>3. \E n \in Nat, label \in {"compact", "evict"} :
        /\ failed_searches' = [failed_searches EXCEPT ![p] = n]
        /\ pc' = [pc EXCEPT ![p] = label]
        /\ label = "compact" => buddy
  <2>1. failed_searches[p] \in Nat
    BY <1>2 DEF TypeOK
  <2>2. CASE buddy
    <3>1. /\ failed_searches' = [failed_searches EXCEPT ![p] = (failed_searches[p] + 1) % 2]
          /\ pc' = [pc EXCEPT ![p] = IF failed_searches[p] + 1 = 1 THEN "compact" ELSE "evict"]
      BY <2>2 DEF SearchMiss, Goto
    <3>2. (failed_searches[p] + 1) % 2 \in Nat
      BY <2>1
    <3> QED BY <2>2, <3>1, <3>2
  <2>3. CASE ~buddy
    <3>1. /\ failed_searches' = [failed_searches EXCEPT ![p] =
                                  IF CONFIG.compacting_freq = -1 THEN 1 ELSE failed_searches[p] + 1]
          /\ pc' = [pc EXCEPT ![p] = "evict"]
      BY <2>3 DEF SearchMiss, Goto
    <3>2. (IF CONFIG.compacting_freq = -1 THEN 1 ELSE failed_searches[p] + 1) \in Nat
      BY <2>1
    <3> QED BY <3>1, <3>2
  <2> QED BY <2>2, <2>3
<1>4. PICK n \in Nat, label \in {"compact", "evict"} :
        /\ failed_searches' = [failed_searches EXCEPT ![p] = n]
        /\ pc' = [pc EXCEPT ![p] = label]
        /\ label = "compact" => buddy
  BY <1>3
<1>5. TypeOK'
  BY <1>1, <1>2, <1>4 DEF TypeOK, store, delivery
<1>6. Untouched
  BY <1>1, <1>2 DEF Untouched, store, TypeOK
<1>7. LayoutOK(Layout)' /\ Owned' /\ Indexed' /\ BuddiesApart'
  BY <1>1, <1>6, UntouchedOwners DEF OnePublisher
<1>8. Publishing(p)'
  <2>1. pc'[p] = label /\ UNCHANGED <<found, cur, sizes, messages_index, part, partitions>>
    BY <1>1, <1>2, <1>4 DEF TypeOK, store
  <2>2. Fitting(Wanted(p))' = Fitting(Wanted(p)) /\ Wanted(p)' = Wanted(p)
    BY <2>1 DEF Fitting, Wanted, PartitionSize, ToSet
  <2> QED BY <1>1, <1>2, <1>4, <2>1, <2>2 DEF Publishing
<1>20. Readers'
  BY <1>1, ReadersKept DEF store
<1> QED BY <1>1, <1>5, <1>7, <1>8, <1>20 DEF IInv, OnePublisher

\* After an eviction the dynamic partitions are searched again.
LEMMA RetryKeeps ==
  ASSUME OnePublisher, IInv, UNCHANGED CONFIG, NEW p \in Publishers, Retry(p)
  PROVE  IInv'
<1>1. /\ ~crashed /\ pc[p] = "check" /\ pc' = [pc EXCEPT ![p] = "search"]
      /\ UNCHANGED <<store, messages_index, location, sizes, cur, found, failed_searches,
                     delivery, crashed>>
  BY DEF Retry, Running, Goto
<1>2. TypeOK /\ LayoutOK(Layout) /\ Publishing(p)
  BY DEF IInv
<1>3. TypeOK'
  BY <1>1, <1>2 DEF TypeOK, store, delivery
<1>4. Untouched
  BY <1>1, <1>2 DEF Untouched, store, TypeOK
<1>5. LayoutOK(Layout)' /\ Owned' /\ Indexed' /\ BuddiesApart'
  BY <1>1, <1>4, UntouchedOwners DEF OnePublisher
<1>6. Publishing(p)'
  <2>1. pc'[p] = "search" /\ UNCHANGED <<found, cur, sizes, messages_index, part, partitions>>
    BY <1>1, <1>2 DEF TypeOK, store
  <2>2. Wanted(p)' = Wanted(p)
    BY <2>1 DEF Wanted, PartitionSize
  <2> QED BY <1>1, <1>2, <2>1, <2>2 DEF Publishing
<1>20. Readers'
  BY <1>1, ReadersKept DEF store
<1> QED BY <1>1, <1>3, <1>5, <1>6, <1>20 DEF IInv, OnePublisher

\* Splitting leaves a layout that differs in free partitions only; the publication has
\* found one of those, at least of the size it wants.
SplitLeaves(p, t, r, label) ==
  /\ t \in Layouts /\ LayoutOK(t) /\ KeepsBut(t, {}) /\ SetLayout(t)
  /\ found' = [found EXCEPT ![p] = r] /\ pc' = [pc EXCEPT ![p] = label]
  /\ r \in Refs /\ t.heap[r].is_free /\ \E i \in DOMAIN t.list : t.list[i] = r
  /\ label \in {"split", "claim"}
  /\ label = "split" => Wanted(p) < t.heap[r].size
  /\ label = "claim" => Wanted(p) <= t.heap[r].size
  /\ CONFIG.memory_alg = "BUDDY_SYSTEM" => \A j \in Buddies(t) : t.list[j] = r

\* A layout with the same occupied partitions keeps every message of the index.
LEMMA KeepsAll ==
  ASSUME NEW t, SameOccupied(Layout, t)
  PROVE  KeepsBut(t, {})
<1>1. \A r : OccupiedIn(Layout, r) => Layout.heap[r] = part[r]
  BY DEF Layout
<1> QED BY <1>1 DEF SameOccupied, KeepsBut, SameUse

\* A split of a dynamic partition leaves the lower half, of just the size that was asked for.
LEMMA DynamicSplitLeaves ==
  ASSUME IInv, NEW p \in Publishers, Split(p), CONFIG.memory_alg # "BUDDY_SYSTEM"
  PROVE  \E t, r, label : SplitLeaves(p, t, r, label)
<1> PICK r : r = found[p]
  OBVIOUS
<1> PICK t : t = SplitPartition(r, Wanted(p))
  OBVIOUS
<1> PICK rest : rest = NewRef({})
  OBVIOUS
<1> PICK size : size = Wanted(p)
  OBVIOUS
<1>1. pc[p] = "split" /\ SetLayout(t) /\ pc' = [pc EXCEPT ![p] = "claim"] /\ found' = found
  BY DEF Split, Running, Goto
<1>2. /\ TypeOK /\ LayoutOK(Layout) /\ FoundIsThere /\ InList(r) /\ part[r].is_free
      /\ size < part[r].size
  BY <1>1, FoundInList DEF IInv, Publishing
<1>3. size \in Nat \ {0}
  BY <1>1, WantedIs
<1> PICK i : i = part[r].number + 1
  OBVIOUS
<1>4. IsSplit(Layout, t, i, r, rest, size)
  BY <1>2, <1>3, SplitPartitionIs DEF TypeOK
<1>5. i \in 1..Len(Layout.list) /\ Layout.list[i] = r /\ Layout.heap = part /\ r \in Refs
  BY <1>2, PlaceFound DEF Layout, LayoutOK
<1>6. Tiled(t) /\ FreeIsEmpty(t) /\ SameOccupied(Layout, t)
  BY <1>2, <1>3, <1>4, <1>5, SplitTiles DEF LayoutOK
<1>7. LayoutOK(t) /\ KeepsBut(t, {})
  BY <1>6, KeepsAll DEF LayoutOK, Blocks
<1>8. /\ t \in Layouts /\ t.list[i] = r /\ Len(t.list) = Len(Layout.list) + 1
      /\ t.heap[r].is_free /\ t.heap[r].size = size
  BY <1>4 DEF IsSplit
<1>9. i \in DOMAIN t.list
  <2>1. DOMAIN t.list = 1..Len(t.list) /\ Len(t.list) \in Nat
    BY <1>6, TiledInOrder
  <2>2. Len(Layout.list) \in Nat
    BY <1>2, TiledInOrder DEF LayoutOK
  <2> QED BY <1>5, <1>8, <2>1, <2>2
<1>10. found' = [found EXCEPT ![p] = r]
  BY <1>1, <1>2 DEF TypeOK
<1>11. SplitLeaves(p, t, r, "claim")
  <2>1. Wanted(p) <= t.heap[r].size
    BY <1>3, <1>8
  <2>2. \E j \in DOMAIN t.list : t.list[j] = r
    BY <1>8, <1>9
  <2> QED BY <1>1, <1>5, <1>7, <1>8, <1>10, <2>1, <2>2 DEF SplitLeaves
<1> QED BY <1>11

\* A split into buddies leaves one of the two new halves, to be split again or claimed.
LEMMA BuddySplitLeaves ==
  ASSUME OnePublisher, IInv, NEW p \in Publishers, Split(p), CONFIG.memory_alg = "BUDDY_SYSTEM"
  PROVE  \E t, r, label : SplitLeaves(p, t, r, label)
<1> PICK r : r = found[p]
  OBVIOUS
<1> PICK low : low = NewRef({})
  OBVIOUS
<1> PICK high : high = NewRef({low})
  OBVIOUS
<1> PICK t : t = bs_split_partition(r, low, high)
  OBVIOUS
<1> PICK label : label = IF t.heap[low].size > Wanted(p) THEN "split" ELSE "claim"
  OBVIOUS
<1>1. /\ pc[p] = "split" /\ SetLayout(t) /\ pc' = [pc EXCEPT ![p] = label]
      /\ found' = [found EXCEPT ![p] = low]
  BY DEF Split, Running, Goto, SetLayout
<1>2. /\ TypeOK /\ LayoutOK(Layout) /\ FoundIsThere /\ InList(r) /\ part[r].is_free
      /\ Wanted(p) < part[r].size
  BY <1>1, FoundInList DEF IInv, Publishing
<1> PICK i : i = part[r].number + 1
  OBVIOUS
<1>3. /\ i \in 1..Len(partitions) /\ partitions[i] = r /\ r \in Refs
      /\ \A j, k \in 1..Len(partitions) : partitions[j] = partitions[k] => j = k
      /\ Len(partitions) \in Nat
  BY <1>2, PlaceFound, LayoutIs DEF LayoutOK
<1>4. PICK e \in Nat \ {0} : part[r].size = Power[e] /\ Power[e - 1] >= Wanted(p)
  <2>1. PICK e \in 0..MemorySize : part[r].size = Power[e]
    BY <1>2, <1>3 DEF LayoutOK, Blocks, Block, Layout
  <2>2. e \in Nat
    BY MemoryAssumption
  <2>3. PICK k \in Nat : Wanted(p) = Power[k]
    BY <1>1, WantedIs
  <2>4. e > 0 /\ Power[e - 1] >= Power[k]
    BY <1>2, <2>1, <2>2, <2>3, PowersDouble
  <2> QED BY <2>1, <2>2, <2>3, <2>4
<1>5. Buddies(Layout) \subseteq {i}
  <2>1. ASSUME NEW j \in 1..(Len(partitions) - 1), FreeBuddies(Layout, j) PROVE j = i
    <3>1. partitions[j] = r
      BY <2>1 DEF IInv, BuddiesApart, OnePublisher
    <3>2. j \in 1..Len(partitions)
      BY <1>3
    <3> QED BY <1>3, <3>1, <3>2
  <2> QED BY <2>1 DEF Buddies, Layout
<1>6. /\ t \in Layouts /\ LayoutOK(t) /\ SameOccupied(Layout, t)
      /\ i \in DOMAIN t.list /\ t.list[i] = low
      /\ t.heap[low].is_free /\ t.heap[low].size = Power[e - 1]
      /\ Buddies(t) \subseteq {i}
  <2>1. location \in [Messages -> Refs \cup {NoRef}]
    BY <1>2 DEF TypeOK
  <2> QED BY <1>2, <1>4, <1>5, <2>1, BuddySplitOK
<1>7. low \in Refs
  <2>1. t.list \in Seq(Refs)
    BY <1>6 DEF Layouts
  <2> QED BY <1>6, <2>1
<1>8. KeepsBut(t, {})
  BY <1>6, KeepsAll
<1>9. label \in {"split", "claim"} /\ (label = "split" => Wanted(p) < t.heap[low].size)
      /\ (label = "claim" => Wanted(p) <= t.heap[low].size)
  <2>1. Power[e - 1] \in Nat /\ Wanted(p) \in Nat
    BY <1>1, <1>4, Powers, WantedIs
  <2> QED BY <1>4, <1>6, <2>1
<1>10. \A j \in Buddies(t) : t.list[j] = low
  BY <1>6
<1>11. SplitLeaves(p, t, low, label)
  <2>1. \E j \in DOMAIN t.list : t.list[j] = low
    BY <1>6
  <2> QED BY <1>1, <1>6, <1>7, <1>8, <1>9, <1>10, <2>1 DEF SplitLeaves
<1> QED BY <1>11

\* A split keeps what is occupied, and what is found stays free.
LEMMA SplitKeeps ==
  ASSUME OnePublisher, IInv, UNCHANGED CONFIG, NEW p \in Publishers, Split(p)
  PROVE  IInv' /\ OccupiedKept({})
<1>1. PICK t, r, label : SplitLeaves(p, t, r, label)
  BY DynamicSplitLeaves, BuddySplitLeaves
<1>2. /\ ~crashed /\ pc[p] = "split"
      /\ UNCHANGED <<memory, time_counter, messages_index, location, sizes, cur, failed_searches,
                     delivery, crashed>>
  BY DEF Split, Running
<1>3. TypeOK /\ LayoutOK(Layout) /\ Publishing(p) /\ Owned /\ Indexed
  BY DEF IInv
<1>4. /\ t \in Layouts /\ LayoutOK(t) /\ KeepsBut(t, {}) /\ SetLayout(t)
      /\ found' = [found EXCEPT ![p] = r] /\ pc' = [pc EXCEPT ![p] = label]
      /\ r \in Refs /\ label \in {"split", "claim"}
  BY <1>1 DEF SplitLeaves
<1>5. /\ LayoutOK(Layout)' /\ partitions' \in Seq(Refs) /\ part' \in [Refs -> Partition]
      /\ IsInjective(partitions')
      /\ \A q : InList(q)' <=> \E i \in DOMAIN t.list : t.list[i] = q
  BY <1>4, LayoutReplaced
<1>6. TypeOK'
  BY <1>2, <1>3, <1>4, <1>5 DEF TypeOK, delivery
<1>7. OccupiedKept({})
  BY <1>2, <1>3, <1>4, PartitionsKept
<1>8. Owned' /\ Indexed'
  <2>2. messages_index' = messages_index \ {part[q].message : q \in {}}
    BY <1>2
  <2>3. \A q \in Publishers : pc[q] # "register"
    BY <1>2 DEF OnePublisher
  <2> QED BY <1>2, <1>3, <1>7, <2>2, <2>3, MessagesKept
<1>9. part' = t.heap /\ partitions' = t.list
  BY <1>4 DEF SetLayout
<1>10. BuddiesApart'
  <2>1. ASSUME CONFIG.memory_alg = "BUDDY_SYSTEM", NEW j \in 1..(Len(partitions') - 1), FreeBuddies(Layout, j)'
        PROVE  pc'[p] \in {"split", "claim"} /\ found'[p] = partitions'[j]
    <3>1. FreeBuddies(t, j)
      BY <1>9, <2>1 DEF FreeBuddies, Layout
    <3>2. t.list[j] = r
      BY <1>1, <1>9, <2>1, <3>1 DEF SplitLeaves, Buddies
    <3> QED BY <1>3, <1>4, <1>9, <3>2 DEF TypeOK
  <2> QED BY <2>1 DEF BuddiesApart
<1>11. Publishing(p)'
  <2>1. pc'[p] = label /\ found'[p] = r /\ UNCHANGED <<cur, sizes, messages_index>>
    BY <1>2, <1>3, <1>4 DEF TypeOK
  <2>2. Wanted(p)' = Wanted(p)
    BY <2>1 DEF Wanted, PartitionSize
  <2>3. InList(r)' /\ part'[r].is_free
    BY <1>1, <1>5, <1>9 DEF SplitLeaves
  <2>4. /\ label = "split" => Wanted(p) < part'[r].size
        /\ label = "claim" => Wanted(p) <= part'[r].size
    BY <1>1, <1>9 DEF SplitLeaves
  <2> QED BY <1>2, <1>3, <1>4, <2>1, <2>2, <2>3, <2>4 DEF Publishing
<1>20. Readers'
  BY <1>2, <1>5, <1>7, <1>8, ReadersMoved
<1> QED BY <1>2, <1>5, <1>6, <1>8, <1>10, <1>11, <1>7, <1>20 DEF IInv, OnePublisher

\* The evicted partition becomes a free one, in its place.
LEMMA ReleasedOK ==
  ASSUME LayoutOK(Layout), NEW r, OccupiedIn(Layout, r)
  PROVE  Released(r) \in Layouts /\ LayoutOK(Released(r)) /\ KeepsBut(Released(r), {r})
<1> DEFINE emptied == [part[r] EXCEPT !.message = NoMessage]
           x == [emptied EXCEPT !.is_free = TRUE]
           silent == [part EXCEPT ![r] = emptied]
           heap == [silent EXCEPT ![r] = x]
<1>1. PICK i \in 1..Len(partitions) : partitions[i] = r
  BY LayoutIs DEF OccupiedIn, Layout
<1>2. /\ Len(partitions) \in Nat \ {0} /\ DOMAIN partitions = 1..Len(partitions)
      /\ partitions \in Seq(Refs) /\ part \in [Refs -> Partition]
      /\ r \in Refs /\ part[r] \in Partition
      /\ \A j \in 1..Len(partitions) : partitions[j] \in Refs
  BY <1>1, LayoutIs
<1>3. Released(r) = [list |-> partitions, heap |-> heap]
  <2>1. silent[r] = emptied
    BY <1>2
  <2>2. Released(r) = [list |-> partitions, heap |-> [silent EXCEPT ![r].is_free = TRUE]]
    BY DEF Released
  <2> HIDE DEF silent, emptied
  <2>3. [silent EXCEPT ![r].is_free = TRUE] = heap
    BY <2>1
  <2> HIDE DEF heap
  <2> QED BY <2>2, <2>3
<1>4. /\ x \in Partition /\ x.is_free /\ x.message = NoMessage
      /\ x.number = part[r].number /\ x.start = part[r].start /\ x.size = part[r].size
  BY <1>2 DEF Partition
<1> HIDE DEF x, emptied
<1>5. /\ heap \in [Refs -> Partition] /\ heap[r] = x
      /\ \A q \in Refs : q # r => heap[q] = part[q]
  BY <1>2, <1>4
<1> HIDE DEF heap
<1> PICK s : s = Released(r)
  OBVIOUS
<1>6. s.list = partitions /\ s.heap = heap /\ s \in Layouts
  BY <1>2, <1>3, <1>5 DEF Layouts
<1>7. \A q \in Refs : /\ heap[q].number = part[q].number /\ heap[q].start = part[q].start
                      /\ heap[q].size = part[q].size
  BY <1>4, <1>5
<1>8. Tiled(s) /\ Blocks(s)
  BY <1>6, <1>7, SamePlaces
<1>9. FreeIsEmpty(s)
  BY <1>2, <1>4, <1>5, <1>6 DEF LayoutOK, FreeIsEmpty, Layout
<1>10. KeepsBut(s, {r})
  BY <1>4, <1>5, <1>6 DEF KeepsBut, OccupiedIn, Layout, SameUse
<1> QED BY <1>6, <1>8, <1>9, <1>10 DEF LayoutOK

\* What a layout keeps, one with the same occupied partitions keeps too.
LEMMA KeepsStill ==
  ASSUME NEW X, NEW s, KeepsBut(s, X), NEW t, SameOccupied(s, t)
  PROVE  KeepsBut(t, X)
BY DEF KeepsBut, SameOccupied, SameUse

\* What merges the free partitions after an eviction keeps the others.
LEMMA EvictedOK ==
  ASSUME CONFIG \in Configs, LayoutOK(Layout), NEW r, OccupiedIn(Layout, r),
         NEW t, t = IF CONFIG.memory_alg = "BUDDY_SYSTEM" THEN Associate(Released(r))
                                                          ELSE Consolidate(Released(r))
  PROVE  /\ t \in Layouts /\ LayoutOK(t) /\ KeepsBut(t, {r})
         /\ CONFIG.memory_alg = "BUDDY_SYSTEM" => Buddies(t) = {}
<1> PICK s : s = Released(r)
  OBVIOUS
<1>1. s \in Layouts /\ LayoutOK(s) /\ KeepsBut(s, {r})
  BY ReleasedOK
<1>2. /\ t \in Layouts /\ LayoutOK(t) /\ SameOccupied(s, t)
      /\ CONFIG.memory_alg = "BUDDY_SYSTEM" => Buddies(t) = {}
  <2>1. CASE CONFIG.memory_alg = "BUDDY_SYSTEM"
    BY <1>1, <2>1, AssociateOK
  <2>2. CASE CONFIG.memory_alg # "BUDDY_SYSTEM"
    BY <1>1, <2>2, ConsolidateOK
  <2> QED BY <2>1, <2>2
<1> QED BY <1>1, <1>2, KeepsStill

\* When no buddies are free none are apart.
LEMMA NoBuddiesApart ==
  ASSUME CONFIG' = CONFIG, NEW t, CONFIG.memory_alg = "BUDDY_SYSTEM" => Buddies(t) = {}, SetLayout(t)
  PROVE  BuddiesApart'
<1>1. part' = t.heap /\ partitions' = t.list
  BY DEF SetLayout
<1> SUFFICES ASSUME CONFIG.memory_alg = "BUDDY_SYSTEM", NEW j \in 1..(Len(partitions') - 1),
                    FreeBuddies(Layout, j)'
             PROVE  FALSE
  BY DEF BuddiesApart
<1>2. FreeBuddies(t, j)
  BY <1>1 DEF FreeBuddies, Layout
<1> QED BY <1>1, <1>2 DEF Buddies

\* The victim at i is gone from the layout t, and its message from the index; the other
\* occupied partitions are as they were.
EvictLeaves(i, t) ==
  LET r == partitions[i]
  IN  /\ i \in DOMAIN partitions /\ IsVictim(i) /\ OccupiedIn(Layout, r) /\ SetLayout(t)
      /\ messages_index' = messages_index \ {part[r].message}
      /\ t \in Layouts /\ LayoutOK(t) /\ KeepsBut(t, {r})
      /\ CONFIG.memory_alg = "BUDDY_SYSTEM" => Buddies(t) = {}

Evicted(i) == i \in DOMAIN partitions /\ IsVictim(i) /\ OccupiedKept({partitions[i]})

\* An eviction takes one message out of the index, with its partition.
LEMMA EvictKeeps ==
  ASSUME OnePublisher, IInv, UNCHANGED CONFIG, NEW p \in Publishers, Evict(p)
  PROVE  IInv' /\ (UNCHANGED <<partitions, part>> \/ \E i : Evicted(i))
<1> PICK label : label = IF CONFIG.memory_alg = "BUDDY_SYSTEM" THEN "search" ELSE "check"
  OBVIOUS
<1>1. /\ ~crashed /\ pc[p] = "evict" /\ pc' = [pc EXCEPT ![p] = label]
      /\ UNCHANGED <<memory, time_counter, location, sizes, cur, found, failed_searches, delivery>>
  BY DEF Evict, Running, Goto
<1>2. TypeOK /\ LayoutOK(Layout) /\ Publishing(p) /\ Owned /\ Indexed
  BY DEF IInv
<1>3. \A q \in Publishers : pc[q] # "register"
  BY <1>1 DEF OnePublisher
<1>4. label \in {"search", "check"} /\ (label = "check" => CONFIG.memory_alg = "PARTITIONS")
  BY <1>2, MemoryAssumption DEF TypeOK
<1>5. \/ UNCHANGED <<partitions, part, messages_index, crashed>>
      \/ \E i, t : EvictLeaves(i, t) /\ crashed' = crashed
  <2>1. CASE \E i \in DOMAIN partitions : IsVictim(i)
    <3>1. PICK i : i \in DOMAIN partitions /\ IsVictim(i) /\ free_memory_partition(partitions[i])
      BY <2>1 DEF Evict
    <3> PICK r : r = partitions[i]
      OBVIOUS
    <3>2. ~part[r].is_free /\ OccupiedIn(Layout, r)
      BY <3>1 DEF IsVictim, OccupiedIn, Layout
    <3>3. part[r].message # NoMessage
      <4>1. part[r].message \in messages_index
        BY <1>2, <1>3, <3>1, <3>2 DEF Owned
      <4>2. messages_index \subseteq Messages /\ NoMessage \notin Messages
        BY <1>2 DEF TypeOK, Messages, NoMessage
      <4> QED BY <4>1, <4>2
    <3> PICK t : t = IF CONFIG.memory_alg = "BUDDY_SYSTEM" THEN Associate(Released(r))
                                                           ELSE Consolidate(Released(r))
      OBVIOUS
    <3>4. messages_index' = messages_index \ {part[r].message} /\ SetLayout(t) /\ crashed' = crashed
      BY <3>1, <3>3 DEF free_memory_partition
    <3>5. /\ t \in Layouts /\ LayoutOK(t) /\ KeepsBut(t, {r})
          /\ CONFIG.memory_alg = "BUDDY_SYSTEM" => Buddies(t) = {}
      <4>1. CONFIG \in Configs
        BY <1>2 DEF TypeOK
      <4> QED BY <1>2, <3>2, <4>1, EvictedOK
    <3> QED BY <3>1, <3>2, <3>4, <3>5 DEF EvictLeaves
  <2>2. CASE ~(\E i \in DOMAIN partitions : IsVictim(i))
    BY <2>2 DEF Evict
  <2> QED BY <2>1, <2>2
<1>6. ASSUME crashed' = crashed, LayoutOK(Layout)', IsInjective(partitions'), partitions' \in Seq(Refs),
             part' \in [Refs -> Partition], messages_index' \subseteq messages_index,
             Owned', Indexed', BuddiesApart', Readers'
      PROVE  IInv'
  <2>1. TypeOK'
    BY <1>1, <1>2, <1>4, <1>6 DEF TypeOK, delivery
  <2>2. Publishing(p)'
    <3>1. pc'[p] = label /\ UNCHANGED <<found, cur, sizes>>
      BY <1>1, <1>2 DEF TypeOK
    <3>2. Wanted(p)' = Wanted(p)
      BY <3>1 DEF Wanted, PartitionSize
    <3> QED BY <1>1, <1>2, <1>4, <1>6, <3>1, <3>2 DEF Publishing
  <2> QED BY <1>6, <2>1, <2>2 DEF IInv, OnePublisher
<1>7. CASE UNCHANGED <<partitions, part, messages_index, crashed>>
  <2>1. Untouched
    BY <1>1, <1>2, <1>7 DEF Untouched, TypeOK
  <2>2. LayoutOK(Layout)' /\ Owned' /\ Indexed' /\ BuddiesApart'
    BY <1>1, <1>7, <2>1, UntouchedOwners DEF OnePublisher
  <2>3. Readers'
    BY <1>1, <1>7, ReadersKept
  <2> QED BY <1>1, <1>2, <1>6, <1>7, <2>2, <2>3 DEF TypeOK
<1>8. CASE \E i, t : EvictLeaves(i, t) /\ crashed' = crashed
  <2> PICK i, t : EvictLeaves(i, t) /\ crashed' = crashed
    BY <1>8
  <2> PICK r : r = partitions[i]
    OBVIOUS
  <2>1. /\ i \in DOMAIN partitions /\ IsVictim(i) /\ OccupiedIn(Layout, r) /\ SetLayout(t)
        /\ messages_index' = messages_index \ {part[r].message}
        /\ t \in Layouts /\ LayoutOK(t) /\ KeepsBut(t, {r})
        /\ CONFIG.memory_alg = "BUDDY_SYSTEM" => Buddies(t) = {}
    BY DEF EvictLeaves
  <2>2. /\ LayoutOK(Layout)' /\ partitions' \in Seq(Refs) /\ part' \in [Refs -> Partition]
        /\ IsInjective(partitions')
    BY <2>1, LayoutReplaced
  <2>3. OccupiedKept({r})
    BY <1>1, <1>2, <2>1, PartitionsKept
  <2>4. messages_index' = messages_index \ {part[q].message : q \in {r}}
    BY <2>1
  <2>5. Owned' /\ Indexed'
    BY <1>1, <1>2, <1>3, <2>1, <2>3, <2>4, MessagesKept
  <2>6. BuddiesApart'
    BY <2>1, NoBuddiesApart
  <2>7. Evicted(i)
    BY <2>1, <2>3 DEF Evicted
  <2>8. Readers'
    BY <1>1, <2>1, <2>2, <2>3, <2>5, ReadersMoved
  <2> QED BY <1>1, <1>6, <2>1, <2>2, <2>5, <2>6, <2>7, <2>8
<1> QED BY <1>5, <1>7, <1>8

\* The association before the second search merges free partitions only.
LEMMA AssociateBuddiesKeeps ==
  ASSUME OnePublisher, IInv, UNCHANGED CONFIG, NEW p \in Publishers, AssociateBuddies(p)
  PROVE  IInv' /\ OccupiedKept({})
<1> PICK t : t = Associate(Layout)
  OBVIOUS
<1>1. /\ ~crashed /\ pc[p] = "compact" /\ pc' = [pc EXCEPT ![p] = "search"] /\ SetLayout(t)
      /\ UNCHANGED <<memory, time_counter, messages_index, location, sizes, cur, found,
                     failed_searches, delivery, crashed>>
  BY DEF AssociateBuddies, Running, Goto
<1>2. TypeOK /\ LayoutOK(Layout) /\ Publishing(p) /\ Owned /\ Indexed
  BY DEF IInv
<1>3. t \in Layouts /\ LayoutOK(t) /\ KeepsBut(t, {}) /\ Buddies(t) = {}
  <2>1. Layout \in Layouts
    BY <1>2, LayoutIs DEF Layout, Layouts
  <2>2. CONFIG.memory_alg = "BUDDY_SYSTEM"
    BY <1>1, <1>2 DEF Publishing
  <2> QED BY <1>2, <2>1, <2>2, AssociateOK, KeepsAll
<1>4. /\ LayoutOK(Layout)' /\ partitions' \in Seq(Refs) /\ part' \in [Refs -> Partition]
      /\ IsInjective(partitions')
  BY <1>1, <1>3, LayoutReplaced
<1>5. TypeOK'
  BY <1>1, <1>2, <1>4 DEF TypeOK, delivery
<1>6. OccupiedKept({})
  BY <1>1, <1>2, <1>3, PartitionsKept
<1>7. Owned' /\ Indexed'
  <2>2. messages_index' = messages_index \ {part[q].message : q \in {}}
    BY <1>1
  <2>3. \A q \in Publishers : pc[q] # "register"
    BY <1>1 DEF OnePublisher
  <2> QED BY <1>1, <1>2, <1>6, <2>2, <2>3, MessagesKept
<1>8. BuddiesApart'
  BY <1>1, <1>3, NoBuddiesApart
<1>9. Publishing(p)'
  <2>1. pc'[p] = "search" /\ UNCHANGED <<found, cur, sizes, messages_index>>
    BY <1>1, <1>2 DEF TypeOK
  <2>2. Wanted(p)' = Wanted(p)
    BY <2>1 DEF Wanted, PartitionSize
  <2> QED BY <1>1, <1>2, <2>1, <2>2 DEF Publishing
<1>20. Readers'
  BY <1>1, <1>4, <1>6, <1>7, ReadersMoved
<1> QED BY <1>1, <1>4, <1>5, <1>7, <1>8, <1>9, <1>6, <1>20 DEF IInv, OnePublisher

\* When the occupied partitions slide down with their bytes, so do the messages.
LEMMA CompactedKept ==
  ASSUME CONFIG' = CONFIG, sizes' = sizes, LayoutOK(Layout), memory \in [Addresses -> Bytes],
         memory' = CompactedMemory, NEW t \in Layouts, LayoutOK(t), Moved(t), SetLayout(t),
         sizes \in Seq(Sizes), CONFIG.memory_alg = "PARTITIONS"
  PROVE  OccupiedKept({})
<1>1. partitions' = t.list /\ part' = t.heap /\ \A r : OccupiedIn(Layout, r)' <=> OccupiedIn(t, r)
  BY LayoutReplaced DEF SetLayout
<1>2. \A r : OccupiedIn(Layout, r) <=> InList(r) /\ ~part[r].is_free
  BY DEF OccupiedIn, InList, Layout
<1>3. \A r : OccupiedIn(t, r) <=> InList(r)' /\ ~part'[r].is_free
  BY <1>1 DEF OccupiedIn, InList
<1>4. \A r : InList(r) => r \in Refs
  BY LayoutIs DEF InList
<1>5. \A r : InList(r)' => r \in Refs
  <2>1. partitions' \in Seq(Refs)
    BY <1>1 DEF Layouts
  <2> QED BY <2>1 DEF InList
<1>6. ASSUME NEW r, NEW m, HasPayload(r, m)
      PROVE  HasPayload(r, m)' /\ SameUse(part'[r], part[r])
  <2>1. r \in Refs /\ OccupiedIn(Layout, r) /\ m \in DOMAIN sizes /\ sizes[m] <= part[r].size
    BY <1>2, <1>4, <1>6 DEF HasPayload
  <2>2. /\ OccupiedIn(t, r) /\ part'[r].size = part[r].size /\ SameUse(part'[r], part[r])
        /\ \E i \in Places(FALSE) : partitions[i] = r /\ part'[r].start = LastPtr(i)
    BY <1>1, <2>1 DEF Moved
  <2>3. PICK i \in Places(FALSE) : partitions[i] = r /\ part'[r].start = LastPtr(i)
    BY <2>2
  <2>4. InList(r)' /\ ~part'[r].is_free
    BY <1>3, <2>2
  <2>5. ASSUME NEW k \in 0..(sizes[m] - 1)
        PROVE  LastPtr(i) + k \in Addresses /\ memory'[LastPtr(i) + k] = <<m, k>>
    <3>1. sizes[m] \in Nat
      <4>1. sizes \in [1..Len(sizes) -> Sizes] /\ DOMAIN sizes = 1..Len(sizes)
        BY LenProperties
      <4> QED BY <2>1, <4>1, MemoryAssumption
    <3>2. part[r].size \in Nat
      BY <2>1, LayoutIs, Fields
    <3>3. k \in 0..(part[r].size - 1)
      BY <2>1, <3>1, <3>2
    <3>4. LastPtr(i) + k \in Addresses /\ memory'[LastPtr(i) + k] = memory[part[r].start + k]
      BY <2>3, <3>3, CompactedBytes
    <3>5. memory[part[r].start + k] = <<m, k>>
      BY <1>6 DEF HasPayload, PayloadAt
    <3> QED BY <3>4, <3>5
  <2>6. \A k \in 0..(sizes'[m] - 1) :
          part'[r].start + k \in Addresses /\ memory'[part'[r].start + k] = <<m, k>>
    BY <2>3, <2>5
  <2> QED BY <2>1, <2>2, <2>4, <2>6 DEF HasPayload, PayloadAt
<1>7. ASSUME NEW r, OccupiedIn(Layout, r)'
      PROVE  OccupiedIn(Layout, r) /\ SameUse(part'[r], part[r]) /\ StaysOrSlides(r)
  <2>1. OccupiedIn(t, r) /\ r \in Refs
    BY <1>1, <1>3, <1>5, <1>7
  <2>2. /\ OccupiedIn(Layout, r) /\ SameUse(part'[r], part[r])
        /\ \E i \in Places(FALSE) : partitions[i] = r /\ part'[r].start = LastPtr(i)
    BY <1>1, <2>1 DEF Moved
  <2>3. PICK i \in Places(FALSE) : partitions[i] = r /\ part'[r].start = LastPtr(i)
    BY <2>2
  <2>4. i \in 1..Len(partitions)
    BY LayoutIs DEF Places
  <2>5. LastPtr(i) <= part[r].start
    BY <2>3, <2>4, SizesAddUp DEF LastPtr
  <2> QED BY <2>2, <2>3, <2>5 DEF StaysOrSlides
<1>8. ASSUME NEW r, OccupiedIn(Layout, r) PROVE OccupiedIn(Layout, r)'
  <2>1. r \in Refs
    BY <1>2, <1>4, <1>8
  <2> QED BY <1>1, <1>8, <2>1 DEF Moved
<1> QED BY <1>6, <1>7, <1>8 DEF OccupiedKept

\* A compaction moves the occupied partitions together with their bytes.
LEMMA CompactKeeps ==
  ASSUME OnePublisher, IInv, UNCHANGED CONFIG, NEW p \in Publishers, Compact(p)
  PROVE  IInv' /\ OccupiedKept({})
<1> PICK t : t = Compacted
  OBVIOUS
<1>1. /\ ~crashed /\ pc[p] = "check" /\ SetLayout(t) /\ memory' = CompactedMemory
      /\ UNCHANGED <<time_counter, messages_index, location, sizes, pc, cur, found, delivery, crashed>>
  BY DEF Compact, Running
<1>2. TypeOK /\ LayoutOK(Layout) /\ Publishing(p) /\ Owned /\ Indexed
  BY DEF IInv
<1>3. CONFIG.memory_alg = "PARTITIONS" /\ CONFIG.memory_alg # "BUDDY_SYSTEM"
  BY <1>1, <1>2 DEF Publishing
<1>4. t \in Layouts /\ LayoutOK(t) /\ Moved(t)
  BY <1>2, <1>3, FoundInList, CompactedOK DEF TypeOK
<1>5. /\ LayoutOK(Layout)' /\ partitions' \in Seq(Refs) /\ part' \in [Refs -> Partition]
      /\ IsInjective(partitions')
  BY <1>1, <1>4, LayoutReplaced
<1>6. memory \in [Addresses -> Bytes] /\ memory' \in [Addresses -> Bytes]
  <2>1. memory \in [Addresses -> Bytes]
    BY <1>2 DEF TypeOK, Bytes
  <2> QED BY <1>1, <1>2, <2>1, CompactedBytes
<1>7. failed_searches' \in [Publishers -> Nat]
  BY <1>2 DEF Compact, TypeOK
<1>8. TypeOK'
  BY <1>1, <1>2, <1>5, <1>6, <1>7 DEF TypeOK, delivery, Bytes
<1>9. OccupiedKept({})
  BY <1>1, <1>2, <1>3, <1>4, <1>6, CompactedKept DEF TypeOK
<1>10. Owned' /\ Indexed'
  <2>2. messages_index' = messages_index \ {part[q].message : q \in {}}
    BY <1>1
  <2>3. \A q \in Publishers : pc[q] # "register"
    BY <1>1 DEF OnePublisher
  <2> QED BY <1>1, <1>2, <1>9, <2>2, <2>3, MessagesKept
<1>11. BuddiesApart'
  BY <1>1, <1>3, NoBuddiesApart
<1>12. Publishing(p)'
  <2>1. Wanted(p)' = Wanted(p)
    BY <1>1 DEF Wanted, PartitionSize
  <2> QED BY <1>1, <1>2, <2>1 DEF Publishing
<1>20. Readers'
  BY <1>1, <1>5, <1>9, <1>10, ReadersMoved
<1> QED BY <1>1, <1>5, <1>8, <1>10, <1>11, <1>12, <1>9, <1>20 DEF IInv, OnePublisher

\* A partition that is free is not that of a message.
LEMMA OthersApart ==
  ASSUME LayoutOK(Layout), NEW q, InList(q), NEW r, InList(r), q # r
  PROVE  \/ part[q].start + part[q].size <= part[r].start
         \/ part[r].start + part[r].size <= part[q].start
<1>1. PICK i \in 1..Len(partitions), j \in 1..Len(partitions) : partitions[i] = q /\ partitions[j] = r
  BY LayoutIs DEF InList
<1>2. i < j \/ j < i
  <2>1. i # j
    BY <1>1
  <2> QED BY <2>1
<1>3. \A k \in 1..Len(partitions), l \in 1..Len(partitions) : l < k =>
        part[partitions[l]].start + part[partitions[l]].size <= part[partitions[k]].start
  BY TiledInOrder DEF LayoutOK, Layout
<1> QED BY <1>1, <1>2, <1>3

\* A free partition is occupied now, the others as they were.
Claimed(r) ==
  /\ r \in Refs /\ InList(r) /\ part[r].is_free /\ ~part'[r].is_free
  /\ part'[r].message = NoMessage
  /\ part'[r].entry_time = time_counter + 1 /\ part'[r].access_time = time_counter + 1
  /\ \A q \in Refs : q # r => part'[q] = part[q]

\* The partition that is claimed is still free, and of the size: the payload goes there and
\* no other message loses a byte.
LEMMA ClaimKeeps ==
  ASSUME OnePublisher, IInv, UNCHANGED CONFIG, NEW p \in Publishers, Claim(p)
  PROVE  IInv' /\ Claimed(found[p])
<1> PICK r : r = found[p]
  OBVIOUS
<1> PICK m : m = cur[p]
  OBVIOUS
<1> PICK start : start = part[r].start
  OBVIOUS
<1> PICK now : now = time_counter + 1
  OBVIOUS
<1>1. /\ ~crashed /\ pc[p] = "claim" /\ pc' = [pc EXCEPT ![p] = "register"] /\ time_counter' = now
      /\ part' = [part EXCEPT ![r].is_free = FALSE, ![r].entry_time = now, ![r].access_time = now]
      /\ memory' = [a \in Addresses |->
                      IF start <= a /\ a < start + sizes[m] THEN <<m, a - start>> ELSE memory[a]]
      /\ UNCHANGED <<partitions, messages_index, location, sizes, cur, found, failed_searches,
                     delivery, crashed>>
  BY DEF Claim, Running, Goto
<1>2. TypeOK /\ LayoutOK(Layout) /\ Publishing(p) /\ Owned /\ Indexed /\ BuddiesApart
  BY DEF IInv
<1>3. InList(r) /\ part[r].is_free /\ Wanted(p) <= part[r].size
  BY <1>1, <1>2 DEF Publishing
<1>4. /\ r \in Refs /\ part \in [Refs -> Partition] /\ part[r] \in Partition /\ now \in Nat
      /\ \A i \in DOMAIN partitions : partitions[i] \in Refs
  BY <1>2, <1>3, PlaceFound, LayoutIs DEF LayoutOK, TypeOK
<1>5. /\ m \in DOMAIN sizes /\ m \in Messages /\ m \notin messages_index
      /\ sizes[m] \in Nat \ {0} /\ sizes[m] <= Wanted(p) /\ Wanted(p) \in Nat
  BY <1>1, WantedIs
<1>6. /\ start \in Nat /\ part[r].size \in Nat /\ sizes[m] <= part[r].size
      /\ start + part[r].size <= MemorySize /\ part[r].message = NoMessage
      /\ start + sizes[m] <= MemorySize
  <2>1. start \in Nat /\ part[r].size \in Nat
    BY <1>4, Fields
  <2>2. start + part[r].size <= MemorySize
    BY <1>2, <1>3, PlaceFound DEF LayoutOK
  <2>3. part[r].message = NoMessage
    BY <1>2, <1>3 DEF LayoutOK, FreeIsEmpty, InList, Layout
  <2>4. sizes[m] <= part[r].size
    BY <1>3, <1>5, <2>1
  <2>5. start + sizes[m] <= MemorySize
    <3>1. MemorySize \in Nat /\ sizes[m] \in Nat
      BY <1>5, MemoryAssumption
    <3> QED BY <2>1, <2>2, <2>4, <3>1
  <2> QED BY <2>1, <2>2, <2>3, <2>4, <2>5
<1>7. /\ part' \in [Refs -> Partition] /\ \A q \in Refs : q # r => part'[q] = part[q]
      /\ part'[r].number = part[r].number /\ part'[r].start = start
      /\ part'[r].size = part[r].size /\ ~part'[r].is_free /\ part'[r].message = NoMessage
      /\ part'[r].entry_time = now /\ part'[r].access_time = now
  <2> DEFINE x == [part[r] EXCEPT !.is_free = FALSE]
             y == [x EXCEPT !.entry_time = now]
             z == [y EXCEPT !.access_time = now]
             f == [part EXCEPT ![r] = x]
             g == [f EXCEPT ![r] = y]
  <2>1. f[r] = x /\ g[r] = y
    BY <1>4
  <2>2. part' = [[[part EXCEPT ![r].is_free = FALSE] EXCEPT ![r].entry_time = now] EXCEPT ![r].access_time = now]
    BY <1>1
  <2>3. [part EXCEPT ![r].is_free = FALSE] = f
    BY <1>4
  <2> HIDE DEF x
  <2>4. [f EXCEPT ![r].entry_time = now] = g
    BY <2>1
  <2>5. [g EXCEPT ![r].access_time = now] = [g EXCEPT ![r] = z]
    BY <2>1
  <2>6. part' = [g EXCEPT ![r] = z]
    BY <2>2, <2>3, <2>4, <2>5
  <2>7. /\ z \in Partition /\ z.number = part[r].number /\ z.start = part[r].start
        /\ z.size = part[r].size /\ ~z.is_free /\ z.message = part[r].message
        /\ z.entry_time = now /\ z.access_time = now
    BY <1>4 DEF Partition, x
  <2>8. \A q \in Refs : q # r => g[q] = part[q]
    BY <1>4
  <2>9. DOMAIN g = Refs /\ g = [q \in Refs |-> g[q]]
    BY <1>4
  <2> HIDE DEF z, g
  <2>10. part'[r] = z /\ \A q \in Refs : q # r => part'[q] = part[q]
    BY <1>4, <2>6, <2>8, <2>9
  <2>11. part' \in [Refs -> Partition]
    BY <1>4, <2>6, <2>7, <2>8, <2>9
  <2> QED BY <1>6, <2>7, <2>10, <2>11
<1>8. Addresses = 0..(MemorySize - 1) /\ MemorySize \in Nat
  BY MemoryAssumption DEF Addresses
<1>9. memory' \in [Addresses -> Bytes]
  <2>1. memory \in [Addresses -> Bytes]
    BY <1>2 DEF TypeOK, Bytes
  <2>2. ASSUME NEW a \in Addresses, start <= a, a < start + sizes[m]
        PROVE  <<m, a - start>> \in Bytes
    <3>1. a - start \in Addresses
      <4>1. start \in Nat /\ start + sizes[m] <= MemorySize /\ sizes[m] \in Nat
        BY <1>5, <1>6
      <4>2. a \in Nat /\ a < MemorySize
        BY <1>8
      <4> QED BY <1>8, <2>2, <4>1, <4>2
    <3> QED BY <1>5, <3>1 DEF Bytes
  <2> QED BY <1>1, <2>1, <2>2
<1>10. TypeOK'
  BY <1>1, <1>2, <1>4, <1>7, <1>9 DEF TypeOK, delivery, Bytes
<1>11. LayoutOK(Layout)'
  <2> PICK s : s = Layout'
    OBVIOUS
  <2>1. s.list = partitions /\ s.heap = part' /\ s = [list |-> partitions, heap |-> part']
    BY <1>1 DEF Layout
  <2>2. s \in Layouts
    BY <1>2, <1>7, <2>1, LayoutIs DEF Layouts
  <2>3. \A q \in Refs : /\ s.heap[q].number = part[q].number /\ s.heap[q].start = part[q].start
                        /\ s.heap[q].size = part[q].size
    BY <1>7, <2>1
  <2>4. Tiled(s) /\ Blocks(s)
    BY <1>2, <2>1, <2>2, <2>3, SamePlaces
  <2>5. FreeIsEmpty(s)
    BY <1>2, <1>4, <1>7, <2>1 DEF LayoutOK, FreeIsEmpty, Layout
  <2> QED BY <2>4, <2>5 DEF LayoutOK, Blocks
<1>12. ASSUME NEW a \in Addresses, start <= a, a < start + sizes[m]
       PROVE  memory'[a] = <<m, a - start>>
  BY <1>1, <1>12
<1>13. HasPayload(r, m)'
  <2>1. ASSUME NEW k \in 0..(sizes[m] - 1)
        PROVE  start + k \in Addresses /\ memory'[start + k] = <<m, k>>
    <3> PICK a : a = start + k
      OBVIOUS
    <3>1. k \in Nat /\ k < sizes[m] /\ sizes[m] \in Nat
      BY <1>5
    <3>2. a \in Nat /\ start <= a /\ a < start + sizes[m] /\ a - start = k
      BY <1>6, <3>1
    <3>3. a < MemorySize
      <4>1. start + sizes[m] <= MemorySize /\ start + sizes[m] \in Nat
        BY <1>6, <3>1
      <4> QED BY <1>8, <3>2, <4>1
    <3>4. a \in Addresses
      BY <1>8, <3>2, <3>3
    <3>5. memory'[a] = <<m, a - start>>
      BY <1>12, <3>2, <3>4
    <3> QED BY <3>2, <3>4, <3>5
  <2>2. PayloadAt(part[r].start, m)'
    BY <1>1, <1>7, <2>1 DEF PayloadAt
  <2>3. InList(r)'
    BY <1>1, <1>3 DEF InList
  <2> QED BY <1>1, <1>5, <1>6, <1>7, <2>2, <2>3 DEF HasPayload
<1>14. ASSUME NEW q, NEW n, HasPayload(q, n), q # r PROVE HasPayload(q, n)' /\ part'[q] = part[q]
  <2>1. q \in Refs /\ InList(q) /\ n \in DOMAIN sizes /\ sizes[n] <= part[q].size
    BY <1>4, <1>14 DEF HasPayload, InList
  <2>2. part'[q] = part[q]
    BY <1>7, <1>14, <2>1
  <2>3. part[q].start \in Nat /\ part[q].size \in Nat
    BY <1>4, <2>1, Fields
  <2>4. sizes[n] \in Nat
    <3>1. sizes \in [1..Len(sizes) -> Sizes] /\ DOMAIN sizes = 1..Len(sizes)
      BY <1>2, LenProperties DEF TypeOK
    <3> QED BY <2>1, <3>1, MemoryAssumption
  <2>5. \/ part[q].start + part[q].size <= start
        \/ start + part[r].size <= part[q].start
    BY <1>2, <1>3, <1>14, <2>1, OthersApart
  <2>6. ASSUME NEW k \in 0..(sizes[n] - 1)
        PROVE  part[q].start + k \in Addresses /\ memory'[part[q].start + k] = <<n, k>>
    <3> PICK a : a = part[q].start + k
      OBVIOUS
    <3>1. a \in Addresses /\ memory[a] = <<n, k>>
      BY <1>14 DEF HasPayload, PayloadAt
    <3>2. ~(start <= a /\ a < start + sizes[m])
      <4>1. k \in Nat /\ k < part[q].size
        BY <2>1, <2>3, <2>4
      <4> QED BY <1>5, <1>6, <2>3, <2>5, <4>1
    <3> QED BY <1>1, <3>1, <3>2
  <2>7. PayloadAt(part[q].start, n)'
    BY <1>1, <2>2, <2>6 DEF PayloadAt
  <2>8. InList(q)'
    BY <1>1, <2>1 DEF InList
  <2> QED BY <1>1, <1>14, <2>1, <2>2, <2>7, <2>8 DEF HasPayload
<1>15. Indexed'
  <2> SUFFICES ASSUME NEW n \in messages_index
               PROVE  (part[location[n]].message = n /\ HasPayload(location[n], n))'
    BY <1>1 DEF Indexed
  <2> PICK q : q = location[n]
    OBVIOUS
  <2>1. part[q].message = n /\ HasPayload(q, n) /\ q # r
    BY <1>2, <1>3 DEF Indexed, HasPayload
  <2>2. HasPayload(q, n)' /\ part'[q].message = n /\ location[n]' = q
    BY <1>1, <1>14, <2>1
  <2> QED BY <2>2 DEF HasPayload, InList, PayloadAt
<1>16. Owned'
  <2> SUFFICES ASSUME NEW i \in DOMAIN partitions, ~part'[partitions[i]].is_free
               PROVE  \/ part'[partitions[i]].message \in messages_index'
                         /\ location'[part'[partitions[i]].message] = partitions[i]
                      \/ part'[partitions[i]].message = NoMessage
                         /\ \E q \in Publishers : pc'[q] = "register" /\ found'[q] = partitions[i]
    BY <1>1 DEF Owned
  <2>1. CASE partitions[i] = r
    BY <1>1, <1>2, <1>7, <2>1 DEF TypeOK
  <2>2. CASE partitions[i] # r
    <3>1. part'[partitions[i]] = part[partitions[i]]
      BY <1>4, <1>7, <2>2
    <3>2. \A q \in Publishers : pc[q] # "register"
      BY <1>1 DEF OnePublisher
    <3>3. /\ part[partitions[i]].message \in messages_index
          /\ location[part[partitions[i]].message] = partitions[i]
      BY <1>2, <3>1, <3>2 DEF Owned
    <3> QED BY <1>1, <3>1, <3>3
  <2> QED BY <2>1, <2>2
<1>17. BuddiesApart'
  <2> SUFFICES ASSUME CONFIG.memory_alg = "BUDDY_SYSTEM", NEW j \in 1..(Len(partitions) - 1),
                      FreeBuddies(Layout, j)'
               PROVE  FALSE
    BY <1>1 DEF BuddiesApart
  <2>1. j \in DOMAIN partitions /\ j + 1 \in DOMAIN partitions
    BY <1>2, LayoutIs
  <2>2. partitions[j] \in Refs /\ partitions[j + 1] \in Refs
    BY <1>4, <2>1
  <2>3. part'[partitions[j]].is_free /\ part'[partitions[j + 1]].is_free
    BY <1>1 DEF FreeBuddies, Layout
  <2>4. partitions[j] # r /\ partitions[j + 1] # r
    BY <1>7, <2>3
  <2>5. FreeBuddies(Layout, j)
    BY <1>1, <1>7, <2>2, <2>4 DEF FreeBuddies, Layout
  <2> QED BY <1>2, <2>4, <2>5 DEF BuddiesApart, OnePublisher
<1>18. Publishing(p)'
  <2>1. pc'[p] = "register" /\ UNCHANGED <<cur, found, sizes, messages_index>>
    BY <1>1, <1>2 DEF TypeOK
  <2>2. Wanted(p)' = Wanted(p)
    BY <2>1 DEF Wanted, PartitionSize
  <2>3. HasPayload(found[p], cur[p])'
    BY <1>1, <1>13 DEF HasPayload, InList, PayloadAt
  <2> QED BY <1>1, <1>2, <1>7, <2>1, <2>2, <2>3 DEF Publishing
<1>19. Claimed(r)
  BY <1>1, <1>3, <1>4, <1>7 DEF Claimed
<1>20. Readers'
  <2>1. \A q \in Refs : part'[q].start = part[q].start
    BY <1>4, <1>7
  <2> QED BY <1>1, <2>1, ReadersKept
<1> QED BY <1>1, <1>10, <1>11, <1>15, <1>16, <1>17, <1>18, <1>19, <1>20 DEF IInv, OnePublisher

\* An occupied partition without a message has one now, the others are as they were.
Registered(r, m) ==
  /\ r \in Refs /\ InList(r) /\ ~part[r].is_free /\ ~part'[r].is_free
  /\ part[r].message = NoMessage /\ part'[r].message = m
  /\ part'[r].entry_time = part[r].entry_time /\ part'[r].access_time = part[r].access_time
  /\ \A q \in Refs : q # r => part'[q] = part[q]

\* The claimed partition gets its message and the message gets into the index.
LEMMA RegisterKeeps ==
  ASSUME OnePublisher, IInv, UNCHANGED CONFIG, NEW p \in Publishers, Register(p)
  PROVE  IInv' /\ Registered(found[p], cur[p])
<1> PICK r : r = found[p]
  OBVIOUS
<1> PICK m : m = cur[p]
  OBVIOUS
<1>1. /\ ~crashed /\ pc[p] = "register" /\ pc' = [pc EXCEPT ![p] = "idle"]
      /\ part' = [part EXCEPT ![r].message = m] /\ location' = [location EXCEPT ![m] = r]
      /\ messages_index' = messages_index \cup {m}
      /\ sender' = [sender EXCEPT ![m] = "holding"] \/ sender' = [sender EXCEPT ![m] = "none"]
      /\ found' = [found EXCEPT ![p] = NoRef] /\ cur' = [cur EXCEPT ![p] = NoMessage]
      /\ failed_searches' = [failed_searches EXCEPT ![p] = 0]
      /\ UNCHANGED <<partitions, memory, time_counter, sizes, reading, sends, misread, crashed>>
  BY DEF Register, Running, Goto
<1>2. TypeOK /\ LayoutOK(Layout) /\ Publishing(p) /\ Owned /\ Indexed /\ BuddiesApart
  BY DEF IInv
<1>3. HasPayload(r, m) /\ part[r].message = NoMessage /\ InList(r) /\ ~part[r].is_free
  BY <1>1, <1>2 DEF Publishing, HasPayload
<1>4. /\ r \in Refs /\ part \in [Refs -> Partition] /\ part[r] \in Partition
      /\ \A i \in DOMAIN partitions : partitions[i] \in Refs
  BY <1>2, <1>3, PlaceFound, LayoutIs DEF LayoutOK, TypeOK
<1>5. m \in Messages /\ m \notin messages_index /\ m # NoMessage
  BY <1>1, WantedIs DEF Messages, NoMessage
<1>6. /\ part' \in [Refs -> Partition] /\ \A q \in Refs : q # r => part'[q] = part[q]
      /\ part'[r].number = part[r].number /\ part'[r].start = part[r].start
      /\ part'[r].size = part[r].size /\ ~part'[r].is_free /\ part'[r].message = m
      /\ part'[r].entry_time = part[r].entry_time /\ part'[r].access_time = part[r].access_time
  <2> DEFINE x == [part[r] EXCEPT !.message = m]
  <2>1. /\ x \in Partition /\ x.number = part[r].number /\ x.start = part[r].start
        /\ x.size = part[r].size /\ x.is_free = part[r].is_free /\ x.message = m
        /\ x.entry_time = part[r].entry_time /\ x.access_time = part[r].access_time
    BY <1>4, <1>5 DEF Partition
  <2>2. part' = [part EXCEPT ![r] = x]
    BY <1>1, <1>4
  <2> HIDE DEF x
  <2>3. part' \in [Refs -> Partition] /\ part'[r] = x /\ \A q \in Refs : q # r => part'[q] = part[q]
    BY <1>4, <2>1, <2>2
  <2> QED BY <1>3, <2>1, <2>3
<1>7. TypeOK'
  <2>1. sender' \in [Messages -> {"none", "holding", "reading", "sending"}]
    BY <1>1, <1>2 DEF TypeOK
  <2> QED BY <1>1, <1>2, <1>4, <1>5, <1>6, <2>1 DEF TypeOK
<1>8. LayoutOK(Layout)'
  <2> PICK s : s = Layout'
    OBVIOUS
  <2>1. s.list = partitions /\ s.heap = part' /\ s = [list |-> partitions, heap |-> part']
    BY <1>1 DEF Layout
  <2>2. s \in Layouts
    BY <1>2, <1>6, <2>1, LayoutIs DEF Layouts
  <2>3. \A q \in Refs : /\ s.heap[q].number = part[q].number /\ s.heap[q].start = part[q].start
                        /\ s.heap[q].size = part[q].size
    BY <1>6, <2>1
  <2>4. Tiled(s) /\ Blocks(s)
    BY <1>2, <2>1, <2>2, <2>3, SamePlaces
  <2>5. FreeIsEmpty(s)
    BY <1>2, <1>4, <1>6, <2>1 DEF LayoutOK, FreeIsEmpty, Layout
  <2> QED BY <2>4, <2>5 DEF LayoutOK, Blocks
<1>9. ASSUME NEW q, NEW n, HasPayload(q, n) PROVE HasPayload(q, n)'
  <2>1. q \in Refs
    BY <1>4, <1>9 DEF HasPayload, InList
  <2>2. part'[q].start = part[q].start /\ part'[q].size = part[q].size /\ ~part'[q].is_free
    BY <1>6, <1>9, <2>1 DEF HasPayload
  <2> QED BY <1>1, <1>9, <2>2 DEF HasPayload, InList, PayloadAt
<1>10. Indexed'
  <2> SUFFICES ASSUME NEW n \in messages_index \cup {m}
               PROVE  (part[location[n]].message = n /\ HasPayload(location[n], n))'
    BY <1>1 DEF Indexed
  <2>1. CASE n = m
    <3>1. location[n]' = r
      BY <1>1, <1>2, <1>5, <2>1 DEF TypeOK
    <3>2. HasPayload(r, n)' /\ part'[r].message = n
      BY <1>3, <1>6, <1>9, <2>1
    <3> QED BY <3>1, <3>2 DEF HasPayload, InList, PayloadAt
  <2>2. CASE n # m
    <3> PICK q : q = location[n]
      OBVIOUS
    <3>1. n \in messages_index /\ part[q].message = n /\ HasPayload(q, n)
      BY <1>2, <2>2 DEF Indexed
    <3>2. q # r
      <4>1. n \in Messages /\ NoMessage \notin Messages
        BY <1>2, <3>1 DEF TypeOK, Messages, NoMessage
      <4> QED BY <1>3, <3>1, <4>1
    <3>3. q \in Refs
      BY <1>4, <3>1 DEF HasPayload, InList
    <3>4. location[n]' = q /\ part'[q].message = n /\ HasPayload(q, n)'
      <4>1. location'[n] = location[n]
        BY <1>1, <1>2, <2>2, <3>1 DEF TypeOK
      <4> QED BY <1>6, <1>9, <3>1, <3>2, <3>3, <4>1
    <3> QED BY <3>4 DEF HasPayload, InList, PayloadAt
  <2> QED BY <2>1, <2>2
<1>11. Owned'
  <2> SUFFICES ASSUME NEW i \in DOMAIN partitions, ~part'[partitions[i]].is_free
               PROVE  /\ part'[partitions[i]].message \in messages_index'
                      /\ location'[part'[partitions[i]].message] = partitions[i]
    BY <1>1 DEF Owned
  <2>1. CASE partitions[i] = r
    BY <1>1, <1>2, <1>5, <1>6, <2>1 DEF TypeOK
  <2>2. CASE partitions[i] # r
    <3>1. part'[partitions[i]] = part[partitions[i]]
      BY <1>4, <1>6, <2>2
    <3>2. /\ part[partitions[i]].message \in messages_index
          /\ location[part[partitions[i]].message] = partitions[i]
      <4>1. ~\E q \in Publishers : pc[q] = "register" /\ found[q] = partitions[i]
        BY <2>2 DEF OnePublisher
      <4> QED BY <1>2, <3>1, <4>1 DEF Owned
    <3>3. part[partitions[i]].message # m /\ part[partitions[i]].message \in Messages
      BY <1>2, <1>5, <3>2 DEF TypeOK
    <3>4. location'[part[partitions[i]].message] = location[part[partitions[i]].message]
      BY <1>1, <1>2, <3>3 DEF TypeOK
    <3> PICK n : n = part[partitions[i]].message
      OBVIOUS
    <3>5. part'[partitions[i]].message = n /\ n \in messages_index' /\ location'[n] = partitions[i]
      BY <1>1, <3>1, <3>2, <3>4
    <3> QED BY <3>5
  <2> QED BY <2>1, <2>2
<1>12. BuddiesApart'
  <2> SUFFICES ASSUME CONFIG.memory_alg = "BUDDY_SYSTEM", NEW j \in 1..(Len(partitions) - 1),
                      FreeBuddies(Layout, j)'
               PROVE  FALSE
    BY <1>1 DEF BuddiesApart
  <2>1. j \in DOMAIN partitions /\ j + 1 \in DOMAIN partitions
    BY <1>2, LayoutIs
  <2>2. partitions[j] \in Refs /\ partitions[j + 1] \in Refs
    BY <1>4, <2>1
  <2>3. part'[partitions[j]].is_free /\ part'[partitions[j + 1]].is_free
    BY <1>1 DEF FreeBuddies, Layout
  <2>4. partitions[j] # r /\ partitions[j + 1] # r
    BY <1>6, <2>3
  <2>5. FreeBuddies(Layout, j)
    BY <1>1, <1>6, <2>2, <2>4 DEF FreeBuddies, Layout
  <2> QED BY <1>1, <1>2, <2>5 DEF BuddiesApart, OnePublisher
<1>13. Publishing(p)'
  <2>1. pc'[p] = "idle" /\ found'[p] = NoRef /\ cur'[p] = NoMessage
    BY <1>1, <1>2 DEF TypeOK
  <2> QED BY <2>1 DEF Publishing
<1>14. Registered(r, m)
  BY <1>3, <1>4, <1>6 DEF Registered
<1>15. Readers'
  <2> SUFFICES ASSUME NEW n \in Messages, sender'[n] # "none"
               PROVE  /\ location'[n] \in Refs
                      /\ sender'[n] = "reading" /\ n \in messages_index' =>
                           IF CONFIG.memory_alg = "PARTITIONS"
                           THEN part'[location'[n]].start <= reading[n]
                           ELSE part'[location'[n]].start = reading[n]
    BY <1>1 DEF Readers
  <2>1. CASE n = m
    BY <1>1, <1>2, <1>4, <2>1 DEF TypeOK
  <2>2. CASE n # m
    <3>1. /\ sender'[n] = sender[n] /\ location'[n] = location[n]
          /\ n \in messages_index' <=> n \in messages_index
      BY <1>1, <1>2, <2>2 DEF TypeOK
    <3>2. \A q \in Refs : part'[q].start = part[q].start
      BY <1>6
    <3> QED BY <3>1, <3>2 DEF IInv, Readers
  <2> QED BY <2>1, <2>2
<1> QED BY <1>1, <1>7, <1>8, <1>10, <1>11, <1>12, <1>13, <1>14, <1>15 DEF IInv, OnePublisher

-----------------------------------------------------------------------------
(* The threads that deliver a message *)

\* They leave alone what a publication is doing, and what it needs of the store.
LEMMA DeliveryKeeps ==
  ASSUME OnePublisher, IInv, Untouched, sizes' = sizes,
         UNCHANGED <<messages_index, location, publication, crashed>>,
         time_counter' \in Nat, sends' \in 0..MaxSends, misread' \subseteq Messages,
         sender' \in [Messages -> {"none", "holding", "reading", "sending"}],
         reading' \in [Messages -> {Nowhere} \cup 0..MemorySize], Readers'
  PROVE  IInv'
<1>1. TypeOK /\ LayoutOK(Layout) /\ ~crashed
  BY DEF IInv
<1>2. /\ partitions' = partitions /\ memory' = memory /\ CONFIG' = CONFIG
      /\ part' \in [Refs -> Partition]
  BY DEF Untouched
<1>3. TypeOK'
  BY <1>1, <1>2 DEF TypeOK, publication
<1>4. LayoutOK(Layout)' /\ Owned' /\ Indexed' /\ BuddiesApart'
  BY UntouchedOwners DEF publication
<1>5. ASSUME NEW p \in Publishers PROVE Publishing(p)'
  <2>1. Publishing(p) /\ UNCHANGED <<pc, cur, found, sizes, messages_index, CONFIG>>
    BY <1>2 DEF IInv, publication
  <2>2. Wanted(p)' = Wanted(p)
    BY <2>1 DEF Wanted, PartitionSize
  <2> PICK r : r = found[p]
    OBVIOUS
  <2> PICK m : m = cur[p]
    OBVIOUS
  <2> PICK w : w = Wanted(p)
    OBVIOUS
  <2>3. /\ HasPayload(r, m) => HasPayload(r, m)'
        /\ Fitting(w)' = Fitting(w) /\ (InList(r)' <=> InList(r))
    BY <1>1, UntouchedKeeps
  <2>4. InList(r) => /\ part'[r].is_free = part[r].is_free /\ part'[r].size = part[r].size
                     /\ part'[r].message = part[r].message
    <3>1. InList(r) => r \in Refs
      BY <1>1, LayoutIs DEF InList
    <3> QED BY <3>1 DEF Untouched
  <2>5. (HasPayload(found[p], cur[p]))' <=> HasPayload(r, m)'
    BY <2>1 DEF HasPayload, InList, PayloadAt
  <2>6. /\ pc[p] \in {"split", "claim"} => InList(found[p])' /\ part'[found[p]].is_free
        /\ pc[p] = "split" => w < part'[found[p]].size
        /\ pc[p] = "claim" => w <= part'[found[p]].size
    BY <2>1, <2>3, <2>4 DEF Publishing
  <2>7. pc[p] = "register" => HasPayload(r, m)' /\ part'[found[p]].message = NoMessage
    BY <2>1, <2>3, <2>4 DEF Publishing, HasPayload
  <2>8. pc[p] = "evict" => Fitting(Wanted(p))' = {}
    <3>1. Fitting(Wanted(p))' = Fitting(w)'
      BY <2>2 DEF Fitting
    <3> QED BY <2>1, <2>3, <3>1 DEF Publishing
  <2>9. InList(found[p])' <=> InList(r)'
    BY <2>1 DEF InList
  <2> QED BY <2>1, <2>2, <2>5, <2>6, <2>7, <2>8, <2>9 DEF Publishing
<1> QED BY <1>1, <1>3, <1>4, <1>5 DEF IInv

\* A send changes at most the time of a partition.
LEMMA TouchIs ==
  ASSUME part \in [Refs -> Partition], NEW r, NEW now \in Nat,
         part' = [part EXCEPT ![r].access_time = now]
  PROVE  /\ part' \in [Refs -> Partition]
         /\ \A q \in Refs : /\ part'[q].number = part[q].number /\ part'[q].start = part[q].start
                            /\ part'[q].size = part[q].size /\ part'[q].is_free = part[q].is_free
                            /\ part'[q].message = part[q].message
                            /\ part'[q].entry_time = part[q].entry_time
                            /\ part'[q].access_time = IF q = r THEN now ELSE part[q].access_time
<1> DEFINE x == [part[r] EXCEPT !.access_time = now]
<1>1. part' = [part EXCEPT ![r] = x]
  OBVIOUS
<1>2. r \in Refs => /\ x \in Partition /\ x.number = part[r].number /\ x.start = part[r].start
                    /\ x.size = part[r].size /\ x.is_free = part[r].is_free
                    /\ x.message = part[r].message /\ x.entry_time = part[r].entry_time
                    /\ x.access_time = now
  <2> SUFFICES ASSUME r \in Refs
               PROVE  /\ x \in Partition /\ x.number = part[r].number /\ x.start = part[r].start
                      /\ x.size = part[r].size /\ x.is_free = part[r].is_free
                      /\ x.message = part[r].message /\ x.entry_time = part[r].entry_time
                      /\ x.access_time = now
    OBVIOUS
  <2>1. part[r] \in Partition
    OBVIOUS
  <2> QED BY <2>1 DEF Partition
<1> HIDE DEF x
<1>3. \A q \in Refs : part'[q] = IF q = r THEN x ELSE part[q]
  BY <1>1
<1>4. part' = [q \in Refs |-> part'[q]]
  BY <1>1
<1>5. \A q \in Refs : part'[q] \in Partition
  BY <1>2, <1>3
<1>6. part' \in [Refs -> Partition]
  BY <1>4, <1>5
<1> QED BY <1>2, <1>3, <1>6

\* Each step of such a thread.
LEMMA SenderKeeps ==
  ASSUME OnePublisher, IInv, UNCHANGED CONFIG, NEW m \in Messages, SenderStep(m)
  PROVE  IInv'
<1>1. TypeOK
  BY DEF IInv
<1>2. ASSUME UNCHANGED <<store, messages_index, location, sizes, publication, sends, crashed>>,
             NEW s \in {"none", "holding", "reading", "sending"},
             NEW start \in {Nowhere} \cup 0..MemorySize,
             sender' \in {sender, [sender EXCEPT ![m] = s]},
             reading' \in {reading, [reading EXCEPT ![m] = start]},
             misread' \in {misread, misread \cup {m}}, Readers'
      PROVE  IInv'
  <2>1. Untouched
    BY <1>1, <1>2 DEF Untouched, store, TypeOK
  <2>2. sender' \in [Messages -> {"none", "holding", "reading", "sending"}]
    BY <1>1, <1>2 DEF TypeOK
  <2>3. time_counter' \in Nat /\ sends' \in 0..MaxSends /\ misread' \subseteq Messages
    BY <1>1, <1>2 DEF TypeOK, store
  <2>4. reading' \in [Messages -> {Nowhere} \cup 0..MemorySize]
    BY <1>1, <1>2 DEF TypeOK
  <2> QED BY <1>2, <2>1, <2>2, <2>3, <2>4, DeliveryKeeps
<1> DEFINE S == {"none", "holding", "reading", "sending"}
           A == {Nowhere} \cup 0..MemorySize
<1>3. Nowhere \in A /\ reading[m] \in A
  BY <1>1 DEF TypeOK
\* What a step has to leave of Readers when it moves no partition.
<1>4. ASSUME UNCHANGED <<part, location, messages_index>>,
             \A n \in Messages : n # m => sender'[n] = sender[n] /\ reading'[n] = reading[n],
             sender'[m] # "none" => location[m] \in Refs,
             sender'[m] = "reading" /\ m \in messages_index =>
               IF CONFIG.memory_alg = "PARTITIONS" THEN part[location[m]].start <= reading'[m]
                                                   ELSE part[location[m]].start = reading'[m]
      PROVE  Readers'
  BY <1>4 DEF IInv, Readers
<1>5. m \in messages_index => location[m] \in Refs /\ location[m] \in ToSet(partitions)
  BY LayoutIs DEF IInv, Indexed, HasPayload, InList, ToSet
<1>6. CASE PickUp(m)
  <2>1. /\ UNCHANGED <<store, messages_index, location, sizes, publication, reading, sends, misread,
                       crashed>>
        /\ m \in messages_index /\ sender' = [sender EXCEPT ![m] = "holding"]
    BY <1>6 DEF PickUp
  <2>2. sender'[m] = "holding" /\ \A n \in Messages : n # m => sender'[n] = sender[n]
    BY <1>1, <2>1 DEF TypeOK
  <2>3. Readers'
    BY <1>4, <1>5, <2>1, <2>2 DEF store
  <2> QED BY <1>2, <1>3, <2>1, <2>3
<1>7. CASE Locate(m)
  <2>1. /\ UNCHANGED <<store, messages_index, location, sizes, publication, sends, misread, crashed>>
        /\ sender[m] = "holding" /\ sender' = [sender EXCEPT ![m] = "reading"]
    BY <1>7 DEF Locate
  <2>2. PICK start : /\ \/ start = part[location[m]].start
                        \/ FreedStruct(location[m]) /\ start = Nowhere
                     /\ reading' = [reading EXCEPT ![m] = start]
    BY <1>7 DEF Locate
  <2>3. location[m] \in Refs
    BY <2>1 DEF IInv, Readers
  <2>4. part[location[m]].start \in 0..MemorySize
    BY <1>1, <2>3 DEF TypeOK, Partition
  <2>5. /\ sender'[m] = "reading" /\ reading'[m] = start
        /\ \A n \in Messages : n # m => sender'[n] = sender[n] /\ reading'[n] = reading[n]
    BY <1>1, <2>1, <2>2 DEF TypeOK
  <2>6. m \in messages_index => start = part[location[m]].start
    BY <1>5, <2>2 DEF FreedStruct
  <2>7. Readers'
    BY <1>4, <2>1, <2>3, <2>4, <2>5, <2>6 DEF store
  <2> QED BY <1>2, <2>1, <2>2, <2>4, <2>7
<1>8. CASE Deserialise(m)
  <2>1. /\ UNCHANGED <<store, messages_index, location, sizes, publication, sends, crashed>>
        /\ misread' \in {misread, misread \cup {m}} /\ sender[m] = "reading"
        /\ \/ UNCHANGED <<sender, reading>>
           \/ /\ sender' = [sender EXCEPT ![m] = "sending"]
              /\ reading' = [reading EXCEPT ![m] = Nowhere]
    BY <1>8 DEF Deserialise
  <2>2. /\ sender'[m] = "sending" \/ UNCHANGED <<sender, reading>>
        /\ \A n \in Messages : n # m => sender'[n] = sender[n] /\ reading'[n] = reading[n]
    BY <1>1, <2>1 DEF TypeOK
  <2>3. Readers'
    BY <1>4, <2>1, <2>2 DEF store, IInv, Readers
  <2> QED BY <1>2, <1>3, <2>1, <2>3
<1>9. CASE SkipSubscriber(m)
  <2>1. /\ UNCHANGED <<store, messages_index, location, sizes, publication, reading, sends, misread,
                       crashed>>
        /\ sender[m] = "sending" /\ sender' = [sender EXCEPT ![m] = "holding"]
    BY <1>9 DEF SkipSubscriber
  <2>2. sender'[m] = "holding" /\ \A n \in Messages : n # m => sender'[n] = sender[n]
    BY <1>1, <2>1 DEF TypeOK
  <2>3. Readers'
    BY <1>4, <2>1, <2>2 DEF store, IInv, Readers
  <2> QED BY <1>2, <1>3, <2>1, <2>3
<1>10. CASE FinishDelivery(m)
  <2>1. /\ UNCHANGED <<store, messages_index, location, sizes, publication, reading, sends, misread,
                       crashed>>
        /\ sender' = [sender EXCEPT ![m] = "none"]
    BY <1>10 DEF FinishDelivery
  <2>2. sender'[m] = "none" /\ \A n \in Messages : n # m => sender'[n] = sender[n]
    BY <1>1, <2>1 DEF TypeOK
  <2>3. Readers'
    BY <1>4, <2>1, <2>2 DEF store
  <2> QED BY <1>2, <1>3, <2>1, <2>3
<1>11. CASE Send(m)
  <2> PICK now : now = time_counter + 1
    OBVIOUS
  <2>1. /\ time_counter' = now /\ sends < MaxSends /\ sends' = sends + 1 /\ sender' = [sender EXCEPT ![m] = "holding"]
        /\ \E r \in Touchable(m) : part' = [part EXCEPT ![r].access_time = now]
        /\ UNCHANGED <<partitions, memory, messages_index, location, sizes, publication, reading,
                       misread, crashed>>
    BY <1>11 DEF Send
  <2>2. now \in Nat
    BY <1>1 DEF TypeOK
  <2>3. PICK r : part' = [part EXCEPT ![r].access_time = now]
    BY <2>1
  <2>4. /\ part' \in [Refs -> Partition]
        /\ \A q \in Refs : /\ part'[q].number = part[q].number /\ part'[q].start = part[q].start
                           /\ part'[q].size = part[q].size /\ part'[q].is_free = part[q].is_free
                           /\ part'[q].message = part[q].message
    <3>1. part \in [Refs -> Partition]
      BY <1>1 DEF TypeOK
    <3> QED BY <2>2, <2>3, <3>1, TouchIs
  <2>5. Untouched
    BY <2>1, <2>4 DEF Untouched
  <2>6. sender' \in [Messages -> {"none", "holding", "reading", "sending"}]
    BY <1>1, <2>1 DEF TypeOK
  <2>7. /\ sends' \in 0..MaxSends /\ misread' \subseteq Messages
        /\ reading' \in [Messages -> {Nowhere} \cup 0..MemorySize]
    <3>1. sends \in 0..MaxSends /\ MaxSends \in Nat
      BY <1>1, MemoryAssumption DEF TypeOK
    <3> QED BY <1>1, <2>1, <3>1 DEF TypeOK
  <2>8. Readers'
    <3>1. sender[m] = "sending" /\ sender'[m] = "holding" /\ \A n \in Messages : n # m => sender'[n] = sender[n]
      BY <1>1, <1>11, <2>1 DEF TypeOK, Send
    <3> QED BY <2>1, <2>4, <3>1 DEF IInv, Readers
  <2> QED BY <2>1, <2>2, <2>5, <2>6, <2>7, <2>8, DeliveryKeeps
<1> QED BY <1>6, <1>7, <1>8, <1>9, <1>10, <1>11 DEF SenderStep

-----------------------------------------------------------------------------
(* The invariant *)

\* In the beginning the memory is one free partition.
LEMMA InitOK == Init => IInv
<1> SUFFICES ASSUME Init PROVE IInv
  OBVIOUS
<1>1. /\ MemorySize \in Nat \ {0} /\ MaxMessages \in Nat /\ MaxSends \in Nat
      /\ CONFIG \in Configs
  BY MemoryAssumption DEF Init
<1>2. 1 \in Refs /\ Refs \subseteq Nat /\ 0 \in 0..MemorySize /\ MemorySize \in 0..MemorySize
  BY <1>1 DEF Refs
<1>3. partition_create(0, 0, MemorySize) \in Partition /\ partition_create(0, 0, 0) \in Partition
  BY <1>2 DEF partition_create, Partition
<1>4. /\ part \in [Refs -> Partition] /\ part[1] = partition_create(0, 0, MemorySize)
      /\ partitions = <<1>>
  BY <1>2, <1>3 DEF Init
<1>5. /\ partitions \in Seq(Refs) /\ Len(partitions) = 1 /\ DOMAIN partitions = {1} /\ partitions[1] = 1
  BY <1>2, <1>4
<1>6. /\ part[1].number = 0 /\ part[1].start = 0 /\ part[1].size = MemorySize
      /\ part[1].is_free /\ part[1].message = NoMessage
  BY <1>4 DEF partition_create
<1>7. LayoutOK(Layout)
  <2>1. Tiled(Layout)
    <3>1. partitions # <<>>
      BY <1>5
    <3>2. 1 - 1 = 0 /\ 0 + MemorySize = MemorySize /\ MemorySize > 0
      BY <1>1
    <3> QED BY <1>4, <1>5, <1>6, <3>1, <3>2 DEF Tiled, Layout
  <2>2. FreeIsEmpty(Layout)
    BY <1>5, <1>6 DEF FreeIsEmpty, Layout
  <2>3. ASSUME CONFIG.memory_alg = "BUDDY_SYSTEM" PROVE Block(part[1])
    <3>1. \E k \in 0..MemorySize : MemorySize = Power[k]
      <4>1. PICK k \in 1..MemorySize : MemorySize = Power[k]
        BY <1>1, <2>3, BuddyAssumption
      <4>2. k \in 0..MemorySize
        BY <1>1
      <4> QED BY <4>1, <4>2
    <3>2. 0 % MemorySize = 0
      <4>1. 0 = MemorySize * 0
        BY <1>1
      <4> QED BY <1>1, <4>1, Multiples
    <3> QED BY <1>6, <3>1, <3>2 DEF Block
  <2>4. Blocks(Layout)
    BY <1>5, <2>3 DEF Blocks, Layout
  <2> QED BY <2>1, <2>2, <2>4 DEF LayoutOK
<1>8. TypeOK
  <2>1. memory \in [Addresses -> (Messages \X Addresses) \cup {NoByte}]
    BY DEF Init
  <2>2. sizes \in Seq(Sizes) /\ Len(sizes) <= MaxMessages
    BY <1>1 DEF Init
  <2>3. IsInjective(partitions)
    BY <1>5 DEF IsInjective
  <2>4. sends \in 0..MaxSends /\ time_counter \in Nat
    BY <1>1 DEF Init
  <2> QED BY <1>1, <1>4, <1>5, <2>1, <2>2, <2>3, <2>4 DEF Init, TypeOK
<1>9. Owned
  BY <1>5, <1>6 DEF Owned
<1>10. Indexed
  BY DEF Init, Indexed
<1>11. \A p \in Publishers : Publishing(p)
  BY DEF Init, Publishing
<1>12. BuddiesApart
  <2>1. 1..(Len(partitions) - 1) = {}
    BY <1>5
  <2> QED BY <2>1 DEF BuddiesApart
<1>13. Readers
  BY DEF Init, Readers
<1> QED BY <1>7, <1>8, <1>9, <1>10, <1>11, <1>12, <1>13 DEF IInv, Init

\* One publication at a time, each of its steps and each of the deliveries' keep it.
LEMMA NextKeeps ==
  ASSUME OnePublisher, IInv, [Next]_vars
  PROVE  IInv'
<1>1. CASE UNCHANGED vars
  <2>1. UNCHANGED <<CONFIG, store, messages_index, location, sizes, publication, delivery, crashed>>
    BY <1>1 DEF vars
  <2>2. TypeOK
    BY DEF IInv
  <2>3. Untouched
    BY <2>1, <2>2 DEF Untouched, store, TypeOK
  <2>4. /\ time_counter' \in Nat /\ sends' \in 0..MaxSends /\ misread' \subseteq Messages
        /\ sender' \in [Messages -> {"none", "holding", "reading", "sending"}]
        /\ reading' \in [Messages -> {Nowhere} \cup 0..MemorySize]
    BY <2>1, <2>2 DEF TypeOK, store, delivery
  <2>5. Readers'
    BY <2>1, ReadersKept DEF store
  <2> QED BY <2>1, <2>3, <2>4, <2>5, DeliveryKeeps
<1>2. CASE Next
  <2>1. UNCHANGED CONFIG
    BY <1>2 DEF Next
  <2>2. ASSUME NEW p \in Publishers, Publish(p) \/ PublisherStep(p) PROVE IInv'
    <3>1. CASE Publish(p)
      BY <2>1, <3>1, PublishKeeps
    <3>2. CASE SearchHit(p)
      BY <2>1, <3>2, SearchHitKeeps
    <3>3. CASE SearchMiss(p)
      BY <2>1, <3>3, SearchMissKeeps
    <3>4. CASE Split(p)
      BY <2>1, <3>4, SplitKeeps
    <3>5. CASE Evict(p)
      BY <2>1, <3>5, EvictKeeps
    <3>6. CASE Retry(p)
      BY <2>1, <3>6, RetryKeeps
    <3>7. CASE Compact(p)
      BY <2>1, <3>7, CompactKeeps
    <3>8. CASE AssociateBuddies(p)
      BY <2>1, <3>8, AssociateBuddiesKeeps
    <3>9. CASE Claim(p)
      BY <2>1, <3>9, ClaimKeeps
    <3>10. CASE Register(p)
      BY <2>1, <3>10, RegisterKeeps
    <3> QED BY <2>2, <3>1, <3>2, <3>3, <3>4, <3>5, <3>6, <3>7, <3>8, <3>9, <3>10 DEF PublisherStep
  <2>3. ASSUME NEW m \in Messages, SenderStep(m) PROVE IInv'
    BY <2>1, <2>3, SenderKeeps
  <2> QED BY <1>2, <2>2, <2>3 DEF Next
<1> QED BY <1>1, <1>2

\* The invariant of the cache, with one connection at a time that publishes.
THEOREM CacheInvariant ==
  ASSUME OnePublisher
  PROVE  Spec => []IInv
<1>1. Init => IInv
  BY InitOK
<1>2. IInv /\ [Next]_vars => IInv'
  BY NextKeeps
<1> QED BY <1>1, <1>2, PTL DEF Spec

-----------------------------------------------------------------------------
(* What follows from it *)

\* The variables have the values they should, whatever the memory, the configurations and
\* the sizes of the payloads.
THEOREM CacheTyped ==
  ASSUME OnePublisher
  PROVE  Spec => []TypeOK
<1>1. IInv => TypeOK
  BY DEF IInv
<1> QED BY <1>1, CacheInvariant, PTL

\* The partitions cover the memory end to end, each numbered by its place in the list.
THEOREM MemoryTiled ==
  ASSUME OnePublisher
  PROVE  Spec => []PartitionsTile
<1>1. IInv => PartitionsTile
  BY DEF IInv, LayoutOK, Tiled, Layout, PartitionsTile
<1> QED BY <1>1, CacheInvariant, PTL

\* Every message in the index has its partition to itself, and its bytes in it.
THEOREM PayloadsIntact ==
  ASSUME OnePublisher
  PROVE  Spec => []IndexedPayloadIntact
<1>1. IInv => IndexedPayloadIntact
  <2> SUFFICES ASSUME IInv, NEW m \in messages_index
               PROVE  LET r == location[m]
                      IN  /\ Contains(partitions, r)
                          /\ ~part[r].is_free /\ part[r].message = m
                          /\ PayloadAt(part[r].start, m)
    BY DEF IndexedPayloadIntact
  <2>1. part[location[m]].message = m /\ HasPayload(location[m], m)
    BY DEF IInv, Indexed
  <2>2. DOMAIN partitions = 1..Len(partitions)
    BY LayoutIs DEF IInv
  <2> QED BY <2>1, <2>2 DEF HasPayload, InList, Contains
<1> QED BY <1>1, CacheInvariant, PTL

\* No partition stays occupied without a message that can be sent or evicted.
THEOREM NoMemoryLost ==
  ASSUME OnePublisher
  PROVE  Spec => []OccupiedAreIndexed
<1>1. IInv => OccupiedAreIndexed
  BY DEF IInv, Owned, OccupiedAreIndexed, ToSet
<1> QED BY <1>1, CacheInvariant, PTL

\* Splits, merges and evictions leave blocks of the buddy system.
THEOREM BlocksOnly ==
  ASSUME OnePublisher
  PROVE  Spec => []BuddyBlocks
<1>1. IInv => BuddyBlocks
  BY DEF IInv, LayoutOK, Blocks, Block, Layout, BuddyBlocks, ToSet
<1> QED BY <1>1, CacheInvariant, PTL

\* After every publication and eviction no two free buddies are left apart.
THEOREM BuddiesJoined ==
  ASSUME OnePublisher
  PROVE  Spec => []NoFreeBuddies
<1>1. IInv => NoFreeBuddies
  BY DEF IInv, BuddiesApart, NoFreeBuddies
<1> QED BY <1>1, CacheInvariant, PTL

\* A delivery copies bytes that are not its message's only when the message was evicted, or
\* a compaction of the dynamic partitions moved it, after the thread had taken its address.
THEOREM OnlyEvictedOrMovedAreMisread ==
  ASSUME OnePublisher
  PROVE  Spec => MisreadOnlyIfEvictedOrMoved
<1>1. IInv /\ [Next]_vars =>
        [\A m \in misread' \ misread : m \notin messages_index \/ MovedDown(m)]_vars
  <2> SUFFICES ASSUME IInv, Next, NEW m \in misread' \ misread, m \in messages_index
               PROVE  MovedDown(m)
    BY DEF vars
  <2>1. Deserialise(m)
    <3>1. \A p \in Publishers : Publish(p) \/ PublisherStep(p) => misread' = misread
      BY DEF Publish, PublisherStep, SearchHit, SearchMiss, Split, Evict, Retry, Compact,
             AssociateBuddies, Claim, Register, delivery
    <3>2. \A n \in Messages : PickUp(n) \/ Locate(n) \/ Send(n) \/ SkipSubscriber(n) \/ FinishDelivery(n)
                                => misread' = misread
      BY DEF PickUp, Locate, Send, SkipSubscriber, FinishDelivery
    <3>3. \A n \in Messages : Deserialise(n) => misread' \subseteq misread \cup {n}
      BY DEF Deserialise
    <3> QED BY <3>1, <3>2, <3>3 DEF Next, SenderStep
  <2>2. m \in Messages /\ HasPayload(location[m], m)
    BY DEF IInv, Indexed, TypeOK
  <2>3. part[location[m]].start # reading[m]
    BY <2>1, <2>2 DEF Deserialise, HasPayload
  <2>4. sender[m] = "reading"
    BY <2>1 DEF Deserialise
  <2>5. /\ CONFIG.memory_alg = "PARTITIONS" /\ part[location[m]].start <= reading[m]
        /\ location[m] \in Refs
    BY <2>2, <2>3, <2>4 DEF IInv, Readers
  <2>6. part[location[m]].start \in Int /\ reading[m] \in Int
    <3>1. part[location[m]] \in Partition
      BY <2>5 DEF IInv, TypeOK
    <3>2. reading[m] \in {Nowhere} \cup 0..MemorySize /\ MemorySize \in Int
      BY <2>2, MemoryAssumption DEF IInv, TypeOK
    <3> QED BY <3>1, <3>2, Fields DEF Nowhere
  <2> QED BY <2>3, <2>5, <2>6 DEF MovedDown
<1> QED BY <1>1, CacheInvariant, PTL DEF Spec, MisreadOnlyIfEvictedOrMoved

\* What a search could have found room for evicts nobody.
THEOREM EvictionsNeeded ==
  ASSUME OnePublisher
  PROVE  Spec => NoNeedlessEviction
<1>1. IInv /\ [Next]_vars => [messages_index \ messages_index' # {} =>
                               \E p \in Publishers : pc[p] = "evict" /\ Fitting(Wanted(p)) = {}]_vars
  <2> SUFFICES ASSUME IInv, Next, messages_index \ messages_index' # {}
               PROVE  \E p \in Publishers : pc[p] = "evict" /\ Fitting(Wanted(p)) = {}
    BY DEF vars
  <2>1. PICK p \in Publishers : Evict(p)
    <3>1. \A p \in Publishers : Publish(p) \/ SearchHit(p) \/ SearchMiss(p) \/ Split(p) \/ Retry(p)
            \/ Compact(p) \/ AssociateBuddies(p) \/ Claim(p) \/ Register(p) =>
              messages_index \subseteq messages_index'
      BY DEF Publish, SearchHit, SearchMiss, Split, Retry, Compact, AssociateBuddies, Claim, Register
    <3>2. \A m \in Messages : SenderStep(m) => messages_index' = messages_index
      BY DEF SenderStep, PickUp, Locate, Deserialise, Send, SkipSubscriber, FinishDelivery
    <3> QED BY <3>1, <3>2 DEF Next, PublisherStep
  <2>2. pc[p] = "evict"
    BY <2>1 DEF Evict, Running
  <2> QED BY <2>2 DEF IInv, Publishing
<1> QED BY <1>1, CacheInvariant, PTL DEF Spec, NoNeedlessEviction

-----------------------------------------------------------------------------
(* The order of the messages *)

\* The times of the partitions in use are past, and no two have the same.
UsesApart ==
  /\ \A r : OccupiedIn(Layout, r) =>
       part[r].entry_time <= time_counter /\ part[r].access_time <= time_counter
  /\ \A q, r : OccupiedIn(Layout, q) /\ OccupiedIn(Layout, r) /\ q # r =>
       part[q].entry_time # part[r].entry_time /\ part[q].access_time # part[r].access_time

\* A message has its partition when its publication is over, and not before.
Located ==
  \A m \in Messages : location[m] # NoRef => m \in DOMAIN sizes /\ \A p \in Publishers : cur[p] # m

UInv == IInv /\ UsesApart /\ Located

\* What StoredOrder lists, at the time of each.
Entries == [t \in UseTimes |-> Entry(CHOOSE r \in Stored : LastUse(r) = t)]

\* The stored partitions are the occupied ones, each with a time of its own at which it has
\* its entry.
Accounted ==
  /\ \A r : r \in Stored <=> OccupiedIn(Layout, r)
  /\ UseTimes \subseteq 0..time_counter /\ IsFiniteSet(UseTimes) /\ time_counter \in Nat
  /\ \A r \in Stored : LastUse(r) \in UseTimes /\ Entries[LastUse(r)] = Entry(r)
  /\ \A q, r \in Stored : LastUse(q) = LastUse(r) => q = r
  /\ \A t \in UseTimes : \E r \in Stored : LastUse(r) = t

\* The stored partitions are the occupied ones.
LEMMA StoredIs == LayoutOK(Layout) => \A r : r \in Stored <=> OccupiedIn(Layout, r)
<1> SUFFICES ASSUME LayoutOK(Layout), NEW r PROVE r \in Stored <=> OccupiedIn(Layout, r)
  OBVIOUS
<1>1. DOMAIN partitions = 1..Len(partitions) /\ \A i \in 1..Len(partitions) : part[partitions[i]] \in Partition
  BY LayoutIs
<1>2. \A i \in DOMAIN partitions : part[partitions[i]].is_free \in BOOLEAN
  BY <1>1 DEF Partition
<1> QED BY <1>2 DEF Stored, Places, OccupiedIn, Layout

\* The same after a step.
LEMMA StoredAfter == LayoutOK(Layout)' => \A r : r \in Stored' <=> OccupiedIn(Layout, r)'
<1>1. (LayoutOK(Layout) => \A r : r \in Stored <=> OccupiedIn(Layout, r))'
  BY StoredIs, PTL
<1> QED BY <1>1

\* With the invariant the stored partitions are accounted for.
LEMMA AccountedFor == UInv => Accounted
<1> SUFFICES ASSUME UInv PROVE Accounted
  OBVIOUS
<1>1. TypeOK /\ LayoutOK(Layout) /\ UsesApart
  BY DEF UInv, IInv
<1>2. \A r : r \in Stored <=> OccupiedIn(Layout, r)
  BY <1>1, StoredIs
<1>3. ASSUME NEW r \in Stored PROVE LastUse(r) \in 0..time_counter
  <2>1. part[r] \in Partition
    <3>1. r \in Refs /\ part \in [Refs -> Partition]
      BY <1>1, <1>2, LayoutIs DEF OccupiedIn, Layout
    <3> QED BY <3>1
  <2>2. part[r].entry_time <= time_counter /\ part[r].access_time <= time_counter
    BY <1>1, <1>2 DEF UsesApart
  <2>3. time_counter \in Nat
    BY <1>1 DEF TypeOK
  <2> QED BY <2>1, <2>2, <2>3 DEF LastUse, Partition
<1>4. \A q, r \in Stored : LastUse(q) = LastUse(r) => q = r
  BY <1>1, <1>2 DEF UsesApart, LastUse
<1>5. time_counter \in Nat
  BY <1>1 DEF TypeOK
<1>6. UseTimes \subseteq 0..time_counter
  BY <1>3 DEF UseTimes
<1>7. IsFiniteSet(UseTimes)
  <2>1. IsFiniteSet(0..time_counter)
    BY <1>5, FS_Interval
  <2> QED BY <1>6, <2>1, FS_Subset
<1>8. ASSUME NEW r \in Stored PROVE LastUse(r) \in UseTimes /\ Entries[LastUse(r)] = Entry(r)
  <2>1. LastUse(r) \in UseTimes
    BY DEF UseTimes
  <2>2. (CHOOSE q \in Stored : LastUse(q) = LastUse(r)) = r
    BY <1>4
  <2> QED BY <2>1, <2>2 DEF Entries
<1>9. \A t \in UseTimes : \E r \in Stored : LastUse(r) = t
  BY DEF UseTimes
<1> QED BY <1>2, <1>4, <1>5, <1>6, <1>7, <1>8, <1>9 DEF Accounted

\* The same after a step.
LEMMA AccountedAfter == UInv' => Accounted'
<1>1. (UInv => Accounted)'
  BY AccountedFor, PTL
<1> QED BY <1>1

\* The order is that of the entries at their times.
LEMMA OrderIs == StoredOrder = InOrder(Entries, UseTimes)
BY DEF StoredOrder, Entries

\* It stays as it is when every message keeps its partition and its time.
LEMMA OrderKept ==
  ASSUME Accounted, Accounted', Stored' = Stored,
         \A r \in Stored : LastUse(r)' = LastUse(r) /\ Entry(r)' = Entry(r)
  PROVE  StoredOrder' = StoredOrder
<1>1. UseTimes' = UseTimes
  BY DEF UseTimes
<1>2. \A t \in UseTimes : Entries'[t] = Entries[t]
  <2> SUFFICES ASSUME NEW t \in UseTimes PROVE Entries'[t] = Entries[t]
    OBVIOUS
  <2>1. PICK r \in Stored : LastUse(r) = t
    BY DEF Accounted
  <2>2. Entries[LastUse(r)] = Entry(r)
    BY DEF Accounted
  <2>3. (Entries[LastUse(r)] = Entry(r))'
    BY DEF Accounted
  <2> QED BY <2>1, <2>2, <2>3
<1>3. UseTimes \subseteq Int /\ IsFiniteSet(UseTimes)
  BY DEF Accounted
<1>4. InOrder(Entries', UseTimes) = InOrder(Entries, UseTimes)
  BY <1>2, <1>3, InOrderAgrees
<1>5. StoredOrder' = InOrder(Entries', UseTimes')
  BY OrderIs DEF StoredOrder, Entries
<1> QED BY <1>1, <1>4, <1>5, OrderIs

\* A message whose time is greater than all others is the last.
LEMMA OrderAppended ==
  ASSUME Accounted, Accounted', NEW r, r \notin Stored, \A q : q \in Stored' <=> q \in Stored \/ q = r,
         \A q \in Stored : LastUse(q)' = LastUse(q) /\ Entry(q)' = Entry(q),
         LastUse(r)' = time_counter + 1
  PROVE  StoredOrder' = Append(StoredOrder, Entry(r)')
<1> DEFINE n == time_counter + 1
<1>1. n \in Int /\ UseTimes \subseteq Int /\ IsFiniteSet(UseTimes) /\ \A t \in UseTimes : t < n
  BY DEF Accounted
<1>2. UseTimes' = UseTimes \cup {n}
  <2>1. \A t : t \in UseTimes <=> \E q \in Stored : t = LastUse(q)
    BY DEF UseTimes
  <2>2. \A t : t \in UseTimes' <=> \E q \in Stored' : t = LastUse(q)'
    BY DEF UseTimes
  <2> QED BY <2>1, <2>2
<1>3. \A t \in UseTimes : Entries'[t] = Entries[t]
  <2> SUFFICES ASSUME NEW t \in UseTimes PROVE Entries'[t] = Entries[t]
    OBVIOUS
  <2>1. PICK q \in Stored : LastUse(q) = t
    BY DEF Accounted
  <2>2. Entries[LastUse(q)] = Entry(q)
    BY DEF Accounted
  <2>3. (Entries[LastUse(q)] = Entry(q))'
    BY DEF Accounted
  <2> QED BY <2>1, <2>2, <2>3
<1>4. Entries'[n] = Entry(r)'
  <2>1. (Entries[LastUse(r)] = Entry(r))'
    BY DEF Accounted
  <2> QED BY <2>1
<1>5. InOrder(Entries', UseTimes \cup {n}) = Append(InOrder(Entries, UseTimes), Entries'[n])
  <2> PICK f, g, U, t : f = Entries /\ g = Entries' /\ U = UseTimes /\ t = n
    OBVIOUS
  <2>1. /\ U \subseteq Int /\ IsFiniteSet(U) /\ t \in Int /\ \A u \in U : u < t
        /\ \A u \in U : g[u] = f[u]
    BY <1>1, <1>3
  <2>2. InOrder(g, U \cup {t}) = Append(InOrder(f, U), g[t])
    BY ONLY <2>1, InOrderAppends
  <2> QED BY <2>2
<1>6. StoredOrder' = InOrder(Entries', UseTimes')
  BY OrderIs DEF StoredOrder, Entries
<1> QED BY <1>2, <1>4, <1>5, <1>6, OrderIs

\* The order is a list, with an entry at each place.
LEMMA OrderIsList ==
  ASSUME Accounted
  PROVE  LET E == {Entries[t] : t \in UseTimes}
             c == Cardinality(UseTimes)
         IN  /\ StoredOrder \in Seq(E) /\ Len(StoredOrder) = c /\ c \in Nat
             /\ \A k \in 1..c : StoredOrder[k] = Entries[Nth(UseTimes, k)]
<1>1. UseTimes \subseteq Int /\ IsFiniteSet(UseTimes)
  BY DEF Accounted
<1>2. \A t \in UseTimes : Entries[t] \in {Entries[u] : u \in UseTimes}
  OBVIOUS
<1> QED BY <1>1, <1>2, InOrderIs, OrderIs

\* Without one of the times its message is gone from its place.
LEMMA OrderWithout ==
  ASSUME Accounted, NEW i \in 1..Cardinality(UseTimes)
  PROVE  InOrder(Entries, UseTimes \ {Nth(UseTimes, i)}) = RemoveAt(StoredOrder, i)
<1> DEFINE E == {Entries[t] : t \in UseTimes}
           c == Cardinality(UseTimes)
           T == UseTimes \ {Nth(UseTimes, i)}
           s == RemoveAt(StoredOrder, i)
           u == InOrder(Entries, T)
<1>1. /\ StoredOrder \in Seq(E) /\ Len(StoredOrder) = c /\ c \in Nat
      /\ \A k \in 1..c : StoredOrder[k] = Entries[Nth(UseTimes, k)]
  BY OrderIsList
<1>2. UseTimes \subseteq Int /\ IsFiniteSet(UseTimes)
  BY DEF Accounted
<1>3. /\ T \subseteq Int /\ IsFiniteSet(T) /\ Cardinality(T) = c - 1
      /\ \A k \in 1..(c - 1) : Nth(T, k) = Nth(UseTimes, IF k < i THEN k ELSE k + 1)
  BY <1>2, NthWithout
<1>4. \A t \in T : Entries[t] \in E
  OBVIOUS
<1> HIDE DEF E, T
<1>5. /\ s \in Seq(E) /\ Len(s) = c - 1
      /\ \A k \in 1..(c - 1) : s[k] = StoredOrder[IF k < i THEN k ELSE k + 1]
  BY <1>1, RemoveAtIs
<1>6. /\ u \in Seq(E) /\ Len(u) = c - 1
      /\ \A k \in 1..(c - 1) : u[k] = Entries[Nth(T, k)]
  <2>1. T \subseteq Int /\ IsFiniteSet(T) /\ Cardinality(T) = c - 1
    BY <1>3
  <2> HIDE DEF c, u
  <2>2. /\ InOrder(Entries, T) \in Seq(E) /\ Len(InOrder(Entries, T)) = Cardinality(T)
        /\ \A k \in 1..Cardinality(T) : InOrder(Entries, T)[k] = Entries[Nth(T, k)]
    BY ONLY <2>1, <1>4, InOrderIs
  <2> QED BY <2>1, <2>2 DEF u
<1>7. ASSUME NEW k \in 1..(c - 1) PROVE u[k] = s[k]
  <2>1. (IF k < i THEN k ELSE k + 1) \in 1..c
    BY <1>1
  <2> HIDE DEF c, s, u
  <2> QED BY <1>1, <1>3, <1>5, <1>6, <2>1
<1> HIDE DEF c, s, u
<1>8. u = s
  BY <1>5, <1>6, <1>7, SeqEqual
<1> QED BY <1>8 DEF u, s, T

\* The first leaves the others in their order.
LEMMA OrderDropped ==
  ASSUME Accounted, Accounted', NEW r \in Stored, \A q : q \in Stored' <=> q \in Stored /\ q # r,
         \A q \in Stored : q # r => LastUse(q)' = LastUse(q) /\ Entry(q)' = Entry(q),
         \A q \in Stored : q # r => LastUse(r) < LastUse(q)
  PROVE  StoredOrder # <<>> /\ StoredOrder' = Tail(StoredOrder)
<1> DEFINE n == LastUse(r)
           c == Cardinality(UseTimes)
<1>1. n \in UseTimes /\ UseTimes \subseteq Int /\ IsFiniteSet(UseTimes)
  BY DEF Accounted
<1>2. \A t \in UseTimes : n <= t
  <2> SUFFICES ASSUME NEW q \in Stored PROVE n <= LastUse(q)
    BY DEF Accounted
  <2>1. n \in Int /\ LastUse(q) \in Int
    BY <1>1 DEF Accounted
  <2> QED BY <2>1
<1>3. 1 \in 1..c /\ Nth(UseTimes, 1) = n
  <2>1. {} \in SUBSET UseTimes /\ \A t \in UseTimes : t \in {} <=> t < n
    <3>1. \A t \in UseTimes : t \in Int /\ n \in Int /\ n <= t
      BY <1>1, <1>2
    <3> HIDE DEF n
    <3>2. \A t \in UseTimes : ~(t < n)
      BY <3>1
    <3> QED BY <3>2
  <2>2. Cardinality({}) = 1 - 1
    BY FS_EmptySet
  <2> HIDE DEF n
  <2> QED BY ONLY <1>1, <2>1, <2>2, 1 \in Int, NthIs DEF c
<1>4. UseTimes' = UseTimes \ {n}
  <2>1. \A t : t \in UseTimes <=> \E q \in Stored : t = LastUse(q)
    BY DEF UseTimes
  <2>2. \A t : t \in UseTimes' <=> \E q \in Stored' : t = LastUse(q)'
    BY DEF UseTimes
  <2>3. \A q \in Stored : LastUse(q) = n => q = r
    BY DEF Accounted
  <2> QED BY <2>1, <2>2, <2>3
<1>5. \A t \in UseTimes \ {n} : Entries'[t] = Entries[t]
  <2> SUFFICES ASSUME NEW t \in UseTimes, t # n PROVE Entries'[t] = Entries[t]
    OBVIOUS
  <2>1. PICK q \in Stored : LastUse(q) = t
    BY DEF Accounted
  <2>2. Entries[LastUse(q)] = Entry(q)
    BY DEF Accounted
  <2>3. (Entries[LastUse(q)] = Entry(q))'
    BY <2>1 DEF Accounted
  <2> QED BY <2>1, <2>2, <2>3
<1>6. InOrder(Entries', UseTimes \ {n}) = InOrder(Entries, UseTimes \ {n})
  <2>1. UseTimes \ {n} \subseteq Int /\ IsFiniteSet(UseTimes \ {n})
    BY <1>1, FS_RemoveElement
  <2> HIDE DEF n
  <2> QED BY <1>5, <2>1, InOrderAgrees
<1>7. StoredOrder' = InOrder(Entries', UseTimes')
  BY OrderIs DEF StoredOrder, Entries
<1>8. StoredOrder' = RemoveAt(StoredOrder, 1)
  BY <1>3, <1>4, <1>6, <1>7, OrderWithout
<1> DEFINE E == {Entries[t] : t \in UseTimes}
           s == StoredOrder
<1>9. s \in Seq(E) /\ Len(s) = c /\ c \in Nat
  BY OrderIsList
<1> HIDE DEF E, c, s
<1>10. s # <<>> /\ Tail(s) \in Seq(E) /\ Len(Tail(s)) = c - 1 /\ \A k \in 1..(c - 1) : Tail(s)[k] = s[k + 1]
  <2>1. s # <<>>
    BY <1>3, <1>9, EmptySeq
  <2> QED BY <1>9, <2>1, HeadTailProperties
<1>11. /\ RemoveAt(s, 1) \in Seq(E) /\ Len(RemoveAt(s, 1)) = c - 1
       /\ \A k \in 1..(c - 1) : RemoveAt(s, 1)[k] = s[k + 1]
  <2>1. /\ RemoveAt(s, 1) \in Seq(E) /\ Len(RemoveAt(s, 1)) = Len(s) - 1
        /\ \A k \in 1..(Len(s) - 1) : RemoveAt(s, 1)[k] = s[IF k < 1 THEN k ELSE k + 1]
    BY <1>3, <1>9, RemoveAtIs
  <2>2. \A k \in 1..(c - 1) : ~(k < 1)
    BY <1>9
  <2> QED BY <1>9, <2>1, <2>2
<1>12. RemoveAt(s, 1) = Tail(s)
  BY <1>10, <1>11, SeqEqual
<1> QED BY <1>8, <1>10, <1>12 DEF s

\* A message that gets a new time goes to the end.
LEMMA OrderRenewed ==
  ASSUME Accounted, Accounted', NEW r \in Stored, Stored' = Stored,
         \A q \in Stored : Entry(q)' = Entry(q),
         \A q \in Stored : q # r => LastUse(q)' = LastUse(q),
         LastUse(r)' = time_counter + 1
  PROVE  \E i \in DOMAIN StoredOrder : StoredOrder' = Append(RemoveAt(StoredOrder, i), StoredOrder[i])
<1> DEFINE n == time_counter + 1
           c == Cardinality(UseTimes)
           S == UseTimes \ {LastUse(r)}
<1>1. n \in Int /\ UseTimes \subseteq Int /\ IsFiniteSet(UseTimes) /\ \A t \in UseTimes : t < n
  BY DEF Accounted
<1>2. PICK i \in 1..c : Nth(UseTimes, i) = LastUse(r)
  <2>1. LastUse(r) \in UseTimes
    BY DEF Accounted
  <2> QED BY <1>1, <2>1, NthOfAll
<1>3. UseTimes' = S \cup {n}
  <2>1. \A t : t \in UseTimes <=> \E q \in Stored : t = LastUse(q)
    BY DEF UseTimes
  <2>2. \A t : t \in UseTimes' <=> \E q \in Stored : t = LastUse(q)'
    BY DEF UseTimes
  <2>3. \A q \in Stored : LastUse(q) = LastUse(r) => q = r
    BY DEF Accounted
  <2> QED BY <2>1, <2>2, <2>3
<1>4. \A t \in S : Entries'[t] = Entries[t]
  <2> SUFFICES ASSUME NEW t \in UseTimes, t # LastUse(r) PROVE Entries'[t] = Entries[t]
    OBVIOUS
  <2>1. PICK q \in Stored : LastUse(q) = t
    BY DEF Accounted
  <2>2. Entries[LastUse(q)] = Entry(q)
    BY DEF Accounted
  <2>3. (Entries[LastUse(q)] = Entry(q))'
    BY <2>1 DEF Accounted
  <2> QED BY <2>1, <2>2, <2>3
<1>5. S \subseteq Int /\ IsFiniteSet(S) /\ \A t \in S : t < n
  BY <1>1, FS_RemoveElement
<1>6. InOrder(Entries', S \cup {n}) = Append(InOrder(Entries, S), Entries'[n])
  <2> PICK f, g, U, t : f = Entries /\ g = Entries' /\ U = S /\ t = n
    OBVIOUS
  <2>1. /\ U \subseteq Int /\ IsFiniteSet(U) /\ t \in Int /\ \A u \in U : u < t
        /\ \A u \in U : g[u] = f[u]
    BY <1>1, <1>4, <1>5
  <2>2. InOrder(g, U \cup {t}) = Append(InOrder(f, U), g[t])
    BY ONLY <2>1, InOrderAppends
  <2> QED BY <2>2
<1>7. InOrder(Entries, S) = RemoveAt(StoredOrder, i)
  BY <1>2, OrderWithout
<1>8. Entries'[n] = StoredOrder[i]
  <2>1. (Entries[LastUse(r)] = Entry(r))'
    BY DEF Accounted
  <2>2. Entries[LastUse(r)] = Entry(r)
    BY DEF Accounted
  <2>3. StoredOrder[i] = Entries[LastUse(r)]
    BY <1>2, OrderIsList
  <2> QED BY <2>1, <2>2, <2>3
<1>9. i \in DOMAIN StoredOrder
  <2>1. StoredOrder \in Seq({Entries[t] : t \in UseTimes}) /\ Len(StoredOrder) = c
    BY OrderIsList
  <2> HIDE DEF c
  <2> QED BY <1>2, <2>1, LenProperties
<1>10. StoredOrder' = InOrder(Entries', UseTimes')
  BY OrderIs DEF StoredOrder, Entries
<1> QED BY <1>3, <1>6, <1>7, <1>8, <1>9, <1>10

\* A stored partition has the payload of its owner: its message, or the one that is about to be
\* registered there.
LEMMA OwnerIs ==
  ASSUME OnePublisher, UInv, NEW r \in Stored
  PROVE  /\ HasPayload(r, Owner(r)) /\ Owner(r) \in Messages
         /\ \/ part[r].message # NoMessage /\ Owner(r) = part[r].message
            \/ part[r].message = NoMessage /\ \E p \in Publishers : pc[p] = "register" /\ found[p] = r /\ Owner(r) = cur[p]
<1>1. TypeOK /\ LayoutOK(Layout) /\ Owned /\ Indexed /\ \A p \in Publishers : Publishing(p)
  BY DEF UInv, IInv
<1>2. PICK i \in DOMAIN partitions : partitions[i] = r /\ ~part[r].is_free
  BY <1>1, StoredIs DEF OccupiedIn, Layout
<1>3. CASE part[r].message \in messages_index /\ location[part[r].message] = r
  <2> PICK m : m = part[r].message
    OBVIOUS
  <2>1. m \in Messages /\ m # NoMessage
    <3>1. messages_index \subseteq 1..MaxMessages
      BY <1>1 DEF TypeOK, Messages
    <3>2. m \in 1..MaxMessages
      BY <1>3, <3>1
    <3> QED BY <3>2 DEF Messages, NoMessage
  <2>2. HasPayload(r, m)
    BY <1>1, <1>3 DEF Indexed
  <2> QED BY <2>1, <2>2 DEF Owner
<1>4. CASE part[r].message = NoMessage /\ \E p \in Publishers : pc[p] = "register" /\ found[p] = r
  <2>1. PICK p \in Publishers : pc[p] = "register" /\ found[p] = r
    BY <1>4
  <2>2. p = CHOOSE q \in Publishers : pc[q] = "register" /\ found[q] = r
    BY <2>1 DEF OnePublisher
  <2>3. Owner(r) = cur[p]
    BY <1>4, <2>2 DEF Owner
  <2>4. HasPayload(r, cur[p])
    BY <1>1, <2>1 DEF Publishing
  <2>5. cur[p] \in Messages
    BY <2>1, WantedIs DEF UInv
  <2> QED BY <1>4, <2>1, <2>3, <2>4, <2>5
<1> QED BY <1>1, <1>2, <1>3, <1>4 DEF Owned

\* The payloads of the stored messages are in different bytes of the memory.
LEMMA StoredFits == OnePublisher /\ UInv => Cardinality(Abstract!Bytes(StoredOrder)) <= MemorySize
<1> SUFFICES ASSUME OnePublisher, UInv PROVE Cardinality(Abstract!Bytes(StoredOrder)) <= MemorySize
  OBVIOUS
<1> DEFINE B == Abstract!Bytes(StoredOrder)
           Image == {memory[a] : a \in Addresses}
<1>1. Accounted /\ MemorySize \in Nat /\ TypeOK
  BY AccountedFor, MemoryAssumption DEF UInv, IInv
<1>2. IsFiniteSet(Image) /\ Cardinality(Image) <= MemorySize
  <2> DEFINE f == [i \in 1..MemorySize |-> memory[i - 1]]
  <2>1. f \in [1..MemorySize -> Image]
    <3>1. \A i \in 1..MemorySize : i - 1 \in Addresses
      BY <1>1 DEF Addresses
    <3> QED BY <3>1
  <2>2. \A x \in Image : \E i \in 1..MemorySize : f[i] = x
    <3> SUFFICES ASSUME NEW a \in Addresses PROVE \E i \in 1..MemorySize : f[i] = memory[a]
      OBVIOUS
    <3> PICK i : i = a + 1
      OBVIOUS
    <3>1. i \in 1..MemorySize /\ i - 1 = a
      BY <1>1 DEF Addresses
    <3>2. f[i] = memory[i - 1]
      BY <3>1
    <3> QED BY <3>1, <3>2
  <2> HIDE DEF f, Image
  <2> QED BY <1>1, <2>1, <2>2, ImageBound
<1>3. \A x \in ToSet(StoredOrder) : \E r \in Stored : x = Entry(r)
  <2>1. /\ StoredOrder \in Seq({Entries[t] : t \in UseTimes})
    BY <1>1, OrderIsList
  <2>2. \A x \in ToSet(StoredOrder) : x \in {Entries[t] : t \in UseTimes}
    <3>1. StoredOrder \in [1..Len(StoredOrder) -> {Entries[t] : t \in UseTimes}]
      BY <2>1, LenProperties
    <3> HIDE DEF Entries
    <3> QED BY <3>1 DEF ToSet
  <2>3. \A t \in UseTimes : \E r \in Stored : Entries[t] = Entry(r)
    BY <1>1 DEF Accounted
  <2> QED BY <2>2, <2>3
<1>4. B \in SUBSET Image
  <2> SUFFICES ASSUME NEW y \in B PROVE y \in Image
    OBVIOUS
  <2>1. PICK x \in ToSet(StoredOrder) : y \in {x.id} \X (0..(x.size - 1))
    BY DEF Abstract!Bytes, Abstract!ToSet, ToSet
  <2>2. PICK r \in Stored : x = Entry(r)
    BY <1>3
  <2> PICK m : m = Owner(r)
    OBVIOUS
  <2>3. x.id = m /\ x.size = sizes[m]
    BY <2>2 DEF Entry
  <2>4. PICK k \in 0..(sizes[m] - 1) : y = <<m, k>>
    BY <2>1, <2>3
  <2>5. part[r].start + k \in Addresses /\ memory[part[r].start + k] = <<m, k>>
    BY <2>4, OwnerIs DEF HasPayload, PayloadAt
  <2> QED BY <2>4, <2>5
<1> HIDE DEF B, Image
<1>5. Cardinality(B) <= Cardinality(Image) /\ IsFiniteSet(B)
  BY <1>2, <1>4, FS_Subset
<1>6. Cardinality(B) \in Nat /\ Cardinality(Image) \in Nat
  BY <1>2, <1>5, FS_CardinalityType
<1> QED BY <1>1, <1>2, <1>5, <1>6 DEF B

\* The same after a step.
LEMMA FitsAfter ==
  ASSUME OnePublisher, UInv'
  PROVE  Cardinality(Abstract!Bytes(StoredOrder')) <= MemorySize
<1>1. (OnePublisher /\ UInv => Cardinality(Abstract!Bytes(StoredOrder)) <= MemorySize)'
  BY StoredFits, PTL
<1> QED BY <1>1 DEF OnePublisher

\* The partitions in use are those before, but for some that are gone, as they were.
Kept(X) ==
  /\ \A r : OccupiedIn(Layout, r)' <=> r \notin X /\ OccupiedIn(Layout, r)
  /\ \A r : OccupiedIn(Layout, r)' => SameUse(part'[r], part[r])

\* A step of a publication that has no partition yet.
Working(p, X) ==
  /\ UNCHANGED <<CONFIG, time_counter, location>> /\ Kept(X)
  /\ pc[p] # "register" /\ pc'[p] # "register"
  /\ Len(sizes') >= Len(sizes) /\ \A m \in DOMAIN sizes : sizes'[m] = sizes[m]
  /\ \A q \in Publishers : cur'[q] = cur[q] \/ cur'[q] \notin DOMAIN sizes

\* Such a step leaves the messages that stay as they were.
LEMMA WorkingKeeps ==
  ASSUME OnePublisher, UInv, IInv', NEW p \in Publishers, NEW X, Working(p, X)
  PROVE  /\ UInv'
         /\ \A r : r \in Stored' <=> r \in Stored /\ r \notin X
         /\ \A r \in Stored' : LastUse(r)' = LastUse(r) /\ Entry(r)' = Entry(r)
         /\ EverStored' = EverStored
<1>1. TypeOK /\ LayoutOK(Layout) /\ UsesApart /\ Located /\ TypeOK' /\ LayoutOK(Layout)'
  BY DEF UInv, IInv
<1>2. \A r : r \in Stored <=> OccupiedIn(Layout, r)
  BY <1>1, StoredIs
<1>3. \A r : r \in Stored' <=> OccupiedIn(Layout, r)'
  BY <1>1, StoredAfter
<1>4. \A r : r \in Stored' <=> r \in Stored /\ r \notin X
  BY <1>2, <1>3 DEF Working, Kept
<1>5. \A r \in Stored' : SameUse(part'[r], part[r])
  BY <1>3 DEF Working, Kept
<1>6. UsesApart'
  <2>1. \A r : OccupiedIn(Layout, r)' =>
          /\ OccupiedIn(Layout, r)
          /\ part'[r].entry_time = part[r].entry_time /\ part'[r].access_time = part[r].access_time
    BY DEF Working, Kept, SameUse
  <2> QED BY <1>1, <2>1 DEF UsesApart, Working
<1>7. Located'
  <2>1. DOMAIN sizes = 1..Len(sizes) /\ DOMAIN sizes' = 1..Len(sizes') /\ Len(sizes) \in Nat /\ Len(sizes') \in Nat
    BY <1>1, LenProperties DEF TypeOK
  <2>2. DOMAIN sizes \subseteq DOMAIN sizes'
    BY <2>1 DEF Working
  <2> QED BY <1>1, <2>2 DEF Located, Working
<1>8. ASSUME NEW r \in Stored' PROVE LastUse(r)' = LastUse(r) /\ Entry(r)' = Entry(r)
  <2>1. LastUse(r)' = LastUse(r)
    BY <1>5 DEF LastUse, SameUse, Working
  <2>2. /\ HasPayload(r, Owner(r)) /\ Owner(r) = part[r].message /\ part[r].message # NoMessage
    BY <1>4, OwnerIs DEF OnePublisher, Working
  <2>3. part'[r].message = part[r].message
    BY <1>5 DEF SameUse
  <2>4. Owner(r)' = part[r].message
    BY <2>2, <2>3 DEF Owner
  <2>5. sizes'[Owner(r)] = sizes[Owner(r)]
    BY <2>2 DEF HasPayload, Working
  <2> QED BY <2>1, <2>2, <2>4, <2>5 DEF Entry
<1>9. EverStored' = EverStored
  BY DEF EverStored, OnePublisher, Working
<1> QED BY <1>4, <1>6, <1>7, <1>8, <1>9 DEF UInv

\* What an occupied partition of the layout is.
LEMMA OccupiedIs ==
  ASSUME LayoutOK(Layout), NEW r
  PROVE  /\ OccupiedIn(Layout, r) <=> InList(r) /\ ~part[r].is_free
         /\ InList(r) => r \in Refs /\ part[r] \in Partition
BY LayoutIs DEF OccupiedIn, InList, Layout

\* The steps of a publication that has no partition yet: it looks for one, ...
LEMMA SearchWorks ==
  ASSUME OnePublisher, UInv, UNCHANGED CONFIG, NEW p \in Publishers,
         Publish(p) \/ SearchHit(p) \/ SearchMiss(p) \/ Retry(p)
  PROVE  Working(p, {})
<1>1. TypeOK
  BY DEF UInv, IInv
<1>2. /\ UNCHANGED <<partitions, part, time_counter, location>>
      /\ pc[p] # "register" /\ pc'[p] # "register"
  BY <1>1 DEF Publish, SearchHit, SearchMiss, Retry, Running, Goto, store, TypeOK
<1>3. Kept({})
  BY <1>2 DEF Kept, SameUse, OccupiedIn, Layout
<1>4. CASE Publish(p)
  <2>1. PICK size \in Sizes : sizes' = Append(sizes, size) /\ (cur' = cur \/ cur' = [cur EXCEPT ![p] = Len(sizes')])
    BY <1>4 DEF Publish
  <2>2. sizes \in Seq(Sizes) /\ cur \in [Publishers -> Messages \cup {NoMessage}]
    BY <1>1 DEF TypeOK
  <2>3. /\ Len(sizes') = Len(sizes) + 1 /\ Len(sizes) \in Nat /\ DOMAIN sizes = 1..Len(sizes)
        /\ \A m \in 1..Len(sizes) : sizes'[m] = sizes[m]
    BY <2>1, <2>2, AppendProperties, LenProperties
  <2>4. \A q \in Publishers : cur'[q] = cur[q] \/ cur'[q] = Len(sizes')
    BY <2>1, <2>2
  <2>5. Len(sizes') \notin DOMAIN sizes
    BY <2>3
  <2> QED BY <1>2, <1>3, <2>3, <2>4, <2>5 DEF Working
<1>5. CASE SearchHit(p) \/ SearchMiss(p) \/ Retry(p)
  <2>1. UNCHANGED <<sizes, cur>>
    BY <1>5 DEF SearchHit, SearchMiss, Retry
  <2>2. Len(sizes) \in Nat
    BY <1>1, LenProperties DEF TypeOK
  <2> QED BY <1>2, <1>3, <2>1, <2>2 DEF Working
<1> QED BY <1>4, <1>5

\* ... cuts one or rearranges them, ...
LEMMA LayoutWorks ==
  ASSUME OnePublisher, UInv, UNCHANGED CONFIG, NEW p \in Publishers,
         Split(p) \/ AssociateBuddies(p) \/ Compact(p)
  PROVE  Working(p, {})
<1>1. TypeOK /\ IInv
  BY DEF UInv, IInv
<1>2. UNCHANGED <<time_counter, location, sizes, cur>> /\ pc[p] # "register" /\ pc'[p] # "register"
  <2>1. CASE Split(p)
    <3>1. PICK t, r, label : SplitLeaves(p, t, r, label)
      BY <1>1, <2>1, DynamicSplitLeaves, BuddySplitLeaves
    <3>2. pc'[p] # "register"
      BY <1>1, <3>1 DEF SplitLeaves, TypeOK
    <3> QED BY <2>1, <3>2 DEF Split, Running
  <2>2. CASE AssociateBuddies(p)
    BY <1>1, <2>2 DEF AssociateBuddies, Running, Goto, TypeOK
  <2>3. CASE Compact(p)
    BY <1>1, <2>3 DEF Compact, Running
  <2> QED BY <2>1, <2>2, <2>3
<1>3. OccupiedKept({})
  BY <1>1, SplitKeeps, AssociateBuddiesKeeps, CompactKeeps
<1>4. Kept({})
  BY <1>3 DEF OccupiedKept, Kept
<1>5. Len(sizes) \in Nat
  BY <1>1, LenProperties DEF TypeOK
<1> QED BY <1>2, <1>4, <1>5 DEF Working

\* ... or evicts a message.
LEMMA EvictWorks ==
  ASSUME OnePublisher, UInv, UNCHANGED CONFIG, NEW p \in Publishers, Evict(p)
  PROVE  Working(p, {}) \/ \E i \in DOMAIN partitions : IsVictim(i) /\ Working(p, {partitions[i]})
<1>1. TypeOK /\ IInv
  BY DEF UInv, IInv
<1>2. UNCHANGED <<time_counter, location, sizes, cur>> /\ pc[p] # "register" /\ pc'[p] # "register"
  BY <1>1 DEF Evict, Running, Goto, TypeOK
<1>3. Len(sizes) \in Nat
  BY <1>1, LenProperties DEF TypeOK
<1>4. UNCHANGED <<partitions, part>> \/ \E i : Evicted(i)
  BY <1>1, EvictKeeps
<1>5. CASE UNCHANGED <<partitions, part>>
  <2>1. Kept({})
    BY <1>5 DEF Kept, SameUse, OccupiedIn, Layout
  <2> QED BY <1>2, <1>3, <2>1 DEF Working
<1>6. CASE \E i : Evicted(i)
  <2>1. PICK i : Evicted(i)
    BY <1>6
  <2> PICK X : X = {partitions[i]}
    OBVIOUS
  <2>2. i \in DOMAIN partitions /\ IsVictim(i) /\ Kept(X)
    BY <2>1 DEF Evicted, OccupiedKept, Kept
  <2>3. Working(p, X)
    BY <1>2, <1>3, <2>2 DEF Working
  <2> QED BY <2>2, <2>3
<1> QED BY <1>4, <1>5, <1>6

\* Of a search nothing is seen in the store of messages, ...
LEMMA WorkingImplements ==
  ASSUME OnePublisher, UInv, IInv', NEW p \in Publishers, Working(p, {})
  PROVE  UInv' /\ UNCHANGED Abstract!vars
<1>1. /\ UInv' /\ \A r : r \in Stored' <=> r \in Stored /\ r \notin {}
      /\ \A r \in Stored' : LastUse(r)' = LastUse(r) /\ Entry(r)' = Entry(r)
      /\ EverStored' = EverStored
  BY WorkingKeeps
<1>2. Accounted /\ Accounted'
  BY <1>1, AccountedFor, AccountedAfter
<1>3. Stored' = Stored
  BY <1>1
<1>4. StoredOrder' = StoredOrder
  BY <1>1, <1>2, <1>3, OrderKept
<1> QED BY <1>1, <1>4 DEF Abstract!vars, Working

\* ... and of an eviction that the message with the first time leaves.
LEMMA EvictImplements ==
  ASSUME OnePublisher, UInv, IInv', NEW p \in Publishers,
         NEW i \in DOMAIN partitions, IsVictim(i), Working(p, {partitions[i]})
  PROVE  UInv' /\ UNCHANGED CONFIG.remplacement_alg /\ Abstract!Leave
<1> PICK r : r = partitions[i]
  OBVIOUS
<1>1. /\ UInv' /\ \A q : q \in Stored' <=> q \in Stored /\ q \notin {r}
      /\ \A q \in Stored' : LastUse(q)' = LastUse(q) /\ Entry(q)' = Entry(q)
      /\ EverStored' = EverStored
  BY WorkingKeeps
<1>2. Accounted /\ Accounted'
  BY <1>1, AccountedFor, AccountedAfter
<1>3. r \in Stored /\ \A q : q \in Stored' <=> q \in Stored /\ q # r
  <2>1. OccupiedIn(Layout, r)
    BY DEF IsVictim, OccupiedIn, Layout
  <2> QED BY <1>1, <1>2, <2>1 DEF Accounted
<1>4. \A q \in Stored : q # r => LastUse(q)' = LastUse(q) /\ Entry(q)' = Entry(q)
  BY <1>1, <1>3
<1>5. ASSUME NEW q \in Stored, q # r PROVE LastUse(r) < LastUse(q)
  <2>1. OccupiedIn(Layout, q)
    BY <1>2 DEF Accounted
  <2>2. PICK j \in DOMAIN partitions : partitions[j] = q /\ ~part[q].is_free
    BY <2>1 DEF OccupiedIn, Layout
  <2>3. LastUse(r) < LastUse(q) \/ LastUse(r) = LastUse(q)
    BY <2>2 DEF IsVictim
  <2> QED BY <1>2, <1>3, <1>5, <2>3 DEF Accounted
<1>6. StoredOrder # <<>> /\ StoredOrder' = Tail(StoredOrder)
  BY <1>2, <1>3, <1>4, <1>5, OrderDropped
<1> QED BY <1>1, <1>6 DEF Abstract!Leave, Working

\* A partition that is claimed stores its message, after all others.
LEMMA ClaimImplements ==
  ASSUME OnePublisher, UInv, UNCHANGED CONFIG, NEW p \in Publishers, Claim(p)
  PROVE  UInv' /\ UNCHANGED CONFIG.remplacement_alg /\ Abstract!Store(cur[p])
<1> PICK r : r = found[p]
  OBVIOUS
<1> PICK m : m = cur[p]
  OBVIOUS
<1>1. /\ pc[p] = "claim" /\ pc' = [pc EXCEPT ![p] = "register"] /\ time_counter' = time_counter + 1
      /\ UNCHANGED <<partitions, messages_index, location, sizes, cur, found>>
  BY DEF Claim, Running, Goto
<1>2. TypeOK /\ LayoutOK(Layout) /\ UsesApart /\ Located /\ IInv
  BY DEF UInv, IInv
<1>3. IInv' /\ Claimed(r)
  BY <1>2, ClaimKeeps
<1>4. /\ r \in Refs /\ InList(r) /\ part[r].is_free /\ ~part'[r].is_free /\ part'[r].message = NoMessage
      /\ part'[r].entry_time = time_counter + 1 /\ part'[r].access_time = time_counter + 1
      /\ \A q \in Refs : q # r => part'[q] = part[q]
  BY <1>3 DEF Claimed
<1>5. \A q : InList(q) => q \in Refs
  BY <1>2, OccupiedIs
<1>6. \A q : OccupiedIn(Layout, q)' <=> OccupiedIn(Layout, q) \/ q = r
  <2>1. \A q : OccupiedIn(Layout, q) <=> InList(q) /\ ~part[q].is_free
    BY <1>2, OccupiedIs
  <2>2. \A q : OccupiedIn(Layout, q)' <=> InList(q) /\ ~part'[q].is_free
    BY <1>1 DEF OccupiedIn, InList, Layout
  <2> QED BY <1>4, <1>5, <2>1, <2>2
<1>7. ~OccupiedIn(Layout, r) /\ \A q : OccupiedIn(Layout, q) => q # r /\ part'[q] = part[q]
  <2>1. ~OccupiedIn(Layout, r)
    BY <1>4 DEF OccupiedIn, Layout
  <2>2. \A q : OccupiedIn(Layout, q) => q \in Refs
    BY <1>2, <1>5, OccupiedIs
  <2> QED BY <1>4, <2>1, <2>2
<1>8. UsesApart'
  <2>1. \A q : OccupiedIn(Layout, q) =>
          /\ part[q].entry_time \in Nat /\ part[q].access_time \in Nat
          /\ part[q].entry_time <= time_counter /\ part[q].access_time <= time_counter
    BY <1>2, OccupiedIs DEF UsesApart, Partition
  <2>2. time_counter \in Nat
    BY <1>2 DEF TypeOK
  <2>3. ASSUME NEW q, OccupiedIn(Layout, q)'
        PROVE  part'[q].entry_time <= time_counter + 1 /\ part'[q].access_time <= time_counter + 1
    BY <1>4, <1>6, <1>7, <2>1, <2>2, <2>3
  <2>4. ASSUME NEW q, NEW s, OccupiedIn(Layout, q)', OccupiedIn(Layout, s)', q # s
        PROVE  part'[q].entry_time # part'[s].entry_time /\ part'[q].access_time # part'[s].access_time
    <3>1. CASE q = r
      BY <1>4, <1>6, <1>7, <2>1, <2>2, <2>4, <3>1
    <3>2. CASE s = r
      BY <1>4, <1>6, <1>7, <2>1, <2>2, <2>4, <3>2
    <3>3. CASE q # r /\ s # r
      BY <1>2, <1>6, <1>7, <2>4, <3>3 DEF UsesApart
    <3> QED BY <3>1, <3>2, <3>3
  <2> QED BY <1>1, <2>3, <2>4 DEF UsesApart
<1>9. Located'
  BY <1>1, <1>2 DEF Located
<1>10. UInv'
  BY <1>3, <1>8, <1>9 DEF UInv
<1>11. Accounted /\ Accounted'
  BY <1>10, AccountedFor, AccountedAfter
<1>12. r \notin Stored /\ \A q : q \in Stored' <=> q \in Stored \/ q = r
  BY <1>6, <1>7, <1>11 DEF Accounted
<1>13. \A q \in Stored : part'[q] = part[q]
  BY <1>7, <1>11 DEF Accounted
<1>14. ASSUME NEW q \in Stored PROVE LastUse(q)' = LastUse(q) /\ Entry(q)' = Entry(q)
  <2>1. LastUse(q)' = LastUse(q)
    BY <1>13 DEF LastUse
  <2>2. Owner(q) = part[q].message /\ part[q].message # NoMessage
    BY <1>1, OwnerIs DEF OnePublisher
  <2>3. Owner(q)' = Owner(q)
    BY <1>13, <2>2 DEF Owner
  <2> QED BY <1>1, <2>1, <2>3 DEF Entry
<1>15. LastUse(r)' = time_counter + 1
  BY <1>4 DEF LastUse
<1>16. pc'[p] = "register" /\ Entry(r)' = [id |-> m, size |-> sizes[m]]
  <2>1. pc'[p] = "register"
    BY <1>1, <1>2 DEF TypeOK
  <2>2. p = CHOOSE q \in Publishers : pc'[q] = "register" /\ found'[q] = r
    BY <1>1, <2>1 DEF OnePublisher
  <2>3. Owner(r)' = m
    BY <1>1, <1>4, <2>2 DEF Owner
  <2> QED BY <1>1, <2>1, <2>3 DEF Entry
<1>17. StoredOrder' = Append(StoredOrder, [id |-> m, size |-> sizes[m]])
  <2>1. StoredOrder' = Append(StoredOrder, Entry(r)')
    BY <1>11, <1>12, <1>14, <1>15, OrderAppended
  <2> QED BY <1>16, <2>1
<1>18. m \notin EverStored /\ EverStored' = EverStored \cup {m}
  <2>1. m \in Messages
    BY <1>1, <1>2, WantedIs
  <2>2. location[m] = NoRef
    BY <1>2, <2>1 DEF Located
  <2>3. EverStored = {n \in Messages : location[n] # NoRef}
    BY <1>1 DEF EverStored, OnePublisher
  <2>4. EverStored' = {n \in Messages : location[n] # NoRef} \cup {m}
    BY <1>1, <1>16 DEF EverStored, OnePublisher
  <2> QED BY <2>2, <2>3, <2>4
<1>19. sizes[m] \in 1..MemorySize
  <2>1. sizes[m] \in Nat \ {0} /\ Wanted(p) \in Nat /\ sizes[m] <= Wanted(p) /\ Wanted(p) <= MemorySize
    BY <1>1, <1>2, WantedIs
  <2> QED BY <2>1, MemoryAssumption
<1>20. Cardinality(Abstract!Bytes(StoredOrder')) <= MemorySize
  BY <1>10, FitsAfter
<1> QED BY <1>10, <1>17, <1>18, <1>19, <1>20 DEF Abstract!Store, Abstract!Cardinality, Cardinality

\* The registration is not seen: the message was there from its claim.
LEMMA RegisterImplements ==
  ASSUME OnePublisher, UInv, UNCHANGED CONFIG, NEW p \in Publishers, Register(p)
  PROVE  UInv' /\ UNCHANGED Abstract!vars
<1> PICK r : r = found[p]
  OBVIOUS
<1> PICK m : m = cur[p]
  OBVIOUS
<1>1. /\ pc[p] = "register" /\ pc' = [pc EXCEPT ![p] = "idle"]
      /\ location' = [location EXCEPT ![m] = r] /\ cur' = [cur EXCEPT ![p] = NoMessage]
      /\ UNCHANGED <<partitions, time_counter, sizes>>
  BY DEF Register, Running, Goto
<1>2. TypeOK /\ LayoutOK(Layout) /\ UsesApart /\ Located /\ IInv
  BY DEF UInv, IInv
<1>3. IInv' /\ Registered(r, m)
  BY <1>2, RegisterKeeps
<1>4. /\ r \in Refs /\ InList(r) /\ ~part[r].is_free /\ ~part'[r].is_free
      /\ part[r].message = NoMessage /\ part'[r].message = m
      /\ part'[r].entry_time = part[r].entry_time /\ part'[r].access_time = part[r].access_time
      /\ \A q \in Refs : q # r => part'[q] = part[q]
  BY <1>3 DEF Registered
<1>5. \A q : OccupiedIn(Layout, q) => /\ part'[q].entry_time = part[q].entry_time
                                      /\ part'[q].access_time = part[q].access_time
  BY <1>2, <1>4, OccupiedIs
<1>6. \A q : OccupiedIn(Layout, q)' <=> OccupiedIn(Layout, q)
  <2>1. \A q : OccupiedIn(Layout, q) <=> InList(q) /\ ~part[q].is_free
    BY <1>2, OccupiedIs
  <2>2. \A q : OccupiedIn(Layout, q)' <=> InList(q) /\ ~part'[q].is_free
    BY <1>1 DEF OccupiedIn, InList, Layout
  <2>3. \A q : InList(q) => q \in Refs
    BY <1>2, OccupiedIs
  <2> QED BY <1>4, <2>1, <2>2, <2>3
<1>7. UsesApart'
  BY <1>1, <1>2, <1>5, <1>6 DEF UsesApart
<1>8. m \in Messages /\ m # NoMessage /\ m \in DOMAIN sizes
  BY <1>1, <1>2, WantedIs DEF Messages, NoMessage
<1>9. location'[m] = r /\ (\A n \in Messages : n # m => location'[n] = location[n]) /\ r # NoRef
  BY <1>1, <1>2, <1>4, <1>8 DEF TypeOK, Refs, NoRef
<1>10. Located'
  <2>1. \A n \in Messages : n # NoMessage
    BY DEF Messages, NoMessage
  <2>2. \A q \in Publishers : cur'[q] = NoMessage
    BY <1>1, <1>2 DEF TypeOK, OnePublisher
  <2> QED BY <1>1, <1>2, <1>8, <1>9, <2>1, <2>2 DEF Located
<1>11. UInv'
  BY <1>3, <1>7, <1>10 DEF UInv
<1>12. Accounted /\ Accounted'
  BY <1>11, AccountedFor, AccountedAfter
<1>13. Stored' = Stored /\ \A q \in Stored : OccupiedIn(Layout, q)
  BY <1>6, <1>12 DEF Accounted
<1>14. ASSUME NEW q \in Stored PROVE LastUse(q)' = LastUse(q) /\ Entry(q)' = Entry(q)
  <2>1. LastUse(q)' = LastUse(q)
    BY <1>5, <1>13 DEF LastUse
  <2>2. CASE q = r
    <3>1. Owner(q) = m
      BY <1>4, <2>2, OwnerIs DEF OnePublisher
    <3>2. Owner(q)' = m
      BY <1>4, <1>8, <2>2 DEF Owner
    <3> QED BY <1>1, <2>1, <3>1, <3>2 DEF Entry
  <2>3. CASE q # r
    <3>1. Owner(q) = part[q].message /\ part[q].message # NoMessage
      BY <2>3, OwnerIs DEF OnePublisher
    <3>2. part'[q] = part[q]
      BY <1>2, <1>4, <1>13, <2>3, OccupiedIs
    <3>3. Owner(q)' = Owner(q)
      BY <3>1, <3>2 DEF Owner
    <3> QED BY <1>1, <2>1, <3>3 DEF Entry
  <2> QED BY <2>2, <2>3
<1>15. StoredOrder' = StoredOrder
  BY <1>12, <1>13, <1>14, OrderKept
<1>16. EverStored' = EverStored
  <2>1. EverStored = {n \in Messages : location[n] # NoRef} \cup {m}
    BY <1>1 DEF EverStored, OnePublisher
  <2>2. pc'[p] = "idle"
    BY <1>1, <1>2 DEF TypeOK
  <2>3. EverStored' = {n \in Messages : location'[n] # NoRef}
    BY <2>2 DEF EverStored, OnePublisher
  <2> QED BY <1>8, <1>9, <2>1, <2>3
<1> QED BY <1>11, <1>15, <1>16 DEF Abstract!vars

\* The owners do not change with the times.
LEMMA SameOwners ==
  ASSUME OnePublisher, UInv, UNCHANGED <<publication, sizes>>, NEW q \in Stored,
         part'[q].message = part[q].message
  PROVE  Entry(q)' = Entry(q)
<1>1. UNCHANGED <<pc, cur, found>>
  BY DEF publication
<1>2. Owner(q)' = Owner(q)
  <2>1. CASE part[q].message # NoMessage
    BY <2>1 DEF Owner
  <2>2. CASE part[q].message = NoMessage
    <3>1. PICK p \in Publishers : pc[p] = "register" /\ found[p] = q /\ Owner(q) = cur[p]
      BY <2>2, OwnerIs
    <3>2. p = CHOOSE s \in Publishers : pc'[s] = "register" /\ found'[s] = q
      BY <1>1, <3>1 DEF OnePublisher
    <3> QED BY <1>1, <2>2, <3>1, <3>2 DEF Owner
  <2> QED BY <2>1, <2>2
<1> QED BY <1>2 DEF Entry

\* What leaves the store alone is not seen.
LEMMA QuietImplements ==
  ASSUME OnePublisher, UInv, IInv', UNCHANGED <<CONFIG, store, location, sizes, publication>>
  PROVE  UInv' /\ UNCHANGED Abstract!vars
<1>1. /\ UNCHANGED <<partitions, part, time_counter, location, sizes, pc, cur, found>>
      /\ UsesApart /\ Located
  BY DEF store, publication, UInv
<1>2. \A q : OccupiedIn(Layout, q)' <=> OccupiedIn(Layout, q)
  BY <1>1 DEF OccupiedIn, Layout
<1>3. UsesApart' /\ Located'
  BY <1>1, <1>2 DEF UsesApart, Located
<1>4. UInv' /\ Accounted /\ Accounted'
  <2>1. UInv'
    BY <1>3 DEF UInv
  <2> QED BY <2>1, AccountedFor, AccountedAfter
<1>5. Stored' = Stored
  BY <1>2, <1>4 DEF Accounted
<1>6. \A q \in Stored : LastUse(q)' = LastUse(q) /\ Entry(q)' = Entry(q)
  BY <1>1, SameOwners DEF LastUse
<1>7. StoredOrder' = StoredOrder
  BY <1>4, <1>5, <1>6, OrderKept
<1>8. EverStored' = EverStored
  BY <1>1 DEF EverStored
<1> QED BY <1>4, <1>7, <1>8 DEF Abstract!vars

\* A delivery renews a message under LRU, if the struct it has written to is in use.
LEMMA SendImplements ==
  ASSUME OnePublisher, UInv, UNCHANGED CONFIG, NEW m \in Messages, Send(m)
  PROVE  /\ UInv'
         /\ \/ UNCHANGED Abstract!vars
            \/ UNCHANGED CONFIG.remplacement_alg /\ \E i \in DOMAIN StoredOrder : Abstract!Use(i)
<1> PICK now : now = time_counter + 1
  OBVIOUS
<1>1. TypeOK /\ LayoutOK(Layout) /\ UsesApart /\ Located /\ IInv
  BY DEF UInv, IInv
<1>2. /\ time_counter' = now /\ UNCHANGED <<partitions, location, sizes, publication>>
      /\ \E r : part' = [part EXCEPT ![r].access_time = now]
  BY DEF Send
<1>3. time_counter \in Nat /\ now \in Nat /\ part \in [Refs -> Partition]
  BY <1>1 DEF TypeOK
<1>4. PICK r : part' = [part EXCEPT ![r].access_time = now]
  BY <1>2
<1>5. \A q \in Refs : /\ part'[q].is_free = part[q].is_free /\ part'[q].message = part[q].message
                      /\ part'[q].entry_time = part[q].entry_time
                      /\ part'[q].access_time = IF q = r THEN now ELSE part[q].access_time
  BY <1>3, <1>4, TouchIs
<1>6. IInv'
  <2>1. SenderStep(m)
    BY DEF SenderStep
  <2> QED BY <1>1, <2>1, SenderKeeps
<1>7. \A q : OccupiedIn(Layout, q) => q \in Refs
  BY <1>1, OccupiedIs
<1>8. \A q : OccupiedIn(Layout, q)' <=> OccupiedIn(Layout, q)
  <2>1. \A q : OccupiedIn(Layout, q) <=> InList(q) /\ ~part[q].is_free
    BY <1>1, OccupiedIs
  <2>2. \A q : OccupiedIn(Layout, q)' <=> InList(q) /\ ~part'[q].is_free
    BY <1>2 DEF OccupiedIn, InList, Layout
  <2>3. \A q : InList(q) => q \in Refs
    BY <1>1, OccupiedIs
  <2> QED BY <1>5, <2>1, <2>2, <2>3
<1>9. UsesApart'
  <2>1. \A q : OccupiedIn(Layout, q) =>
          /\ part[q].entry_time \in Nat /\ part[q].access_time \in Nat
          /\ part[q].entry_time <= time_counter /\ part[q].access_time <= time_counter
    BY <1>1, OccupiedIs DEF UsesApart, Partition
  <2>2. ASSUME NEW q, OccupiedIn(Layout, q)'
        PROVE  part'[q].entry_time <= now /\ part'[q].access_time <= now
    <3>1. OccupiedIn(Layout, q) /\ q \in Refs
      BY <1>7, <1>8, <2>2
    <3> QED BY <1>3, <1>5, <2>1, <3>1
  <2>3. ASSUME NEW q, NEW s, OccupiedIn(Layout, q)', OccupiedIn(Layout, s)', q # s
        PROVE  part'[q].entry_time # part'[s].entry_time /\ part'[q].access_time # part'[s].access_time
    <3>1. OccupiedIn(Layout, q) /\ q \in Refs /\ OccupiedIn(Layout, s) /\ s \in Refs
      BY <1>7, <1>8, <2>3
    <3>2. part[q].entry_time # part[s].entry_time /\ part[q].access_time # part[s].access_time
      BY <1>1, <2>3, <3>1 DEF UsesApart
    <3>3. part[q].access_time # now /\ part[s].access_time # now
      BY <1>3, <2>1, <3>1
    <3> QED BY <1>5, <2>3, <3>1, <3>2, <3>3
  <2> QED BY <1>2, <2>2, <2>3 DEF UsesApart
<1>10. Located'
  BY <1>1, <1>2 DEF Located, publication
<1>11. UInv' /\ Accounted /\ Accounted'
  <2>1. UInv'
    BY <1>6, <1>9, <1>10 DEF UInv
  <2> QED BY <2>1, AccountedFor, AccountedAfter
<1>12. Stored' = Stored /\ \A q \in Stored : q \in Refs
  BY <1>7, <1>8, <1>11 DEF Accounted
<1>13. \A q \in Stored : Entry(q)' = Entry(q)
  BY <1>2, <1>5, <1>12, SameOwners
<1>14. EverStored' = EverStored
  BY <1>2 DEF EverStored, publication
<1>15. CASE r \in Stored /\ CONFIG.remplacement_alg = "LRU"
  <2>1. CONFIG.remplacement_alg # "FIFO"
    BY <1>15
  <2>2. LastUse(r)' = time_counter + 1 /\ \A q \in Stored : q # r => LastUse(q)' = LastUse(q)
    BY <1>5, <1>12, <1>15, <2>1 DEF LastUse
  <2>3. PICK i \in DOMAIN StoredOrder : StoredOrder' = Append(RemoveAt(StoredOrder, i), StoredOrder[i])
    BY <1>11, <1>12, <1>13, <1>15, <2>2, OrderRenewed
  <2>4. Abstract!Use(i)
    BY <1>14, <1>15, <2>3 DEF Abstract!Use, Abstract!RemoveAt, RemoveAt
  <2> QED BY <1>11, <2>4
<1>16. CASE ~(r \in Stored /\ CONFIG.remplacement_alg = "LRU")
  <2>1. CONFIG.remplacement_alg \in {"FIFO", "LRU"}
    BY <1>1, MemoryAssumption DEF TypeOK
  <2>2. \A q \in Stored : LastUse(q)' = LastUse(q)
    BY <1>5, <1>12, <1>16, <2>1 DEF LastUse
  <2>3. StoredOrder' = StoredOrder
    BY <1>11, <1>12, <1>13, <2>2, OrderKept
  <2> QED BY <1>11, <1>14, <2>3 DEF Abstract!vars
<1> QED BY <1>15, <1>16

\* In the beginning nothing is stored.
LEMMA InitImplements ==
  ASSUME Init
  PROVE  UInv /\ Abstract!Init
<1>1. IInv /\ TypeOK /\ LayoutOK(Layout)
  BY InitOK DEF IInv
<1>2. \A r : ~OccupiedIn(Layout, r)
  <2>1. partitions = <<1>> /\ part[1].is_free
    BY <1>1 DEF Init, partition_create, Refs, TypeOK
  <2> QED BY <2>1 DEF OccupiedIn, Layout
<1>3. UInv
  BY <1>1, <1>2 DEF UInv, UsesApart, Located, Init
<1>4. Stored = {}
  BY <1>1, <1>2, StoredIs
<1>5. StoredOrder = <<>>
  <2>1. UseTimes = {}
    BY <1>4 DEF UseTimes
  <2>2. /\ StoredOrder \in Seq({Entries[t] : t \in UseTimes}) /\ Len(StoredOrder) = Cardinality(UseTimes)
    BY <1>3, AccountedFor, OrderIsList
  <2>3. Len(StoredOrder) = 0
    BY <2>1, <2>2, FS_EmptySet
  <2> QED BY <2>2, <2>3, EmptySeq
<1>6. EverStored = {}
  BY DEF EverStored, Init
<1>7. CONFIG.remplacement_alg \in {"FIFO", "LRU"}
  BY <1>1, MemoryAssumption DEF TypeOK
<1> QED BY <1>3, <1>5, <1>6, <1>7 DEF Abstract!Init

\* Every step is one of the store of messages, or is not seen there.
LEMMA NextImplements ==
  ASSUME OnePublisher, UInv, [Next]_vars
  PROVE  UInv' /\ [Abstract!Next]_(Abstract!vars)
<1>1. IInv'
  BY NextKeeps DEF UInv
<1>2. CASE UNCHANGED vars
  BY <1>1, <1>2, QuietImplements DEF vars
<1>3. CASE Next
  <2>1. UNCHANGED CONFIG /\ UNCHANGED CONFIG.remplacement_alg
    BY <1>3 DEF Next
  <2>2. ASSUME NEW p \in Publishers, Publish(p) \/ PublisherStep(p)
        PROVE  UInv' /\ [Abstract!Next]_(Abstract!vars)
    <3>1. CASE Publish(p) \/ SearchHit(p) \/ SearchMiss(p) \/ Retry(p)
      BY <1>1, <2>1, <3>1, SearchWorks, WorkingImplements
    <3>2. CASE Split(p) \/ AssociateBuddies(p) \/ Compact(p)
      BY <1>1, <2>1, <3>2, LayoutWorks, WorkingImplements
    <3>3. CASE Evict(p)
      <4>1. CASE Working(p, {})
        BY <1>1, <4>1, WorkingImplements
      <4>2. CASE \E i \in DOMAIN partitions : IsVictim(i) /\ Working(p, {partitions[i]})
        <5>1. UInv' /\ Abstract!Leave
          BY <1>1, <4>2, EvictImplements
        <5> QED BY <2>1, <5>1 DEF Abstract!Next
      <4> QED BY <2>1, <3>3, <4>1, <4>2, EvictWorks
    <3>4. CASE Claim(p)
      <4>1. UInv' /\ Abstract!Store(cur[p])
        BY <2>1, <3>4, ClaimImplements
      <4>2. cur[p] \in Messages
        BY <3>4, WantedIs DEF Claim, Running, UInv
      <4> QED BY <2>1, <4>1, <4>2 DEF Abstract!Next
    <3>5. CASE Register(p)
      BY <2>1, <3>5, RegisterImplements
    <3> QED BY <2>2, <3>1, <3>2, <3>3, <3>4, <3>5 DEF PublisherStep
  <2>3. ASSUME NEW m \in Messages, SenderStep(m)
        PROVE  UInv' /\ [Abstract!Next]_(Abstract!vars)
    <3>1. CASE Send(m)
      <4>1. UInv' /\ (UNCHANGED Abstract!vars \/ \E i \in DOMAIN StoredOrder : Abstract!Use(i))
        BY <2>1, <3>1, SendImplements
      <4> QED BY <2>1, <4>1 DEF Abstract!Next
    <3>2. CASE PickUp(m) \/ Locate(m) \/ Deserialise(m) \/ SkipSubscriber(m) \/ FinishDelivery(m)
      <4>1. UNCHANGED <<store, location, sizes, publication>>
        BY <3>2 DEF PickUp, Locate, Deserialise, SkipSubscriber, FinishDelivery
      <4> QED BY <1>1, <2>1, <4>1, QuietImplements
    <3> QED BY <2>3, <3>1, <3>2 DEF SenderStep
  <2> QED BY <1>3, <2>2, <2>3 DEF Next
<1> QED BY <1>2, <1>3

\* The cache is a store of messages: each is stored once and whole, and the one that leaves is the
\* first that came, or the one that was used least recently.
THEOREM StoreImplemented ==
  ASSUME OnePublisher
  PROVE  Spec => ImplementsMessageStore
<1>1. Init => UInv /\ Abstract!Init
  BY InitImplements
<1>2. UInv /\ [Next]_vars => UInv' /\ [Abstract!Next]_(Abstract!vars)
  BY NextImplements
<1> QED BY <1>1, <1>2, PTL DEF Spec, ImplementsMessageStore, Abstract!Spec
=============================================================================
