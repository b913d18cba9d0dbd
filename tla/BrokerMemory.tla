---------------------------- MODULE BrokerMemory ----------------------------
(***************************************************************************)
(* The message cache of the broker (src/broker/src/broker.c): one block of *)
(* memory cut into partitions, dynamic ones or those of a buddy system,    *)
(* with eviction, consolidation and compaction.  A publication is not      *)
(* atomic: the descriptor thread of the publishing connection searches,    *)
(* splits, evicts, claims, and registers in separate steps, and no mutex   *)
(* spans two of them.  Sender threads hold a message while they deliver it *)
(* and read its payload through a pointer that an eviction does not clear. *)
(***************************************************************************)
EXTENDS Integers, FiniteSets, FiniteSetsExt, SequencesExt, Order

CONSTANTS
  Publishers,        (* connections whose descriptor threads publish         *)
  MemorySize,        (* TAMANO_MEMORIA, in bytes                             *)
  Configs,           (* the rest of the configurations a broker may run with *)
  Sizes,             (* the sizes a serialised payload can have              *)
  MaxMessages,       (* bound: publications in a behaviour                   *)
  MaxSends,          (* bound: deliveries in a behaviour                     *)
  MaxHeld            (* bound: messages that sender threads hold at a time   *)

ASSUME MemoryAssumption ==
  /\ MemorySize \in Nat \ {0}
  /\ \A c \in Configs :
       /\ c.memory_alg \in {"PARTITIONS", "BUDDY_SYSTEM"}   \* ALGORITMO_MEMORIA
       /\ c.remplacement_alg \in {"FIFO", "LRU"}            \* ALGORITMO_REEMPLAZO
       /\ c.seek_alg \in {"FIRST_FIT", "BEST_FIT"}          \* ALGORITMO_PARTICION_LIBRE
       /\ c.compacting_freq \in Nat \cup {-1}               \* FRECUENCIA_COMPACTACION
       /\ c.partition_min_size \in Nat \ {0}               \* TAMANO_MINIMO_PARTICION
  /\ Sizes \subseteq Nat \ {0}
  /\ MaxMessages \in Nat /\ MaxSends \in Nat /\ MaxHeld \in Nat

\* The powers of two, by doubling.
Power[k \in Nat] == IF k = 0 THEN 1 ELSE 2 * Power[k - 1]

\* The buddy system halves and doubles: all the configurations of the
\* repository that choose it have a memory of 64 bytes.
ASSUME BuddyAssumption ==
  (\E c \in Configs : c.memory_alg = "BUDDY_SYSTEM") =>
    \E k \in 1..MemorySize : MemorySize = Power[k]

Messages  == 1..MaxMessages
Addresses == 0..(MemorySize - 1)
Refs      == 1..(MemorySize + MaxMessages + 2)   \* addresses of memory_partition structs
NoMessage == 0
NoRef     == 0
NoByte    == <<NoMessage, 0>>
Nowhere   == -1                    \* no address of the memory

VARIABLES
  CONFIG,          \* the configuration, read once by setup
  partitions,      \* the list of partitions, as references
  part,            \* the memory_partition structs
  memory,          \* main_memory: each byte is <<message, offset>>
  time_counter,
  messages_index,  \* the messages a subscriber can be sent
  location,        \* payload_address_copy of each message
  sizes,           \* payload size of each message published so far
  pc, cur, found, failed_searches,   \* one publication per publisher
  sender,          \* what the threads that deliver a message are doing with it
  reading,         \* the address they deserialise it from, while they do
  sends,           \* deliveries so far
  misread,         \* messages that were deserialised from bytes not theirs
  crashed          \* the broker dereferenced a null message

publication == <<pc, cur, found, failed_searches>>
delivery    == <<sender, reading, sends, misread>>
store       == <<partitions, part, memory, time_counter>>
vars == <<CONFIG, store, messages_index, location, sizes, publication, delivery, crashed>>

-----------------------------------------------------------------------------
(* Partitions *)

partition_create(number, start, size) ==
  [number |-> number, start |-> start, size |-> size, is_free |-> TRUE,
   entry_time |-> 0, access_time |-> 0, message |-> NoMessage]

\* A struct nobody points to: the one malloc hands out next.
NewRef(taken) ==
  LET used == ToSet(partitions) \cup taken
                \cup {location[m] : m \in Messages} \cup {found[p] : p \in Publishers}
      free == Refs \ used
  IN  CHOOSE r \in free : \A q \in free : r <= q

closest_bs_size(size) ==
  Min({n \in {Power[k] : k \in 1..size} : n >= size})

\* The size of the partition that a payload asks for.
PartitionSize(size) ==
  IF CONFIG.memory_alg = "BUDDY_SYSTEM" THEN closest_bs_size(size)
  ELSE IF size < CONFIG.partition_min_size THEN CONFIG.partition_min_size ELSE size

\* Fault: the search forgets is_free.
FittingOccupied(size) == {r \in ToSet(partitions) : part[r].size >= size}

Fitting(size) == {r \in ToSet(partitions) : part[r].is_free /\ part[r].size >= size}

\* First fit is the lowest address; best fit the smallest, the last of equals.
Preferred(r, q) ==
  IF CONFIG.memory_alg = "PARTITIONS" /\ CONFIG.seek_alg = "BEST_FIT"
  THEN \/ part[r].size < part[q].size
       \/ part[r].size = part[q].size /\ part[r].start >= part[q].start
  ELSE part[r].start <= part[q].start

ChosenFit(size) ==
  CHOOSE r \in Fitting(size) : \A q \in Fitting(size) : Preferred(r, q)

\* The list and the structs after a step, as one value.
Layout == [list |-> partitions, heap |-> part]

\* Some structs get their number plus d.
Shifted(heap, refs, d) ==
  [r \in Refs |-> IF r \in refs THEN [heap[r] EXCEPT !.number = @ + d] ELSE heap[r]]

\* The structs of the list whose number is greater than n get number + d.
Renumber(s, n, d) == Shifted(s.heap, {r \in ToSet(s.list) : s.heap[r].number > n}, d)

\* The rest becomes a partition of its own, after the found one in the list; the
\* found one's number says where that is, and who comes after it.
SplitPartition(r, size) ==
  LET n    == part[r].number
      rest == NewRef({})
      tail == SubSeq(partitions, n + 2, Len(partitions))
  IN  [list |-> SubSeq(partitions, 1, n) \o <<r, rest>> \o tail,
       heap |-> [Shifted(part, ToSet(tail), 1) EXCEPT ![r].size = size,
                   ![rest] = partition_create(n + 1, part[r].start + size, part[r].size - size)]]

\* The partition is replaced by two new structs of half its size.
bs_split_partition(r, low, high) ==
  LET half == part[r].size \div 2
      n    == part[r].number
      i    == SelectInSeq(partitions, LAMBDA q : q = r)
  IN  [list |-> SubSeq(partitions, 1, i - 1) \o <<low, high>>
                  \o SubSeq(partitions, i + 1, Len(partitions)),
       heap |-> [Renumber(Layout, n, 1) EXCEPT
                   ![low]  = partition_create(n, part[r].start, half),
                   ![high] = partition_create(n + 1, part[r].start + half, half)]]

\* Fault: the absorbed partition stays in the list.
AbsorbKeepingNext(s, j) ==
  [s EXCEPT !.heap[s.list[j]].size = @ + s.heap[s.list[j + 1]].size]

\* Fault: the partitions after the absorbed one keep their numbers.
AbsorbUnnumbered(s, j) ==
  [AbsorbKeepingNext(s, j) EXCEPT !.list = RemoveAt(@, j + 1)]

\* The partition at j absorbs the one after it.
Absorb(s, j) ==
  LET list  == RemoveAt(s.list, j + 1)
      grown == [s.heap EXCEPT ![s.list[j]].size = @ + s.heap[s.list[j + 1]].size]
      next  == [list |-> list, heap |-> grown]
  IN  [list |-> list, heap |-> Renumber(next, grown[s.list[j]].number, -1)]

ConsolidateAt(s, j) ==
  IF /\ j < Len(s.list)
     /\ s.heap[s.list[j]].is_free /\ s.heap[s.list[j + 1]].is_free
  THEN Absorb(s, j) ELSE s

\* One pass over the list that never looks again at a partition it has grown.
Consolidate(layout) ==
  LET after[j \in 0..Len(layout.list)] ==
        IF j = 0 THEN layout ELSE ConsolidateAt(after[j - 1], j)
  IN  after[Len(layout.list)]

\* addr ^ size, for a size that is a power of two.
BuddyOf(addr, size) ==
  IF (addr \div size) % 2 = 0 THEN addr + size ELSE addr - size

FreeBuddies(s, j) ==
  LET a == s.heap[s.list[j]]
      b == s.heap[s.list[j + 1]]
  IN  a.size = b.size /\ a.is_free /\ b.is_free /\ BuddyOf(a.start, b.size) = b.start

\* The first pair of buddies becomes one.
AssociateOnce(layout) ==
  LET pairs == {j \in 1..(Len(layout.list) - 1) : FreeBuddies(layout, j)}
  IN  IF pairs = {} THEN layout ELSE Absorb(layout, Min(pairs))

\* Fault: nothing is merged.
NoAssociation(layout) == layout

\* Merge a pair and start again, until a pass changes nothing: each pass but the last
\* leaves a partition less.
Associate(layout) ==
  LET after[k \in 0..Len(layout.list)] ==
        IF k = 0 THEN layout ELSE AssociateOnce(after[k - 1])
  IN  after[Len(layout.list)]

\* The places of the free and of the occupied partitions, and their sizes up to each
\* place of the list.
Places(free) == {i \in DOMAIN partitions : part[partitions[i]].is_free = free}

SizeUpTo(free) ==
  LET upto[i \in 0..Len(partitions)] ==
        IF i = 0 THEN 0
        ELSE upto[i - 1] + (IF i \in Places(free) THEN part[partitions[i]].size ELSE 0)
  IN  upto

Occupied == InOrder(partitions, Places(FALSE))

\* last_ptr and removed, when the pass has come to a place.
LastPtr(i) == SizeUpTo(FALSE)[i - 1]
Removed(i) == Cardinality({j \in Places(TRUE) : j < i})

\* Occupied partitions slide down in list order and keep their bytes; what is
\* free becomes one partition at the end.
Compacted ==
  LET rest    == NewRef({})
      end     == Len(partitions)
      free_s  == SizeUpTo(TRUE)[end]
      Slid(i) == [part[partitions[i]] EXCEPT !.start = LastPtr(i), !.number = @ - Removed(i)]
      moved   == [r \in Refs |->
                    IF \E i \in Places(FALSE) : partitions[i] = r
                    THEN Slid(CHOOSE i \in Places(FALSE) : partitions[i] = r) ELSE part[r]]
  IN  IF free_s = 0 THEN [list |-> Occupied, heap |-> moved]
      ELSE [list |-> Append(Occupied, rest),
            heap |-> [moved EXCEPT ![rest] =
              partition_create(Len(Occupied), LastPtr(end + 1), free_s)]]

\* Fault: the partitions move and their bytes do not.
BytesLeftBehind == memory

CompactedMemory ==
  [a \in Addresses |->
     LET sliding == {i \in Places(FALSE) :
                      LastPtr(i) <= a /\ a < LastPtr(i) + part[partitions[i]].size}
     IN  IF sliding = {} THEN memory[a]
         ELSE LET i == CHOOSE i \in sliding : TRUE
              IN  memory[part[partitions[i]].start + (a - LastPtr(i))]]

SetLayout(layout) == partitions' = layout.list /\ part' = layout.heap

-----------------------------------------------------------------------------
(* A publication, run by the descriptor thread of its connection *)

Init ==
  /\ CONFIG \in Configs
  /\ partitions = <<1>>
  /\ part = [r \in Refs |-> IF r = 1 THEN partition_create(0, 0, MemorySize)
                                     ELSE partition_create(0, 0, 0)]
  /\ memory = [a \in Addresses |-> NoByte]
  /\ time_counter = 0
  /\ messages_index = {}
  /\ location = [m \in Messages |-> NoRef]
  /\ sizes = <<>>
  /\ pc = [p \in Publishers |-> "idle"]
  /\ cur = [p \in Publishers |-> NoMessage]
  /\ found = [p \in Publishers |-> NoRef]
  /\ failed_searches = [p \in Publishers |-> 0]
  /\ sender = [m \in Messages |-> "none"]
  /\ reading = [m \in Messages |-> Nowhere]
  /\ sends = 0
  /\ misread = {}
  /\ crashed = FALSE

Running(p, label) == ~crashed /\ pc[p] = label
Goto(p, label)    == pc' = [pc EXCEPT ![p] = label]
Wanted(p)         == PartitionSize(sizes[cur[p]])

\* NEW_MESSAGE: the message gets its id; one that no memory can hold is dropped.
Publish(p) ==
  /\ Running(p, "idle")
  /\ Len(sizes) < MaxMessages
  /\ \E size \in Sizes :
       /\ sizes' = Append(sizes, size)
       /\ IF PartitionSize(size) <= MemorySize
          THEN /\ cur' = [cur EXCEPT ![p] = Len(sizes')]
               /\ Goto(p, "search")
          ELSE UNCHANGED <<cur, pc>>
  /\ UNCHANGED <<store, messages_index, location, found, failed_searches, delivery, crashed>>

SearchHit(p) ==
  /\ Running(p, "search")
  /\ Fitting(Wanted(p)) # {}
  /\ LET r == ChosenFit(Wanted(p))
     IN  /\ found' = [found EXCEPT ![p] = r]
         /\ Goto(p, IF part[r].size = Wanted(p) THEN "claim" ELSE "split")
  /\ UNCHANGED <<store, messages_index, location, sizes, cur, failed_searches, delivery, crashed>>

\* The buddy system associates before its second search and evicts after it;
\* the dynamic partitions evict at once.
SearchMiss(p) ==
  /\ Running(p, "search")
  /\ Fitting(Wanted(p)) = {}
  /\ LET misses == failed_searches[p] + 1
     IN  CASE CONFIG.memory_alg = "BUDDY_SYSTEM" ->
                /\ failed_searches' = [failed_searches EXCEPT ![p] = misses % 2]
                /\ Goto(p, IF misses = 1 THEN "compact" ELSE "evict")
           [] OTHER ->
                /\ failed_searches' = [failed_searches EXCEPT
                                         ![p] = IF CONFIG.compacting_freq = -1 THEN 1 ELSE misses]
                /\ Goto(p, "evict")
  /\ UNCHANGED <<store, messages_index, location, sizes, cur, found, delivery, crashed>>

Split(p) ==
  /\ Running(p, "split")
  /\ IF CONFIG.memory_alg = "BUDDY_SYSTEM"
     THEN LET low  == NewRef({})
              high == NewRef({low})
          IN  /\ SetLayout(bs_split_partition(found[p], low, high))
              /\ found' = [found EXCEPT ![p] = low]
              /\ Goto(p, IF part'[low].size > Wanted(p) THEN "split" ELSE "claim")
     ELSE /\ SetLayout(SplitPartition(found[p], Wanted(p)))
          /\ Goto(p, "claim")
          /\ UNCHANGED found
  /\ UNCHANGED <<memory, time_counter, messages_index, location, sizes, cur,
                 failed_searches, delivery, crashed>>

\* The occupied partition with the oldest time, the last of equals.
LastUse(r) == IF CONFIG.remplacement_alg = "FIFO" THEN part[r].entry_time ELSE part[r].access_time

\* Fault: the first occupied partition, whatever its time.
IsFirstOccupied(i) ==
  /\ ~part[partitions[i]].is_free
  /\ \A j \in 1..(i - 1) : part[partitions[j]].is_free

IsVictim(i) ==
  /\ ~part[partitions[i]].is_free
  /\ \A j \in DOMAIN partitions :
       ~part[partitions[j]].is_free =>
         \/ LastUse(partitions[i]) < LastUse(partitions[j])
         \/ LastUse(partitions[i]) = LastUse(partitions[j]) /\ j <= i

\* Fault: the partition loses its message and stays occupied.
ReleasedOccupied(r) == [list |-> partitions, heap |-> [part EXCEPT ![r].message = NoMessage]]

Released(r) ==
  [list |-> partitions,
   heap |-> [part EXCEPT ![r].message = NoMessage, ![r].is_free = TRUE]]

free_memory_partition(r) ==
  IF part[r].message = NoMessage
  THEN /\ crashed' = TRUE                  \* partition->message->message
       /\ UNCHANGED <<partitions, part, messages_index>>
  ELSE /\ messages_index' = messages_index \ {part[r].message}
       /\ SetLayout(IF CONFIG.memory_alg = "BUDDY_SYSTEM" THEN Associate(Released(r))
                                                  ELSE Consolidate(Released(r)))
       /\ UNCHANGED crashed

\* remove_a_partition, from any of the searches.
Evict(p) ==
  /\ Running(p, "evict")
  /\ IF \E i \in DOMAIN partitions : IsVictim(i)
     THEN free_memory_partition(partitions[CHOOSE i \in DOMAIN partitions : IsVictim(i)])
     ELSE UNCHANGED <<partitions, part, messages_index, crashed>>
  /\ Goto(p, IF CONFIG.memory_alg = "BUDDY_SYSTEM" THEN "search" ELSE "check")
  /\ UNCHANGED <<memory, time_counter, location, sizes, cur, found, failed_searches, delivery>>

\* The loop conditions of the dynamic partitions: search again or compact.
\* Fault: compact again and again, never search again.
NeverSearchAgain(p) == FALSE

SearchAgain(p) ==
  IF CONFIG.compacting_freq = -1 THEN Len(partitions) > 1 ELSE failed_searches[p] < CONFIG.compacting_freq

\* Fault: evict until there is nothing left, without searching in between.
RetryByEvicting(p) ==
  /\ Running(p, "check")
  /\ SearchAgain(p)
  /\ Goto(p, "evict")
  /\ UNCHANGED <<store, messages_index, location, sizes, cur, found, failed_searches,
                 delivery, crashed>>

Retry(p) ==
  /\ Running(p, "check")
  /\ SearchAgain(p)
  /\ Goto(p, "search")
  /\ UNCHANGED <<store, messages_index, location, sizes, cur, found, failed_searches,
                 delivery, crashed>>

Compact(p) ==
  /\ Running(p, "check")
  /\ ~SearchAgain(p)
  /\ SetLayout(Compacted)
  /\ memory' = CompactedMemory
  /\ failed_searches' = [failed_searches EXCEPT ![p] = IF CONFIG.compacting_freq = -1 THEN @ ELSE 0]
  /\ UNCHANGED <<time_counter, messages_index, location, sizes, pc, cur, found, delivery, crashed>>

AssociateBuddies(p) ==
  /\ Running(p, "compact")
  /\ SetLayout(Associate(Layout))
  /\ Goto(p, "search")
  /\ UNCHANGED <<memory, time_counter, messages_index, location, sizes, cur, found,
                 failed_searches, delivery, crashed>>

\* write_payload_to_memory: nobody has looked at is_free since the search.
Claim(p) ==
  LET r == found[p]
      m == cur[p]
      start == part[r].start
  IN  /\ Running(p, "claim")
      /\ time_counter' = time_counter + 1
      /\ part' = [part EXCEPT ![r].is_free = FALSE,
                              ![r].entry_time = time_counter', ![r].access_time = time_counter']
      /\ memory' = [a \in Addresses |->
                      IF start <= a /\ a < start + sizes[m] THEN <<m, a - start>> ELSE memory[a]]
      /\ Goto(p, "register")
      /\ UNCHANGED <<partitions, messages_index, location, sizes, cur, found, failed_searches,
                     delivery, crashed>>

\* The partition gets its message, the queue and the index get it too, and the
\* broadcast thread starts with it (and ends if the queue has no subscribers).
Held == {m \in Messages : sender[m] # "none"}

Register(p) ==
  LET r == found[p]
      m == cur[p]
  IN  /\ Running(p, "register")
      /\ part' = [part EXCEPT ![r].message = m]
      /\ location' = [location EXCEPT ![m] = r]
      /\ messages_index' = messages_index \cup {m}
      /\ \/ Cardinality(Held) < MaxHeld /\ sender' = [sender EXCEPT ![m] = "holding"]
         \/ sender' = [sender EXCEPT ![m] = "none"]
      /\ found' = [found EXCEPT ![p] = NoRef]
      /\ cur' = [cur EXCEPT ![p] = NoMessage]
      /\ failed_searches' = [failed_searches EXCEPT ![p] = 0]
      /\ Goto(p, "idle")
      /\ UNCHANGED <<partitions, memory, time_counter, sizes, reading, sends, misread, crashed>>

-----------------------------------------------------------------------------
(* The threads that deliver a message: its broadcast, and the updates of     *)
(* subscribers that become ready                                             *)

\* update_subscriber_with_messages_for_queue takes a message off the queue's list.
PickUp(m) ==
  /\ ~crashed
  /\ m \in messages_index /\ sender[m] = "none" /\ Cardinality(Held) < MaxHeld
  /\ sender' = [sender EXCEPT ![m] = "holding"]
  /\ UNCHANGED <<store, messages_index, location, sizes, publication, reading, sends, misread,
                 crashed>>

\* The bytes of a payload are at an address.
PayloadAt(start, m) ==
  \A k \in 0..(sizes[m] - 1) : start + k \in Addresses /\ memory[start + k] = <<m, k>>

\* The buddy system frees the structs of the partitions it splits or joins: what
\* a read through one of them returns is anyone's guess.
FreedStruct(r) == CONFIG.memory_alg = "BUDDY_SYSTEM" /\ r \notin ToSet(partitions)

\* partition->partition_start, the argument of deserialize_message_payload.
Locate(m) ==
  /\ ~crashed
  /\ sender[m] = "holding"
  /\ sender' = [sender EXCEPT ![m] = "reading"]
  /\ \E start \in {part[location[m]].start}
                    \cup (IF FreedStruct(location[m]) THEN {Nowhere} ELSE {}) :
       reading' = [reading EXCEPT ![m] = start]
  /\ UNCHANGED <<store, messages_index, location, sizes, publication, sends, misread, crashed>>

\* It copies the payload from there field by field, without memory_access_mutex:
\* one field with others to come, or the last.
Deserialise(m) ==
  /\ ~crashed
  /\ sender[m] = "reading"
  /\ misread' = IF PayloadAt(reading[m], m) THEN misread ELSE misread \cup {m}
  /\ \/ UNCHANGED <<sender, reading>>
     \/ /\ sender' = [sender EXCEPT ![m] = "sending"]
        /\ reading' = [reading EXCEPT ![m] = Nowhere]
  /\ UNCHANGED <<store, messages_index, location, sizes, publication, sends, crashed>>

\* access_partition, once the message is on the subscriber's socket: the time goes to
\* the struct of the partition, or to whatever malloc has put in its place.
Touchable(m) ==
  {location[m]} \cup (IF FreedStruct(location[m]) THEN ToSet(partitions) ELSE {})

Send(m) ==
  /\ ~crashed
  /\ sender[m] = "sending" /\ sends < MaxSends
  /\ sender' = [sender EXCEPT ![m] = "holding"]
  /\ sends' = sends + 1
  /\ time_counter' = time_counter + 1
  /\ \E r \in Touchable(m) : part' = [part EXCEPT ![r].access_time = time_counter']
  /\ UNCHANGED <<partitions, memory, messages_index, location, sizes, publication, reading,
                 misread, crashed>>

\* The subscriber had it already, or is not ready.
SkipSubscriber(m) ==
  /\ ~crashed
  /\ sender[m] = "sending"
  /\ sender' = [sender EXCEPT ![m] = "holding"]
  /\ UNCHANGED <<store, messages_index, location, sizes, publication, reading, sends, misread,
                 crashed>>

FinishDelivery(m) ==
  /\ ~crashed
  /\ sender[m] = "holding"
  /\ sender' = [sender EXCEPT ![m] = "none"]
  /\ UNCHANGED <<store, messages_index, location, sizes, publication, reading, sends, misread,
                 crashed>>

PublisherStep(p) ==
  \/ SearchHit(p) \/ SearchMiss(p) \/ Split(p) \/ Evict(p) \/ Retry(p)
  \/ Compact(p) \/ AssociateBuddies(p) \/ Claim(p) \/ Register(p)

SenderStep(m) ==
  PickUp(m) \/ Locate(m) \/ Deserialise(m) \/ Send(m) \/ SkipSubscriber(m) \/ FinishDelivery(m)

Next ==
  /\ UNCHANGED CONFIG
  /\ \/ \E p \in Publishers : Publish(p) \/ PublisherStep(p)
     \/ \E m \in Messages : SenderStep(m)

Spec == Init /\ [][Next]_vars

\* A descriptor thread that has begun a publication goes on with it: weak fairness
\* of PublisherStep(p), written with the state predicate that enables it.
FairSpec ==
  /\ Spec
  /\ \A p \in Publishers :
       <>[](~crashed /\ pc[p] # "idle") => []<><<PublisherStep(p)>>_vars

-----------------------------------------------------------------------------
(* Properties *)

Partition == [number : 0..MemorySize, start : 0..MemorySize, size : 0..MemorySize,
              is_free : BOOLEAN, entry_time : Nat, access_time : Nat,
              message : Messages \cup {NoMessage}]

\* The values the variables take; the list holds each struct once.
TypeOK ==
  /\ CONFIG \in Configs
  /\ partitions \in Seq(Refs) /\ IsInjective(partitions)
  /\ part \in [Refs -> Partition]
  /\ memory \in [Addresses -> (Messages \X Addresses) \cup {NoByte}]
  /\ time_counter \in Nat
  /\ messages_index \subseteq Messages
  /\ location \in [Messages -> Refs \cup {NoRef}]
  /\ sizes \in Seq(Sizes) /\ Len(sizes) <= MaxMessages
  /\ pc \in [Publishers -> {"idle", "search", "split", "evict", "check", "compact",
                            "claim", "register"}]
  /\ cur \in [Publishers -> Messages \cup {NoMessage}]
  /\ found \in [Publishers -> Refs \cup {NoRef}]
  /\ failed_searches \in [Publishers -> Nat]
  /\ sender \in [Messages -> {"none", "holding", "reading", "sending"}]
  /\ reading \in [Messages -> {Nowhere} \cup 0..MemorySize]
  /\ sends \in 0..MaxSends
  /\ misread \subseteq Messages
  /\ crashed \in BOOLEAN

\* The partitions lie end to end over the whole memory and each one's number is
\* its index: the split rebuilds the list from that number (322-342), and the
\* search walks the memory by the addresses and sizes (287-316).
PartitionsTile ==
  /\ part[partitions[1]].start = 0
  /\ \A i \in DOMAIN partitions :
       LET x == part[partitions[i]]
           end == x.start + x.size
       IN  /\ x.number = i - 1
           /\ x.size > 0
           /\ end = IF i = Len(partitions) THEN MemorySize
                                           ELSE part[partitions[i + 1]].start

\* A message that subscribers can still be sent has its own occupied partition,
\* and its bytes are there, whatever was evicted, merged or moved since.
IndexedPayloadIntact ==
  \A m \in messages_index :
    LET r == location[m]
    IN  /\ Contains(partitions, r)
        /\ ~part[r].is_free /\ part[r].message = m
        /\ PayloadAt(part[r].start, m)

\* No memory is lost: an occupied partition belongs to a message in the index,
\* or to a publication about to register it.
OccupiedAreIndexed ==
  \A r \in ToSet(partitions) : ~part[r].is_free =>
    \/ part[r].message \in messages_index
    \/ \E p \in Publishers : pc[p] = "register" /\ found[p] = r

\* While a thread copies a payload out of the memory the message can be evicted, or
\* a compaction can slide it down (514-515): nothing else makes it copy bytes that
\* are not the message's, and under the buddy system only the eviction does.
MovedDown(m) == CONFIG.memory_alg = "PARTITIONS" /\ part[location[m]].start < reading[m]

MisreadOnlyIfEvictedOrMoved ==
  [][\A m \in misread' \ misread : m \notin messages_index \/ MovedDown(m)]_vars

\* A message is evicted only for a publication that no free partition can hold (a compaction
\* might still have made one that can: FRECUENCIA_COMPACTACION says when it is tried).
NoNeedlessEviction ==
  [][messages_index \ messages_index' # {} =>
       \E p \in Publishers : pc[p] = "evict" /\ Fitting(Wanted(p)) = {}]_vars

\* With the frequency at -1 there is no way out once everything is evicted: the
\* loop compacts only when a single partition is left, and never searches it
\* again (358-366); of the free neighbours that consolidation leaves, it searches
\* each alone.
Spinning(p) ==
  /\ CONFIG.compacting_freq = -1
  /\ Places(FALSE) = {}
  /\ IF Len(partitions) = 1 THEN pc[p] = "check"
                            ELSE pc[p] \in {"check", "search"} /\ Fitting(Wanted(p)) = {}

\* The search for a partition ends, however many evictions and compactions it
\* takes, except in that loop.
PublicationEnds ==
  \A p \in Publishers : pc[p] # "idle" ~> (pc[p] = "idle" \/ Spinning(p))

\* Buddies: sizes are powers of two, each block starts at a multiple of its size.
BuddyBlocks ==
  CONFIG.memory_alg = "BUDDY_SYSTEM" =>
    \A r \in ToSet(partitions) :
      /\ \E k \in 0..MemorySize : part[r].size = Power[k]
      /\ part[r].start % part[r].size = 0

\* Free buddies are never left apart, but for the halves of a split whose first
\* half the publication is about to claim or to split again.
NoFreeBuddies ==
  CONFIG.memory_alg = "BUDDY_SYSTEM" /\ (\A p \in Publishers : pc[p] \notin {"split", "claim"}) =>
    \A j \in 1..(Len(partitions) - 1) : ~FreeBuddies(Layout, j)

\* The cache implements MessageStore.  The order is that of the times eviction
\* compares; a claimed partition counts from its claim, for its publication.
Owner(r) ==
  IF part[r].message # NoMessage THEN part[r].message
  ELSE cur[CHOOSE p \in Publishers : pc[p] = "register" /\ found[p] = r]

Stored   == {partitions[i] : i \in Places(FALSE)}
UseTimes == {LastUse(r) : r \in Stored}
Entry(r) == [id |-> Owner(r), size |-> sizes[Owner(r)]]

StoredOrder ==
  InOrder([t \in UseTimes |-> Entry(CHOOSE r \in Stored : LastUse(r) = t)], UseTimes)

EverStored ==
  {m \in Messages : location[m] # NoRef}
    \cup {cur[p] : p \in {q \in Publishers : pc[q] = "register"}}

Abstract == INSTANCE MessageStore WITH
  Capacity <- MemorySize, policy <- CONFIG.remplacement_alg,
  order <- StoredOrder, past <- EverStored

ImplementsMessageStore == Abstract!Spec
=============================================================================
