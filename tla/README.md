# Models of the Pokemon broker, its GameCard and its Teams

TLA+ specifications of the programs in `src/` (four C processes over one
library), the TLC configurations that check them on small instances, and TLAPS
proofs about them. `PROJECT.json` says which definition models which lines, what
each run checks, and which mutation of which definition each property catches.

## 1. The system

| Component | Source | State | Operations |
|---|---|---|---|
| Broker: message cache | `broker/src/broker.c` 160-610 | one block of memory, a list of partitions, a time counter | store a payload (search, split, evict, consolidate, associate, compact), touch, read |
| Broker: queues and delivery | `broker.c` 611-823, 1058-1187, 1319-1412 | six queues with subscribers and messages, clients found by descriptor with three mutexes each | subscribe, ready, PROCESSED, publish, broadcast thread per message, update thread per subscriber that becomes ready, disconnect |
| Broker: server loop | `broker.c` 1195-1290 | arrays of 50 sockets | select, accept, a thread per descriptor, close |
| GameCard: TallGrass | `gamecard/src/gamecard.c` 222-768 | bitmap (memory and disk), a metadata file per pokemon, block files | NEW_POKEMON, CATCH_POKEMON, GET_POKEMON, start |
| GameCard: requests | `gamecard.c` 50-170, 479-562 | op_mutex, broker_mutex, has_broker_connection | receive from broker or GameBoy, answer, reconnect |
| Team: planner and trainers | `team/src/team.c` 447-1082 | ready queue, executing trainer, a thread and a mutex per trainer | assign, plan (FIFO, RR), move, catch, wait |
| Team: requirements | `team.c` 121-302, 686-709 | what is needed, in progress, caught; appearances nobody has been given | appeared, localized, caught |
| Team: deadlocks | `team.c` 1084-1305, 897-1012 | groups of trainers | detect, choose a solver, trade |
| Team: broker connection | `team.c` 84-96, 237-246, 305-445, 844-853 | broker_mutex, the gate all_gets_ready, internal need, gets left | initial GETs, receive loop, CATCH, reconnect |
| Library: wire | `library/library/functions.c` 60-201, 305-505 | none: the words on a socket | subscribe, ready, send a message and read its id, receive, acknowledge, PROCESSED |
| GameBoy, console, deployment | `gameboy/`, `library/`, `deploy/` | none | one message or one subscription |

How they interact: every process connects to the broker, subscribes to queues,
declares itself ready and gets the messages of its queues, each of which it must
answer with PROCESSED before it gets the next. Teams send GET and CATCH, the
GameCard answers LOCALIZED and CAUGHT with the id of the question, and the
GameBoy sends anything to anyone. Inside a process the parts share memory under
mutexes that seldom cover a whole operation.

What is hard, by component, and what would make it correct:

* **Cache.** A publication is half a dozen steps with no mutex over them, while
  other threads read payloads through pointers. Correct when partitions tile the
  memory, an indexed message's bytes are where the index says, eviction goes by
  the algorithm's time, none is lost or evicted in vain, and the search ends.
* **Delivery.** Two kinds of threads loop by index over lists that others
  change, and a lock is released by a message of the peer. Correct when each
  ready subscriber gets each message once, one at a time, whoever dies.
* **TallGrass.** A request is several writes to disk, and the process can die
  between or within any two. Correct when files never share blocks, no block is
  lost, and what is read is what was answered.
* **Connections.** GameCard and Team each have one socket to the broker, on which
  several threads ask and read answers that do not say whose they are, while the
  broker sends messages of its own. Mutexes are unlocked by threads that did not
  lock them, and the listener goes on to wait for one that it holds. Correct when
  everyone reads the words meant for it, one request works at a time, and nobody
  waits for ever, also when the broker dies and comes back.
* **Team.** The planner and the trainers hand one token round with two kinds of
  mutexes and a pointer that no mutex protects; receivers change the
  requirements. Correct when each pokemon in progress is some trainer's or is
  waiting for one, no trainer with work is forgotten, and a team that has caught
  everything trades until each trainer is complete.

`hazards` in `PROJECT.json` lists each of these at its line.

## 2. Modules

| Module | Models | Extends / instantiates |
|---|---|---|
| `Order` | the k-th number of a set, and lists built by walking another | |
| `OrderProofs` | lemmas about them and about least numbers | `Order`, `TLAPS` |
| `MessageStore` | abstract: what a cache promises (who is stored, who leaves next) | |
| `BrokerMemory` | the cache, implements `MessageStore` | `Order`, `INSTANCE MessageStore` |
| `MCBrokerMemory` | three configurations of the broker (`Never` is FRECUENCIA_COMPACTACION=-1) | `BrokerMemory` |
| `BrokerMemoryProofs` | theorems | `BrokerMemory`, `OrderProofs` |
| `BrokerDelivery` | one queue, its subscribers, threads and connections | |
| `MCBrokerDelivery` | symmetry, and the state that the liveness runs start in | `BrokerDelivery` |
| `BrokerDeliveryProofs` | theorems | `BrokerDelivery`, `TLAPS` |
| `BrokerLink` | one socket between the broker and a subscriber, word by word | |
| `LinkProofs` | lemmas about the link, for both of its users | `BrokerLink`, `TLAPS` |
| `GameCardRequests` | the GameCard's listener, server thread and requests on such a socket | `BrokerLink` |
| `GameCardProofs` | theorems | `GameCardRequests`, `LinkProofs` |
| `TeamBroker` | the Team's listener, GETs, trainers and server thread on such a socket | `BrokerLink` |
| `MCTeamBroker` | the set of threads | `TeamBroker` |
| `TeamBrokerProofs` | theorems | `TeamBroker`, `LinkProofs` |
| `PokemonPlaces` | abstract: how many pokemons are where, and the answers | |
| `TallGrass` | the file system, implements `PokemonPlaces` | `Order`, `INSTANCE PokemonPlaces` |
| `MCTallGrass` | symmetry | `TallGrass` |
| `TallGrassProofs` | theorems | `TallGrass`, `OrderProofs` |
| `Team` | requirements, planner, trainers, deadlocks, trades | |
| `MCTeam` | three small teams | `Team` |
| `TeamProofs` | theorems | `Team`, `OrderProofs` |

Definitions keep the names of the C code where they stand for a function or a
field. A definition under the comment `Fault:` is not part of a specification:
it is what its successor would be with a plausible bug, and is used only to show
that a property notices.

### BrokerMemory

`CONFIG` is the broker's configuration, any of `Configs`, and never changes;
`partitions` is the list, `part` the structs by address, `memory` each byte as
the message and offset that was written there. A publisher is a descriptor
thread in NEW_MESSAGE: `Publish` (id, size), `SearchHit` or `SearchMiss`,
`Split`, `Evict`, `Retry` or `Compact` (dynamic partitions),
`AssociateBuddies` (buddy system), `Claim` (write_payload_to_memory) and
`Register` (add_message_to_queue). No mutex spans two of these in the code, so
each is an action. Delivering threads are `PickUp`, `Locate` (it takes the address of the
payload, by value), `Deserialise` (it copies one field from there, or the last; no mutex
keeps an eviction or a compaction from coming in between), `Send`, `SkipSubscriber` and
`FinishDelivery`. A compaction is one step, under memory_access_mutex: a field that is
copied while the bytes slide may also be half of each, which counts as bytes of another
message once the partition has its new place.

The split rebuilds the list from the partition's `number`, as the code does;
consolidation is the one pass of the code, not a full merge; compaction moves
bytes. Buddy splits and joins free structs: a read through a freed one may
return anything, and `Send` may then write its time into any partition that malloc
has put there. Abstractions: the sizes of payloads stand for the payloads; where
the code copies overlapping ranges with memcpy the model copies as memmove does,
as the C library on the project's machines does; a freed struct is reused for
partitions only.

### BrokerDelivery

`client` is the struct found by descriptor, never removed; the three mutexes are
`ready_to_recieve_mutex` (who holds it), `access_answering` (locked or not, as
whoever locked it, PROCESSED unlocks it) and the ready flag's. `Broadcast(m)` and
`Update(f, n)` are threads with a `pc`, a loop `index` and the `current` element.
`PickSubscriber`/`PickMessage` deserialise into the shared payload field;
`LockReady`, `Send` and `Skip` are send_message_to_client. `Die` is the peer's
end, `Disconnect` the end of descriptor_socket, `Close` the server loop's, after
which `Connect` may reuse the descriptor and with it the struct. One queue stands
for six that share nothing but the clients.

### BrokerLink

What the library's functions put on a socket or take from it is a `script` of
`send` and `recv` steps, in the order of the code; a thread goes through its
script with `SendWord` and `ReceiveWord`, and a word carries whose it is so that
the model can tell when a thread takes another's (`out_of_step`: from there on
the code reads bytes as what they are not, which may kill the process there and then,
and the model follows it no further: what the threads that survive do with the bytes
is left out). A word is a
send of the code, or all that is sent in a row without an answer between:
a header, an id, a whole message. `socket` is the connection a thread read from
CONFIG.broker_socket when it called the function: after a reconnection it may be
an old one. A write to a dead socket is lost or is a SIGPIPE, a read from one is
a null pointer that is dereferenced (`dead`), and so, perhaps, is what a word that
crosses is taken for.

At the other end, `ReadHeader` is the descriptor thread, which takes
access_mutex, and `handle_incoming`, which unlocks it at once; `ReadRest`,
`Answer`, `BecomeReady` and `Processed` are the rest of its cases, and the last
unlocks access_mutex whoever has it by then. `PushHeader` and `PushBody` are the
delivering threads of `BrokerDelivery`, reduced to what the socket sees: one at a
time, after the PROCESSED of the one before. `LoseBroker` is the broker's death;
what it had sent can still be read.

### GameCardRequests

The listener is `Connect` to `Acknowledge`, a GameBoy's message is `Arrive` and
`Accept` (the server thread locks op_mutex and creates the request's thread), and
`Process` to `UnlockBroker` is process_pokemon_message in either. Between `Peek`
and `LockOp` the listener goes back to its peek with broker_mutex locked when it
finds a need, and the end of the request unlocks it. `TallGrass` is what `Work`
does to the files: that there is one request at a time, which it assumes, is
`OneRequest` here.

### TeamBroker

`Restart` to `OpenAfter` is the listener, with broker_server_function called again
within itself; `SendGets` creates a thread for each pokemon (`Get(p, c)` belongs
to connection c, so that GETs of two connections can run at once), `LockForGet`
to `Unlock` is send_initial_get; `LockForCatch` and `Await` are a trainer that has
arrived. `Guest` and the last three steps of a message are the server thread.
broker_mutex records who locked it and `meddled` whether the server thread has
unlocked what another thread had locked. `CatchAnswered` is the GameCard: it
answers a CATCH, if it does, with the CATCH's id.

### TallGrass

`op_mutex` lets one request run at a time, so `request` is a single record, but
each write to disk is an action: `Create`, `WriteBlock` per block,
`SaveMetadata`, `SaveBitmap`. `Kill` stops the process before, after or within
the current write (fopen "w" has then emptied the file), `Restart` reads the
bitmap back. The process dies by itself too, where the code reads what is not
there (`ReadEmptied`, `NewNothing`). One line of a file takes one block: so it
is with BLOCK_SIZE=6 of `gamecard/test-tall-grass`. What a file with blocks of
two writings reads as is over-approximated: any lines. It is the process that
is killed, not the machine that loses power: what was written stays written.

### Team

A trainer has a position, two lists, a status, an activity and a thread.
`Appear` and `Require` are the two halves of APPEARED and of each position of
LOCALIZED, `Caught` and `Escaped` the answers to a catch. A catch is counted in two
statements (172, 173), so `Caught` is the first and `Counted` the second with what follows;
in between the listener is busy (`counting`), and the other thread may look. The planner is a loop
of `Wake`, `Assign` (one turn of compute_pending_actions), `Sort`, `Test`,
`Lock`, `Unlock`; between `Test` and `Unlock` the code waits for
executing_mutex and then dereferences executing_trainer. A cycle of a trainer is
one of `Move`, `Arrive`, `WaitToTrade`, `Trade`, `CycleAwaiting`, then `SendCatch` or
`Register` if it arrived, and `EndCycle`. `Diff`, `GiveNeeded` and `Spare` loop
by index over the lists they remove from, as the code does. exists_path_to is
modelled by reachability, which its search computes: it never enters a trainer
twice, and the trainer it must not enter is its start or its goal.

The map is one row; a statement that touches shared variables is atomic, and so are the
statements of one action. With
`Pause`, the planner's pause (RETARDO_CICLO_CPU, one second or more) is longer
than what a trainer computes in a cycle, though not longer than its wait for the
broker. `Receivers` are the threads that process messages: the server thread, which the
GameBoy sends APPEARED, and the `Listener`, which hears of catches too.

## 3. Runs

| Run | Shows |
|---|---|
| `Memory` | three configurations: dynamic partitions with FIFO, first fit and compaction after every second miss; with LRU, best fit and FRECUENCIA_COMPACTACION=-1; the buddy system. Tiling, payloads intact, foreign bytes read only after an eviction or a compaction, nothing evicted that free memory makes room for, buddies aligned and joined, the search ends except in the loop `Spinning` describes, refinement of `MessageStore` |
| `MemoryRace` | *violated*: two publishers claim one partition |
| `Delivery` | every message reaches every ready subscriber, and no thread forgets one, while nobody dies and nothing is evicted |
| `DeliveryLoss` | mutual exclusion, one outstanding message, at most once, through deaths and reuse of descriptors |
| `DeliveryGarbled` | *violated*: a message is sent from the raw partition struct |
| `DeliveryStarved` | *violated*: a death makes a broadcast skip the subscriber after it |
| `GameCard` | one request at a time, whoever unlocks what; the listener is woken, every request and message is processed, the words on the socket cross only while a GameBoy's request is being answered, and nothing else kills the process but a lost socket; one death of the broker |
| `TeamBroker` | GETs before readiness on every connection; who may take whose word; a CAUGHT finds its trainer; no message, GET or CATCH is left waiting; with a message of the GameBoy or a death of the broker |
| `TallGrass` | what one kill can damage, and that everything else refines `PokemonPlaces` |
| `TeamPlan` | reservations, how many are taken too many, FIFO planning; two trainers, two threads that process messages, a broker that may come |
| `TeamTrades` | trades among three trainers conserve pokemons and end, under FIFO and RR and any pause |
| `TeamStuck` | *violated*: a trade loses a pokemon |

Every passing run's properties are each broken by a mutant in `PROJECT.json`.

### Bounds

* Memory: 8 bytes and payloads of 1, 3 and 5 make up to four partitions, so
  that splits, merges on both sides, compaction of two holes and eviction of the
  middle one all happen; `MaxMessages` (4) fills the memory and evicts,
  `MaxSends` lets a delivery change the LRU order, `MaxHeld` keeps one delivery
  in flight, which is enough for it to race each step of a publication. Times are
  bounded by these. One publisher in the passing runs: with two the code is
  wrong, as `MemoryRace` shows.
* Delivery: two descriptors and two messages give two broadcasts and an update
  for each connection: every pair of threads that can meet at one client or one
  message. `MaxConnections`=2 lets a descriptor be reused, `MaxDeaths`=1 lets it
  be reused after a death, `MaxEvictions` lets the queue shrink under a loop.
  These runs start in `LateInit`, a state of `Spec` in which both processes have
  subscribed and one is ready; the proofs start in `Init`.
* GameCard: two requests of the GameBoy and two pushed messages make each pair of
  threads that share the mutexes; one loss (`MaxLosses`) at any word gives two
  connections. One queue of the three (`Queues`): each subscription is the same
  three words.
* TeamBroker: two pokemons make a last and a last but one GET, a trainer's id is
  then one of three; one push besides the CAUGHT; a message of the GameBoy or a
  loss of the broker (`MaxTroubles`=1, at any point) but not both, since what
  follows a meddling is outside the properties anyway.
* TallGrass: two pokemons, two positions and three blocks let files grow, shrink,
  empty and exhaust the disk; `MaxQuantity`=2 tells one from many; one crash
  (`MaxCrashes`) at any write and one later request (`MaxLate`) show the damage.
* Team: two trainers who need a pokemon each, one of which has one already, or three who
  need three, or two who need three each; `Quantum`=2; positions 0 and 1, so that trainers
  are here or there. In `TeamPlan` a trade waits one cycle (`TradingCycles`), not five, and
  the code's two threads process messages, so that one pokemon too many is taken; the
  trades of the other two runs come when all is caught, with one such thread.

CHECK_DEADLOCK is off everywhere because the models stop: publications and
deaths are bounded, and the Team exits.

### Fairness

`BrokerMemory`: a descriptor thread goes on with a publication (it waits for
nothing but mutexes held for a statement). `BrokerDelivery`: broadcast and update
threads run, and a living subscriber answers PROCESSED, as each of the three
processes does at the end of its handler; nothing is assumed of connections,
deaths or publications. `GameCardRequests` and `TeamBroker`: every thread of the
process runs, and so do the broker's, each step that a state predicate
(`CanStep`, `BrokerCanStep`) says is enabled; nothing is assumed of the GameBoy,
of the broker's messages or of the GameCard's answers. Weak fairness is enough
where mutexes are contended, as the messages are finitely many. `Team`: the
planner and the trainers run. Where a WF
formula would make TLC evaluate ENABLED of large actions, it is written with the
state predicate that enables them.

### What the violated runs say

* `MemoryRace`: `write_payload_to_memory` does not look at `is_free` again.
* `DeliveryGarbled`: `send_message_to_client` stores the deserialised payload in
  the message that all threads share, before it waits for the client's mutexes.
* `DeliveryStarved`: a broadcast goes through the subscribers by index, and the end of
  another connection takes its subscriber out of that list (738, 792): the one behind it
  comes under an index that is already passed. In the trace the one that ends is not ready
  and has nothing to process. (That `access_answering` is unlocked only by the PROCESSED of
  the client it was locked for, so that a broadcast waits for ever for one that died with a
  message in hand, is in the model as well, but it is not what this trace shows.)
* `TeamStuck`: after a match `_trade` goes on with the same indices, of which one
  names another pokemon by then. TLC finds the same property violated when the two
  trainers' targets are six different pokemons: then none is lost, but one is given in return
  whatever was got, and a trainer who needs nothing more keeps what the other one needs:
  no deadlock, so no trade.

Also met, and visible in properties that had to be stated with their exception:
with FRECUENCIA_COMPACTACION=-1 the search can spin for ever (`Spinning`); a
payload is read from where an eviction or a compaction has put another message's by then
(`MisreadOnlyIfEvictedOrMoved`); a reused descriptor inherits readiness
(`NotBeforeReady`); an emptied file leaks its block when it is filled again
(`LeakOnlyOnRefill`); under RR a blocked trainer can take the processor from the
one that was planned meanwhile (`NoTrainerForgotten` is for FIFO); the planner
can dereference a null executing_trainer (`NoNullDereferenced`).

In a Team, both threads that process messages can go for the last pokemon that is needed:
because is_required tests and then counts, or because the listener is between the two
counts of a catch (`NoneTooMany` says how many too many).

On the sockets:

* A listener peeks at a byte, then waits for its mutexes, and then reads a header:
  if the byte was the id that another thread has read meanwhile, it waits for
  the next message with op_mutex or broker_mutex locked, so that no request and
  no CATCH can go on until one comes (`StalePeek`, in `Served` and `Heard`).
* While a thread waits for the id of its message, a message of the broker can come
  first and be taken for the id; and on a new connection the subscriptions are
  not under the mutex that the others use (`OnlyGuestsCross`, `Crossing`). What is parsed
  then is no header and no message, which can kill a GameCard whose broker is alive
  (`KilledByLossOrGuest`). A request that finds NewNothing (gamecard.c:373-374) kills it
  without any socket: that is in `TallGrass`.
* In the Team, the end of a GameBoy's message unlocks broker_mutex and the gate
  whoever has them: during the GETs it lets the listener in, which then waits for
  a broker_mutex that it holds, or the Team is declared ready before its GETs of
  a new connection, or gets_left goes below zero (`meddled`).
* The ids of a restarted broker begin at zero: a trainer that still waits for an
  id of the old one takes the answer to another's CATCH (`Waiting` counts those
  of the present broker only).

## 4. Proofs

Every theorem is of `Spec`, for all values of the constants that the named
assumptions allow: the bounds are natural numbers, the names of threads differ,
the set of pokemons is finite where it is counted, a buddy system's memory is a
power of two, the positions of a Team's map leave no gap. Nothing else is assumed, and no
theorem has a hypothesis of its own but those about the cache, which need one publisher at
a time, and those about a Team's reservations and planning, which need the listener to be the
only thread that processes messages.

### The cache (`BrokerMemoryProofs`)

For any memory, configurations and sizes, and any number of deliveries that read
while it changes. Each theorem assumes `OnePublisher`, that at most one connection is
in a publication. The code does not see to that: `MemoryRace` shows two publications
that claim one partition, and in its instance `TypeOK` and `PartitionsTile` fail
as well, as the second split makes a size of zero or less. So this is what holds as
long as publications do not overlap. By

    IInv == TypeOK /\ LayoutOK(Layout) /\ Owned /\ Indexed
              /\ (\A p \in Publishers : Publishing(p)) /\ Readers /\ BuddiesApart /\ ~crashed

* `LayoutOK` is about the list with its structs as one value: `Tiled` (end to end,
  numbered by place, no struct twice), `FreeIsEmpty`, and `Blocks` for the buddy
  system. What the operators do to such a layout is shown once: a split puts two in the
  place of one (`SplitTiles`), a merge one in the place of two (`AbsorbTiles`), and
  `Consolidate` and `Associate` are merges one after the other, so that each fact that
  one keeps, all keep, by the least one that would not. A compaction slides each
  occupied partition to the end of the one before it (`OccupiedSlideDown`), from sums
  and counts up to each place of the list.
* All but the eviction leave the occupied partitions alone (`SameOccupied`) or move
  them with their bytes (`CompactedBytes`: what slides down never reaches what has not
  been moved yet), which is why `Indexed`, that each message of the index has its bytes
  in its partition, goes on to hold.
* `Publishing` is what a publication relies on from one step to the next: the
  partition it has found is still in the list, free and large enough, until it is
  claimed, and holds the payload until it is registered. That is what a second
  publication breaks.
* `PartitionsTile`, `IndexedPayloadIntact`, `OccupiedAreIndexed`, `BuddyBlocks` and
  `NoFreeBuddies` are then read off, `NoNeedlessEviction` from what the search found
  before it.
  `Associate` runs until no two buddies are left because each pass but the last
  leaves one partition less, and there are as many passes as partitions.
* `MisreadOnlyIfEvictedOrMoved`, from `Indexed` and `Readers` at the moment a field is
  copied: while its message is in the index, the address that a thread has taken is the
  partition's or lies above it, and under the buddy system it is the partition's.
  Compactions move a partition down or not at all (`OccupiedSlideDown`), and nothing else
  moves one.
* `ImplementsMessageStore` is the refinement. The mapping makes of the partitions in use
  a list in the order of their times (`StoredOrder`), which is a function only while no
  two have the same time: `UsesApart`, and that all times are past, is what `UInv`
  adds to `IInv`, with `Located`, that a message has no partition before its publication
  is over. Then a `Claim` is `Store`, since its time is after all others
  (`OrderAppended`) and its message was never stored; an `Evict` that finds a victim is
  `Leave`, since the victim's time is the least (`OrderDropped`); a `Send` under LRU is
  `Use` of whatever partition its pointer now leads to (`OrderRenewed`), and all else is a
  stutter (`OrderKept`). What the k-th of a set of times becomes in each case is in
  `OrderProofs` (`NthWithout`, `NthAfterGreatest`, `InOrderAppends`). That the payloads
  stored fit in the memory holds because each byte of each is read at an address of
  its own (`StoredFits`).

### Delivery (`BrokerDeliveryProofs`)

`TypeOK`, `OneSenderPerClient`, `OneOutstanding`, `AtMostOnce` and
`NotBeforeReady`, for every set of descriptors and of messages, by one inductive
invariant:

    IInv == TypeOK /\ ThreadsOnce /\ OneSenderPerClient /\ OneOutstanding
              /\ ReceivedWasSent /\ ReadyIsAsked

* `OneSenderPerClient` is an equivalence (a thread is sending to a client just
  when it holds that client's mutex), which makes it inductive given that the
  thread's own client does not change meanwhile. Creating a thread must not
  reset one that runs: `ThreadsOnce` says that the broadcast of an unpublished
  message and the update of a connection that is not ready yet are "off".
* `AtMostOnce` is not inductive: `ReceivedWasSent` adds that whatever a
  connection got is recorded for its descriptor, so that `MustSend` refuses it.
* `NotBeforeReady` rests on `ReadyIsAsked`: the struct of a first connection
  is not ready before the connection asks.

`NoneForgotten` needs more: `QInv` says that, as long as nobody has died and
nothing was evicted, for each place in the subscribers' list and each in the
queue the message was sent, or its broadcast has not got to that place, or the
subscriber's update has not got to the message or is still to be asked for
(`Covered`). The two threads walk lists by index that others append to; that
nothing leaves the lists is what makes an index a place.

### The link (`LinkProofs`)

Lemmas about the socket that the two users share: every word has the type that
the position in its stream allows (`LinkTyped`), and a thread dies of the socket
only when a broker was lost (`LossInv`: before the first connection nobody
speaks). They are stated for any set of messages that the broker pushes.

`TurnInv` is what keeps the two ends in step until a thread takes a word that is
another's. The words of one thread, in the stream to the broker and in what the
descriptor thread serves, come in the order of the library's functions (`Said`: the
stream is a run from what the service has yet to read of the thread to what the thread
has yet to say); whoever waits for an answer has asked for it once, and the question, its
service or the answer is in one place (`Asked`, a token in `OneToken`); the broker's own
words are headers and bodies in turn (`Pushed`), read by the listener alone. Every step
of the link keeps it, one lemma per action. From it follows what a crossing is: the
service reads the word of a thread that it does not serve (`RestCrosses`), or a thread
takes the answer of another or a delivery (`ReceiveCrosses`).

### GameCard requests (`GameCardProofs`)

* `OneRequest`: with where each thread is and who has op_mutex (`Placed`) it is
  inductive; `SameSide`, `Enters` and `Leaves` are the three ways a step can move
  a thread, and each action is one of them.
* `TypeOK`, by the lemmas about the link.
* `ListenerWoken`: the listener goes back to its peek with broker_mutex locked
  when it finds a need. `NeedIsWork` says that a need is that of a thread between
  setting the flag and unlocking, and `RequestsApart` that no request runs the
  listener's function.
* `KilledByLossOrGuest`: nobody uses the socket before the first connection
  (`SpeaksConnected`), so that before a loss every thread on it reaches the broker; a
  thread that does is killed only by a word that crosses, and then, by `StepInv` below, a
  request's thread is on the socket.
* `OnlyGuestsCross`, from `StepInv`: the link's `TurnInv`, and three facts of the
  GameCard. `Speech`: what a thread may be saying where it is. `OneDelivery`: of the
  delivery on the socket, the message in the listener's hand and the PROCESSED that ends
  it there is one at a time, and none while access_answering is open. `ReadyFirst`: no
  delivery before READY_TO_RECIEVE is answered, and after the answer in the stream. So a
  listener that awaits an OK, a `ready` or an id finds no delivery before it, and whoever
  takes a word for another meets a request's thread (`NoDeliveryForAnswer`,
  `ReceiveCrossesGuests`). TLC checked `StepInv` on the GameCard's run first.

### Team and broker (`TeamBrokerProofs`)

* `TypeOK`, and `GetsFirst`: the broker of a connection has all its GETs before it
  is told that the Team is ready. The invariant, `GetsInv`, follows the words:
  `Births` (the GETs of a connection are created once), `Gates` (unless the
  server thread meddled, the gate is closed while a GET of the present connection
  is under way, gets_left counts those that have not counted themselves, and no two
  connections' GETs overlap) and `Words` (in the stream to the broker every GET's
  message comes before READY_TO_RECIEVE, and what the broker has not read yet is
  behind what it has). That a GET which has its id has also said its message is
  read off what is left of its script (`LeftOf`).
* `InStep`, from `SpeakInv`: `GetsInv`, the link's `TurnInv`, and three facts of the Team.
  `MutexHeld`: who is between its lock and its unlock of broker_mutex has it, unless the
  server thread meddled; so whoever speaks has it, but the listener that subscribes
  (`SpeaksInside`). `Ordered`: in the stream, behind what a thread has begun and the
  broker has yet to be told the rest of, no other thread speaks before that one does
  again, but to subscribe; a word may stay on its way long after its thread gave the mutex
  back, and this is what is left of the mutex there. `Silent`: while the listener subscribes
  the broker has nothing to deliver, as nobody has told it that the Team is ready: the GETs
  that will are not there yet (`Gates`). So who takes a word for another is on the
  socket with the listener that subscribes, or meets a delivery (`ReceiveInStep`,
  `RestInStep`). TLC checked `MutexHeld`, `Ordered` and `Silent` first. What a mutex is
  worth rests on `TeamAssumption`: no thread is called `Nobody`.
* `AnswerFindsItsTrainer`, from `AnsweredInv`: `SpeakInv`, and where the id of a CATCH is.
  `Stations` are the six places: the stream to the broker, the messages published, those that
  go out, the one that is half said, the stream to the Team and the listener's hand. An id is
  at most once in each (`Single`) and in one of them (`Apart`), it is always that of a trainer
  that can be answered (`Carried`), and it is given once (`Fresh`, `Numbers`); a broker that
  died leaves none (`Forgotten`, `Joined`). A trainer notes its id only after the broker has
  given it, so an answer could come too early; but it notes it before it gives broker_mutex
  back, and the listener has the mutex when it processes (`MutexHeld`). TLC checked the
  invariant on the run first.

### Team (`TeamProofs`)

`OneCycleAtATime`, for any team, planning and number of threads that process messages: `Token`
is that executing_mutex, the mutexes of the trainers and who is in a cycle sum
up to one. The planner hands the token to executing_trainer, so it is lost if
that is no trainer: what enters the ready queue (`PlanningTyped`) includes whom the detection
of deadlocks chooses, hence the lemmas that the groups of trainers have a first
one in `Before` (a total order) and that a deadlock has someone who can solve it.

`NoneTooMany`, for any number of threads that process messages, too: a Team of the code has
two, so one pokemon of a species too many. The threads look and count under no mutex in
common, so each can be told that the last one is needed; and a catch that the listener is
counting is in neither count. `TakingInv` adds to what is caught and in progress the catch
that is being counted and the threads between their test and their count (`Expecting`). A
thread that is told yes had found less than the total in the two counts, and what it did not
see is at most the other threads, as the listener is in the midst of one thing at a time:
it is among `Expecting` or it is counting (`ExpectingIsFinite`, `AppearTakes`). Every other
step moves one from one place to the next.

The other theorems have the hypothesis `OneReceiver`: the listener is the only thread that
processes messages, as in a Team that no GameBoy sends any. Then `NoneTooMany` says that
none is taken too many (`OnlyNeeded`), on which they rest. With both threads `TypeOK`,
`ReservationsKept`, `NoTrainerForgotten` and `NoNullDereferenced` hold in `TeamPlan`, but
that is model-checked only. The invariant that they follow from is

    TeamInv == TokenInv /\ StateTyped /\ OnlyNeeded /\ Reserved(..., Taken) /\ BeingCounted
                 /\ AtWork /\ TradingLate /\ OneTrading /\ QuantumLeft

in which `Taken` is what is in progress with the catch that is being counted, and
`BeingCounted` that such a catch is of a trainer that awaits its answer.

* `TypeOK`, `ReservationsKept`. The hard step is a detection of
  deadlocks. It gives the solver of a deadlock a trade without looking at what the
  trainer is doing; were that a capture, its pokemon would be in progress for ever. But
  a detection runs only when all that is needed has been caught; then, by
  `OnlyNeeded`, nothing is in progress, and by `Reserved` nobody captures
  (`NothingInProgress`). Conversely nobody trades while somebody captures
  (`TradingLate`), and one trainer trades at a time (`OneTrading`). `AtWork` carries
  what an arrival saw to the capture.
* `NoTrainerForgotten`, under FIFO: `Balanced` is the property, with its variables as
  parameters, and `AwakeExecutes` says that only executing_trainer's mutex can be
  unlocked. So a cycle is of the trainer that executes, which is not in the ready
  queue: that `Arrive` and `Trade` remove it from there removes nobody. A detection
  finds nobody with work, and appends who is given some.
* `NoNullDereferenced`, under FIFO and `Pause`: while the planner is not asleep
  nobody is awake (`PauseInv`), so nobody takes executing_trainer away between `Test`
  and `Unlock`; and who is woken executes, hence has an activity.
* `PokemonsConserved`, for teams with `DistinctObjectives`: no trainer sets out for two of
  a kind, as in every configuration of the repository (src/team/team.cfg:3,
  src/deploy/*/team*.cfg:3); TLC finds it violated with the objectives of `TeamStuck`. In
  `TeamTrades` a trade gives one pokemon; with two trainers who want three different
  pokemons each, and can give each other several, TLC finds no violation either. The
  inner loop of a gift keeps the index and the name it had when it has given: were the
  friend to need another of that name, the pokemon at the index, by then another one, would
  go too. With `Once` (of the friend's needs) the loop finds one place at most, so
  `GiveNeeded` takes from both lists alike (`Eased`). What a trade does not find a use for
  changes hands, as many as are taken (`SpareTakes`). So two trainers together lack what
  they lacked (`TradeRelieves`), nobody needs more than before, and the sums over the team
  follow (`LacksAddUp`); a capture raises total_caught, or what the listener is to add to it,
  by what its trainer then lacks less (`CaughtIsConserved`). A trade of a trainer with itself would break this: `WithOthers`
  says that detections give none.

The lemmas below these are about lists (what `Append`, `Tail` and a removal do to the
places of an element: `CountAppend`, `CountTail`, `TimesRemoveAt`, `RemoveNobody`), about sums
over the team (`Together` counts places in all lists, so that it can be split by trainer:
`TogetherSplits`, `TwoListsChange`), and about the loops by index (`DiffTyped`,
`GiveNeededEases`, `SpareTakes`: their turns keep lists of pokemons and what is lacking).

### The file system (`TallGrassProofs`)

For any pokemons, positions, blocks, cuts and restarts, by

    IInv == TypeOK /\ SharedOnlyIfLost /\ Phase /\ Progress /\ Sized /\ Known /\ Apart

* `TypeOK`.
* `SharedOnlyIfLost`: `Known` says that the bitmap of a running GameCard has every
  block of every file and of the request (but those that a restart did not find),
  so that `FirstFree` gives blocks that nobody has, and `Apart` that no block is
  twice in a file or in a file and in a request for another. `Phase`, `Progress`
  and `Sized` say where a request is and what it has written by then.
* `LeakOnlyOnRefill`: an action property; a step marks a block that is in no file
  only by refilling a file of size 0, or a request would still list it.
* `ImplementsPokemonPlaces`: the refinement, step by step. It needs
  `RInv == Unanswered /\ Resting /\ Changing`: a file that nobody is writing and no
  cut has damaged stores some lines, one per position, that is, its blocks hold them
  one by one (`Stored`); the file of a request holds what it read, until the
  first block; then some lines of the new content; in the end the new content,
  which differs in the one quantity that was asked. So reading is
  deterministic where the model lets a damaged file be read as anything, and
  `WorldView` gives the mapped state a value: what is stored, or for a request
  that is writing what was. `SaveBitmap` is then the abstract `New` or `Catch`,
  `Kill` is `Crash` or nothing, `Restart` is `Ruin` or nothing, and what comes
  before the answer is a stutter. The quantities that are asked for are bounded by
  MaxQuantity, and nothing else.

### Only model-checked

* Liveness (`Delivered`, `PublicationEnds`, `Served`, `Heard`, `TeamFinishes`): it
  rests on fairness, which is out of the prover's reach.

### What the proofs changed in the model

Proving found one error of a statement: `TeamBroker`'s `TypeOK` said that gets_left is at
least minus the number of pokemons even when the server thread has meddled. The run
never contradicts that, with its one trouble; with more deaths of brokers it is false, and it
now says that gets_left is at least zero unless meddled, and otherwise any integer up to
the number of pokemons.

Some definitions were given a form that can be reasoned about, without a change in what
they mean (the runs have the same states): `Reachable` in `Team` is the least set that is
closed under the trades; `Nth`, `Kept` and `Serialised` in `TallGrass` say which element
comes k-th in place of sorting a set into a sequence; in `BrokerMemory` the passes over the
list (`Consolidate`, `Associate`, `SizeUpTo`) are recursive functions of the place they have come to,
`StoredOrder` is the list of what is stored in the order of the times, and `MessageStore` counts the
bytes of a set of messages in place of adding up their sizes one by one;
and `Released` and `Absorb` say what the list and the structs become side by side; in `Team`
the loops by index (`Diff`, `GiveNeeded`, `Spare`) are recursive functions of the index, each with
its turn as an operator, and `total_count` and `PokemonsConserved` count the places of a pokemon
in all lists (`Together`).
`TeamAssumption` says that the positions leave no gap, or `Move` would leave the map.

## 5. Not modelled

The layout of the payloads on the wire (`functions.c`: what is in a word), the
arrays of the two server loops (a race for a slot of client_socket_array_close
leaks a descriptor, and nothing else), the GameBoy but for its messages, the
console, logging and the dump. DOWN_SUBSCRIPTION does nothing in the broker and
MESSAGE_ACK fills a list that nobody reads. `last_message_id++` races between
publishers, and `get_time_counter`, which returns the counter after it unlocked it (608),
between publishers, deliveries, and a delivery and a publication: two can get one time. The
passing runs have one publisher, and a time is given in one step. Additions to a list
(`already_sent`, 704; `subscribers`, 772; the queue's messages) are one step too: the code
makes them under no mutex, and two at once could lose one; so are `total_caught++` and
`currently_in_progress += 1` of the Team. The Team's server thread starts (564) before the
trainers and the requirements are there (671): what it does with an APPEARED by then is
left out.
FRECUENCIA_COMPACTACION=0 compacts for ever at once; no configuration has it.

## 6. Plan

What is left:

1. `Team`: `TypeOK`, `ReservationsKept` and what rests on them for both of the code's threads.
   TLC finds no violation with two, and `OnlyNeeded`, on which the proofs rest, is false of them.
2. `BrokerMemory` with two publishers: what still holds of the memory when the races of
   `MemoryRace`, of `get_time_counter` and of `last_message_id` are all there.
