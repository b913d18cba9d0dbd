--------------------------------- MODULE Team ---------------------------------
(***************************************************************************)
(* A Team (src/team/src/team.c): its trainers, each a thread that runs one *)
(* cycle whenever the planner unlocks its mutex; the planner, which gives  *)
(* the pokemons that have appeared to the closest free trainers and chooses*)
(* who executes; the threads that receive messages; the requirements they  *)
(* share; and the detection of deadlocks among trainers that have caught   *)
(* each other's pokemons, which trades solve.                              *)
(*                                                                         *)
(* The map is one row of positions.  Atomic are the statements of one      *)
(* action, of which another thread could see no part but where two of them *)
(* touch the requirements: is_required tests and then counts, and a catch  *)
(* that the listener hears of leaves what is in progress before it is      *)
(* counted as caught.  Those are two actions each.                         *)
(***************************************************************************)
EXTENDS Integers, FiniteSets, FiniteSetsExt, SequencesExt

CONSTANTS
  Pokemons,         (* species                                                *)
  Positions,        (* the row of the map                                     *)
  Start,            (* POSICIONES_ENTRENADORES, by trainer                    *)
  Owned,            (* POKEMON_ENTRENADORES                                   *)
  Objectives,       (* OBJETIVOS_ENTRENADORES                                 *)
  Plannings,        (* the values ALGORITMO_PLANIFICACION can have            *)
  Quantum,          (* QUANTUM                                                *)
  TradingCycles,    (* cycles a trainer waits before it trades: 5             *)
  Receivers,        (* threads that process messages: the server's and        *)
  Listener,         (* the one that listens to the broker                     *)
  BrokerReachable,  (* the broker can be connected to                         *)
  Pause             (* the planner's pause outlasts what a trainer computes   *)

Trainers == DOMAIN Objectives

ASSUME TeamAssumption ==
  /\ Positions \subseteq Int /\ \A a, b \in Positions : a..b \subseteq Positions
  /\ Objectives \in Seq(Seq(Pokemons))
  /\ Start \in [Trainers -> Positions] /\ Owned \in [Trainers -> Seq(Pokemons)]
  /\ Plannings \subseteq {"FIFO", "RR"}
  /\ Quantum \in Nat \ {0} /\ TradingCycles \in Nat
  /\ IsFiniteSet(Receivers) /\ Listener \in Receivers
  /\ BrokerReachable \in BOOLEAN /\ Pause \in BOOLEAN

Nobody     == 0
NoActivity == [type |-> "none"]
NoMessage  == <<>>

Appearances == [pokemon : Pokemons, x : Positions]

VARIABLES
  planning_alg,           \* CONFIG
  has_broker_connection,  \* once set, never reset
  x, pokemons, targets,   \* the trainers
  status, activity, quantum_counter,   \* their stats
  trading_counter,        \* local to each trainer's thread
  stats_mutex,            \* is the trainer's mutex locked?
  pc,                     \* where the trainer's thread is: "wait", "send", "register", "end"
  total_caught, currently_in_progress, \* the requirements, by pokemon
  required_pokemons,      \* appearances that no trainer has been given
  ready_queue, executing_trainer, executing_mutex,
  planner,                \* where the planner's thread is
  receiver,               \* the required pokemon that a thread is about to add
  counting,               \* the catch that the listener has yet to count as caught
  finished, crashed       \* exit(1); a null pointer was dereferenced

trainer      == <<x, pokemons, targets, status, activity>>
thread       == <<quantum_counter, trading_counter, stats_mutex, pc>>
requirements == <<total_caught, currently_in_progress>>
planning     == <<ready_queue, executing_trainer, executing_mutex, planner>>
config       == <<planning_alg, has_broker_connection>>
outcome      == <<finished, crashed>>
messages     == <<receiver, counting>>
vars == <<config, trainer, thread, requirements, required_pokemons, planning, messages, outcome>>

-----------------------------------------------------------------------------
(* What trainers have and need *)

Occurrences(s, p) == {i \in DOMAIN s : s[i] = p}
Times(s, p)  == Cardinality(Occurrences(s, p))

\* How many of that pokemon the lists of all the trainers have.
Together(lists, p) == Cardinality(UNION {{t} \X Occurrences(lists[t], p) : t \in Trainers})

\* _diff_my_caught_pokemons: a target that the trainer has leaves both lists, and the
\* loop goes on after the target that has taken its place.
DiffAt(s, i) ==
  IF i \in DOMAIN s.targets /\ Contains(s.pokemons, s.targets[i])
  THEN [pokemons |-> RemoveFirst(s.pokemons, s.targets[i]),
        targets  |-> RemoveAt(s.targets, i)]
  ELSE s

Diff(own) ==
  LET after[i \in 0..Len(own.targets)] == IF i = 0 THEN own ELSE DiffAt(after[i - 1], i)
  IN  after[Len(own.targets)]

Initial == [t \in Trainers |-> Diff([pokemons |-> Owned[t], targets |-> Objectives[t]])]

\* set_required_pokemons: how many targets of all the trainers are that pokemon.
total_count == [p \in Pokemons |-> Together([t \in Trainers |-> Initial[t].targets], p)]

\* Fault: what is in progress is not counted.
RequiredUnlessCaught(p) == total_caught[p] < total_count[p]

is_required(p) == total_caught[p] + currently_in_progress[p] < total_count[p]

requirements_are_finished(caught) == \A p \in Pokemons : caught[p] >= total_count[p]

is_trainer_completed(t, needs) == needs[t] = <<>>
is_globally_completed(needs) == \A t \in Trainers : is_trainer_completed(t, needs)

-----------------------------------------------------------------------------
(* Deadlocks: each trainer of a group waits for another one's pokemon *)

\* find_pokemons_allocators: who of the group has, and does not need, a target of t.
Allocators(t, group, has, needs) ==
  {a \in group \ {t} : \E p \in ToSet(needs[t]) : p \in ToSet(has[a]) \ ToSet(needs[a])}

\* Fault: the search goes no further than the first step.
ReachableAtOnce(t, group, has, needs) == Allocators(t, group, has, needs)

\* exists_path_to: what its search, which never enters a trainer twice, can get to: the
\* trainers in every set that has the allocators of t and those of each of its own.
Reachable(t, group, has, needs) ==
  LET closed(s) == \A a \in s \cup {t} : Allocators(a, group, has, needs) \subseteq s
  IN  {u \in group : \A s \in SUBSET group : closed(s) => u \in s}

\* The first trainer waits for itself, and with each other one in both directions.
InDeadlock(group, has, needs) ==
  \A t \in group : /\ t \in Reachable(Min(group), group, has, needs)
                   /\ Min(group) \in Reachable(t, group, has, needs)

\* all_possible_combinations: the smaller groups first, then in the order of trainers.
Before(g, h) ==
  \/ Cardinality(g) < Cardinality(h)
  \/ Cardinality(g) = Cardinality(h) /\ Min((g \ h) \cup (h \ g)) \in g

Deadlocks(has, needs) ==
  {g \in SUBSET Trainers : Cardinality(g) >= 2 /\ InDeadlock(g, has, needs)}

\* solve_deadlock_for: of the first group, the first trainer that has a target of the
\* root's goes to it; the root waits, blocked.
Solver(group, has, needs) ==
  Min({t \in group \ {Min(group)} : ToSet(has[t]) \cap ToSet(needs[Min(group)]) # {}})

\* Fault: only the first trainers are looked at, as one group of two.
detect_first_pair(has, needs, s) ==
  IF {1, 2} \notin Deadlocks(has, needs) THEN s
  ELSE LET t == Solver({1, 2}, has, needs)
       IN  [status   |-> [s.status EXCEPT ![1] = "BLOCKED", ![t] = "READY"],
            activity |-> [s.activity EXCEPT ![t] = [type |-> "TRADING", with |-> 1]],
            ready    |-> Append(s.ready, t)]

detect_circular_chains(has, needs, s) ==
  LET groups == Deadlocks(has, needs)
      group  == CHOOSE g \in groups : \A h \in groups \ {g} : Before(g, h)
      root   == Min(group)
      t      == Solver(group, has, needs)
  IN  IF groups = {} THEN s
      ELSE [status   |-> [s.status EXCEPT ![root] = "BLOCKED", ![t] = "READY"],
            activity |-> [s.activity EXCEPT ![t] = [type |-> "TRADING", with |-> root]],
            ready    |-> Append(s.ready, t)]

-----------------------------------------------------------------------------
(* A trade: loops by index over the lists that they take from *)

RemoveIfThere(s, i) == IF i \in DOMAIN s THEN RemoveAt(s, i) ELSE s

\* The solver's pokemons that the friend needs.  The inner loop goes on after a match,
\* with the name it has found and the index it had.
Give(s, i, p, j) ==
  IF j \in DOMAIN s.needs /\ s.needs[j] = p
  THEN [has |-> RemoveIfThere(s.has, i), needs |-> RemoveAt(s.needs, j)] ELSE s

GiveAt(s, i) ==
  LET after[j \in 0..Len(s.needs)] == IF j = 0 THEN s ELSE Give(after[j - 1], i, s.has[i], j)
  IN  IF i \in DOMAIN s.has THEN after[Len(s.needs)] ELSE s

GiveNeeded(has, needs) ==
  LET after[i \in 0..Len(has)] ==
        IF i = 0 THEN [has |-> has, needs |-> needs] ELSE GiveAt(after[i - 1], i)
  IN  after[Len(has)]

\* In return the first one that the solver needs...
Useful(has, needs) == {i \in DOMAIN has : Contains(needs, has[i])}

\* ... or else those like the first, by an index that skips the one after each.
SpareAt(s, i, p) == IF i \in DOMAIN s /\ s[i] = p THEN RemoveAt(s, i) ELSE s

Spare(has) ==
  LET after[i \in 0..Len(has)] == IF i = 0 THEN has ELSE SpareAt(after[i - 1], i, has[1])
  IN  after[Len(has)]

\* Fault: the spare pokemons are not added to the other trainer's.
TradeLosing(from, to) ==
  LET given == GiveNeeded(pokemons[from], targets[to])
      back  == pokemons[to]
      i     == Min(Useful(back, targets[from]))
  IN  IF Useful(back, targets[from]) # {}
      THEN [has   |-> [pokemons EXCEPT ![from] = given.has, ![to] = RemoveAt(back, i)],
            needs |-> [targets EXCEPT ![to] = given.needs,
                                      ![from] = RemoveFirst(targets[from], back[i])]]
      ELSE [has   |-> [pokemons EXCEPT ![from] = given.has,
                                       ![to] = IF back = <<>> THEN back ELSE Spare(back)],
            needs |-> [targets EXCEPT ![to] = given.needs]]

\* _trade, once it is known who gives first.
TradeBetween(from, to) ==
  LET given == GiveNeeded(pokemons[from], targets[to])
      back  == pokemons[to]
      i     == Min(Useful(back, targets[from]))
      rest  == IF back = <<>> THEN back ELSE Spare(back)
  IN  IF Useful(back, targets[from]) # {}
      THEN [has   |-> [pokemons EXCEPT ![from] = given.has, ![to] = RemoveAt(back, i)],
            needs |-> [targets EXCEPT ![to] = given.needs,
                                      ![from] = RemoveFirst(targets[from], back[i])]]
      ELSE [has   |-> [pokemons EXCEPT ![to] = rest,
                         ![from] = given.has \o [j \in 1..(Len(back) - Len(rest)) |-> back[1]]],
            needs |-> [targets EXCEPT ![to] = given.needs]]

Traded(self, friend) ==
  IF ToSet(pokemons[self]) \cap ToSet(targets[friend]) # {}
  THEN TradeBetween(self, friend) ELSE TradeBetween(friend, self)

-----------------------------------------------------------------------------

Init ==
  /\ planning_alg \in Plannings
  /\ has_broker_connection = FALSE
  /\ x = Start
  /\ pokemons = [t \in Trainers |-> Initial[t].pokemons]
  /\ targets = [t \in Trainers |-> Initial[t].targets]
  /\ status = [t \in Trainers |-> "NEW"]
  /\ activity = [t \in Trainers |-> NoActivity]
  /\ quantum_counter = [t \in Trainers |-> 0]
  /\ trading_counter = [t \in Trainers |-> 0]
  /\ stats_mutex = [t \in Trainers |-> TRUE]
  /\ pc = [t \in Trainers |-> "wait"]
  /\ total_caught = [p \in Pokemons |-> 0]
  /\ currently_in_progress = [p \in Pokemons |-> 0]
  /\ required_pokemons = <<>>
  /\ ready_queue = <<>> /\ executing_trainer = Nobody /\ executing_mutex = FALSE
  /\ planner = "sleep"
  /\ receiver = [r \in Receivers |-> NoMessage] /\ counting = NoMessage
  /\ finished = FALSE /\ crashed = FALSE

Running == ~finished /\ ~crashed

-----------------------------------------------------------------------------
(* Messages *)

\* broker_server_function connects, at last.
Connect ==
  /\ Running
  /\ BrokerReachable /\ ~has_broker_connection
  /\ has_broker_connection' = TRUE
  /\ UNCHANGED <<planning_alg, trainer, thread, requirements, required_pokemons, planning,
                 messages, outcome>>

\* A thread that has dealt with one message waits for its next.
Waits(r) == receiver[r] = NoMessage /\ (r = Listener => counting = NoMessage)

\* APPEARED_POKEMON, or a position of a LOCALIZED_POKEMON: is_required says yes...
Appear(r, a) ==
  /\ Running
  /\ Waits(r)
  /\ is_required(a.pokemon)
  /\ receiver' = [receiver EXCEPT ![r] = <<a>>]
  /\ UNCHANGED <<config, trainer, thread, requirements, required_pokemons, planning, counting,
                 outcome>>

\* ... and counts it as in progress; required_pokemons_mutex keeps the planner out.
Require(r) ==
  /\ Running
  /\ receiver[r] # NoMessage /\ planner # "plan"
  /\ currently_in_progress' = [currently_in_progress EXCEPT ![receiver[r][1].pokemon] = @ + 1]
  /\ required_pokemons' = Append(required_pokemons, receiver[r][1])
  /\ receiver' = [receiver EXCEPT ![r] = NoMessage]
  /\ UNCHANGED <<config, trainer, thread, total_caught, planning, counting, outcome>>

\* A trainer has its pokemon, which is no longer in progress...
Hold(t) ==
  LET p   == activity[t].pokemon
      own == Diff([pokemons |-> Append(pokemons[t], p), targets |-> targets[t]])
  IN  /\ pokemons' = [pokemons EXCEPT ![t] = own.pokemons]
      /\ targets' = [targets EXCEPT ![t] = own.targets]
      /\ currently_in_progress' = [currently_in_progress EXCEPT ![p] = @ - 1]

\* ... but caught.  When that was the team's last one, deadlocks are looked for.
Count(t, p, completed) ==
  LET after == [status   |-> [status EXCEPT ![t] = IF targets'[t] = <<>> THEN completed ELSE "NEW"],
                activity |-> [activity EXCEPT ![t] = NoActivity],
                ready    |-> ready_queue]
  IN  /\ total_caught' = [total_caught EXCEPT ![p] = @ + 1]
      /\ finished' = is_globally_completed(targets')
      /\ LET s == IF requirements_are_finished(total_caught') /\ ~finished'
                  THEN detect_circular_chains(pokemons', targets', after) ELSE after
         IN  status' = s.status /\ activity' = s.activity /\ ready_queue' = s.ready

\* The listener hears of the catch of t, once.
Hears(t) == Running /\ Waits(Listener) /\ activity[t].type = "AWAITING_CAPTURE_RESULT"

\* CAUGHT_POKEMON with the id that the trainer awaits...
Caught(t) ==
  /\ Hears(t)
  /\ Hold(t)
  /\ counting' = <<t, activity[t].pokemon>>
  /\ UNCHANGED <<config, x, status, activity, thread, total_caught, required_pokemons, planning,
                 receiver, outcome>>

\* ... is counted without a mutex.  A trainer that has completed its targets is set to
\* EXIT, and by the next lines to NEW.
Counted ==
  /\ Running
  /\ counting # NoMessage
  /\ UNCHANGED <<pokemons, targets>>
  /\ Count(counting[1], counting[2], "NEW")
  /\ counting' = NoMessage
  /\ UNCHANGED <<config, x, thread, currently_in_progress, required_pokemons, executing_trainer,
                 executing_mutex, planner, receiver, crashed>>

\* Fault: the requirement is still in progress.
EscapeUncounted(t) ==
  /\ Hears(t)
  /\ activity' = [activity EXCEPT ![t] = NoActivity]
  /\ status' = [status EXCEPT ![t] = "NEW"]
  /\ UNCHANGED <<config, x, pokemons, targets, thread, requirements, required_pokemons,
                 planning, messages, outcome>>

\* CAUGHT_POKEMON, but it was not.
Escaped(t) ==
  /\ Hears(t)
  /\ currently_in_progress' = [currently_in_progress EXCEPT ![activity[t].pokemon] = @ - 1]
  /\ activity' = [activity EXCEPT ![t] = NoActivity]
  /\ status' = [status EXCEPT ![t] = "NEW"]
  /\ UNCHANGED <<config, x, pokemons, targets, thread, total_caught, required_pokemons,
                 planning, messages, outcome>>

-----------------------------------------------------------------------------
(* The planner *)

\* exec_thread_function: after the pause.
Wake ==
  /\ Running
  /\ planner = "sleep"
  /\ Pause => \A t \in Trainers : stats_mutex[t] /\ pc[t] \in {"wait", "send"}
  /\ planner' = "plan"
  /\ UNCHANGED <<config, trainer, thread, requirements, required_pokemons, ready_queue,
                 executing_trainer, executing_mutex, messages, outcome>>

Distance(t, a) == IF x[t] < a.x THEN a.x - x[t] ELSE x[t] - a.x

is_free(t) == activity[t] = NoActivity /\ status[t] = "NEW"

\* Fault: a trainer that has something to do is a candidate too.
AnyWithRoom == {t \in Trainers : Len(pokemons[t]) < Len(targets[t])}

Candidates == {t \in Trainers : is_free(t) /\ Len(pokemons[t]) < Len(targets[t])}

IsClosest(t, a) ==
  /\ t \in Candidates
  /\ \A u \in Candidates : \/ Distance(t, a) < Distance(u, a)
                           \/ Distance(t, a) = Distance(u, a) /\ t <= u

\* compute_pending_actions: the first of the required pokemons goes to the closest
\* free trainer, until there is none.
Assign ==
  /\ Running
  /\ planner = "plan" /\ required_pokemons # <<>>
  /\ \E t \in Trainers :
       /\ IsClosest(t, Head(required_pokemons))
       /\ activity' = [activity EXCEPT ![t] =
            [type |-> "CAPTURING", pokemon |-> Head(required_pokemons).pokemon,
             x |-> Head(required_pokemons).x]]
       /\ status' = [status EXCEPT ![t] = "READY"]
       /\ ready_queue' = Append(ready_queue, t)
  /\ required_pokemons' = Tail(required_pokemons)
  /\ UNCHANGED <<config, x, pokemons, targets, thread, requirements, executing_trainer,
                 executing_mutex, planner, messages, outcome>>

\* sort_queues takes the first of the ready queue if nobody executes.
Sort ==
  /\ Running
  /\ planner = "plan" /\ (required_pokemons = <<>> \/ Candidates = {})
  /\ IF ready_queue # <<>> /\ executing_trainer = Nobody
     THEN /\ executing_trainer' = Head(ready_queue)
          /\ ready_queue' = Tail(ready_queue)
          /\ status' = [status EXCEPT ![Head(ready_queue)] = "EXEC"]
     ELSE UNCHANGED <<executing_trainer, ready_queue, status>>
  /\ planner' = "test"
  /\ UNCHANGED <<config, x, pokemons, targets, activity, thread, requirements,
                 required_pokemons, executing_mutex, messages, outcome>>

\* executing_trainer is tested, ...
Test ==
  /\ Running
  /\ planner = "test"
  /\ planner' = IF executing_trainer = Nobody THEN "sleep" ELSE "lock"
  /\ UNCHANGED <<config, trainer, thread, requirements, required_pokemons, ready_queue,
                 executing_trainer, executing_mutex, messages, outcome>>

\* Fault: executing_mutex is not waited for.
LockAtOnce ==
  /\ Running
  /\ planner = "lock"
  /\ executing_mutex' = TRUE
  /\ planner' = "unlock"
  /\ UNCHANGED <<config, trainer, thread, requirements, required_pokemons, ready_queue,
                 executing_trainer, messages, outcome>>

\* ... executing_mutex is waited for, ...
Lock ==
  /\ Running
  /\ planner = "lock" /\ ~executing_mutex
  /\ executing_mutex' = TRUE
  /\ planner' = "unlock"
  /\ UNCHANGED <<config, trainer, thread, requirements, required_pokemons, ready_queue,
                 executing_trainer, messages, outcome>>

\* ... and executing_trainer is dereferenced.
Unlock ==
  /\ Running
  /\ planner = "unlock"
  /\ IF executing_trainer = Nobody
     THEN crashed' = TRUE /\ UNCHANGED <<stats_mutex, planner>>
     ELSE /\ stats_mutex' = [stats_mutex EXCEPT ![executing_trainer] = FALSE]
          /\ planner' = "sleep"
          /\ UNCHANGED crashed
  /\ UNCHANGED <<config, trainer, quantum_counter, trading_counter, pc, requirements,
                 required_pokemons, ready_queue, executing_trainer, executing_mutex, messages,
                 finished>>

-----------------------------------------------------------------------------
(* A cycle of a trainer *)

\* It begins when the trainer gets its mutex.
Cycle(t, next) ==
  /\ Running
  /\ pc[t] = "wait" /\ ~stats_mutex[t]
  /\ stats_mutex' = [stats_mutex EXCEPT ![t] = TRUE]
  /\ quantum_counter' = [quantum_counter EXCEPT ![t] = IF planning_alg = "RR" THEN @ + 1 ELSE @]
  /\ pc' = [pc EXCEPT ![t] = next]

Goal(t) == IF activity[t].type = "TRADING" THEN x[activity[t].with] ELSE activity[t].x

\* Without an activity there is nothing to switch on.
CycleOfNothing(t) ==
  /\ Cycle(t, "end")
  /\ activity[t] = NoActivity
  /\ crashed' = TRUE
  /\ UNCHANGED <<config, trainer, trading_counter, requirements, required_pokemons, planning,
                 messages, finished>>

\* move_to, one step.
Move(t) ==
  /\ Cycle(t, "end")
  /\ activity[t].type \in {"CAPTURING", "TRADING"} /\ x[t] # Goal(t)
  /\ x' = [x EXCEPT ![t] = IF @ < Goal(t) THEN @ + 1 ELSE @ - 1]
  /\ UNCHANGED <<config, pokemons, targets, status, activity, trading_counter, requirements,
                 required_pokemons, planning, messages, outcome>>

\* Fault: the trainer goes on executing.
LeaveQueueOnly(t) == ready_queue' = RemoveFirst(ready_queue, t) /\ UNCHANGED executing_trainer

LeavePlanning(t) == ready_queue' = RemoveFirst(ready_queue, t) /\ executing_trainer' = Nobody

\* The pokemon is here: the trainer no longer executes.
Arrive(t) ==
  /\ activity[t].type = "CAPTURING" /\ x[t] = Goal(t)
  /\ Cycle(t, IF has_broker_connection THEN "send" ELSE "register")
  /\ LeavePlanning(t)
  /\ UNCHANGED <<config, trainer, trading_counter, requirements, required_pokemons,
                 executing_mutex, planner, messages, outcome>>

\* The catch goes out once broker_mutex is free, and its id has come back.
SendCatch(t) ==
  /\ Running
  /\ pc[t] = "send"
  /\ activity' = [activity EXCEPT ![t].type = "AWAITING_CAPTURE_RESULT"]
  /\ status' = [status EXCEPT ![t] = "BLOCKED"]
  /\ pc' = [pc EXCEPT ![t] = "end"]
  /\ UNCHANGED <<config, x, pokemons, targets, quantum_counter, trading_counter, stats_mutex,
                 requirements, required_pokemons, planning, messages, outcome>>

\* Without a broker it is caught; here it is counted before it leaves what is in
\* progress, so that is_required at worst says no to one that is still needed.
Register(t) ==
  /\ Running
  /\ pc[t] = "register"
  /\ Hold(t) /\ Count(t, activity[t].pokemon, "EXIT")
  /\ pc' = [pc EXCEPT ![t] = "end"]
  /\ UNCHANGED <<config, x, quantum_counter, trading_counter, stats_mutex, required_pokemons,
                 executing_trainer, executing_mutex, planner, messages, crashed>>

CycleAwaiting(t) ==
  /\ Cycle(t, "end")
  /\ activity[t].type = "AWAITING_CAPTURE_RESULT"
  /\ UNCHANGED <<config, trainer, trading_counter, requirements, required_pokemons, planning,
                 messages, outcome>>

WaitToTrade(t) ==
  /\ Cycle(t, "end")
  /\ activity[t].type = "TRADING" /\ x[t] = Goal(t) /\ trading_counter[t] < TradingCycles
  /\ trading_counter' = [trading_counter EXCEPT ![t] = @ + 1]
  /\ UNCHANGED <<config, trainer, requirements, required_pokemons, planning, messages, outcome>>

\* The trade, and the next detection.
Trade(t) ==
  /\ activity[t].type = "TRADING" /\ x[t] = Goal(t) /\ trading_counter[t] = TradingCycles
  /\ Cycle(t, "end")
  /\ LET friend == activity[t].with
         trade  == Traded(t, friend)
         after  == [status   |-> [status EXCEPT ![t] = "NEW", ![friend] = "NEW"],
                    activity |-> [activity EXCEPT ![t] = NoActivity, ![friend] = NoActivity],
                    ready    |-> RemoveFirst(ready_queue, t)]
         s      == detect_circular_chains(trade.has, trade.needs, after)
     IN  /\ pokemons' = trade.has /\ targets' = trade.needs
         /\ finished' = is_globally_completed(trade.needs)
         /\ status' = s.status /\ activity' = s.activity /\ ready_queue' = s.ready
  /\ executing_trainer' = Nobody
  /\ trading_counter' = [trading_counter EXCEPT ![t] = 0]
  /\ UNCHANGED <<config, x, requirements, required_pokemons, executing_mutex, planner, messages,
                 crashed>>

\* Fault: the count is never compared.
NeverOver(t) == FALSE

QuantumOver(t) == planning_alg = "RR" /\ quantum_counter[t] = Quantum

\* The quantum is over: whoever executes no longer does, and this trainer goes to the end.
QuantumEnds(t) ==
  IF executing_trainer = Nobody THEN UNCHANGED <<executing_trainer, ready_queue>>
  ELSE executing_trainer' = Nobody /\ ready_queue' = Append(ready_queue, t)

EndCycle(t) ==
  /\ Running
  /\ pc[t] = "end"
  /\ IF QuantumOver(t)
     THEN QuantumEnds(t) /\ quantum_counter' = [quantum_counter EXCEPT ![t] = 0]
     ELSE UNCHANGED <<executing_trainer, ready_queue, quantum_counter>>
  /\ executing_mutex' = FALSE
  /\ pc' = [pc EXCEPT ![t] = "wait"]
  /\ UNCHANGED <<config, trainer, trading_counter, stats_mutex, requirements,
                 required_pokemons, planner, messages, outcome>>

PlannerStep == Wake \/ Assign \/ Sort \/ Test \/ Lock \/ Unlock

TrainerStep(t) ==
  \/ CycleOfNothing(t) \/ Move(t) \/ Arrive(t) \/ SendCatch(t) \/ Register(t)
  \/ CycleAwaiting(t) \/ WaitToTrade(t) \/ Trade(t) \/ EndCycle(t)

Next ==
  \/ Connect
  \/ \E r \in Receivers : Require(r) \/ \E a \in Appearances : Appear(r, a)
  \/ \E t \in Trainers : Caught(t) \/ Escaped(t) \/ TrainerStep(t)
  \/ Counted
  \/ PlannerStep

Spec == Init /\ [][Next]_vars

\* The threads of the team run: weak fairness of their steps, written with the state
\* predicates that enable them.
PlannerCanStep ==
  /\ Running
  /\ planner = "sleep" /\ Pause => \A t \in Trainers : stats_mutex[t] /\ pc[t] \in {"wait", "send"}
  /\ planner = "lock" => ~executing_mutex

TrainerCanStep(t) == Running /\ (pc[t] # "wait" \/ ~stats_mutex[t])

FairSpec ==
  /\ Spec
  /\ <>[]PlannerCanStep => []<><<PlannerStep>>_vars
  /\ \A t \in Trainers : <>[]TrainerCanStep(t) => []<><<TrainerStep(t)>>_vars

-----------------------------------------------------------------------------
(* Properties *)

Activity ==
  {NoActivity}
    \cup [type : {"CAPTURING", "AWAITING_CAPTURE_RESULT"}, pokemon : Pokemons, x : Positions]
    \cup [type : {"TRADING"}, with : Trainers]

\* The values the variables take.
TypeOK ==
  /\ planning_alg \in Plannings /\ has_broker_connection \in BOOLEAN
  /\ x \in [Trainers -> Positions]
  /\ pokemons \in [Trainers -> Seq(Pokemons)] /\ targets \in [Trainers -> Seq(Pokemons)]
  /\ status \in [Trainers -> {"NEW", "READY", "EXEC", "BLOCKED", "EXIT"}]
  /\ activity \in [Trainers -> Activity]
  /\ quantum_counter \in [Trainers -> 0..Quantum]
  /\ trading_counter \in [Trainers -> 0..TradingCycles]
  /\ stats_mutex \in [Trainers -> BOOLEAN]
  /\ pc \in [Trainers -> {"wait", "send", "register", "end"}]
  /\ total_caught \in [Pokemons -> Nat]
  /\ currently_in_progress \in [Pokemons -> Nat]
  /\ required_pokemons \in Seq(Appearances)
  /\ ready_queue \in Seq(Trainers)
  /\ executing_trainer \in Trainers \cup {Nobody} /\ executing_mutex \in BOOLEAN
  /\ planner \in {"sleep", "plan", "test", "lock", "unlock"}
  /\ receiver \in [Receivers -> {NoMessage} \cup {<<a>> : a \in Appearances}]
  /\ counting \in {NoMessage} \cup Trainers \X Pokemons
  /\ finished \in BOOLEAN /\ crashed \in BOOLEAN

\* executing_mutex and the trainers' own mutexes pass one token round: while it is
\* locked, the planner is about to wake a trainer or one trainer is in its cycle.
InCycle(t) == pc[t] # "wait" \/ ~stats_mutex[t]

OneCycleAtATime ==
  Cardinality({t \in Trainers : InCycle(t)}) + (IF planner = "unlock" THEN 1 ELSE 0)
    = (IF executing_mutex THEN 1 ELSE 0)

\* What a requirement counts as in progress is on the list of required pokemons or
\* some trainer's activity, but for the catch that the listener is counting.
Capturing(p) ==
  {t \in Trainers : activity[t].type \in {"CAPTURING", "AWAITING_CAPTURE_RESULT"}
                    /\ activity[t].pokemon = p}

Uncounted(p) == IF counting # NoMessage /\ counting[2] = p THEN 1 ELSE 0

ReservationsKept ==
  \A p \in Pokemons :
    currently_in_progress[p] + Uncounted(p) =
      Cardinality({i \in DOMAIN required_pokemons : required_pokemons[i].pokemon = p})
        + Cardinality(Capturing(p))

\* No mutex makes one of a test and its count (262, 263), nor of the two counts of a catch
\* (172, 173): each thread that processes messages but one can take one pokemon too many
\* of a species, and no more; a Team with one such thread takes none.
NoneTooMany ==
  \A p \in Pokemons :
    total_caught[p] + currently_in_progress[p] + Uncounted(p)
      <= total_count[p] + (Cardinality(Receivers) - 1)

\* Captures and trades neither lose nor make a pokemon: what the trainers still need
\* of each, less what they have for others, is what the team has yet to catch or count.
PokemonsConserved ==
  \A p \in Pokemons :
    Together(targets, p) - Together(pokemons, p)
      = Together(Objectives, p) - Together(Owned, p) - (total_caught[p] + Uncounted(p))

\* A trainer has work to do just when it is waiting in the ready queue, once, or
\* executing, or its arrival is being dealt with.
WithWork(t) == activity[t].type \in {"CAPTURING", "TRADING"}

NoTrainerForgotten ==
  planning_alg = "FIFO" => \A t \in Trainers :
    Times(ready_queue, t) + (IF executing_trainer = t THEN 1 ELSE 0)
      = (IF WithWork(t) /\ pc[t] \notin {"send", "register"} THEN 1 ELSE 0)

\* When the team has caught all it needs and no trainer is left with work, each has
\* its targets: no deadlock is left that the detection does not find.
DeadlocksFound ==
  (\A p \in Pokemons : total_caught[p] = total_count[p]) =>
    \/ finished
    \/ \E t \in Trainers : activity[t].type = "TRADING"

\* No thread dereferences a null pointer, if first come is first served and no trainer
\* computes for longer than the planner's pause.
NoNullDereferenced == planning_alg = "FIFO" /\ Pause => ~crashed

\* A team that has caught what it needs trades until each trainer has its targets.
TeamFinishes ==
  (\A p \in Pokemons : total_caught[p] = total_count[p]) ~> (finished \/ crashed)
=============================================================================
