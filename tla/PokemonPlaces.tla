---------------------------- MODULE PokemonPlaces ----------------------------
(***************************************************************************)
(* What the GameCard promises of the pokemons it keeps: how many there are *)
(* at each place, and what it answers to the three requests.  A crash      *)
(* damages the pokemon whose request it cut, or all of them when the       *)
(* bitmap on disk does not know a block that a file uses.                  *)
(***************************************************************************)
EXTENDS Integers

CONSTANTS Pokemons, Locations,
          Counts,          (* how many pokemons a NEW_POKEMON can bring    *)
          Damaged          (* what is left of a pokemon after such a crash *)

VARIABLES world,   \* for each pokemon, how many are at each location, or Damaged
          answer,  \* the answer to the last request
          full     \* there is no room for another place

vars == <<world, answer>>     \* full comes and goes

NoAnswer == <<"none">>

Init ==
  /\ world = [p \in Pokemons |-> [l \in Locations |-> 0]]
  /\ answer = NoAnswer

Places(p) == {l \in Locations : world[p][l] > 0}
Changed(p, l, n) == [world EXCEPT ![p][l] = @ + n]

\* A request arrives.
Ask == answer' = NoAnswer /\ UNCHANGED world

\* The place has n more, unless it is a new one and the disk is full.
New(p, l, n) ==
  /\ answer' = <<"APPEARED", p, l>>
  /\ IF full /\ l \notin Places(p) THEN UNCHANGED world ELSE world' = Changed(p, l, n)

Catch(p, l) ==
  \/ world[p][l] > 0 /\ world' = Changed(p, l, -1) /\ answer' = <<"CAUGHT", p, l, 1>>
  \/ world[p][l] = 0 /\ UNCHANGED world /\ answer' = <<"CAUGHT", p, l, 0>>

Get(p) ==
  /\ Places(p) # {}
  /\ answer' = <<"LOCALIZED", p, Places(p)>>
  /\ UNCHANGED world

\* Any answer about a damaged pokemon.
Guess(p) == answer' # answer /\ answer'[2] = p /\ UNCHANGED world

\* The request that the crash cuts had its effect, or the pokemon is damaged.
Crash ==
  /\ UNCHANGED answer
  /\ \E p \in Pokemons :
       \/ world' = [world EXCEPT ![p] = Damaged]
       \/ world[p] # Damaged /\ \E l \in Locations, n \in Counts \cup {-1} :
            /\ world[p][l] + n >= 0
            /\ world' = Changed(p, l, n)

Ruin == world' = [p \in Pokemons |-> Damaged] /\ UNCHANGED answer

Next ==
  \/ \E p \in Pokemons :
       \/ world[p] = Damaged /\ Guess(p)
       \/ world[p] # Damaged /\ \/ \E l \in Locations, n \in Counts : New(p, l, n)
                                \/ \E l \in Locations : Catch(p, l)
                                \/ Get(p)
  \/ Ask
  \/ Crash
  \/ Ruin

Spec == Init /\ [][Next]_vars
=============================================================================
