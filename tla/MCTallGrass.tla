---------------------------- MODULE MCTallGrass ----------------------------
(* Instances of TallGrass for TLC. *)
EXTENDS TallGrass

Symmetry == Permutations(Pokemons) \cup Permutations(Locations)
=============================================================================
