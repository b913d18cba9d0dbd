------------------------------- MODULE Order -------------------------------
(***************************************************************************)
(* Numbers in their order, for lists that the code builds by walking       *)
(* another from its beginning.                                             *)
(***************************************************************************)
EXTENDS Integers, FiniteSets, Sequences

\* The k-th number of a set.
Nth(S, k) == CHOOSE n \in S : Cardinality({m \in S : m < n}) = k - 1

\* What a list has at some of its places, in the order of the list.
InOrder(list, places) == [k \in 1..Cardinality(places) |-> list[Nth(places, k)]]
=============================================================================
