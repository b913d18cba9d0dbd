-------------------------------- MODULE MCTeam --------------------------------
EXTENDS Team

CONSTANTS pikachu, squirtle, gengar

\* Two trainers: the first has one of its targets already.
Pairs      == <<<<pikachu, squirtle>>, <<pikachu>>>>
PairsOwned == <<<<pikachu>>, <<>>>>
PairsStart == <<0, 1>>

\* Three trainers, for cycles of two and of three.
Ring      == <<<<pikachu>>, <<squirtle>>, <<gengar>>>>
RingOwned == <<<<>>, <<>>, <<>>>>
RingStart == <<0, 0, 1>>

\* Each has three targets that the other one can have caught.
Triples      == <<<<pikachu, squirtle, pikachu>>, <<gengar, gengar, gengar>>>>
TriplesOwned == <<<<>>, <<>>>>
TriplesStart == <<0, 0>>
=============================================================================
