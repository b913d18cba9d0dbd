SPECIFICATION Spec
CONSTANTS
  Pokemons = {pikachu, charmander}
  Locations = {here, there}
  BlockCount = 3
  Counts = {0, 1}
  MaxQuantity = 2
  MaxCrashes = 1
  MaxLate = 1
SYMMETRY Symmetry
INVARIANTS TypeOK SharedOnlyIfLost
PROPERTIES LeakOnlyOnRefill ImplementsPokemonPlaces
CHECK_DEADLOCK FALSE
