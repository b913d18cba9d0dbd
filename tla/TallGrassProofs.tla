---------------------------- MODULE TallGrassProofs ----------------------------
(***************************************************************************)
(* The file system of the GameCard, for any pokemons, locations, blocks    *)
(* and bounds: its types, what files share, what is leaked, and that it    *)
(* implements PokemonPlaces.                                               *)
(***************************************************************************)
EXTENDS TallGrass, OrderProofs

-----------------------------------------------------------------------------
(* Files, lines and requests *)

\* A file that is not emptied has its lines in blocks, of which Existing has the first.
LEMMA FileTyped ==
  ASSUME TypeOK, NEW p \in Pokemons, Usable(p)
  PROVE  /\ metadata[p] \in [size : Nat, blocks : Seq(Blocks)]
         /\ metadata[p].size \in Nat /\ metadata[p].blocks \in Seq(Blocks)
         /\ metadata[p].size <= Len(metadata[p].blocks)
<1>1. metadata[p] \in [size : Nat, blocks : Seq(Blocks)]
  BY DEF TypeOK, Usable
<1>2. metadata[p].size <= Len(metadata[p].blocks)
  BY DEF TypeOK
<1> QED BY <1>1, <1>2

\* The existing blocks of a file are the first ones that its metadata lists.
LEMMA ExistingIs ==
  ASSUME TypeOK, NEW p \in Pokemons, Usable(p)
  PROVE  /\ Existing(p) \in Seq(Blocks) /\ Len(Existing(p)) = metadata[p].size
         /\ DOMAIN Existing(p) = 1..metadata[p].size
         /\ \A i \in 1..metadata[p].size : Existing(p)[i] = metadata[p].blocks[i]
<1> DEFINE s == metadata[p].blocks
           n == metadata[p].size
<1>1. s \in Seq(Blocks) /\ n \in Nat /\ n <= Len(s)
  BY FileTyped
<1>2. Existing(p) = SubSeq(s, 1, n)
  BY DEF Existing
<1> HIDE DEF s, n
<1>3. \A i \in 1..n : s[i] \in Blocks
  <2>1. Len(s) \in Nat /\ \A i \in 1..Len(s) : s[i] \in Blocks
    BY <1>1, ElementOfSeq, LenProperties
  <2> QED BY <1>1, <2>1
<1>4. /\ SubSeq(s, 1, n) \in Seq(Blocks)
      /\ Len(SubSeq(s, 1, n)) = IF 1 <= n THEN n - 1 + 1 ELSE 0
      /\ \A i \in 1..(n - 1 + 1) : SubSeq(s, 1, n)[i] = s[1 + i - 1]
  BY <1>1, <1>3, SubSeqProperties
<1>5. Len(SubSeq(s, 1, n)) = n /\ \A i \in 1..n : SubSeq(s, 1, n)[i] = s[i]
  BY <1>1, <1>4
<1>6. DOMAIN SubSeq(s, 1, n) = 1..n
  BY <1>4, <1>5, LenProperties
<1> QED BY <1>2, <1>4, <1>5, <1>6 DEF s, n

\* Other files have no lines.
LEMMA ExistingTyped ==
  ASSUME TypeOK, NEW p \in Pokemons
  PROVE  /\ Existing(p) \in Seq(Blocks) /\ ToSet(Existing(p)) \subseteq Blocks
         /\ Len(Existing(p)) \in Nat /\ DOMAIN Existing(p) = 1..Len(Existing(p))
         /\ \A i \in DOMAIN Existing(p) : Existing(p)[i] \in Blocks
<1>1. Existing(p) \in Seq(Blocks)
  BY ExistingIs, EmptySeq DEF Existing
<1>2. /\ Len(Existing(p)) \in Nat /\ DOMAIN Existing(p) = 1..Len(Existing(p))
      /\ \A i \in DOMAIN Existing(p) : Existing(p)[i] \in Blocks
  BY <1>1, LenProperties, ElementOfSeq
<1> HIDE DEF Existing
<1> QED BY <1>1, <1>2 DEF ToSet

\* Whatever state its blocks are in, what is read of a file is a sequence of lines.
LEMMA ContentsTyped ==
  ASSUME TypeOK, NEW p \in Pokemons, Usable(p), NEW lines \in Contents(p)
  PROVE  lines \in Seq(Lines) /\ Len(lines) \in Nat /\ DOMAIN lines = 1..Len(lines)
<1> DEFINE n == Len(Existing(p))
<1>1. n \in Nat /\ DOMAIN Existing(p) = 1..n /\ \A i \in 1..n : Existing(p)[i] \in Blocks
  BY ExistingTyped
<1>2. CASE WellFormed(p)
  <2>1. \A i \in 1..n : block[Existing(p)[i]].line \in Lines
    <3> SUFFICES ASSUME NEW i \in 1..n PROVE block[Existing(p)[i]].line \in Lines
      OBVIOUS
    <3>1. block[Existing(p)[i]] # Blank
      BY <1>1, <1>2 DEF WellFormed
    <3>2. block[Existing(p)[i]] \in [line : Lines, last : BOOLEAN]
      BY <1>1, <3>1 DEF TypeOK
    <3> QED BY <3>2
  <2>2. lines = [i \in 1..n |-> block[Existing(p)[i]].line]
    BY <1>1, <1>2 DEF Contents
  <2> HIDE DEF n
  <2>3. lines \in [1..n -> Lines]
    BY <2>1, <2>2
  <2> QED BY <1>1, <2>3, LenProperties
<1>3. CASE ~WellFormed(p)
  <2>1. PICK k \in 0..metadata[p].size : lines \in [1..k -> Lines]
    BY <1>3 DEF Contents
  <2>2. k \in Nat
    BY FileTyped
  <2> QED BY <2>1, <2>2, LenProperties
<1> QED BY <1>2, <1>3

\* Lines with no pokemon too, which are not written.
AnyLines == [at : Locations, quantity : 0..MaxQuantity]

\* What is left after nothing is left out of the lines is a sequence of them.
LEMMA SerialisedTyped ==
  ASSUME NEW lines \in Seq(AnyLines)
  PROVE  /\ Serialised(lines) \in Seq(Lines)
         /\ Len(Serialised(lines)) = Cardinality(Kept(lines))
         /\ Len(Serialised(lines)) \in Nat /\ Len(Serialised(lines)) <= Len(lines)
<1> DEFINE K == Kept(lines)
           c == Cardinality(K)
           n == Len(lines)
<1>1. n \in Nat /\ DOMAIN lines = 1..n /\ \A i \in 1..n : lines[i] \in AnyLines
  BY LenProperties, ElementOfSeq
<1>2. K \in SUBSET (1..n)
  BY <1>1 DEF Kept
<1>3. IsFiniteSet(1..n) /\ Cardinality(1..n) = n
  <2>1. n \in Int /\ 1 \in Int /\ (n < 1 => n = 0)
    BY <1>1
  <2> HIDE DEF n
  <2> QED BY <1>1, <2>1, FS_Interval
<1>4. IsFiniteSet(K) /\ c \in Nat /\ c <= n
  <2> HIDE DEF K, n
  <2> QED BY <1>2, <1>3, FS_Subset, FS_CardinalityType
<1>5. \A k \in 1..c : lines[Nth(K, k)] \in Lines
  <2> SUFFICES ASSUME NEW k \in 1..c PROVE lines[Nth(K, k)] \in Lines
    OBVIOUS
  <2>1. K \subseteq Int
    BY <1>2
  <2>2. Nth(K, k) \in K
    BY <1>4, <2>1, NthIsThere
  <2>3. Nth(K, k) \in 1..n /\ lines[Nth(K, k)].quantity > 0
    BY <1>1, <2>2 DEF Kept
  <2>4. lines[Nth(K, k)] \in AnyLines
    BY <1>1, <2>3
  <2> HIDE DEF K
  <2> QED BY <2>3, <2>4, TallGrassAssumption DEF AnyLines, Lines, TallGrassAssumption
<1>6. Serialised(lines) = [k \in 1..c |-> lines[Nth(K, k)]]
  BY DEF Serialised, InOrder
<1> HIDE DEF K, c, n
<1>7. Serialised(lines) \in [1..c -> Lines]
  BY <1>5, <1>6
<1>8. Serialised(lines) \in Seq(Lines) /\ Len(Serialised(lines)) = c
  BY <1>4, <1>7, LenProperties
<1> QED BY <1>4, <1>8 DEF c, n, K

\* The line of a position, if there is one, is one of the lines.
LEMMA QuantityTyped ==
  ASSUME NEW lines \in Seq(Lines), NEW l \in Locations
  PROVE  /\ Quantity(lines, l) \in 0..MaxQuantity
         /\ LinesAt(lines, l) # {} => Max(LinesAt(lines, l)) \in DOMAIN lines
         /\ LinesAt(lines, l) # {} => lines[Max(LinesAt(lines, l))].at = l
         /\ LinesAt(lines, l) # {} => Quantity(lines, l) > 0
<1> DEFINE L == LinesAt(lines, l)
           n == Len(lines)
<1>1. n \in Nat /\ DOMAIN lines = 1..n /\ \A i \in 1..n : lines[i] \in Lines
  BY LenProperties, ElementOfSeq
<1>2. L \in SUBSET (1..n)
  BY <1>1 DEF LinesAt
<1>3. IsFiniteSet(L) /\ L \subseteq Int
  <2>1. n \in Int /\ 1 \in Int /\ L \subseteq Int
    BY <1>1, <1>2
  <2> HIDE DEF n, L
  <2> QED BY <1>2, <2>1, FS_Interval, FS_Subset
<1>4. CASE L = {}
  BY <1>4, TallGrassAssumption DEF Quantity, TallGrassAssumption
<1>5. CASE L # {}
  <2>1. Max(L) \in L
    BY <1>3, <1>5, MaxIsThere
  <2>2. Max(L) \in 1..n /\ lines[Max(L)].at = l /\ lines[Max(L)] \in Lines
    BY <1>1, <2>1 DEF LinesAt
  <2>3. Quantity(lines, l) = lines[Max(L)].quantity
    BY <1>5 DEF Quantity
  <2>4. lines[Max(L)].quantity \in 1..MaxQuantity
    <3> HIDE DEF L
    <3> QED BY <2>2 DEF Lines
  <2> QED BY <1>1, <2>2, <2>3, <2>4, TallGrassAssumption DEF TallGrassAssumption
<1> QED BY <1>4, <1>5

\* With n more at a position, or one less where there is one, the lines keep within the
\* bound, if the position does.
LEMMA AddedTyped ==
  ASSUME NEW lines \in Seq(Lines), NEW l \in Locations, NEW n \in Int,
         Quantity(lines, l) + n \in 0..MaxQuantity
  PROVE  Added(lines, l, n) \in Seq(AnyLines)
<1> DEFINE m == Max(LinesAt(lines, l))
<1>1. lines \in Seq(AnyLines)
  <2>1. Lines \subseteq AnyLines
    BY TallGrassAssumption DEF Lines, AnyLines, TallGrassAssumption
  <2> QED BY <2>1, SeqMonotonic
<1>2. CASE LinesAt(lines, l) = {}
  <2>1. [at |-> l, quantity |-> n] \in AnyLines
    BY <1>2 DEF Quantity, AnyLines
  <2> QED BY <1>1, <1>2, <2>1, AppendProperties DEF Added
<1>3. CASE LinesAt(lines, l) # {}
  <2>1. m \in DOMAIN lines /\ lines[m].at = l /\ m \in 1..Len(lines)
    BY <1>3, QuantityTyped, LenProperties
  <2>2. Quantity(lines, l) = lines[m].quantity
    BY <1>3 DEF Quantity
  <2>3. Added(lines, l, n) = [lines EXCEPT ![m] = [lines[m] EXCEPT !.quantity = @ + n]]
    BY <1>3 DEF Added
  <2>4. lines[m] \in Lines
    BY <2>1, ElementOfSeq
  <2>5. [lines[m] EXCEPT !.quantity = @ + n] \in AnyLines
    <3> HIDE DEF m
    <3> QED BY <2>2, <2>4 DEF Lines, AnyLines
  <2> HIDE DEF m
  <2> QED BY <1>1, <2>1, <2>3, <2>5, ExceptSeq
<1> QED BY <1>2, <1>3

\* A request is for a pokemon; its kind says what else it has.
LEMMA RequestTyped ==
  ASSUME NEW r \in Requests
  PROVE  /\ r.pokemon \in Pokemons /\ r.type \in {"NEW", "CATCH", "GET"} /\ r # NoRequest
         /\ r.type = "NEW" => r.at \in Locations /\ r.count \in Counts
         /\ r.type = "CATCH" => r.at \in Locations
<1>1. r.pokemon \in Pokemons /\ r.type \in {"NEW", "CATCH", "GET"}
  BY DEF Requests
<1>2. r.type = "NEW" => r.at \in Locations /\ r.count \in Counts
  BY DEF Requests
<1>3. r.type = "CATCH" => r.at \in Locations
  BY DEF Requests
<1>4. NoRequest.type = "none"
  BY DEF NoRequest
<1> QED BY <1>1, <1>2, <1>3, <1>4

-----------------------------------------------------------------------------
(* The inductive invariant *)

Writing == pc \in {"block", "metadata"}
Before  == pc \in {"idle", "create", "read"}

\* Where a request is, and what it has got so far.
Phase ==
  /\ pc = "idle" <=> request = NoRequest
  /\ Before => content = <<>> /\ payload = <<>> /\ blocks = <<>> /\ gonzalo = 0
  /\ ~up => pc = "idle" /\ bitmap = {}
  /\ pc = "create" => metadata[request.pokemon] = Emptied
  /\ pc = "read" => metadata[request.pokemon] # Absent
  /\ ~Before => Usable(request.pokemon) /\ request.type \in {"NEW", "CATCH"}

\* It has a block for each line, and the blocks its file had.
Progress ==
  /\ Writing => /\ Len(payload) <= Len(blocks)
                /\ ToSet(Existing(request.pokemon)) \subseteq ToSet(blocks)
  /\ pc = "block" => gonzalo = 0 \/ gonzalo < Len(payload)
  /\ pc = "metadata" => Len(payload) <= gonzalo /\ (payload # <<>> => gonzalo = Len(payload))

\* A file has no more blocks than lines, but for the one that an empty file is left.
Sized ==
  \A p \in Pokemons : Usable(p) =>
    metadata[p].size = 0 \/ metadata[p].size = Len(metadata[p].blocks)

\* The bitmap of a running GameCard has the blocks of the files, and those a request has
\* written; when the request has saved its file, it has no others of the request.
Known ==
  /\ up => \A p \in Pokemons : ToSet(Existing(p)) \subseteq bitmap \cup lost
  /\ Writing => \A i \in 1..gonzalo : blocks[i] \in bitmap
  /\ pc = "bitmap" => bitmap \cap ToSet(blocks) \subseteq Listed(request.pokemon)

\* No block is twice in a file, or in a file and in a request for another, but a lost one.
Apart ==
  /\ \A p \in Pokemons : \A i, j \in DOMAIN Existing(p) :
        i # j /\ Existing(p)[i] = Existing(p)[j] => Existing(p)[i] \in lost
  /\ Writing => /\ \A i, j \in DOMAIN blocks : i # j /\ blocks[i] = blocks[j] => blocks[i] \in lost
                /\ \A q \in Pokemons \ {request.pokemon} :
                     ToSet(Existing(q)) \cap ToSet(blocks) \subseteq lost

IInv == TypeOK /\ SharedOnlyIfLost /\ Phase /\ Progress /\ Sized /\ Known /\ Apart

\* Nothing is stored at first.
LEMMA InitHolds == Init => IInv
<1> SUFFICES ASSUME Init PROVE IInv
  OBVIOUS
<1>1. TypeOK
  <2>1. <<>> \in Seq(Lines) /\ <<>> \in Seq(Blocks) /\ Len(<<>>) = 0
    BY EmptySeq
  <2>2. \A p \in Pokemons : ~Usable(p)
    BY DEF Init, Usable
  <2>3. \E bits \in SUBSET Blocks : bitmap_file = <<bits>>
    <3> WITNESS {} \in SUBSET Blocks
    <3> QED BY DEF Init
  <2>4. bitmap = {} /\ 0 \in 0..MaxCrashes /\ 0 \in 0..MaxLate
    BY TallGrassAssumption DEF Init, TallGrassAssumption
  <2>5. request \in Requests \cup {NoRequest} /\ up \in BOOLEAN
    BY DEF Init
  <2>6. gonzalo \in 0..Len(blocks) /\ pc = "idle"
    BY <2>1 DEF Init
  <2>7. metadata \in [Pokemons -> {Absent, Emptied} \cup [size : Nat, blocks : Seq(Blocks)]]
        /\ block \in [Blocks -> {Blank} \cup [line : Lines, last : BOOLEAN]]
    BY DEF Init
  <2> QED BY <2>1, <2>2, <2>3, <2>4, <2>5, <2>6, <2>7 DEF TypeOK, Init
<1>2. \A p \in Pokemons : ~Usable(p) /\ Existing(p) = <<>> /\ DOMAIN Existing(p) = {}
      /\ ToSet(Existing(p)) = {}
  BY DEF Init, Usable, Existing, ToSet
<1>3. SharedOnlyIfLost /\ Sized /\ Apart
  BY <1>2 DEF SharedOnlyIfLost, Sized, Apart, Writing, Init
<1>4. Phase /\ Progress /\ Known
  BY <1>2 DEF Phase, Progress, Known, Writing, Before, Init
<1> QED BY <1>1, <1>3, <1>4 DEF IInv

\* A file that is as before, or emptied, has the lines it had, or none.
LEMMA FilesShrink ==
  ASSUME NEW r, metadata \in [Pokemons -> {Absent, Emptied}
                     \cup [size : Nat, blocks : Seq(Blocks)]],
         metadata' = metadata \/ metadata' = [metadata EXCEPT ![r] = Emptied]
  PROVE  /\ metadata' \in [Pokemons -> {Absent, Emptied} \cup [size : Nat, blocks : Seq(Blocks)]]
         /\ \A p \in Pokemons : Usable(p)' => Usable(p) /\ metadata'[p] = metadata[p]
         /\ \A p \in Pokemons : Existing(p)' = Existing(p) \/ Existing(p)' = <<>>
<1>1. \A p \in Pokemons : metadata'[p] = metadata[p] \/ metadata'[p] = Emptied
  OBVIOUS
<1>2. metadata' \in [Pokemons -> {Absent, Emptied} \cup [size : Nat, blocks : Seq(Blocks)]]
  OBVIOUS
<1>3. \A p \in Pokemons : Usable(p)' => Usable(p) /\ metadata'[p] = metadata[p]
  BY <1>1 DEF Usable
<1>4. \A p \in Pokemons : Existing(p)' = Existing(p) \/ Existing(p)' = <<>>
  BY <1>3 DEF Existing
<1> QED BY <1>2, <1>3, <1>4

\* What holds of the files still does when some are emptied.
LEMMA ShrunkenFiles ==
  ASSUME IInv, NEW r, lost' = lost,
         metadata' = metadata \/ metadata' = [metadata EXCEPT ![r] = Emptied]
  PROVE  /\ metadata' \in [Pokemons -> {Absent, Emptied} \cup [size : Nat, blocks : Seq(Blocks)]]
         /\ \A p \in Pokemons : Usable(p)' => metadata'[p].size <= Len(metadata'[p].blocks)
         /\ SharedOnlyIfLost' /\ Sized'
         /\ \A p \in Pokemons : \A i, j \in DOMAIN Existing(p)' :
              i # j /\ Existing(p)'[i] = Existing(p)'[j] => Existing(p)'[i] \in lost'
         /\ \A p \in Pokemons : ToSet(Existing(p))' \subseteq ToSet(Existing(p))
<1>1. /\ metadata' \in [Pokemons -> {Absent, Emptied} \cup [size : Nat, blocks : Seq(Blocks)]]
      /\ \A p \in Pokemons : Usable(p)' => Usable(p) /\ metadata'[p] = metadata[p]
      /\ \A p \in Pokemons : Existing(p)' = Existing(p) \/ Existing(p)' = <<>>
  <2>1. metadata \in [Pokemons -> {Absent, Emptied} \cup [size : Nat, blocks : Seq(Blocks)]]
    BY DEF IInv, TypeOK
  <2> QED BY <2>1, FilesShrink
<1>2. \A p \in Pokemons : Usable(p)' => metadata'[p].size <= Len(metadata'[p].blocks)
  BY <1>1 DEF IInv, TypeOK
<1>3. \A p \in Pokemons : ToSet(Existing(p))' \subseteq ToSet(Existing(p))
  <2> SUFFICES ASSUME NEW p \in Pokemons PROVE ToSet(Existing(p)') \subseteq ToSet(Existing(p))
    BY DEF ToSet
  <2>1. CASE Existing(p)' = Existing(p)
    BY <2>1
  <2>2. CASE Existing(p)' = <<>>
    BY <2>2 DEF ToSet
  <2> QED BY <1>1, <2>1, <2>2
<1>4. SharedOnlyIfLost'
  <2> SUFFICES ASSUME NEW p \in Pokemons, NEW q \in Pokemons, p # q
               PROVE  (ToSet(Existing(p)) \cap ToSet(Existing(q)) \subseteq lost)'
    BY DEF SharedOnlyIfLost
  <2>1. ToSet(Existing(p)) \cap ToSet(Existing(q)) \subseteq lost
    BY DEF IInv, SharedOnlyIfLost
  <2>2. ToSet(Existing(p))' \subseteq ToSet(Existing(p)) /\ ToSet(Existing(q))' \subseteq ToSet(Existing(q))
    BY <1>3
  <2> QED BY <2>1, <2>2
<1>5. Sized'
  BY <1>1 DEF IInv, Sized
<1>6. \A p \in Pokemons : \A i, j \in DOMAIN Existing(p)' :
        i # j /\ Existing(p)'[i] = Existing(p)'[j] => Existing(p)'[i] \in lost'
  <2> SUFFICES ASSUME NEW p \in Pokemons, NEW i \in DOMAIN Existing(p)', NEW j \in DOMAIN Existing(p)',
                      i # j, Existing(p)'[i] = Existing(p)'[j]
               PROVE  Existing(p)'[i] \in lost
    OBVIOUS
  <2>1. Existing(p)' = Existing(p)
    BY <1>1
  <2> HIDE DEF Existing
  <2> QED BY <2>1 DEF IInv, Apart
<1> QED BY <1>1, <1>2, <1>3, <1>4, <1>5, <1>6

\* A request that ends, by its answer or with the process, leaves the files as they are,
\* or one of them empty.
LEMMA RequestEnds ==
  ASSUME IInv, Idle, NEW r,
         metadata' = metadata \/ metadata' = [metadata EXCEPT ![r] = Emptied],
         block' \in [Blocks -> {Blank} \cup [line : Lines, last : BOOLEAN]],
         bitmap_file' = Cut \/ \E bits \in SUBSET Blocks : bitmap_file' = <<bits>>,
         \/ up' = TRUE /\ up = TRUE /\ bitmap' = bitmap
         \/ up' = FALSE /\ bitmap' = {},
         torn' \subseteq Pokemons, crashes' \in 0..MaxCrashes, lost' = lost, late' = late
  PROVE  IInv'
<1>1. /\ metadata' \in [Pokemons -> {Absent, Emptied} \cup [size : Nat, blocks : Seq(Blocks)]]
      /\ \A p \in Pokemons : Usable(p)' => metadata'[p].size <= Len(metadata'[p].blocks)
      /\ SharedOnlyIfLost' /\ Sized'
      /\ \A p \in Pokemons : \A i, j \in DOMAIN Existing(p)' :
              i # j /\ Existing(p)'[i] = Existing(p)'[j] => Existing(p)'[i] \in lost'
      /\ \A p \in Pokemons : ToSet(Existing(p))' \subseteq ToSet(Existing(p))
  BY ShrunkenFiles
<1>2. /\ pc' = "idle" /\ request' = NoRequest
      /\ content' = <<>> /\ payload' = <<>> /\ blocks' = <<>> /\ gonzalo' = 0
  BY DEF Idle
<1>3. TypeOK'
  <2>1. <<>> \in Seq(Lines) /\ <<>> \in Seq(Blocks) /\ Len(<<>>) = 0
    BY EmptySeq
  <2>2. bitmap' \subseteq Blocks /\ lost' \subseteq Blocks /\ late' \in 0..MaxLate
    BY DEF IInv, TypeOK
  <2>3. gonzalo' \in 0..Len(blocks') /\ content' \in Seq(Lines) /\ payload' \in Seq(Lines)
        /\ blocks' \in Seq(Blocks)
    BY <1>2, <2>1
  <2>4. up' \in BOOLEAN
    OBVIOUS
  <2> QED BY <1>1, <1>2, <2>2, <2>3, <2>4 DEF TypeOK
<1>4. Phase' /\ Progress'
  BY <1>2 DEF Phase, Progress, Writing, Before
<1>5. Known'
  <2>1. ASSUME up', NEW p \in Pokemons PROVE ToSet(Existing(p))' \subseteq (bitmap \cup lost)'
    <3>1. up /\ bitmap' = bitmap /\ ToSet(Existing(p))' \subseteq ToSet(Existing(p))
      BY <1>1, <2>1
    <3> QED BY <3>1 DEF IInv, Known
  <2> QED BY <1>2, <2>1 DEF Known, Writing
<1>6. Apart'
  BY <1>1, <1>2 DEF Apart, Writing
<1> QED BY <1>1, <1>3, <1>4, <1>5, <1>6 DEF IInv

-----------------------------------------------------------------------------
(* Requests that start, and those that write nothing *)

\* A request in progress is one of the requests, for a pokemon.
LEMMA InProgress ==
  ASSUME IInv, pc # "idle"
  PROVE  up /\ request \in Requests /\ request.pokemon \in Pokemons
<1>1. request # NoRequest /\ up
  BY DEF IInv, Phase, TypeOK
<1>2. request \in Requests
  BY <1>1 DEF IInv, TypeOK
<1> QED BY <1>1, <1>2, RequestTyped

\* What is the same for requests that have written nothing.
LEMMA Begins ==
  ASSUME IInv, pc \in {"idle", "create"}, pc' \in {"create", "read"}, request' \in Requests, up,
         UNCHANGED <<block, bitmap_file, up, bitmap, content, payload, blocks, gonzalo, lost, torn,
                     crashes>>,
         late' \in 0..MaxLate,
         metadata' \in [Pokemons -> {Absent, Emptied} \cup [size : Nat, blocks : Seq(Blocks)]],
         \A p \in Pokemons : /\ Existing(p)' = Existing(p)
                             /\ Usable(p)' => metadata'[p].size <= Len(metadata'[p].blocks)
                             /\ Usable(p)' => \/ metadata'[p].size = 0
                                              \/ metadata'[p].size = Len(metadata'[p].blocks),
         pc' = "create" => metadata'[request'.pokemon] = Emptied,
         pc' = "read" => metadata'[request'.pokemon] # Absent
  PROVE  IInv'
<1>1. TypeOK'
  BY DEF IInv, TypeOK
<1>2. SharedOnlyIfLost'
  <2> SUFFICES ASSUME NEW p \in Pokemons, NEW q \in Pokemons, p # q
               PROVE  (ToSet(Existing(p)) \cap ToSet(Existing(q)) \subseteq lost)'
    BY DEF SharedOnlyIfLost
  <2>1. ToSet(Existing(p)) \cap ToSet(Existing(q)) \subseteq lost
    BY DEF IInv, SharedOnlyIfLost
  <2>2. ToSet(Existing(p))' = ToSet(Existing(p)) /\ ToSet(Existing(q))' = ToSet(Existing(q))
    BY DEF ToSet
  <2> QED BY <2>1, <2>2
<1>3. Phase'
  <2>1. request' # NoRequest
    BY RequestTyped
  <2> QED BY <2>1 DEF IInv, Phase, Before
<1>4. Progress' /\ Sized'
  BY DEF Progress, Sized, Writing
<1>5. Known'
  <2>1. \A p \in Pokemons : ToSet(Existing(p))' \subseteq (bitmap \cup lost)'
    <3> SUFFICES ASSUME NEW p \in Pokemons PROVE ToSet(Existing(p))' \subseteq bitmap \cup lost
      OBVIOUS
    <3>1. ToSet(Existing(p))' = ToSet(Existing(p))
      BY DEF ToSet
    <3> QED BY <3>1 DEF IInv, Known
  <2> QED BY <2>1 DEF Known, Writing
<1>6. Apart'
  BY DEF IInv, Apart, Writing
<1> QED BY <1>1, <1>2, <1>3, <1>4, <1>5, <1>6 DEF IInv

\* A request is taken.
LEMMA OpenKeeps ==
  ASSUME IInv, NEW r \in Requests, Open(r)
  PROVE  IInv'
<1>1. r.pokemon \in Pokemons /\ metadata \in [Pokemons -> {Absent, Emptied} \cup [size : Nat, blocks : Seq(Blocks)]]
  BY RequestTyped DEF IInv, TypeOK
<1>2. late' \in 0..MaxLate
  <2>1. late \in 0..MaxLate /\ MaxLate \in Nat
    BY TallGrassAssumption DEF TallGrassAssumption, IInv, TypeOK
  <2> QED BY <2>1 DEF Open
<1>3. /\ pc = "idle" /\ pc' \in {"create", "read"} /\ request' \in Requests /\ up
      /\ UNCHANGED <<block, bitmap_file, up, bitmap, content, payload, blocks, gonzalo, lost, torn,
                     crashes>>
  BY DEF Open
<1>4. /\ metadata' \in [Pokemons -> {Absent, Emptied} \cup [size : Nat, blocks : Seq(Blocks)]]
      /\ pc' = "create" => metadata'[request'.pokemon] = Emptied
      /\ pc' = "read" => metadata'[request'.pokemon] # Absent
      /\ \A p \in Pokemons : metadata'[p] = metadata[p] \/ (metadata[p] = Absent /\ metadata'[p] = Emptied)
  BY <1>1 DEF Open
<1>5. \A p \in Pokemons : /\ Existing(p)' = Existing(p)
                          /\ Usable(p)' => metadata'[p].size <= Len(metadata'[p].blocks)
                          /\ Usable(p)' => \/ metadata'[p].size = 0
                                           \/ metadata'[p].size = Len(metadata'[p].blocks)
  <2> SUFFICES ASSUME NEW p \in Pokemons
               PROVE  /\ Existing(p)' = Existing(p)
                      /\ Usable(p)' => metadata'[p].size <= Len(metadata'[p].blocks)
                      /\ Usable(p)' => \/ metadata'[p].size = 0
                                       \/ metadata'[p].size = Len(metadata'[p].blocks)
    OBVIOUS
  <2>1. CASE metadata'[p] = metadata[p]
    BY <2>1 DEF IInv, TypeOK, Sized, Usable, Existing
  <2>2. CASE metadata[p] = Absent /\ metadata'[p] = Emptied
    BY <2>2 DEF Usable, Existing
  <2> QED BY <1>4, <2>1, <2>2
<1> QED BY <1>2, <1>3, <1>4, <1>5, Begins

\* A new file has no block.
LEMMA CreateKeeps ==
  ASSUME IInv, Create
  PROVE  IInv'
<1> DEFINE new == [size |-> 0, blocks |-> <<>>]
           r == request.pokemon
<1>1. pc = "create" /\ request \in Requests /\ r \in Pokemons /\ up
  BY InProgress DEF Create
<1>2. metadata \in [Pokemons -> {Absent, Emptied} \cup [size : Nat, blocks : Seq(Blocks)]]
      /\ metadata[r] = Emptied
  BY <1>1 DEF IInv, TypeOK, Phase
<1>3. new \in [size : Nat, blocks : Seq(Blocks)] /\ new.size = 0 /\ Len(new.blocks) = 0
      /\ SubSeq(new.blocks, 1, new.size) = <<>> /\ new # Absent
  <2>1. <<>> \in Seq(Blocks) /\ Len(<<>>) = 0
    BY EmptySeq
  <2>2. SubSeq(<<>>, 1, 0) = <<>>
    OBVIOUS
  <2>3. new.size = 0 /\ Absent.exists = FALSE
    BY DEF Absent
  <2>4. DOMAIN new = {"size", "blocks"} /\ DOMAIN Absent = {"exists"}
    BY DEF Absent
  <2> QED BY <2>1, <2>2, <2>3, <2>4
<1> HIDE DEF new
<1>4. metadata' = [metadata EXCEPT ![r] = new]
  BY DEF Create, new
<1>5. /\ metadata' \in [Pokemons -> {Absent, Emptied} \cup [size : Nat, blocks : Seq(Blocks)]]
      /\ metadata'[r] = new /\ \A p \in Pokemons \ {r} : metadata'[p] = metadata[p]
  BY <1>1, <1>2, <1>3, <1>4
<1>6. \A p \in Pokemons : /\ Existing(p)' = Existing(p)
                          /\ Usable(p)' => metadata'[p].size <= Len(metadata'[p].blocks)
                          /\ Usable(p)' => \/ metadata'[p].size = 0
                                           \/ metadata'[p].size = Len(metadata'[p].blocks)
  <2> SUFFICES ASSUME NEW p \in Pokemons
               PROVE  /\ Existing(p)' = Existing(p)
                      /\ Usable(p)' => metadata'[p].size <= Len(metadata'[p].blocks)
                      /\ Usable(p)' => \/ metadata'[p].size = 0
                                       \/ metadata'[p].size = Len(metadata'[p].blocks)
    OBVIOUS
  <2>1. CASE p = r
    <3>1. Existing(p)' = <<>>
      BY <2>1, <1>3, <1>5 DEF Existing
    <3>2. Existing(p) = <<>>
      BY <2>1, <1>2 DEF Existing, Usable
    <3> QED BY <2>1, <1>3, <1>5, <3>1, <3>2
  <2>2. CASE p # r
    BY <2>2, <1>5 DEF IInv, TypeOK, Sized, Usable, Existing
  <2> QED BY <2>1, <2>2
<1>7. late' \in 0..MaxLate
  BY DEF Create, marks, IInv, TypeOK
<1>8. UNCHANGED <<block, bitmap_file, up, bitmap, content, payload, blocks, gonzalo, lost, torn, crashes>>
      /\ pc' = "read" /\ request' = request
  BY DEF Create, marks
<1> QED BY <1>1, <1>3, <1>5, <1>6, <1>7, <1>8, Begins

\* The process dies, or answers, and the disk is as it was.
LEMMA EndsQuietly ==
  ASSUME IInv, pc # "idle", Idle, UNCHANGED <<disk, marks>>,
         UNCHANGED <<up, bitmap>> \/ (up' = FALSE /\ bitmap' = {})
  PROVE  IInv'
<1>1. up = TRUE /\ request.pokemon \in Pokemons
  BY InProgress DEF IInv, TypeOK
<1>2. /\ metadata' = metadata /\ block' = block /\ bitmap_file' = bitmap_file
      /\ lost' = lost /\ torn' = torn /\ crashes' = crashes /\ late' = late
  BY DEF disk, marks
<1>3. /\ block' \in [Blocks -> {Blank} \cup [line : Lines, last : BOOLEAN]]
      /\ bitmap_file' = Cut \/ \E bits \in SUBSET Blocks : bitmap_file' = <<bits>>
      /\ torn' \subseteq Pokemons /\ crashes' \in 0..MaxCrashes
  BY <1>2 DEF IInv, TypeOK
<1>4. (up' = TRUE /\ up = TRUE /\ bitmap' = bitmap) \/ (up' = FALSE /\ bitmap' = {})
  BY <1>1
<1> QED BY <1>1, <1>2, <1>3, <1>4, RequestEnds

\* Requests that answer without a change, or end the process for what they read.
LEMMA ReadersKeep ==
  ASSUME IInv, ReadEmptied \/ Get \/ CatchNothing \/ NewNothing
  PROVE  IInv'
<1>1. CASE ReadEmptied
  BY <1>1, EndsQuietly DEF ReadEmptied, Die
<1>2. CASE Get
  BY <1>2, EndsQuietly DEF Get, Answered
<1>3. CASE CatchNothing
  BY <1>3, EndsQuietly DEF CatchNothing, Answered
<1>4. CASE NewNothing
  BY <1>4, EndsQuietly DEF NewNothing, Die
<1> QED BY <1>1, <1>2, <1>3, <1>4

\* The bitmap is saved as it is in memory.
LEMMA SaveBitmapKeeps ==
  ASSUME IInv, SaveBitmap
  PROVE  IInv'
<1>1. /\ up = TRUE /\ request.pokemon \in Pokemons
  BY InProgress DEF SaveBitmap, IInv, TypeOK
<1>2. /\ metadata' = metadata /\ block' = block /\ bitmap_file' = <<bitmap>> /\ up' = up
      /\ bitmap' = bitmap
      /\ lost' = lost /\ torn' = torn /\ crashes' = crashes /\ late' = late /\ Idle
  BY DEF SaveBitmap, marks
<1>3. /\ block' \in [Blocks -> {Blank} \cup [line : Lines, last : BOOLEAN]]
      /\ torn' \subseteq Pokemons /\ crashes' \in 0..MaxCrashes /\ bitmap \in SUBSET Blocks
  BY <1>2 DEF IInv, TypeOK
<1>4. \E bits \in SUBSET Blocks : bitmap_file' = <<bits>>
  BY <1>2, <1>3
<1> QED BY <1>1, <1>2, <1>3, <1>4, RequestEnds

\* A cut leaves what was written, or a file cut short.
LEMMA KillKeeps ==
  ASSUME IInv, Kill
  PROVE  IInv'
<1>1. /\ up = TRUE /\ up' = FALSE /\ bitmap' = {} /\ lost' = lost /\ late' = late /\ Idle
  BY DEF Kill, Die, IInv, TypeOK
<1>2. crashes' \in 0..MaxCrashes
  <2>1. crashes \in 0..MaxCrashes /\ MaxCrashes \in Nat /\ crashes < MaxCrashes /\ crashes' = crashes + 1
    BY TallGrassAssumption DEF TallGrassAssumption, Kill, IInv, TypeOK
  <2> QED BY <2>1
<1>3. pc # "idle" => request.pokemon \in Pokemons
  BY InProgress
<1>4. torn' \subseteq Pokemons
  BY <1>3 DEF Kill, IInv, TypeOK
<1>5. /\ metadata \in [Pokemons -> {Absent, Emptied} \cup [size : Nat, blocks : Seq(Blocks)]]
      /\ block \in [Blocks -> {Blank} \cup [line : Lines, last : BOOLEAN]]
      /\ bitmap_file = Cut \/ \E bits \in SUBSET Blocks : bitmap_file = <<bits>>
  BY DEF IInv, TypeOK
<1>6. \/ UNCHANGED disk
      \/ pc # "idle" /\ metadata' = [metadata EXCEPT ![request.pokemon] = Emptied]
         /\ UNCHANGED <<block, bitmap_file>>
      \/ pc # "idle" /\ block' = [block EXCEPT ![blocks[gonzalo + 1]] = Blank]
         /\ UNCHANGED <<metadata, bitmap_file>>
      \/ pc # "idle" /\ bitmap_file' = Cut /\ UNCHANGED <<metadata, block>>
  <2>1. CutFile \/ UNCHANGED disk
    BY DEF Kill
  <2>2. pc \in {"idle", "create", "read", "block", "metadata", "bitmap"}
    BY DEF IInv, TypeOK
  <2> QED BY <2>1, <2>2 DEF CutFile
<1>7. /\ block' \in [Blocks -> {Blank} \cup [line : Lines, last : BOOLEAN]]
      /\ bitmap_file' = Cut \/ \E bits \in SUBSET Blocks : bitmap_file' = <<bits>>
  <2>1. CASE UNCHANGED disk
    BY <2>1, <1>5 DEF disk
  <2>2. CASE UNCHANGED <<block, bitmap_file>>
    BY <2>2, <1>5
  <2>3. CASE block' = [block EXCEPT ![blocks[gonzalo + 1]] = Blank] /\ UNCHANGED <<metadata, bitmap_file>>
    BY <2>3, <1>5
  <2>4. CASE bitmap_file' = Cut /\ UNCHANGED <<metadata, block>>
    BY <2>4, <1>5
  <2> QED BY <1>6, <2>1, <2>2, <2>3, <2>4
<1>8. CASE metadata' = metadata
  BY <1>1, <1>2, <1>4, <1>7, <1>8, RequestEnds
<1>9. CASE pc # "idle" /\ metadata' = [metadata EXCEPT ![request.pokemon] = Emptied]
  BY <1>1, <1>2, <1>3, <1>4, <1>7, <1>9, RequestEnds
<1> QED BY <1>6, <1>8, <1>9 DEF disk

\* A restart takes the bitmap of the disk, and what it does not know of the files is lost.
LEMMA RestartKeeps ==
  ASSUME IInv, Restart
  PROVE  IInv'
<1>1. /\ ~up /\ up' = TRUE /\ pc = "idle" /\ pc' = "idle" /\ request' = request
      /\ metadata' = metadata /\ block' = block /\ bitmap_file' = bitmap_file
      /\ content' = content /\ payload' = payload /\ blocks' = blocks /\ gonzalo' = gonzalo
      /\ torn' = torn /\ crashes' = crashes /\ late' = late
  BY DEF Restart, disk, work, IInv, Phase
<1>2. bitmap' \subseteq Blocks
  <2>1. CASE bitmap_file = Cut
    BY <2>1 DEF Restart
  <2>2. CASE bitmap_file # Cut
    <3>1. PICK bits \in SUBSET Blocks : bitmap_file = <<bits>>
      BY <2>2 DEF IInv, TypeOK
    <3> QED BY <2>2, <3>1 DEF Restart
  <2> QED BY <2>1, <2>2
<1>3. lost' = lost \cup ((UNION {ToSet(Existing(p)) : p \in Pokemons}) \ bitmap')
  BY DEF Restart
<1>4. lost' \subseteq Blocks /\ lost \subseteq lost'
  <2>1. \A p \in Pokemons : ToSet(Existing(p)) \subseteq Blocks
    BY ExistingTyped DEF IInv
  <2>2. lost \subseteq Blocks
    BY DEF IInv, TypeOK
  <2> QED BY <1>3, <2>1, <2>2
<1>5. \A p \in Pokemons : /\ Existing(p)' = Existing(p) /\ Usable(p)' = Usable(p)
                          /\ ToSet(Existing(p))' = ToSet(Existing(p))
  BY <1>1 DEF Existing, Usable, ToSet
<1>6. TypeOK'
  BY <1>1, <1>2, <1>4, <1>5 DEF IInv, TypeOK
<1>7. SharedOnlyIfLost'
  BY <1>4, <1>5 DEF IInv, SharedOnlyIfLost
<1>8. Phase' /\ Progress' /\ Sized'
  <2>1. Phase' /\ Progress'
    BY <1>1 DEF IInv, Phase, Progress, Writing, Before
  <2>2. Sized'
    BY <1>1, <1>5 DEF IInv, Sized
  <2> QED BY <2>1, <2>2
<1>9. Known'
  <2>1. \A p \in Pokemons : ToSet(Existing(p)) \subseteq bitmap' \cup lost'
    BY <1>3
  <2> QED BY <1>1, <1>5, <2>1 DEF Known, Writing
<1>10. Apart'
  BY <1>1, <1>4, <1>5 DEF IInv, Apart, Writing
<1> QED BY <1>6, <1>7, <1>8, <1>9, <1>10 DEF IInv

-----------------------------------------------------------------------------
(* Requests that write *)

\* The blocks that find_free_blocks finds are free, and each is another.
LEMMA FreeBlocksFound ==
  ASSUME NEW n \in Nat, n <= Cardinality(FreeBlocks)
  PROVE  /\ FirstFree(n) \in Seq(Blocks) /\ Len(FirstFree(n)) = n
         /\ \A i \in 1..n : FirstFree(n)[i] \in Blocks \ bitmap
         /\ \A i, j \in 1..n : FirstFree(n)[i] = FirstFree(n)[j] => i = j
<1> DEFINE c == Cardinality(FreeBlocks)
<1>1. IsFiniteSet(Blocks)
  <2>1. BlockCount - 1 \in Int /\ 0 \in Int
    BY TallGrassAssumption DEF TallGrassAssumption
  <2> QED BY <2>1, FS_Interval DEF Blocks
<1>2. IsFiniteSet(FreeBlocks) /\ c \in Nat
  <2>1. FreeBlocks \in SUBSET Blocks
    BY DEF FreeBlocks
  <2> QED BY <1>1, <2>1, FS_Subset, FS_CardinalityType
<1>3. FreeBlocks \subseteq Int
  BY DEF FreeBlocks, Blocks
<1>4. \A i \in 1..n : i \in 1..c
  BY <1>2
<1>5. \A i \in 1..n : FirstFree(n)[i] = Nth(FreeBlocks, i)
  BY DEF FirstFree
<1>6. \A i \in 1..n : FirstFree(n)[i] \in Blocks \ bitmap
  <2> SUFFICES ASSUME NEW i \in 1..n PROVE Nth(FreeBlocks, i) \in FreeBlocks
    BY <1>5 DEF FreeBlocks
  <2>1. i \in 1..Cardinality(FreeBlocks)
    BY <1>4
  <2> QED BY <1>2, <1>3, <2>1, NthIsThere
<1>7. \A i, j \in 1..n : FirstFree(n)[i] = FirstFree(n)[j] => i = j
  <2> SUFFICES ASSUME NEW i \in 1..n, NEW j \in 1..n, Nth(FreeBlocks, i) = Nth(FreeBlocks, j)
               PROVE  i = j
    BY <1>5
  <2>1. i \in 1..Cardinality(FreeBlocks) /\ j \in 1..Cardinality(FreeBlocks)
    BY <1>4
  <2> QED BY <1>2, <1>3, <2>1, NthDiffer
<1>8. FirstFree(n) \in [1..n -> Blocks]
  <2>1. FirstFree(n) = [i \in 1..n |-> Nth(FreeBlocks, i)]
    BY DEF FirstFree
  <2>2. \A i \in 1..n : Nth(FreeBlocks, i) \in Blocks
    BY <1>5, <1>6
  <2> HIDE DEF FirstFree
  <2> QED BY <2>1, <2>2
<1>9. FirstFree(n) \in Seq(Blocks) /\ Len(FirstFree(n)) = n
  <2> HIDE DEF FirstFree
  <2> QED BY <1>8, LenProperties
<1> QED BY <1>6, <1>7, <1>9

\* The blocks of a request are those its file had, and free ones for the lines they do
\* not hold.
LEMMA BlocksTaken ==
  ASSUME IInv, pc = "read", Usable(request.pokemon), NEW lines, NEW new \in Seq(Lines),
         StartWriting(lines, new)
  PROVE  LET old == Existing(request.pokemon)
         IN  /\ blocks' \in Seq(Blocks) /\ Len(blocks') \in Nat /\ Len(new) <= Len(blocks')
             /\ Len(old) <= Len(blocks') /\ 0 < Len(blocks') /\ DOMAIN blocks' = 1..Len(blocks')
             /\ \A i \in 1..Len(old) : blocks'[i] = old[i]
             /\ \A i \in (Len(old) + 1)..Len(blocks') : blocks'[i] \in Blocks \ bitmap
             /\ \A i, j \in (Len(old) + 1)..Len(blocks') : blocks'[i] = blocks'[j] => i = j
<1> DEFINE old  == Existing(request.pokemon)
           o    == Len(old)
           l    == Len(new)
           more == l - o
<1>1. request.pokemon \in Pokemons /\ old \in Seq(Blocks) /\ o \in Nat /\ DOMAIN old = 1..o
  BY InProgress, ExistingTyped DEF IInv
<1>2. l \in Nat /\ (l = 0 => new = <<>>) /\ (o = 0 => old = <<>>)
  <2> HIDE DEF old
  <2> QED BY <1>1, EmptySeq, LenProperties
<1>3. more <= Cardinality(FreeBlocks) /\ ~(new = <<>> /\ old = <<>>)
      /\ blocks' = IF more > 0 THEN old \o FirstFree(more) ELSE old
  BY DEF StartWriting
<1>4. CASE more > 0
  <2>1. more \in Nat /\ blocks' = old \o FirstFree(more)
    BY <1>1, <1>2, <1>3, <1>4
  <2> DEFINE free == FirstFree(more)
  <2>2. /\ free \in Seq(Blocks) /\ Len(free) = more
        /\ \A i \in 1..more : free[i] \in Blocks \ bitmap
        /\ \A i, j \in 1..more : free[i] = free[j] => i = j
    <3> HIDE DEF more
    <3> QED BY <1>3, <2>1, FreeBlocksFound
  <2> HIDE DEF old, free
  <2>3. /\ blocks' \in Seq(Blocks) /\ Len(blocks') = o + Len(free)
        /\ \A i \in 1..Len(blocks') :
             blocks'[i] = IF i <= o THEN old[i] ELSE free[i - o]
    BY <1>1, <2>1, <2>2, ConcatProperties DEF free
  <2> HIDE DEF o, l
  <2>4. Len(blocks') = l /\ l > 0 /\ o <= l
    BY <1>1, <1>2, <1>4, <2>2, <2>3
  <2>5. \A i \in (o + 1)..l : i - o \in 1..more /\ blocks'[i] = free[i - o]
    BY <1>1, <1>2, <2>3, <2>4
  <2>6. \A i \in 1..o : blocks'[i] = old[i]
    BY <1>1, <1>2, <2>3, <2>4
  <2>7. \A i \in (o + 1)..l : blocks'[i] \in Blocks \ bitmap
    BY <2>2, <2>5
  <2>8. \A i, j \in (o + 1)..l : blocks'[i] = blocks'[j] => i = j
    <3> SUFFICES ASSUME NEW i \in (o + 1)..l, NEW j \in (o + 1)..l, blocks'[i] = blocks'[j]
                 PROVE  i = j
      OBVIOUS
    <3>1. i - o = j - o
      BY <2>2, <2>5
    <3> QED BY <1>1, <1>2, <3>1
  <2>9. DOMAIN blocks' = 1..Len(blocks')
    BY <2>3, LenProperties
  <2> QED BY <1>2, <2>3, <2>4, <2>6, <2>7, <2>8, <2>9 DEF old, o, l
<1>5. CASE ~(more > 0)
  <2>1. blocks' = old
    BY <1>3, <1>5
  <2>2. l <= o /\ 0 < o
    <3> HIDE DEF old, o, l
    <3> QED BY <1>1, <1>2, <1>3, <1>5
  <2>3. (o + 1)..o = {}
    <3> HIDE DEF o
    <3> QED BY <1>1
  <2> HIDE DEF old
  <2> QED BY <1>1, <2>1, <2>2, <2>3 DEF old
<1> QED BY <1>4, <1>5

\* The blocks that will be written are the file's own first, then free ones.
LEMMA StartWritingKeeps ==
  ASSUME IInv, pc = "read", Usable(request.pokemon), request.type \in {"NEW", "CATCH"},
         NEW lines \in Seq(Lines), NEW new \in Seq(Lines), StartWriting(lines, new)
  PROVE  IInv'
<1> DEFINE old == Existing(request.pokemon)
           o   == Len(old)
<1>1. /\ blocks' \in Seq(Blocks) /\ Len(blocks') \in Nat /\ Len(new) <= Len(blocks')
      /\ o <= Len(blocks') /\ 0 < Len(blocks') /\ DOMAIN blocks' = 1..Len(blocks')
      /\ \A i \in 1..o : blocks'[i] = old[i]
      /\ \A i \in (o + 1)..Len(blocks') : blocks'[i] \in Blocks \ bitmap
      /\ \A i, j \in (o + 1)..Len(blocks') : blocks'[i] = blocks'[j] => i = j
  BY BlocksTaken
<1>2. /\ up /\ request \in Requests /\ request.pokemon \in Pokemons
      /\ o \in Nat /\ DOMAIN old = 1..o /\ old \in Seq(Blocks)
  BY InProgress, ExistingTyped DEF IInv
<1>3. /\ content' = lines /\ payload' = new /\ gonzalo' = 0 /\ pc' = "block"
      /\ metadata' = metadata /\ block' = block /\ bitmap_file' = bitmap_file
      /\ up' = up /\ bitmap' = bitmap /\ request' = request
      /\ lost' = lost /\ torn' = torn /\ crashes' = crashes /\ late' = late
  BY DEF StartWriting, disk, marks
<1>4. \A p \in Pokemons : /\ Existing(p)' = Existing(p) /\ Usable(p)' = Usable(p)
                          /\ ToSet(Existing(p))' = ToSet(Existing(p))
  BY <1>3 DEF Existing, Usable, ToSet
<1> HIDE DEF old, o
<1>5. \A i \in 1..Len(blocks') : i \in 1..o \/ i \in (o + 1)..Len(blocks')
  BY <1>1, <1>2
<1>6. \A p \in Pokemons : ToSet(Existing(p)) \subseteq bitmap \cup lost
  BY <1>2 DEF IInv, Known
<1>7. \A i \in 1..o : old[i] \in bitmap \cup lost
  BY <1>2, <1>6 DEF old, ToSet
<1>8. TypeOK'
  <2>1. gonzalo' \in 0..Len(blocks') /\ (pc' = "block" => gonzalo' < Len(blocks'))
    BY <1>1, <1>3
  <2> QED BY <1>1, <1>2, <1>3, <1>4, <2>1 DEF IInv, TypeOK
<1>9. SharedOnlyIfLost' /\ Sized'
  BY <1>3, <1>4 DEF IInv, SharedOnlyIfLost, Sized
<1>10. Phase'
  <2>1. request # NoRequest
    BY <1>2, RequestTyped
  <2> QED BY <1>2, <1>3, <1>4, <2>1 DEF Phase, Before
<1>11. Progress'
  <2>1. ToSet(old) \subseteq ToSet(blocks')
    <3> SUFFICES ASSUME NEW i \in 1..o PROVE old[i] \in ToSet(blocks')
      BY <1>2 DEF ToSet
    <3>1. i \in DOMAIN blocks' /\ blocks'[i] = old[i]
      BY <1>1, <1>2
    <3> QED BY <3>1 DEF ToSet
  <2>2. ToSet(Existing(request.pokemon))' = ToSet(old) /\ ToSet(blocks)' = ToSet(blocks')
    BY <1>2, <1>3, <1>4 DEF old, ToSet
  <2> QED BY <1>1, <1>3, <2>1, <2>2 DEF Progress, Writing
<1>12. Known'
  <2>1. \A i \in 1..0 : FALSE
    OBVIOUS
  <2> QED BY <1>3, <1>4, <1>6, <2>1 DEF Known, Writing
<1>13. Apart'
  <2>1. \A p \in Pokemons : \A i, j \in DOMAIN Existing(p)' :
          i # j /\ Existing(p)'[i] = Existing(p)'[j] => Existing(p)'[i] \in lost'
    BY <1>3, <1>4 DEF IInv, Apart
  <2>2. ASSUME NEW i \in DOMAIN blocks', NEW j \in DOMAIN blocks', i # j, blocks'[i] = blocks'[j]
        PROVE  blocks'[i] \in lost
    <3>1. CASE i \in 1..o /\ j \in 1..o
      <4>1. old[i] = old[j] /\ blocks'[i] = old[i]
        BY <1>1, <2>2, <3>1
      <4> QED BY <1>2, <2>2, <3>1, <4>1 DEF IInv, Apart, old
    <3>2. CASE i \in 1..o /\ j \notin 1..o
      <4>1. blocks'[i] \in bitmap \cup lost /\ blocks'[j] \notin bitmap
        BY <1>1, <1>5, <1>7, <3>2
      <4> QED BY <2>2, <4>1
    <3>3. CASE i \notin 1..o /\ j \in 1..o
      <4>1. blocks'[j] \in bitmap \cup lost /\ blocks'[i] \notin bitmap
        BY <1>1, <1>5, <1>7, <3>3
      <4> QED BY <2>2, <4>1
    <3>4. CASE i \notin 1..o /\ j \notin 1..o
      BY <1>1, <1>5, <2>2, <3>4
    <3> QED BY <3>1, <3>2, <3>3, <3>4
  <2>3. ASSUME NEW q \in Pokemons \ {request.pokemon}, NEW x \in ToSet(Existing(q)), x \in ToSet(blocks')
        PROVE  x \in lost
    <3>1. PICK i \in DOMAIN blocks' : blocks'[i] = x
      BY <2>3 DEF ToSet
    <3>2. CASE i \in 1..o
      <4>1. x \in ToSet(old)
        BY <1>1, <1>2, <3>1, <3>2 DEF ToSet
      <4> QED BY <1>2, <2>3, <4>1 DEF IInv, SharedOnlyIfLost, old
    <3>3. CASE i \notin 1..o
      BY <1>1, <1>5, <1>6, <2>3, <3>1, <3>3
    <3> QED BY <3>2, <3>3
  <2>4. \A i, j \in DOMAIN blocks' : i # j /\ blocks'[i] = blocks'[j] => blocks'[i] \in lost'
    BY <1>3, <2>2
  <2>5. \A q \in Pokemons \ {request'.pokemon} :
          ToSet(Existing(q))' \cap ToSet(blocks)' \subseteq lost'
    <3>1. ToSet(blocks)' = ToSet(blocks')
      BY DEF ToSet
    <3> QED BY <1>3, <1>4, <2>3, <3>1
  <2> QED BY <2>1, <2>4, <2>5 DEF Apart
<1> QED BY <1>8, <1>9, <1>10, <1>11, <1>12, <1>13 DEF IInv

\* What an addition is serialised to is a sequence of lines.
LEMMA NewPayload ==
  ASSUME NEW lines \in Seq(Lines), NEW l \in Locations, NEW n \in Int,
         Quantity(lines, l) + n \in 0..MaxQuantity
  PROVE  Serialised(Added(lines, l, n)) \in Seq(Lines)
<1>1. Added(lines, l, n) \in Seq(AnyLines)
  BY AddedTyped
<1> QED BY <1>1, SerialisedTyped

\* A CATCH starts to write its lines.
LEMMA CatchKeeps ==
  ASSUME IInv, Catch
  PROVE  IInv'
<1>1. /\ pc = "read" /\ request.type = "CATCH" /\ Usable(request.pokemon)
      /\ request.pokemon \in Pokemons /\ request \in Requests
  BY InProgress DEF Catch
<1>2. PICK lines \in Contents(request.pokemon) :
        /\ Quantity(lines, request.at) > 0
        /\ StartWriting(lines, Serialised(Added(lines, request.at, -1)))
  BY DEF Catch
<1>3. lines \in Seq(Lines) /\ request.at \in Locations
  BY <1>1, ContentsTyped, RequestTyped DEF IInv
<1>4. -1 \in Int /\ Quantity(lines, request.at) + (-1) \in 0..MaxQuantity
  <2>1. Quantity(lines, request.at) \in 0..MaxQuantity /\ MaxQuantity \in Nat
    BY <1>3, QuantityTyped, TallGrassAssumption DEF TallGrassAssumption
  <2> QED BY <1>2, <2>1
<1>5. Serialised(Added(lines, request.at, -1)) \in Seq(Lines)
  BY <1>3, <1>4, NewPayload
<1> QED BY <1>1, <1>2, <1>3, <1>5, StartWritingKeeps

\* A NEW starts to write its lines.
LEMMA NewKeeps ==
  ASSUME IInv, New
  PROVE  IInv'
<1> DEFINE new(lines) == Serialised(Added(lines, request.at, request.count))
<1>1. /\ pc = "read" /\ request.type = "NEW" /\ Usable(request.pokemon)
      /\ request.pokemon \in Pokemons /\ request \in Requests
  BY InProgress DEF New
<1>2. PICK lines \in Contents(request.pokemon) :
        /\ Quantity(lines, request.at) + request.count <= MaxQuantity
        /\ \/ StartWriting(lines, new(lines))
           \/ Answered(<<"APPEARED", request.pokemon, request.at>>)
  BY DEF New
<1>3. lines \in Seq(Lines) /\ request.at \in Locations /\ request.count \in Nat
  BY <1>1, ContentsTyped, RequestTyped, TallGrassAssumption DEF IInv, TallGrassAssumption
<1>4. request.count \in Int /\ Quantity(lines, request.at) + request.count \in 0..MaxQuantity
  <2>1. Quantity(lines, request.at) \in 0..MaxQuantity /\ MaxQuantity \in Nat
    BY <1>3, QuantityTyped, TallGrassAssumption DEF TallGrassAssumption
  <2> QED BY <1>2, <1>3, <2>1
<1>5. new(lines) \in Seq(Lines)
  BY <1>3, <1>4, NewPayload
<1>6. CASE StartWriting(lines, new(lines))
  <2> HIDE DEF new
  <2> QED BY <1>1, <1>3, <1>5, <1>6, StartWritingKeeps
<1>7. CASE Answered(<<"APPEARED", request.pokemon, request.at>>)
  BY <1>1, <1>7, EndsQuietly DEF Answered
<1> QED BY <1>2, <1>6, <1>7

\* Each line goes into the block that was found for it.
LEMMA WriteBlockKeeps ==
  ASSUME IInv, WriteBlock
  PROVE  IInv'
<1> DEFINE n == gonzalo + 1
           b == blocks[n]
           l == Len(payload)
<1>1. /\ pc = "block" /\ up /\ request \in Requests /\ request.pokemon \in Pokemons
  BY InProgress DEF WriteBlock
<1>2. /\ gonzalo \in Nat /\ n \in 1..Len(blocks) /\ gonzalo = n - 1 /\ b \in Blocks
      /\ DOMAIN blocks = 1..Len(blocks)
      /\ l \in Nat /\ (l = 0 <=> payload = <<>>) /\ blocks \in Seq(Blocks) /\ payload \in Seq(Lines)
  <2>1. blocks \in Seq(Blocks) /\ payload \in Seq(Lines) /\ gonzalo \in 0..Len(blocks)
        /\ gonzalo < Len(blocks)
    BY <1>1 DEF IInv, TypeOK
  <2>2. Len(blocks) \in Nat /\ DOMAIN blocks = 1..Len(blocks) /\ n \in 1..Len(blocks)
    BY <2>1, LenProperties
  <2>3. b \in Blocks
    BY <2>1, <2>2, ElementOfSeq
  <2>4. l \in Nat /\ (l = 0 <=> payload = <<>>)
    BY <2>1, EmptySeq, LenProperties
  <2> QED BY <2>1, <2>2, <2>3, <2>4
<1>3. gonzalo = 0 \/ gonzalo < l
  BY <1>1 DEF IInv, Progress
<1>4. /\ block' = [block EXCEPT ![b] = IF payload = <<>> THEN Blank
                                       ELSE [line |-> payload[n], last |-> n = Len(payload)]]
      /\ bitmap' = bitmap \cup {b} /\ gonzalo' = n
      /\ pc' = IF n < l THEN "block" ELSE "metadata"
      /\ metadata' = metadata /\ bitmap_file' = bitmap_file /\ up' = up /\ request' = request
      /\ content' = content /\ payload' = payload /\ blocks' = blocks
      /\ lost' = lost /\ torn' = torn /\ crashes' = crashes /\ late' = late
  BY DEF WriteBlock, marks
<1>5. \A p \in Pokemons : /\ Existing(p)' = Existing(p) /\ Usable(p)' = Usable(p)
                          /\ ToSet(Existing(p))' = ToSet(Existing(p))
  BY <1>4 DEF Existing, Usable, ToSet
<1>6. Writing /\ Writing' /\ ~Before
  BY <1>1, <1>4 DEF Writing, Before
<1>7. l <= Len(blocks)
  BY <1>6 DEF IInv, Progress
<1>8. TypeOK'
  <2>1. block' \in [Blocks -> {Blank} \cup [line : Lines, last : BOOLEAN]]
    <3>1. CASE payload = <<>>
      BY <1>4, <3>1 DEF IInv, TypeOK
    <3>2. CASE payload # <<>>
      <4>1. n \in 1..l
        BY <1>2, <1>3, <3>2
      <4>2. payload[n] \in Lines
        BY <1>2, <4>1, ElementOfSeq
      <4>3. [line |-> payload[n], last |-> n = Len(payload)] \in [line : Lines, last : BOOLEAN]
        BY <4>2
      <4> HIDE DEF n, b
      <4> QED BY <1>4, <3>2, <4>3 DEF IInv, TypeOK
    <3> QED BY <3>1, <3>2
  <2>2. gonzalo' \in 0..Len(blocks') /\ (pc' = "block" => gonzalo' < Len(blocks'))
    <3>1. Len(blocks) \in Nat
      BY <1>2, LenProperties
    <3> QED BY <1>2, <1>4, <1>7, <3>1
  <2>3. bitmap' \subseteq Blocks
    BY <1>2, <1>4 DEF IInv, TypeOK
  <2>4. pc' \in {"idle", "create", "read", "block", "metadata", "bitmap"}
    BY <1>4
  <2> QED BY <1>4, <1>5, <2>1, <2>2, <2>3, <2>4 DEF IInv, TypeOK
<1>9. SharedOnlyIfLost' /\ Sized'
  BY <1>4, <1>5 DEF IInv, SharedOnlyIfLost, Sized
<1>10. Phase'
  <2>1. request # NoRequest /\ Usable(request.pokemon) /\ request.type \in {"NEW", "CATCH"}
    BY <1>1, <1>6, RequestTyped DEF IInv, Phase
  <2> QED BY <1>1, <1>4, <1>5, <2>1 DEF Phase, Before
<1>11. Progress'
  <2>1. ToSet(Existing(request.pokemon))' = ToSet(Existing(request.pokemon))
        /\ ToSet(blocks)' = ToSet(blocks)
    BY <1>1, <1>4, <1>5 DEF ToSet
  <2>2. pc' = "block" => gonzalo' < Len(payload')
    BY <1>4
  <2>3. pc' = "metadata" => Len(payload') <= gonzalo' /\ (payload' # <<>> => gonzalo' = Len(payload'))
    BY <1>2, <1>3, <1>4
  <2> QED BY <1>1, <1>4, <1>6, <2>1, <2>2, <2>3 DEF IInv, Progress
<1>12. Known'
  <2>1. \A p \in Pokemons : ToSet(Existing(p))' \subseteq bitmap' \cup lost'
    BY <1>1, <1>4, <1>5 DEF IInv, Known
  <2>2. \A i \in 1..gonzalo' : blocks'[i] \in bitmap'
    <3> SUFFICES ASSUME NEW i \in 1..n PROVE blocks[i] \in bitmap \cup {b}
      BY <1>4
    <3>1. i \in 1..gonzalo \/ i = n
      BY <1>2
    <3> QED BY <1>6, <3>1 DEF IInv, Known
  <2> QED BY <1>4, <2>1, <2>2 DEF Known
<1>13. Apart'
  <2>1. ToSet(blocks)' = ToSet(blocks)
    BY <1>4 DEF ToSet
  <2> QED BY <1>4, <1>5, <1>6, <2>1 DEF IInv, Apart
<1> QED BY <1>8, <1>9, <1>10, <1>11, <1>12, <1>13 DEF IInv

\* The file that a request saves: as many of its blocks as it has written, with its lines
\* in the first ones.  The others are the surplus.
LEMMA FileSaved ==
  ASSUME IInv, SaveMetadata, NEW r \in Pokemons, r = request.pokemon
  PROVE  LET l == Len(payload)
         IN  /\ gonzalo \in Nat /\ l \in Nat /\ l <= gonzalo
             /\ gonzalo <= Len(blocks) /\ (l = 0 \/ l = gonzalo)
             /\ DOMAIN blocks = 1..Len(blocks) /\ Len(blocks) \in Nat
             /\ metadata'[r] \in [size : Nat, blocks : Seq(Blocks)] /\ metadata'[r].size = l
             /\ Len(metadata'[r].blocks) = gonzalo
             /\ DOMAIN metadata'[r].blocks = 1..gonzalo
             /\ \A i \in 1..gonzalo : metadata'[r].blocks[i] = blocks[i]
             /\ Usable(r)' /\ DOMAIN Existing(r)' = 1..l /\ Len(Existing(r)') = l
             /\ \A i \in 1..l : Existing(r)'[i] = blocks[i]
             /\ Surplus = {blocks[i] : i \in (gonzalo + 1)..Len(blocks)}
<1> DEFINE l == Len(payload)
           m == Len(blocks)
           s == SubSeq(blocks, 1, gonzalo)
           rec == [size |-> l, blocks |-> s]
<1>1. pc = "metadata"
  BY DEF SaveMetadata
<1>2. /\ blocks \in Seq(Blocks) /\ m \in Nat /\ DOMAIN blocks = 1..m /\ gonzalo \in 0..m
      /\ payload \in Seq(Lines) /\ l \in Nat /\ (payload = <<>> => l = 0)
      /\ \A i \in 1..m : blocks[i] \in Blocks
  <2>1. blocks \in Seq(Blocks) /\ gonzalo \in 0..Len(blocks) /\ payload \in Seq(Lines)
    BY DEF IInv, TypeOK
  <2>2. Len(<<>>) = 0
    BY EmptySeq
  <2> QED BY <2>1, <2>2, LenProperties, ElementOfSeq
<1>3. l <= gonzalo /\ (l = 0 \/ l = gonzalo)
  BY <1>1, <1>2 DEF IInv, Progress
<1> HIDE DEF l, m
<1>4. /\ s \in Seq(Blocks) /\ Len(s) = gonzalo /\ DOMAIN s = 1..gonzalo
      /\ \A i \in 1..gonzalo : s[i] = blocks[i]
  <2>1. /\ SubSeq(blocks, 1, gonzalo) \in Seq(Blocks)
        /\ Len(SubSeq(blocks, 1, gonzalo)) = IF 1 <= gonzalo THEN gonzalo - 1 + 1 ELSE 0
        /\ \A i \in 1..(gonzalo - 1 + 1) : SubSeq(blocks, 1, gonzalo)[i] = blocks[1 + i - 1]
    <3>1. \A i \in 1..gonzalo : blocks[i] \in Blocks
      BY <1>2
    <3> QED BY <1>2, <3>1, SubSeqProperties
  <2>2. Len(s) = gonzalo /\ \A i \in 1..gonzalo : s[i] = blocks[i]
    BY <1>2, <2>1
  <2> QED BY <2>1, <2>2, LenProperties
<1> HIDE DEF s
<1>5. /\ rec \in [size : Nat, blocks : Seq(Blocks)] /\ rec.size = l /\ rec.blocks = s
      /\ rec \notin {Absent, Emptied}
  <2>1. DOMAIN rec = {"size", "blocks"} /\ DOMAIN Absent = {"exists"} /\ DOMAIN Emptied = {"exists"}
    BY DEF Absent, Emptied
  <2> QED BY <1>2, <1>4, <2>1
<1>6. metadata'[r] = rec
  <2>1. metadata' = [metadata EXCEPT ![r] = rec]
    BY DEF SaveMetadata, l, s
  <2> HIDE DEF rec
  <2> QED BY <1>1, <2>1 DEF IInv, TypeOK
<1> HIDE DEF rec
<1>7. Usable(r)'
  BY <1>5, <1>6 DEF Usable
<1>8. DOMAIN Existing(r)' = 1..l /\ Len(Existing(r)') = l /\ \A i \in 1..l : Existing(r)'[i] = blocks[i]
  <2>1. Existing(r)' = SubSeq(s, 1, l)
    BY <1>5, <1>6, <1>7 DEF Existing
  <2>2. /\ SubSeq(s, 1, l) \in Seq(Blocks)
        /\ Len(SubSeq(s, 1, l)) = IF 1 <= l THEN l - 1 + 1 ELSE 0
        /\ \A i \in 1..(l - 1 + 1) : SubSeq(s, 1, l)[i] = s[1 + i - 1]
    <3>1. \A i \in 1..l : s[i] \in Blocks
      <4>1. \A i \in 1..l : i \in 1..gonzalo
        BY <1>2, <1>3
      <4> QED BY <1>2, <1>4, <4>1
    <3> QED BY <1>2, <1>4, <3>1, SubSeqProperties
  <2>3. Len(SubSeq(s, 1, l)) = l /\ \A i \in 1..l : SubSeq(s, 1, l)[i] = s[i]
    BY <1>2, <2>2
  <2>4. DOMAIN SubSeq(s, 1, l) = 1..l
    BY <2>2, <2>3, LenProperties
  <2>5. \A i \in 1..l : s[i] = blocks[i]
    BY <1>2, <1>3, <1>4
  <2> QED BY <2>1, <2>3, <2>4, <2>5
<1>9. Surplus = {blocks[i] : i \in (gonzalo + 1)..m}
  <2> DEFINE t == SubSeq(blocks, gonzalo + 1, m)
             k == m - gonzalo
  <2>1. /\ t \in Seq(Blocks)
        /\ Len(t) = IF gonzalo + 1 <= m THEN m - (gonzalo + 1) + 1 ELSE 0
        /\ \A i \in 1..(m - (gonzalo + 1) + 1) : t[i] = blocks[gonzalo + 1 + i - 1]
    <3>1. \A i \in (gonzalo + 1)..m : blocks[i] \in Blocks
      BY <1>2
    <3>2. gonzalo + 1 \in Nat
      BY <1>2
    <3> QED BY <1>2, <3>1, <3>2, SubSeqProperties
  <2>2. Len(t) = k /\ k \in Nat /\ \A i \in 1..k : t[i] = blocks[gonzalo + i]
    BY <1>2, <2>1
  <2>3. DOMAIN t = 1..k
    BY <2>1, <2>2, LenProperties
  <2>4. Surplus = {t[i] : i \in 1..k}
    BY <2>3 DEF Surplus, ToSet, m
  <2> HIDE DEF t
  <2>5. {t[i] : i \in 1..k} = {blocks[i] : i \in (gonzalo + 1)..m}
    <3>1. ASSUME NEW i \in 1..k PROVE gonzalo + i \in (gonzalo + 1)..m /\ t[i] = blocks[gonzalo + i]
      BY <1>2, <2>2
    <3>2. ASSUME NEW i \in (gonzalo + 1)..m PROVE i - gonzalo \in 1..k /\ t[i - gonzalo] = blocks[i]
      BY <1>2, <2>2
    <3> HIDE DEF k
    <3> QED BY <3>1, <3>2
  <2> QED BY <2>4, <2>5
<1>10. l \in Nat /\ gonzalo \in Nat /\ gonzalo <= m
  BY <1>2
<1> QED BY <1>1, <1>2, <1>3, <1>4, <1>5, <1>6, <1>7, <1>8, <1>9, <1>10 DEF l, m

\* The metadata lists the blocks that were written, and frees the others.
LEMMA SaveMetadataKeeps ==
  ASSUME IInv, SaveMetadata
  PROVE  IInv'
<1> DEFINE l == Len(payload)
           m == Len(blocks)
<1>0. up /\ request.pokemon \in Pokemons
  BY InProgress DEF SaveMetadata
<1> SUFFICES ASSUME NEW r \in Pokemons, r = request.pokemon PROVE IInv'
  BY <1>0
<1>1. /\ up /\ gonzalo \in Nat /\ l \in Nat /\ l <= gonzalo
      /\ gonzalo <= m /\ (l = 0 \/ l = gonzalo) /\ DOMAIN blocks = 1..m /\ m \in Nat
      /\ metadata'[r] \in [size : Nat, blocks : Seq(Blocks)] /\ metadata'[r].size = l
      /\ Len(metadata'[r].blocks) = gonzalo /\ DOMAIN metadata'[r].blocks = 1..gonzalo
      /\ \A i \in 1..gonzalo : metadata'[r].blocks[i] = blocks[i]
      /\ Usable(r)' /\ DOMAIN Existing(r)' = 1..l
      /\ \A i \in 1..l : Existing(r)'[i] = blocks[i]
      /\ Surplus = {blocks[i] : i \in (gonzalo + 1)..m}
  BY <1>0, FileSaved
<1>2. /\ pc = "metadata" /\ pc' = "bitmap" /\ bitmap' = bitmap \ Surplus
      /\ block' = block /\ bitmap_file' = bitmap_file /\ up' = up /\ request' = request
      /\ content' = content /\ payload' = payload /\ blocks' = blocks /\ gonzalo' = gonzalo
      /\ lost' = lost /\ torn' = torn /\ crashes' = crashes /\ late' = late
  BY DEF SaveMetadata, marks
<1>3. \A p \in Pokemons \ {r} : metadata'[p] = metadata[p]
  BY DEF SaveMetadata, IInv, TypeOK
<1>4. metadata' \in [Pokemons -> {Absent, Emptied} \cup [size : Nat, blocks : Seq(Blocks)]]
  <2>1. metadata' = [metadata EXCEPT ![r] = metadata'[r]]
    BY <1>1 DEF SaveMetadata, IInv, TypeOK
  <2>2. metadata' \in [Pokemons -> {Absent, Emptied} \cup [size : Nat, blocks : Seq(Blocks)]]
    <3> DEFINE rec == metadata'[r]
    <3>1. metadata' = [metadata EXCEPT ![r] = rec] /\ rec \in [size : Nat, blocks : Seq(Blocks)]
      BY <1>1, <2>1
    <3> HIDE DEF rec
    <3> QED BY <3>1 DEF IInv, TypeOK
  <2> QED BY <2>2
<1>5. \A p \in Pokemons \ {r} : /\ Existing(p)' = Existing(p) /\ Usable(p)' = Usable(p)
                                /\ ToSet(Existing(p))' = ToSet(Existing(p))
  BY <1>3 DEF Existing, Usable, ToSet
<1>6. Writing /\ pc # "idle" /\ ~Before
  BY <1>2 DEF Writing, Before
<1>7. /\ \A i, j \in DOMAIN blocks : i # j /\ blocks[i] = blocks[j] => blocks[i] \in lost
      /\ \A q \in Pokemons \ {r} : ToSet(Existing(q)) \cap ToSet(blocks) \subseteq lost
      /\ \A i \in 1..gonzalo : blocks[i] \in bitmap
  BY <1>6 DEF IInv, Apart, Known
<1>8. \A x \in ToSet(Existing(r))' : \E i \in 1..l : x = blocks[i] /\ i \in DOMAIN blocks
  <2> SUFFICES ASSUME NEW x \in ToSet(Existing(r))'
               PROVE  \E i \in 1..l : x = blocks[i] /\ i \in DOMAIN blocks
    OBVIOUS
  <2>1. \E i \in DOMAIN Existing(r)' : x = Existing(r)'[i]
    BY <1>2 DEF ToSet
  <2>2. PICK i \in 1..l : x = blocks[i]
    BY <1>1, <2>1
  <2> QED BY <1>1, <2>2
<1> HIDE DEF l, m
<1>9. TypeOK'
  <2>1. \A p \in Pokemons : Usable(p)' => metadata'[p].size <= Len(metadata'[p].blocks)
    <3> SUFFICES ASSUME NEW p \in Pokemons, Usable(p)'
                 PROVE  metadata'[p].size <= Len(metadata'[p].blocks)
      OBVIOUS
    <3>1. CASE p = r
      BY <1>1, <3>1
    <3>2. CASE p # r
      BY <1>3, <1>5, <3>2 DEF IInv, TypeOK
    <3> QED BY <3>1, <3>2
  <2>2. bitmap' \subseteq Blocks
    BY <1>2 DEF IInv, TypeOK
  <2> QED BY <1>2, <1>4, <2>1, <2>2 DEF IInv, TypeOK
<1>10. SharedOnlyIfLost'
  <2>1. \A q \in Pokemons \ {r} : ToSet(Existing(r))' \cap ToSet(Existing(q))' \subseteq lost
    <3> SUFFICES ASSUME NEW q \in Pokemons \ {r}, NEW x \in ToSet(Existing(r))', x \in ToSet(Existing(q))
                 PROVE  x \in lost
      BY <1>5
    <3>1. x \in ToSet(blocks)
      BY <1>8 DEF ToSet
    <3> QED BY <1>7, <3>1
  <2>2. \A p, q \in Pokemons \ {r} : p # q => ToSet(Existing(p))' \cap ToSet(Existing(q))' \subseteq lost
    BY <1>5 DEF IInv, SharedOnlyIfLost
  <2> SUFFICES ASSUME NEW p \in Pokemons, NEW q \in Pokemons, p # q
               PROVE  ToSet(Existing(p))' \cap ToSet(Existing(q))' \subseteq lost
    BY <1>2 DEF SharedOnlyIfLost
  <2>3. CASE p = r
    BY <2>1, <2>3
  <2>4. CASE q = r
    BY <2>1, <2>4
  <2>5. CASE p # r /\ q # r
    BY <2>2, <2>5
  <2> QED BY <2>3, <2>4, <2>5
<1>11. Phase'
  <2>1. Usable(request.pokemon)' /\ request.type \in {"NEW", "CATCH"} /\ request # NoRequest
    BY <1>1, <1>2, <1>6 DEF IInv, Phase
  <2> QED BY <1>1, <1>2, <2>1 DEF Phase, Before
<1>12. Progress'
  BY <1>2 DEF Progress, Writing
<1>13. Sized'
  <2> SUFFICES ASSUME NEW p \in Pokemons, Usable(p)'
               PROVE  metadata'[p].size = 0 \/ metadata'[p].size = Len(metadata'[p].blocks)
    BY DEF Sized
  <2>1. CASE p = r
    BY <1>1, <2>1
  <2>2. CASE p # r
    BY <1>3, <1>5, <2>2 DEF IInv, Sized
  <2> QED BY <2>1, <2>2
<1>14. Known'
  <2>1. ASSUME NEW p \in Pokemons, NEW x \in ToSet(Existing(p))' PROVE x \in bitmap' \cup lost
    <3>1. CASE p = r
      <4>1. PICK i \in 1..l : x = blocks[i] /\ i \in DOMAIN blocks
        BY <1>8, <2>1, <3>1
      <4>2. i \in 1..gonzalo /\ x \in bitmap
        BY <1>1, <1>7, <4>1
      <4>3. ASSUME x \in Surplus PROVE x \in lost
        <5>1. PICK j \in (gonzalo + 1)..m : x = blocks[j]
          BY <1>1, <4>3
        <5>2. j \in DOMAIN blocks /\ i # j
          BY <1>1, <4>2, <5>1
        <5> QED BY <1>7, <4>1, <5>1, <5>2
      <4> QED BY <1>2, <4>2, <4>3
    <3>2. CASE p # r
      <4>1. x \in ToSet(Existing(p)) /\ x \in bitmap \cup lost
        BY <1>1, <1>5, <2>1, <3>2 DEF IInv, Known
      <4>2. ASSUME x \in Surplus PROVE x \in lost
        <5>1. PICK j \in (gonzalo + 1)..m : x = blocks[j]
          BY <1>1, <4>2
        <5>2. j \in DOMAIN blocks
          BY <1>1
        <5>3. x \in ToSet(blocks)
          BY <5>1, <5>2 DEF ToSet
        <5> QED BY <1>7, <3>2, <4>1, <5>3
      <4> QED BY <1>2, <4>1, <4>2
    <3> QED BY <3>1, <3>2
  <2>2. bitmap' \cap ToSet(blocks) \subseteq Listed(r)'
    <3> SUFFICES ASSUME NEW i \in DOMAIN blocks, blocks[i] \in bitmap'
                 PROVE  blocks[i] \in Listed(r)'
      BY DEF ToSet
    <3>1. i \in 1..gonzalo
      <4>1. i \notin (gonzalo + 1)..m
        BY <1>1, <1>2
      <4> QED BY <1>1, <4>1
    <3>2. Listed(r)' = ToSet(metadata'[r].blocks)
      BY <1>1, <1>2 DEF Listed, ToSet
    <3> QED BY <1>1, <3>1, <3>2 DEF ToSet
  <2>3. \A p \in Pokemons : ToSet(Existing(p))' \subseteq bitmap' \cup lost
    BY <2>1
  <2>4. ToSet(blocks)' = ToSet(blocks) /\ Listed(request.pokemon)' = Listed(r)'
    BY <1>2 DEF ToSet, Listed, Usable
  <2> QED BY <1>2, <2>2, <2>3, <2>4 DEF Known, Writing
<1>15. Apart'
  <2> SUFFICES ASSUME NEW p \in Pokemons, NEW i \in DOMAIN Existing(p)', NEW j \in DOMAIN Existing(p)',
                      i # j, Existing(p)'[i] = Existing(p)'[j]
               PROVE  Existing(p)'[i] \in lost
    BY <1>2 DEF Apart, Writing
  <2>1. CASE p = r
    <3>1. i \in DOMAIN blocks /\ j \in DOMAIN blocks /\ blocks[i] = blocks[j] /\ Existing(p)'[i] = blocks[i]
      BY <1>1, <2>1
    <3> QED BY <1>7, <3>1
  <2>2. CASE p # r
    <3>1. Existing(p)' = Existing(p)
      BY <1>5, <2>2
    <3> HIDE DEF Existing
    <3> QED BY <3>1 DEF IInv, Apart
  <2> QED BY <2>1, <2>2
<1> QED BY <1>9, <1>10, <1>11, <1>12, <1>13, <1>14, <1>15 DEF IInv

-----------------------------------------------------------------------------
(* Every step *)

\* The invariant is inductive.
LEMMA NextKeeps == IInv /\ [Next]_vars => IInv'
<1> SUFFICES ASSUME IInv, [Next]_vars PROVE IInv'
  OBVIOUS
<1>1. CASE \E r \in Requests : Open(r)
  BY <1>1, OpenKeeps
<1>2. CASE Create
  BY <1>2, CreateKeeps
<1>3. CASE ReadEmptied \/ Get \/ CatchNothing \/ NewNothing
  BY <1>3, ReadersKeep
<1>4. CASE Catch
  BY <1>4, CatchKeeps
<1>5. CASE New
  BY <1>5, NewKeeps
<1>6. CASE WriteBlock
  BY <1>6, WriteBlockKeeps
<1>7. CASE SaveMetadata
  BY <1>7, SaveMetadataKeeps
<1>8. CASE SaveBitmap
  BY <1>8, SaveBitmapKeeps
<1>9. CASE Kill
  BY <1>9, KillKeeps
<1>10. CASE Restart
  BY <1>10, RestartKeeps
<1>11. CASE UNCHANGED vars
  <2>1. /\ metadata' = metadata /\ block' = block /\ bitmap_file' = bitmap_file /\ up' = up
        /\ bitmap' = bitmap /\ pc' = pc /\ request' = request /\ content' = content
        /\ payload' = payload /\ blocks' = blocks /\ gonzalo' = gonzalo
        /\ lost' = lost /\ torn' = torn /\ crashes' = crashes /\ late' = late
    BY <1>11 DEF vars, disk, work, marks
  <2>2. \A p \in Pokemons : /\ Existing(p)' = Existing(p) /\ Usable(p)' = Usable(p)
                            /\ ToSet(Existing(p))' = ToSet(Existing(p))
                            /\ Listed(p)' = Listed(p)
    BY <2>1 DEF Existing, Usable, ToSet, Listed
  <2>3. TypeOK' /\ SharedOnlyIfLost' /\ Sized'
    BY <2>1, <2>2 DEF IInv, TypeOK, SharedOnlyIfLost, Sized
  <2>4. Phase'
    BY <2>1 DEF IInv, Phase, Before, Usable
  <2>5. Progress'
    <3>1. /\ ToSet(Existing(request.pokemon))' = ToSet(Existing(request.pokemon))
          /\ ToSet(blocks)' = ToSet(blocks)
      BY <2>1 DEF Existing, Usable, ToSet
    <3> QED BY <2>1, <3>1 DEF IInv, Progress, Writing
  <2>6. Known'
    <3>1. pc = "bitmap" => bitmap' \cap ToSet(blocks)' \subseteq Listed(request.pokemon)'
      BY <2>1 DEF IInv, Known, Listed, Usable, ToSet
    <3> QED BY <2>1, <2>2, <3>1 DEF IInv, Known, Writing
  <2>7. Apart'
    <3>1. ToSet(blocks)' = ToSet(blocks)
      BY <2>1 DEF ToSet
    <3> QED BY <2>1, <2>2, <3>1 DEF IInv, Apart, Writing
  <2> QED BY <2>3, <2>4, <2>5, <2>6, <2>7 DEF IInv
<1> QED BY <1>1, <1>2, <1>3, <1>4, <1>5, <1>6, <1>7, <1>8, <1>9, <1>10, <1>11 DEF Next

\* In every state of the file system, killed and started again as often as one likes, the
\* variables have their types, for all values of the constants.
THEOREM TypesOfFiles == Spec => []TypeOK
<1>1. Init => IInv
  BY InitHolds
<1>2. IInv /\ [Next]_vars => IInv'
  BY NextKeeps
<1>3. IInv => TypeOK
  BY DEF IInv
<1> QED BY <1>1, <1>2, <1>3, PTL DEF Spec

\* Two files never have a block in common that the bitmap of a running GameCard knew: only
\* blocks that a restart did not find in Bitmap.bin are handed out twice (gamecard.c 355-366,
\* 402-414).
THEOREM BlocksAreNotShared == Spec => []SharedOnlyIfLost
<1>1. Init => IInv
  BY InitHolds
<1>2. IInv /\ [Next]_vars => IInv'
  BY NextKeeps
<1>3. IInv => SharedOnlyIfLost
  BY DEF IInv
<1> QED BY <1>1, <1>2, <1>3, PTL DEF Spec

-----------------------------------------------------------------------------
(* Blocks that are leaked *)

\* A block stays leaked, or not, where neither the lists nor the bitmap change and a request
\* has no fewer blocks.
LEMMA NoneLeaked ==
  ASSUME bitmap' = bitmap, \A p \in Pokemons : Listed(p)' = Listed(p),
         ToSet(blocks) \subseteq ToSet(blocks')
  PROVE  Leaked' \subseteq Leaked
<1> DEFINE all == UNION {Listed(p) : p \in Pokemons}
<1>1. all' = all
  OBVIOUS
<1>2. ToSet(blocks)' = ToSet(blocks')
  BY DEF ToSet
<1> HIDE DEF all
<1>3. Leaked = bitmap \ (all \cup ToSet(blocks)) /\ Leaked' = bitmap' \ (all' \cup ToSet(blocks)')
  BY DEF Leaked, all
<1> QED BY <1>1, <1>2, <1>3

\* What a block that starts to be leaked was before.
LEMMA NewLeak ==
  ASSUME NEW b \in Leaked', b \notin Leaked
  PROVE  /\ b \in bitmap' /\ b \notin ToSet(blocks')
         /\ \A p \in Pokemons : b \notin Listed(p)'
         /\ b \in bitmap => b \in ToSet(blocks) \/ \E p \in Pokemons : b \in Listed(p)
<1>1. ToSet(blocks)' = ToSet(blocks')
  BY DEF ToSet
<1>2. b \in bitmap' /\ b \notin ToSet(blocks') /\ \A p \in Pokemons : b \notin Listed(p)'
  BY <1>1 DEF Leaked
<1>3. b \in bitmap => b \in ToSet(blocks) \/ \E p \in Pokemons : b \in Listed(p)
  BY DEF Leaked
<1> QED BY <1>2, <1>3

Refilled(b) == \E p \in Pokemons : Usable(p) /\ metadata[p].size = 0 /\ b \in Listed(p)

\* A block that leaks is one that was freed and marked again.
LEMMA LeaksOnRefill ==
  ASSUME IInv, Next, up, up', NEW b \in Leaked', b \notin Leaked
  PROVE  Refilled(b)
<1>0. /\ b \in bitmap' /\ b \notin ToSet(blocks') /\ \A p \in Pokemons : b \notin Listed(p)'
      /\ b \in bitmap => b \in ToSet(blocks) \/ \E p \in Pokemons : b \in Listed(p)
  BY NewLeak
<1>1. CASE \E r \in Requests : Open(r)
  <2>1. PICK r \in Requests : Open(r)
    BY <1>1
  <2>2. r.pokemon \in Pokemons /\ bitmap' = bitmap /\ blocks' = blocks
    BY <2>1, RequestTyped DEF Open
  <2>3. \A p \in Pokemons : metadata'[p] = metadata[p] \/ (metadata[p] = Absent /\ metadata'[p] = Emptied)
    BY <2>1, <2>2 DEF Open, IInv, TypeOK
  <2>4. \A p \in Pokemons : Listed(p)' = Listed(p)
    BY <2>3 DEF Listed, Usable, ToSet
  <2> QED BY <2>2, <2>4, NoneLeaked
<1>2. CASE Create
  <2>1. bitmap' = bitmap /\ blocks' = blocks /\ request.pokemon \in Pokemons
        /\ metadata[request.pokemon] = Emptied
    BY <1>2, InProgress DEF Create, IInv, Phase
  <2>2. \A p \in Pokemons : metadata'[p] = IF p = request.pokemon THEN [size |-> 0, blocks |-> <<>>]
                                           ELSE metadata[p]
    BY <1>2, <2>1 DEF Create, IInv, TypeOK
  <2>3. \A p \in Pokemons : Listed(p)' = Listed(p)
    <3> SUFFICES ASSUME NEW p \in Pokemons PROVE Listed(p)' = Listed(p)
      OBVIOUS
    <3>1. CASE p = request.pokemon
      <4>1. metadata'[p].blocks = <<>>
        BY <2>2, <3>1
      <4>2. Listed(p)' = {} \/ Listed(p)' = ToSet(metadata'[p].blocks)
        BY DEF Listed, ToSet
      <4>3. ToSet(<<>>) = {}
        BY DEF ToSet
      <4>4. Listed(p) = {}
        BY <2>1, <3>1 DEF Listed, Usable
      <4> QED BY <4>1, <4>2, <4>3, <4>4
    <3>2. CASE p # request.pokemon
      BY <2>2, <3>2 DEF Listed, Usable, ToSet
    <3> QED BY <3>1, <3>2
  <2> QED BY <2>1, <2>3, NoneLeaked
<1>3. CASE ReadEmptied \/ NewNothing \/ Kill \/ Restart
  BY <1>3 DEF ReadEmptied, NewNothing, Kill, Restart, Die
<1>4. CASE Get \/ CatchNothing \/ Catch \/ New
  <2>1. pc = "read" /\ ToSet(blocks) = {}
    BY <1>4 DEF Get, CatchNothing, Catch, New, IInv, Phase, Before, ToSet
  <2>2. metadata' = metadata /\ bitmap' = bitmap
    BY <1>4 DEF Get, CatchNothing, Catch, New, Answered, StartWriting, disk
  <2>3. \A p \in Pokemons : Listed(p)' = Listed(p)
    BY <2>2 DEF Listed, Usable, ToSet
  <2> QED BY <2>1, <2>2, <2>3, NoneLeaked
<1>5. CASE WriteBlock
  <2>1. /\ bitmap' = bitmap \cup {blocks[gonzalo + 1]} /\ blocks' = blocks
        /\ metadata' = metadata /\ pc = "block"
    BY <1>5 DEF WriteBlock
  <2>2. blocks[gonzalo + 1] \in ToSet(blocks)
    <3>1. blocks \in Seq(Blocks) /\ gonzalo \in 0..Len(blocks) /\ gonzalo < Len(blocks)
      BY <2>1 DEF IInv, TypeOK
    <3>2. gonzalo + 1 \in DOMAIN blocks
      BY <3>1, LenProperties
    <3> QED BY <3>2 DEF ToSet
  <2>3. \A p \in Pokemons : Listed(p)' = Listed(p)
    BY <2>1 DEF Listed, Usable, ToSet
  <2> QED BY <1>0, <2>1, <2>2, <2>3
<1>6. CASE SaveMetadata
  <2>1. /\ bitmap' \subseteq bitmap /\ blocks' = blocks /\ request.pokemon \in Pokemons
        /\ Writing /\ pc = "metadata" /\ ~Before
    BY <1>6, InProgress DEF SaveMetadata, Writing, Before
  <2>2. \A p \in Pokemons \ {request.pokemon} : metadata'[p] = metadata[p]
    BY <1>6 DEF SaveMetadata, IInv, TypeOK
  <2>3. PICK p \in Pokemons : b \in Listed(p)
    BY <1>0, <2>1
  <2>4. p = request.pokemon
    <3>1. p # request.pokemon => Listed(p)' = Listed(p)
      BY <2>2 DEF Listed, Usable, ToSet
    <3> QED BY <1>0, <2>3, <3>1
  <2>5. Usable(p)
    BY <2>1, <2>4 DEF IInv, Phase
  <2>6. metadata[p].size # 0 => b \in ToSet(Existing(p))
    <3> SUFFICES ASSUME metadata[p].size # 0 PROVE b \in ToSet(Existing(p))
      OBVIOUS
    <3>1. metadata[p].size = Len(metadata[p].blocks) /\ metadata[p].blocks \in Seq(Blocks)
      BY <2>5, FileTyped DEF IInv, Sized
    <3>2. PICK i \in DOMAIN metadata[p].blocks : b = metadata[p].blocks[i]
      BY <2>3, <2>5 DEF Listed, ToSet
    <3>3. i \in 1..metadata[p].size
      BY <3>1, <3>2, LenProperties
    <3>4. i \in DOMAIN Existing(p) /\ Existing(p)[i] = b
      BY <2>5, <3>2, <3>3, ExistingIs DEF IInv
    <3> QED BY <3>4 DEF ToSet
  <2>7. ToSet(Existing(p)) \subseteq ToSet(blocks)
    BY <2>1, <2>4 DEF IInv, Progress
  <2>8. b \notin ToSet(blocks)
    BY <1>0, <2>1
  <2> QED BY <2>3, <2>5, <2>6, <2>7, <2>8 DEF Refilled
<1>7. CASE SaveBitmap
  <2>1. bitmap' = bitmap /\ metadata' = metadata /\ pc = "bitmap" /\ request.pokemon \in Pokemons
    BY <1>7, InProgress DEF SaveBitmap
  <2>2. \A p \in Pokemons : Listed(p)' = Listed(p)
    BY <2>1 DEF Listed, Usable, ToSet
  <2>3. bitmap \cap ToSet(blocks) \subseteq Listed(request.pokemon)
    BY <2>1 DEF IInv, Known
  <2> QED BY <1>0, <2>1, <2>2, <2>3
<1> QED BY <1>1, <1>2, <1>3, <1>4, <1>5, <1>6, <1>7 DEF Next

\* A running GameCard leaks a block, so that its bit is set and no file has it, in one way
\* only: a file whose last pokemons were caught keeps a block that it does not count, and
\* the next new ones do not look at it (gamecard.c 340-347).
THEOREM LeaksAreRefills == Spec => LeakOnlyOnRefill
<1>1. Init => IInv
  BY InitHolds
<1>2. IInv /\ [Next]_vars => IInv'
  BY NextKeeps
<1>3. IInv /\ [Next]_vars =>
        [up /\ up' => \A b \in Leaked' \ Leaked :
           \E p \in Pokemons : Usable(p) /\ metadata[p].size = 0 /\ b \in Listed(p)]_vars
  BY LeaksOnRefill DEF Refilled
<1> QED BY <1>1, <1>2, <1>3, PTL DEF Spec, LeakOnlyOnRefill

-----------------------------------------------------------------------------
(* Lines of which each position has one *)

OnePerPlace(c) == \A i, j \in DOMAIN c : c[i].at = c[j].at => i = j

\* Then the quantity of a position is that of its line.
LEMMA QuantityOfOne ==
  ASSUME NEW c \in Seq(AnyLines), OnePerPlace(c), NEW l \in Locations
  PROVE  /\ \A i \in DOMAIN c : c[i].at = l =>
              LinesAt(c, l) = {i} /\ Max(LinesAt(c, l)) = i /\ Quantity(c, l) = c[i].quantity
         /\ (\A i \in DOMAIN c : c[i].at # l) => LinesAt(c, l) = {} /\ Quantity(c, l) = 0
<1>1. ASSUME NEW i \in DOMAIN c, c[i].at = l
      PROVE  LinesAt(c, l) = {i} /\ Max(LinesAt(c, l)) = i /\ Quantity(c, l) = c[i].quantity
  <2>1. LinesAt(c, l) = {i}
    BY <1>1 DEF LinesAt, OnePerPlace
  <2>2. i \in Int
    BY LenProperties
  <2>3. Max({i}) = i
    <3>1. IsFiniteSet({i}) /\ {i} \subseteq Int /\ {i} # {}
      BY <2>2, FS_Singleton
    <3> QED BY <3>1, MaxIsThere
  <2> QED BY <2>1, <2>3 DEF Quantity
<1>2. (\A i \in DOMAIN c : c[i].at # l) => LinesAt(c, l) = {} /\ Quantity(c, l) = 0
  BY DEF LinesAt, Quantity
<1> QED BY <1>1, <1>2

\* An addition changes the quantity of its position, and no other.
LEMMA AddedQuantity ==
  ASSUME NEW c \in Seq(Lines), OnePerPlace(c), NEW l \in Locations, NEW n \in Int,
         Quantity(c, l) + n \in 0..MaxQuantity
  PROVE  /\ Added(c, l, n) \in Seq(AnyLines) /\ OnePerPlace(Added(c, l, n))
         /\ \A k \in Locations :
              Quantity(Added(c, l, n), k) = Quantity(c, k) + (IF k = l THEN n ELSE 0)
<1> DEFINE a == Added(c, l, n)
           m == Len(c)
<1>1. a \in Seq(AnyLines)
  BY AddedTyped
<1>2. c \in Seq(AnyLines) /\ m \in Nat /\ DOMAIN c = 1..m /\ \A i \in 1..m : c[i] \in Lines
  <2>1. Lines \subseteq AnyLines
    BY TallGrassAssumption DEF Lines, AnyLines, TallGrassAssumption
  <2> QED BY <2>1, SeqMonotonic, LenProperties, ElementOfSeq
<1> SUFFICES OnePerPlace(a) /\ \A k \in Locations : Quantity(a, k) = Quantity(c, k) + (IF k = l THEN n ELSE 0)
  BY <1>1
<1>3. CASE LinesAt(c, l) = {}
  <2> DEFINE x == [at |-> l, quantity |-> n]
  <2>1. /\ a = Append(c, x) /\ Len(a) = m + 1 /\ DOMAIN a = 1..(m + 1)
        /\ \A i \in 1..m : a[i] = c[i]
        /\ a[m + 1] = x
    <3>1. a = Append(c, x)
      BY <1>3 DEF Added
    <3>2. x \in AnyLines
      BY <1>3 DEF Quantity, AnyLines
    <3> HIDE DEF x, a
    <3> QED BY <1>2, <3>1, <3>2, AppendProperties, LenProperties
  <2>2. \A i \in 1..m : c[i].at # l
    BY <1>2, <1>3 DEF LinesAt
  <2> HIDE DEF a
  <2>3. OnePerPlace(a)
    <3> SUFFICES ASSUME NEW i \in 1..(m + 1), NEW j \in 1..(m + 1), a[i].at = a[j].at PROVE i = j
      BY <2>1 DEF OnePerPlace
    <3>1. CASE i \in 1..m /\ j \in 1..m
      BY <1>2, <2>1, <3>1 DEF OnePerPlace
    <3>2. CASE i \in 1..m /\ j = m + 1
      BY <2>1, <2>2, <3>2
    <3>3. CASE j \in 1..m /\ i = m + 1
      BY <2>1, <2>2, <3>3
    <3> QED BY <1>2, <3>1, <3>2, <3>3
  <2>4. Quantity(a, l) = n /\ Quantity(c, l) = 0
    <3>1. m + 1 \in DOMAIN a /\ a[m + 1].at = l /\ a[m + 1].quantity = n
      BY <1>2, <2>1
    <3>2. Quantity(a, l) = n
      BY <1>1, <2>3, <3>1, QuantityOfOne DEF a
    <3> QED BY <1>3, <3>2 DEF Quantity
  <2>5. ASSUME NEW k \in Locations, k # l PROVE Quantity(a, k) = Quantity(c, k)
    <3>1. CASE \E i \in 1..m : c[i].at = k
      <4>1. PICK i \in 1..m : c[i].at = k
        BY <3>1
      <4>2. i \in DOMAIN c /\ i \in DOMAIN a /\ a[i] = c[i]
        BY <1>2, <2>1
      <4>3. Quantity(c, k) = c[i].quantity
        BY <1>2, <4>1, <4>2, QuantityOfOne
      <4>4. Quantity(a, k) = a[i].quantity
        BY <1>1, <2>3, <4>1, <4>2, QuantityOfOne DEF a
      <4> QED BY <4>2, <4>3, <4>4
    <3>2. CASE \A i \in 1..m : c[i].at # k
      <4>1. Quantity(c, k) = 0
        BY <1>2, <3>2, QuantityOfOne
      <4>2. \A i \in DOMAIN a : a[i].at # k
        <5> SUFFICES ASSUME NEW i \in 1..(m + 1) PROVE a[i].at # k
          BY <2>1
        <5>1. i \in 1..m \/ i = m + 1
          BY <1>2
        <5> QED BY <2>1, <2>5, <3>2, <5>1
      <4>3. Quantity(a, k) = 0
        BY <1>1, <2>3, <4>2, QuantityOfOne DEF a
      <4> QED BY <4>1, <4>3
    <3> QED BY <3>1, <3>2
  <2>6. \A k \in Locations : Quantity(c, k) \in Int
    BY QuantityTyped
  <2> QED BY <2>3, <2>4, <2>5, <2>6
<1>4. CASE LinesAt(c, l) # {}
  <2>1. PICK p \in 1..m : c[p].at = l
    BY <1>2, <1>4 DEF LinesAt
  <2>2. Max(LinesAt(c, l)) = p /\ Quantity(c, l) = c[p].quantity
    BY <1>2, <2>1, QuantityOfOne
  <2> DEFINE x == [c[p] EXCEPT !.quantity = @ + n]
  <2>3. a = [c EXCEPT ![p] = x]
    BY <1>4, <2>2 DEF Added
  <2>4. c[p] \in Lines /\ x.at = l /\ x.quantity = c[p].quantity + n
    BY <1>2, <2>1 DEF Lines
  <2> HIDE DEF x
  <2>5. DOMAIN a = 1..m /\ a[p] = x /\ \A i \in 1..m : i # p => a[i] = c[i]
    BY <1>2, <2>3
  <2> HIDE DEF a
  <2>6. \A i \in 1..m : a[i].at = c[i].at
    BY <2>1, <2>4, <2>5
  <2>7. OnePerPlace(a)
    BY <1>2, <2>5, <2>6 DEF OnePerPlace
  <2>8. ASSUME NEW k \in Locations
        PROVE  Quantity(a, k) = Quantity(c, k) + (IF k = l THEN n ELSE 0)
    <3>1. CASE \E i \in 1..m : c[i].at = k
      <4>1. PICK i \in 1..m : c[i].at = k
        BY <3>1
      <4>2. i \in DOMAIN c /\ i \in DOMAIN a /\ a[i].at = k
        BY <1>2, <2>5, <2>6, <4>1
      <4>3. Quantity(c, k) = c[i].quantity
        BY <1>2, <4>1, <4>2, QuantityOfOne
      <4>4. Quantity(a, k) = a[i].quantity
        BY <1>1, <2>7, <4>2, QuantityOfOne DEF a
      <4>5. k = l <=> i = p
        BY <1>2, <2>1, <4>1 DEF OnePerPlace
      <4>6. c[i].quantity \in Int
        BY <1>2 DEF Lines
      <4>7. CASE i = p
        BY <2>4, <2>5, <4>3, <4>4, <4>5, <4>7
      <4>8. CASE i # p
        BY <2>5, <4>3, <4>4, <4>5, <4>6, <4>8
      <4> QED BY <4>7, <4>8
    <3>2. CASE \A i \in 1..m : c[i].at # k
      <4>1. Quantity(c, k) = 0
        BY <1>2, <3>2, QuantityOfOne
      <4>2. Quantity(a, k) = 0
        BY <1>1, <2>5, <2>6, <2>7, <3>2, QuantityOfOne DEF a
      <4>3. k # l
        BY <2>1, <3>2
      <4> QED BY <4>1, <4>2, <4>3
    <3> QED BY <3>1, <3>2
  <2> QED BY <2>7, <2>8
<1> QED BY <1>3, <1>4

\* To leave out the lines with nothing changes no quantity.
LEMMA SerialisedQuantity ==
  ASSUME NEW c \in Seq(AnyLines), OnePerPlace(c)
  PROVE  /\ OnePerPlace(Serialised(c))
         /\ \A k \in Locations : Quantity(Serialised(c), k) = Quantity(c, k)
<1> DEFINE K == Kept(c)
           s == Serialised(c)
           n == Cardinality(K)
           m == Len(c)
<1>1. m \in Nat /\ DOMAIN c = 1..m /\ \A i \in 1..m : c[i] \in AnyLines
  BY LenProperties, ElementOfSeq
<1>2. K \subseteq Int /\ IsFiniteSet(K) /\ K \subseteq DOMAIN c
  <2>1. K \in SUBSET (1..m) /\ m \in Int /\ 1 \in Int
    BY <1>1 DEF Kept
  <2> HIDE DEF K, m
  <2>2. K \subseteq Int
    BY <2>1
  <2>3. IsFiniteSet(1..m)
    BY <2>1, FS_Interval
  <2> QED BY <1>1, <2>1, <2>2, <2>3, FS_Subset
<1>3. /\ s \in Seq(Lines) /\ Len(s) = n /\ DOMAIN s = 1..n
      /\ \A k \in 1..n : s[k] = c[Nth(K, k)]
  <2>1. s \in Seq(Lines) /\ Len(s) = n
    BY SerialisedTyped
  <2>2. DOMAIN s = 1..n /\ \A k \in 1..n : s[k] = c[Nth(K, k)]
    BY DEF Serialised, InOrder
  <2> QED BY <2>1, <2>2
<1>4. s \in Seq(AnyLines)
  <2>1. Lines \subseteq AnyLines
    BY TallGrassAssumption DEF Lines, AnyLines, TallGrassAssumption
  <2> HIDE DEF s
  <2> QED BY <1>3, <2>1, SeqMonotonic
<1>5. \A k \in 1..n : Nth(K, k) \in K
  BY <1>2, NthIsThere
<1>6. \A k, l \in 1..n : Nth(K, k) = Nth(K, l) => k = l
  BY <1>2, NthDiffer
<1>7. \A i \in K : \E k \in 1..n : Nth(K, k) = i
  BY <1>2, NthOfAll
<1>8. \A i \in DOMAIN c : i \notin K => c[i].quantity = 0
  <2> SUFFICES ASSUME NEW i \in DOMAIN c, i \notin K PROVE c[i].quantity = 0
    OBVIOUS
  <2>1. c[i] \in AnyLines /\ ~(c[i].quantity > 0)
    BY <1>1 DEF Kept
  <2>2. c[i].quantity \in Nat
    BY <2>1 DEF AnyLines
  <2> QED BY <2>1, <2>2
<1> HIDE DEF K, s, n, m
<1>9. OnePerPlace(s)
  <2> SUFFICES ASSUME NEW i \in 1..n, NEW j \in 1..n, s[i].at = s[j].at PROVE i = j
    BY <1>3 DEF OnePerPlace
  <2>1. Nth(K, i) \in DOMAIN c /\ Nth(K, j) \in DOMAIN c /\ s[i] = c[Nth(K, i)] /\ s[j] = c[Nth(K, j)]
    BY <1>2, <1>3, <1>5
  <2>2. Nth(K, i) = Nth(K, j)
    BY <2>1 DEF OnePerPlace
  <2> QED BY <1>6, <2>2
<1>10. ASSUME NEW k \in Locations PROVE Quantity(s, k) = Quantity(c, k)
  <2>1. CASE \E i \in K : c[i].at = k
    <3>1. PICK i \in K : c[i].at = k
      BY <2>1
    <3>2. PICK j \in 1..n : Nth(K, j) = i
      BY <1>7
    <3>3. j \in DOMAIN s /\ s[j] = c[i] /\ i \in DOMAIN c
      BY <1>2, <1>3, <3>2
    <3>4. Quantity(s, k) = s[j].quantity
      BY <1>4, <1>9, <3>1, <3>3, QuantityOfOne
    <3>5. Quantity(c, k) = c[i].quantity
      BY <3>1, <3>3, QuantityOfOne
    <3> QED BY <3>3, <3>4, <3>5
  <2>2. CASE \A i \in K : c[i].at # k
    <3>1. \A j \in DOMAIN s : s[j].at # k
      BY <1>3, <1>5, <2>2
    <3>2. Quantity(s, k) = 0
      BY <1>4, <1>9, <3>1, QuantityOfOne
    <3>3. CASE \E i \in DOMAIN c : c[i].at = k
      <4>1. PICK i \in DOMAIN c : c[i].at = k
        BY <3>3
      <4>2. Quantity(c, k) = c[i].quantity
        BY <4>1, QuantityOfOne
      <4>3. c[i].quantity = 0
        BY <1>8, <2>2, <4>1
      <4> QED BY <3>2, <4>2, <4>3
    <3>4. CASE \A i \in DOMAIN c : c[i].at # k
      BY <3>2, <3>4, QuantityOfOne
    <3> QED BY <3>3, <3>4
  <2> QED BY <2>1, <2>2
<1> QED BY <1>9, <1>10 DEF s

-----------------------------------------------------------------------------
(* The invariant of the refinement *)

\* The block of the i-th line of some.
LineBlock(c, i) == [line |-> c[i], last |-> i = Len(c)]

\* The blocks of a file are those of the lines.
Stored(p, c) ==
  /\ Len(Existing(p)) = Len(c)
  /\ \A i \in 1..Len(c) : block[Existing(p)[i]] = LineBlock(c, i)

Sound(p)  == \E c \in Seq(Lines) : Stored(p, c) /\ OnePerPlace(c)
Intact(p) == lost = {} /\ p \notin torn
Underway  == pc \in {"block", "metadata", "bitmap"}
Change    == IF request.type = "NEW" THEN request.count ELSE -1

\* A request has no answer before it ends.
Unanswered == pc # "idle" => answer = NoAnswer

\* Files that no request is writing are sound, if no cut has damaged them.
Resting ==
  \A p \in Pokemons : Intact(p) /\ ~(Underway /\ p = request.pokemon) => Sound(p)

\* The blocks of the file that is being written are, in turn, those of what was read, of
\* some lines of the payload, and of the payload.
Changing ==
  Underway /\ Intact(request.pokemon) =>
    /\ OnePerPlace(content)
    /\ Quantity(content, request.at) + Change \in 0..MaxQuantity
    /\ payload = Serialised(Added(content, request.at, Change))
    /\ request.type = "CATCH" => Quantity(content, request.at) > 0
    /\ pc = "block" /\ gonzalo = 0 => Stored(request.pokemon, content)
    /\ pc # "bitmap" /\ payload # <<>> =>
         \A i \in 1..gonzalo : block[blocks[i]] = LineBlock(payload, i)
    /\ pc = "bitmap" => Stored(request.pokemon, payload)

RInv == Unanswered /\ Resting /\ Changing

\* What is stored is what is read.
LEMMA ReadsStored ==
  IInv => \A p \in Pokemons, c \in Seq(Lines) : Stored(p, c) => Contents(p) = {c}
<1> SUFFICES ASSUME IInv, NEW p \in Pokemons, NEW c \in Seq(Lines), Stored(p, c)
             PROVE  Contents(p) = {c}
  OBVIOUS
<1> DEFINE e == Existing(p)
           n == Len(c)
<1>1. n \in Nat /\ DOMAIN c = 1..n /\ Len(e) = n /\ DOMAIN e = 1..n
      /\ \A i \in 1..n : block[e[i]] = LineBlock(c, i)
  BY ExistingTyped, LenProperties DEF IInv, Stored
<1>2. \A i \in 1..n : block[e[i]].line = c[i] /\ block[e[i]].last = (i = n) /\ block[e[i]] # Blank
  <2> SUFFICES ASSUME NEW i \in 1..n
               PROVE  block[e[i]].line = c[i] /\ block[e[i]].last = (i = n) /\ block[e[i]] # Blank
    OBVIOUS
  <2> DEFINE x == LineBlock(c, i)
  <2>1. block[e[i]] = x
    BY <1>1
  <2>2. x.line = c[i] /\ x.last = (i = n)
    BY DEF LineBlock
  <2>3. DOMAIN x = {"line", "last"} /\ DOMAIN Blank = {"written"}
    BY DEF LineBlock, Blank
  <2> HIDE DEF x
  <2> QED BY <2>1, <2>2, <2>3
<1> HIDE DEF e
<1>3. WellFormed(p)
  BY <1>1, <1>2 DEF WellFormed, e
<1>4. Contents(p) = {[i \in 1..n |-> block[e[i]].line]}
  BY <1>1, <1>3 DEF Contents, e
<1>5. [i \in 1..n |-> block[e[i]].line] = c
  <2>1. c = [i \in 1..n |-> c[i]]
    BY <1>1
  <2>2. [i \in 1..n |-> block[e[i]].line] = [i \in 1..n |-> c[i]]
    BY <1>2
  <2> QED BY <2>1, <2>2
<1> QED BY <1>4, <1>5

\* What the world of the abstract specification is for each pokemon.
WorldOf(c) == [l \in Locations |-> Quantity(c, l)]

WorldView ==
  /\ World = [p \in Pokemons |-> World[p]]
  /\ \A p \in Pokemons :
       /\ ~Intact(p) => World[p] = DamagedPokemon
       /\ Intact(p) /\ Underway /\ p = request.pokemon => World[p] = WorldOf(content)
       /\ Intact(p) /\ ~(Underway /\ p = request.pokemon) =>
            \A c \in Seq(Lines) : Stored(p, c) => World[p] = WorldOf(c)

\* What a file that is whole shows is what is stored in it, or was when its request began.
LEMMA WorldIs == IInv => WorldView
<1> SUFFICES ASSUME IInv PROVE WorldView
  OBVIOUS
<1>1. World = [p \in Pokemons |-> World[p]]
  BY DEF World
<1>2. \A p \in Pokemons : ~Intact(p) => World[p] = DamagedPokemon
  BY DEF World, Intact
<1>3. Underway => request.type # "none"
  <2>1. Underway => pc # "idle"
    BY DEF Underway
  <2> QED BY <2>1, InProgress, RequestTyped
<1>4. \A p \in Pokemons : Intact(p) /\ Underway /\ p = request.pokemon => World[p] = WorldOf(content)
  <2> SUFFICES ASSUME NEW p \in Pokemons, Intact(p), Underway, p = request.pokemon
               PROVE  World[p] = WorldOf(content)
    OBVIOUS
  <2>1. request.type # "none" /\ ~(lost # {} \/ p \in torn) /\ pc \in {"block", "metadata", "bitmap"}
    BY <1>3 DEF Intact, Underway
  <2> QED BY <2>1 DEF World, WorldOf
<1>5. ASSUME NEW p \in Pokemons, Intact(p), ~(Underway /\ p = request.pokemon),
             NEW c \in Seq(Lines), Stored(p, c)
      PROVE  World[p] = WorldOf(c)
  <2>1. ~(lost # {} \/ p \in torn) /\ ~(p = request.pokemon /\ pc \in {"block", "metadata", "bitmap"})
    BY <1>5 DEF Intact, Underway
  <2>2. Contents(p) = {c}
    BY <1>5, ReadsStored
  <2>3. (CHOOSE x \in Contents(p) : TRUE) = c
    BY <2>2
  <2>4. World[p] = LET lines == CHOOSE x \in Contents(p) : TRUE
                   IN  [l \in Locations |-> Quantity(lines, l)]
    BY <2>1 DEF World
  <2> QED BY <2>3, <2>4 DEF WorldOf
<1> QED BY <1>1, <1>2, <1>4, <1>5 DEF WorldView

\* And in the next state.
LEMMA WorldIsNext == IInv' => WorldView'
BY WorldIs, PTL

\* A file that a step does not touch stores what it stored.
Untouched(p) ==
  /\ Existing(p)' = Existing(p)
  /\ \A i \in DOMAIN Existing(p) : block'[Existing(p)[i]] = block[Existing(p)[i]]

\* A file of which no block and no metadata is written keeps its lines.
LEMMA UntouchedStores ==
  ASSUME IInv, NEW p \in Pokemons, Untouched(p), NEW c \in Seq(Lines), Stored(p, c)
  PROVE  Stored(p, c)'
<1>1. DOMAIN Existing(p) = 1..Len(Existing(p)) /\ Len(c) \in Nat
  BY ExistingTyped, LenProperties DEF IInv
<1>2. /\ Len(Existing(p)) = Len(c)
      /\ \A i \in 1..Len(c) : block[Existing(p)[i]] = LineBlock(c, i)
  BY DEF Stored
<1> HIDE DEF Existing
<1>3. \A i \in 1..Len(c) : block'[Existing(p)'[i]] = LineBlock(c, i)
  BY <1>1, <1>2 DEF Untouched
<1>4. Len(Existing(p)') = Len(c)
  BY <1>2 DEF Untouched
<1> QED BY <1>3, <1>4 DEF Stored, LineBlock

\* And so stays sound.
LEMMA UntouchedSound ==
  ASSUME IInv, NEW p \in Pokemons, Untouched(p), Sound(p)
  PROVE  Sound(p)'
<1>1. PICK c \in Seq(Lines) : Stored(p, c) /\ OnePerPlace(c)
  BY DEF Sound
<1>2. Stored(p, c)'
  BY <1>1, UntouchedStores
<1> QED BY <1>1, <1>2 DEF Sound, OnePerPlace

\* Nothing of the disk is written: no file is touched.
LEMMA DiskUntouched ==
  ASSUME metadata' = metadata, block' = block, NEW p \in Pokemons
  PROVE  Untouched(p)
BY DEF Untouched, Existing, Usable


\* No step touches a file that no request is writing, if no block is lost.
LEMMA OthersUntouched ==
  ASSUME IInv, Next, lost = {}, NEW p \in Pokemons, ~(Underway /\ p = request.pokemon)
  PROVE  Untouched(p)
<1>1. CASE \E r \in Requests : Open(r)
  <2>1. PICK r \in Requests : Open(r)
    BY <1>1
  <2>2. block' = block /\ r.pokemon \in Pokemons
    BY <2>1, RequestTyped DEF Open
  <2>3. metadata'[p] = metadata[p] \/ (metadata[p] = Absent /\ metadata'[p] = Emptied)
    BY <2>1, <2>2 DEF Open, IInv, TypeOK
  <2>4. Existing(p)' = Existing(p)
    BY <2>3 DEF Existing, Usable
  <2> QED BY <2>2, <2>4 DEF Untouched
<1>2. CASE Create
  <2>1. block' = block /\ request.pokemon \in Pokemons /\ metadata[request.pokemon] = Emptied
    BY <1>2, InProgress DEF Create, IInv, Phase
  <2>2. metadata' = [metadata EXCEPT ![request.pokemon] = [size |-> 0, blocks |-> <<>>]]
    BY <1>2 DEF Create
  <2>3. Existing(p)' = Existing(p)
    <3>1. CASE p = request.pokemon
      <4>1. metadata'[p] = [size |-> 0, blocks |-> <<>>]
        BY <2>1, <2>2, <3>1 DEF IInv, TypeOK
      <4>2. SubSeq(metadata'[p].blocks, 1, metadata'[p].size) = <<>>
        <5>1. metadata'[p].blocks = <<>> /\ metadata'[p].size = 0
          BY <4>1
        <5>2. SubSeq(<<>>, 1, 0) = <<>>
          OBVIOUS
        <5> QED BY <5>1, <5>2
      <4>3. Existing(p)' = <<>>
        BY <4>2 DEF Existing
      <4>4. Existing(p) = <<>>
        BY <2>1, <3>1 DEF Existing, Usable
      <4> QED BY <4>3, <4>4
    <3>2. CASE p # request.pokemon
      <4>1. metadata'[p] = metadata[p]
        BY <2>2, <3>2 DEF IInv, TypeOK
      <4> QED BY <4>1 DEF Existing, Usable
    <3> QED BY <3>1, <3>2
  <2> QED BY <2>1, <2>3 DEF Untouched
<1>3. CASE ReadEmptied \/ Get \/ CatchNothing \/ Catch \/ New \/ NewNothing \/ SaveBitmap \/ Restart
  <2>1. metadata' = metadata /\ block' = block
    BY <1>3 DEF ReadEmptied, Get, CatchNothing, Catch, New, NewNothing, SaveBitmap, Restart,
                Answered, StartWriting, disk
  <2> QED BY <2>1, DiskUntouched
<1>4. ASSUME metadata' = metadata, pc = "block", NEW x,
             block' = [block EXCEPT ![blocks[gonzalo + 1]] = x]
      PROVE  Untouched(p)
  <2>1. Writing /\ p # request.pokemon
    BY <1>4 DEF Writing, Underway
  <2>2. ToSet(Existing(p)) \cap ToSet(blocks) = {}
    BY <2>1 DEF IInv, Apart
  <2>3. blocks[gonzalo + 1] \in ToSet(blocks)
    <3>1. blocks \in Seq(Blocks) /\ gonzalo \in 0..Len(blocks) /\ gonzalo < Len(blocks)
      BY <1>4 DEF IInv, TypeOK
    <3>2. gonzalo + 1 \in DOMAIN blocks
      BY <3>1, LenProperties
    <3> QED BY <3>2 DEF ToSet
  <2>4. \A i \in DOMAIN Existing(p) : Existing(p)[i] \in Blocks /\ Existing(p)[i] # blocks[gonzalo + 1]
    <3>1. \A i \in DOMAIN Existing(p) : Existing(p)[i] \in ToSet(Existing(p)) /\ Existing(p)[i] \in Blocks
      BY ExistingTyped DEF ToSet, IInv
    <3> HIDE DEF Existing
    <3> QED BY <2>2, <2>3, <3>1
  <2>5. \A b \in Blocks : b # blocks[gonzalo + 1] => block'[b] = block[b]
    BY <1>4 DEF IInv, TypeOK
  <2>6. Existing(p)' = Existing(p)
    BY <1>4 DEF Existing, Usable
  <2> HIDE DEF Existing
  <2> QED BY <2>4, <2>5, <2>6 DEF Untouched
<1>5. CASE WriteBlock
  <2>1. metadata' = metadata /\ pc = "block"
    BY <1>5 DEF WriteBlock
  <2>2. PICK x : block' = [block EXCEPT ![blocks[gonzalo + 1]] = x]
    BY <1>5 DEF WriteBlock
  <2> QED BY <1>4, <2>1, <2>2
<1>6. ASSUME block' = block, NEW r, r # p, NEW x, metadata' = [metadata EXCEPT ![r] = x]
      PROVE  Untouched(p)
  <2>1. metadata'[p] = metadata[p]
    BY <1>6 DEF IInv, TypeOK
  <2> QED BY <1>6, <2>1 DEF Untouched, Existing, Usable
<1>7. CASE SaveMetadata
  <2>1. request.pokemon # p /\ block' = block
    BY <1>7 DEF SaveMetadata, Underway
  <2>2. PICK x : metadata' = [metadata EXCEPT ![request.pokemon] = x]
    BY <1>7 DEF SaveMetadata
  <2> QED BY <1>6, <2>1, <2>2
<1>8. CASE Kill
  <2>1. CASE metadata' = metadata /\ block' = block
    BY <2>1, DiskUntouched
  <2>2. CASE CutFile /\ pc = "block"
    <3>1. metadata' = metadata /\ block' = [block EXCEPT ![blocks[gonzalo + 1]] = Blank]
      BY <2>2 DEF CutFile
    <3> QED BY <1>4, <2>2, <3>1
  <2>3. CASE CutFile /\ pc = "metadata"
    <3>1. block' = block /\ metadata' = [metadata EXCEPT ![request.pokemon] = Emptied]
      BY <2>3 DEF CutFile
    <3>2. request.pokemon # p
      BY <2>3 DEF Underway
    <3> QED BY <1>6, <3>1, <3>2
  <2>4. CASE CutFile /\ pc = "create"
    <3>1. block' = block /\ metadata' = [metadata EXCEPT ![request.pokemon] = Emptied]
      BY <2>4 DEF CutFile
    <3>2. metadata[request.pokemon] = Emptied
      BY <2>4 DEF IInv, Phase
    <3>3. metadata' = metadata
      BY <3>1, <3>2 DEF IInv, TypeOK
    <3> QED BY <3>1, <3>3, DiskUntouched
  <2>5. CASE CutFile /\ pc \in {"idle", "read", "bitmap"}
    BY <2>5, <2>1 DEF CutFile, disk
  <2>6. pc \in {"idle", "create", "read", "block", "metadata", "bitmap"} /\ (CutFile \/ UNCHANGED disk)
    BY <1>8 DEF Kill, IInv, TypeOK
  <2>7. CASE UNCHANGED disk
    BY <2>1, <2>7 DEF disk
  <2> QED BY <2>2, <2>3, <2>4, <2>5, <2>6, <2>7
<1> QED BY <1>1, <1>2, <1>3, <1>5, <1>7, <1>8 DEF Next

-----------------------------------------------------------------------------
(* Each step keeps the invariant of the refinement *)

\* What a request that is being written changes, and what is stored in the end.
LEMMA Underwritten ==
  ASSUME IInv, RInv, Underway, Intact(request.pokemon)
  PROVE  /\ request.pokemon \in Pokemons /\ request.at \in Locations /\ Change \in Counts \cup {-1}
         /\ Change \in Int /\ content \in Seq(Lines) /\ payload \in Seq(Lines)
         /\ OnePerPlace(content) /\ OnePerPlace(payload)
         /\ \A l \in Locations : Quantity(content, l) \in 0..MaxQuantity
         /\ \A l \in Locations :
              Quantity(payload, l) = Quantity(content, l) + (IF l = request.at THEN Change ELSE 0)
         /\ Quantity(content, request.at) + Change >= 0
<1> DEFINE a == Added(content, request.at, Change)
<1>1. pc # "idle" /\ ~Before /\ content \in Seq(Lines) /\ payload \in Seq(Lines)
  BY DEF Underway, Before, IInv, TypeOK
<1>2. /\ request.pokemon \in Pokemons /\ request.at \in Locations /\ Change \in Counts \cup {-1}
      /\ Change \in Int
  <2>1. request \in Requests /\ request.type \in {"NEW", "CATCH"}
    BY <1>1, InProgress DEF IInv, Phase
  <2>2. request.pokemon \in Pokemons /\ request.at \in Locations
        /\ (request.type = "NEW" => request.count \in Counts)
    BY <2>1, RequestTyped
  <2>3. Change \in Counts \cup {-1}
    BY <2>2 DEF Change
  <2>4. Counts \subseteq Int /\ -1 \in Int
    BY TallGrassAssumption DEF TallGrassAssumption
  <2> QED BY <2>2, <2>3, <2>4
<1>3. /\ OnePerPlace(content) /\ Quantity(content, request.at) + Change \in 0..MaxQuantity
      /\ payload = Serialised(a)
  BY DEF RInv, Changing
<1>4. /\ a \in Seq(AnyLines) /\ OnePerPlace(a)
      /\ \A l \in Locations :
           Quantity(a, l) = Quantity(content, l) + (IF l = request.at THEN Change ELSE 0)
  <2> HIDE DEF Change
  <2> QED BY <1>1, <1>2, <1>3, AddedQuantity
<1>5. OnePerPlace(payload) /\ \A l \in Locations : Quantity(payload, l) = Quantity(a, l)
  <2> HIDE DEF a
  <2> QED BY <1>3, <1>4, SerialisedQuantity
<1>6. \A l \in Locations : Quantity(content, l) \in 0..MaxQuantity
  BY <1>1, QuantityTyped
<1>7. Quantity(content, request.at) + Change >= 0
  BY <1>2, <1>3, TallGrassAssumption DEF TallGrassAssumption
<1> QED BY <1>1, <1>2, <1>3, <1>4, <1>5, <1>6, <1>7

\* A request answers when it ends.
LEMMA UnansweredKept == ASSUME IInv, Unanswered, Next PROVE Unanswered'
<1>1. CASE \E r \in Requests : Open(r)
  BY <1>1 DEF Open, Unanswered
<1>2. CASE Create
  BY <1>2 DEF Create, Unanswered
<1>3. CASE ReadEmptied \/ Get \/ CatchNothing \/ NewNothing \/ SaveBitmap \/ Kill
  BY <1>3 DEF ReadEmptied, Get, CatchNothing, NewNothing, SaveBitmap, Kill, Die, Answered, Idle, Unanswered
<1>4. CASE Catch
  BY <1>4 DEF Catch, StartWriting, Unanswered
<1>5. CASE New
  <2>1. CASE pc' = "idle"
    BY <2>1 DEF Unanswered
  <2>2. CASE pc' # "idle"
    <3>1. pc = "read" /\ answer' = answer
      BY <1>5, <2>2 DEF New, StartWriting, Answered, Idle
    <3> QED BY <3>1 DEF Unanswered
  <2> QED BY <2>1, <2>2
<1>6. CASE WriteBlock
  BY <1>6 DEF WriteBlock, Unanswered
<1>7. CASE SaveMetadata
  BY <1>7 DEF SaveMetadata, Unanswered
<1>8. CASE Restart
  BY <1>8 DEF Restart, work, Unanswered
<1> QED BY <1>1, <1>2, <1>3, <1>4, <1>5, <1>6, <1>7, <1>8 DEF Next

\* Marks are not taken back.
LEMMA MarksStay ==
  ASSUME Next
  PROVE  lost \subseteq lost' /\ torn \subseteq torn'
<1>1. CASE \E r \in Requests : Open(r)
  BY <1>1 DEF Open
<1>2. CASE Create \/ ReadEmptied \/ NewNothing \/ WriteBlock \/ SaveMetadata \/ SaveBitmap
  BY <1>2 DEF Create, ReadEmptied, NewNothing, WriteBlock, SaveMetadata, SaveBitmap, marks
<1>3. CASE Get \/ CatchNothing \/ Catch \/ New
  BY <1>3 DEF Get, CatchNothing, Catch, New, Answered, StartWriting, marks
<1>4. CASE Kill
  BY <1>4 DEF Kill
<1>5. CASE Restart
  BY <1>5 DEF Restart
<1> QED BY <1>1, <1>2, <1>3, <1>4, <1>5 DEF Next

\* The file of a request that ends, by the last write or by a cut that does not damage it,
\* has what was read, or what was to be written.
LEMMA EndsSound ==
  ASSUME IInv, RInv, Next, Underway, ~Underway', NEW p \in Pokemons, p = request.pokemon,
         Intact(p), Intact(p)', NEW old \in Seq(Lines), old = content,
         NEW new \in Seq(Lines), new = payload
  PROVE  /\ (SaveBitmap /\ pc = "bitmap") \/ Kill
         /\ pc = "bitmap" => Stored(p, new)'
         /\ pc # "bitmap" => Stored(p, old)'
         /\ Sound(p)'
<1>1. OnePerPlace(old) /\ OnePerPlace(new)
  BY Underwritten
<1>2. (SaveBitmap /\ pc = "bitmap") \/ Kill
  <2>1. Underway => pc \notin {"idle", "create", "read"} /\ up
    BY DEF Underway, IInv, Phase
  <2>2. WriteBlock \/ SaveMetadata => Underway'
    BY DEF WriteBlock, SaveMetadata, Underway
  <2>3. /\ ~(\E r \in Requests : Open(r)) /\ ~Create /\ ~ReadEmptied /\ ~Get /\ ~CatchNothing
        /\ ~Catch /\ ~New /\ ~NewNothing /\ ~Restart
    BY <2>1 DEF Open, Create, ReadEmptied, Get, CatchNothing, Catch, New, NewNothing, Restart
  <2>4. SaveBitmap => pc = "bitmap"
    BY DEF SaveBitmap
  <2> QED BY <2>2, <2>3, <2>4 DEF Next
<1>3. /\ pc = "bitmap" => Stored(p, new)
      /\ pc = "block" /\ gonzalo = 0 => Stored(p, old)
  BY DEF RInv, Changing
<1>4. /\ metadata' = metadata /\ block' = block
      /\ pc # "bitmap" => pc = "block" /\ gonzalo = 0
  <2>1. CASE SaveBitmap /\ pc = "bitmap"
    BY <2>1 DEF SaveBitmap
  <2>2. CASE Kill
    <3>1. /\ pc \notin {"create", "metadata"}
          /\ pc = "block" => ~(gonzalo > 0) /\ block' = block
      BY <2>2 DEF Kill, Intact
    <3>2. CutFile \/ UNCHANGED disk
      BY <2>2 DEF Kill
    <3>3. metadata' = metadata /\ block' = block
      BY <3>1, <3>2 DEF CutFile, disk, Underway
    <3>4. gonzalo \in Nat
      BY DEF IInv, TypeOK
    <3>5. pc # "bitmap" => pc = "block"
      BY <3>1 DEF Underway
    <3> QED BY <3>1, <3>3, <3>4, <3>5
  <2> QED BY <1>2, <2>1, <2>2
<1>5. Untouched(p)
  BY <1>4, DiskUntouched
<1>6. pc = "bitmap" => Stored(p, new)'
  BY <1>3, <1>5, UntouchedStores
<1>7. pc # "bitmap" => Stored(p, old)'
  BY <1>3, <1>4, <1>5, UntouchedStores
<1>8. Sound(p)'
  BY <1>1, <1>6, <1>7 DEF Sound, OnePerPlace
<1> QED BY <1>2, <1>6, <1>7, <1>8

\* Files that no request is writing stay sound.
LEMMA RestingKept == ASSUME IInv, RInv, Next PROVE Resting'
<1> SUFFICES ASSUME NEW p \in Pokemons, Intact(p)', ~(Underway' /\ p = request'.pokemon)
             PROVE  Sound(p)'
  BY DEF Resting
<1>1. Intact(p)
  BY MarksStay DEF Intact
<1>2. CASE ~(Underway /\ p = request.pokemon)
  <2>1. Sound(p) /\ Untouched(p)
    BY <1>1, <1>2, OthersUntouched DEF Intact, RInv, Resting
  <2> QED BY <2>1, UntouchedSound
<1>3. CASE Underway /\ p = request.pokemon
  <2>1. CASE Underway'
    <3>1. request' = request
      <4>1. WriteBlock \/ SaveMetadata => request' = request
        BY DEF WriteBlock, SaveMetadata
      <4>2. SaveBitmap \/ Kill => FALSE
        BY <2>1 DEF SaveBitmap, Kill, Die, Idle, Underway
      <4>3. Underway => pc \notin {"idle", "create", "read"} /\ up
        BY DEF Underway, IInv, Phase
      <4>4. /\ ~(\E r \in Requests : Open(r)) /\ ~Create /\ ~ReadEmptied /\ ~Get /\ ~CatchNothing
            /\ ~Catch /\ ~New /\ ~NewNothing /\ ~Restart
        BY <1>3, <4>3 DEF Open, Create, ReadEmptied, Get, CatchNothing, Catch, New, NewNothing, Restart
      <4> QED BY <4>1, <4>2, <4>4 DEF Next
    <3> QED BY <1>3, <2>1, <3>1
  <2>2. CASE ~Underway'
    <3>1. content \in Seq(Lines) /\ payload \in Seq(Lines)
      BY DEF IInv, TypeOK
    <3> QED BY <1>1, <1>3, <2>2, <3>1, EndsSound
  <2> QED BY <2>1, <2>2
<1> QED BY <1>2, <1>3

\* A request starts to write from the lines that its file has.
LEMMA ChangeStarts ==
  ASSUME IInv, RInv, pc = "read", Usable(request.pokemon), Intact(request.pokemon),
         NEW lines \in Contents(request.pokemon)
  PROVE  Stored(request.pokemon, lines) /\ OnePerPlace(lines) /\ lines \in Seq(Lines)
<1>1. request.pokemon \in Pokemons /\ ~Underway
  BY InProgress DEF Underway
<1>2. PICK c \in Seq(Lines) : Stored(request.pokemon, c) /\ OnePerPlace(c)
  BY <1>1 DEF RInv, Resting, Sound
<1>3. Contents(request.pokemon) = {c}
  BY <1>1, <1>2, ReadsStored
<1> QED BY <1>2, <1>3

\* A request starts with the lines that it will store.
LEMMA StartWritingChanges ==
  ASSUME IInv, RInv, pc = "read", Usable(request.pokemon), NEW lines \in Contents(request.pokemon),
         request.type = "CATCH" => Quantity(lines, request.at) > 0,
         Quantity(lines, request.at) + Change \in 0..MaxQuantity,
         StartWriting(lines, Serialised(Added(lines, request.at, Change)))
  PROVE  Changing'
<1>1. /\ content' = lines /\ payload' = Serialised(Added(lines, request.at, Change)) /\ gonzalo' = 0
      /\ pc' = "block" /\ metadata' = metadata /\ block' = block /\ request' = request
      /\ lost' = lost /\ torn' = torn
  BY DEF StartWriting, disk, marks
<1> SUFFICES ASSUME Intact(request.pokemon) PROVE Changing'
  BY <1>1 DEF Changing, Intact
<1>2. Stored(request.pokemon, lines) /\ OnePerPlace(lines) /\ lines \in Seq(Lines)
  BY ChangeStarts
<1>3. Change' = Change
  BY <1>1 DEF Change
<1>4. Stored(request.pokemon, content)'
  <2>1. Existing(request.pokemon)' = Existing(request.pokemon)
    BY <1>1 DEF Existing, Usable
  <2> HIDE DEF Existing
  <2> QED BY <1>1, <1>2, <2>1 DEF Stored, LineBlock
<1>5. OnePerPlace(content)'
  BY <1>1, <1>2 DEF OnePerPlace
<1>6. /\ Quantity(content', request'.at) + Change' \in 0..MaxQuantity
      /\ payload' = Serialised(Added(content', request'.at, Change'))
      /\ request'.type = "CATCH" => Quantity(content', request'.at) > 0
  BY <1>1, <1>3
<1> QED BY <1>1, <1>4, <1>5, <1>6 DEF Changing

\* Each line written brings the file one line nearer to what it will store.
LEMMA WriteBlockChanges == ASSUME IInv, RInv, WriteBlock PROVE Changing'
<1> DEFINE n == gonzalo + 1
           b == blocks[n]
<1>1. /\ pc = "block" /\ pc' \in {"block", "metadata"} /\ gonzalo' = n
      /\ metadata' = metadata /\ request' = request /\ content' = content /\ payload' = payload
      /\ blocks' = blocks /\ lost' = lost /\ torn' = torn
      /\ block' = [block EXCEPT ![b] = IF payload = <<>> THEN Blank
                                       ELSE [line |-> payload[n], last |-> n = Len(payload)]]
  BY DEF WriteBlock, marks
<1>2. /\ gonzalo \in Nat /\ n \in 1..Len(blocks) /\ n # 0 /\ \A i \in 1..n : i \in 1..gonzalo \/ i = n
      /\ DOMAIN blocks = 1..Len(blocks) /\ \A i \in DOMAIN blocks : blocks[i] \in Blocks
      /\ \A i \in 1..gonzalo : i # n /\ i \in DOMAIN blocks
  <2>1. blocks \in Seq(Blocks) /\ gonzalo \in 0..Len(blocks) /\ gonzalo < Len(blocks)
    BY <1>1 DEF IInv, TypeOK
  <2>2. Len(blocks) \in Nat /\ DOMAIN blocks = 1..Len(blocks) /\ \A i \in DOMAIN blocks : blocks[i] \in Blocks
    BY <2>1, LenProperties, ElementOfSeq
  <2> QED BY <2>1, <2>2
<1> SUFFICES ASSUME Intact(request.pokemon) PROVE Changing'
  BY <1>1 DEF Changing, Intact
<1>3. /\ OnePerPlace(content)
      /\ Quantity(content, request.at) + Change \in 0..MaxQuantity
      /\ payload = Serialised(Added(content, request.at, Change))
      /\ request.type = "CATCH" => Quantity(content, request.at) > 0
      /\ payload # <<>> => \A i \in 1..gonzalo : block[blocks[i]] = LineBlock(payload, i)
  BY <1>1 DEF RInv, Changing, Underway
<1>4. \A i, j \in DOMAIN blocks : i # j => blocks[i] # blocks[j]
  BY <1>1 DEF IInv, Apart, Writing, Intact
<1>5. payload # <<>> => \A i \in 1..n : block'[blocks[i]] = LineBlock(payload, i)
  <2> SUFFICES ASSUME payload # <<>>, NEW i \in 1..n PROVE block'[blocks[i]] = LineBlock(payload, i)
    OBVIOUS
  <2>1. CASE i = n
    <3>1. b \in Blocks
      BY <1>2
    <3>2. block'[b] = [line |-> payload[n], last |-> n = Len(payload)]
      <4> HIDE DEF n, b
      <4> QED BY <1>1, <3>1 DEF IInv, TypeOK
    <3> QED BY <2>1, <3>2 DEF LineBlock
  <2>2. CASE i \in 1..gonzalo
    <3>1. i \in DOMAIN blocks /\ n \in DOMAIN blocks /\ i # n
      BY <1>2, <2>2
    <3>2. blocks[i] # b /\ blocks[i] \in Blocks
      BY <1>2, <1>4, <3>1
    <3>3. block'[blocks[i]] = block[blocks[i]]
      <4> HIDE DEF b
      <4> QED BY <1>1, <3>2 DEF IInv, TypeOK
    <3> QED BY <1>3, <2>2, <3>3
  <2> QED BY <1>2, <2>1, <2>2
<1>6. Change' = Change
  BY <1>1 DEF Change
<1> HIDE DEF n, b
<1>7. (payload # <<>> => \A i \in 1..gonzalo : block[blocks[i]] = LineBlock(payload, i))'
  BY <1>1, <1>5 DEF LineBlock
<1> QED BY <1>1, <1>2, <1>3, <1>6, <1>7 DEF Changing, OnePerPlace

\* With its metadata the file stores it.
LEMMA SaveMetadataChanges == ASSUME IInv, RInv, SaveMetadata PROVE Changing'
<1>1. /\ pc = "metadata" /\ pc' = "bitmap" /\ block' = block /\ request' = request
      /\ content' = content /\ payload' = payload /\ lost' = lost /\ torn' = torn
  BY DEF SaveMetadata, marks
<1>0. request.pokemon \in Pokemons
  BY <1>1, InProgress
<1> SUFFICES ASSUME Intact(request.pokemon), NEW r \in Pokemons, r = request.pokemon PROVE Changing'
  BY <1>0, <1>1 DEF Changing, Intact
<1>2. /\ OnePerPlace(content)
      /\ Quantity(content, request.at) + Change \in 0..MaxQuantity
      /\ payload = Serialised(Added(content, request.at, Change))
      /\ request.type = "CATCH" => Quantity(content, request.at) > 0
      /\ payload # <<>> => \A i \in 1..gonzalo : block[blocks[i]] = LineBlock(payload, i)
  BY <1>1 DEF RInv, Changing, Underway
<1> DEFINE l == Len(payload)
<1>3. /\ l \in Nat /\ l <= gonzalo /\ gonzalo \in Nat
      /\ Len(Existing(r)') = l
      /\ \A i \in 1..l : Existing(r)'[i] = blocks[i]
  BY FileSaved
<1>4. payload = <<>> => l = 0
  BY EmptySeq
<1>5. \A i \in 1..l : block'[Existing(r)'[i]] = LineBlock(payload, i)
  <2> SUFFICES ASSUME NEW i \in 1..l PROVE block[blocks[i]] = LineBlock(payload, i)
    BY <1>1, <1>3
  <2>1. payload # <<>> /\ i \in 1..gonzalo
    BY <1>3, <1>4
  <2> QED BY <1>2, <2>1
<1>6. Stored(request.pokemon, payload)'
  <2>1. Existing(request.pokemon)' = Existing(r)'
    BY <1>1
  <2> HIDE DEF Existing
  <2> QED BY <1>1, <1>3, <1>5, <2>1 DEF Stored, LineBlock
<1>7. Change' = Change
  BY <1>1 DEF Change
<1> HIDE DEF l
<1> QED BY <1>1, <1>2, <1>6, <1>7 DEF Changing, OnePerPlace

\* So the file of a request is always on its way to what it will store.
LEMMA ChangingKept == ASSUME IInv, RInv, Next PROVE Changing'
<1>1. CASE Catch
  <2>1. PICK lines \in Contents(request.pokemon) :
          /\ Quantity(lines, request.at) > 0
          /\ StartWriting(lines, Serialised(Added(lines, request.at, -1)))
    BY <1>1 DEF Catch
  <2>2. pc = "read" /\ request.type = "CATCH" /\ Usable(request.pokemon) /\ Change = -1
    BY <1>1 DEF Catch, Change
  <2>3. request.pokemon \in Pokemons /\ request \in Requests
    BY <2>2, InProgress
  <2>4. lines \in Seq(Lines) /\ request.at \in Locations
    BY <2>2, <2>3, ContentsTyped, RequestTyped DEF IInv
  <2>5. Quantity(lines, request.at) + Change \in 0..MaxQuantity
    <3>1. Quantity(lines, request.at) \in 0..MaxQuantity /\ MaxQuantity \in Nat
      BY <2>4, QuantityTyped, TallGrassAssumption DEF TallGrassAssumption
    <3> QED BY <2>1, <2>2, <3>1
  <2> QED BY <2>1, <2>2, <2>5, StartWritingChanges
<1>2. CASE New
  <2>1. PICK lines \in Contents(request.pokemon) :
          /\ Quantity(lines, request.at) + request.count <= MaxQuantity
          /\ \/ StartWriting(lines, Serialised(Added(lines, request.at, request.count)))
             \/ Answered(<<"APPEARED", request.pokemon, request.at>>)
    BY <1>2 DEF New
  <2>2. pc = "read" /\ request.type = "NEW" /\ Usable(request.pokemon) /\ Change = request.count
    BY <1>2 DEF New, Change
  <2>3. request.pokemon \in Pokemons /\ request \in Requests
    BY <2>2, InProgress
  <2>4. lines \in Seq(Lines) /\ request.at \in Locations /\ request.count \in Nat
    BY <2>2, <2>3, ContentsTyped, RequestTyped, TallGrassAssumption DEF IInv, TallGrassAssumption
  <2>5. Quantity(lines, request.at) + Change \in 0..MaxQuantity
    <3>1. Quantity(lines, request.at) \in 0..MaxQuantity /\ MaxQuantity \in Nat
      BY <2>4, QuantityTyped, TallGrassAssumption DEF TallGrassAssumption
    <3> QED BY <2>1, <2>2, <2>4, <3>1
  <2>6. CASE Answered(<<"APPEARED", request.pokemon, request.at>>)
    BY <2>6 DEF Answered, Idle, Changing, Underway
  <2> QED BY <2>1, <2>2, <2>5, <2>6, StartWritingChanges
<1>3. CASE WriteBlock
  BY <1>3, WriteBlockChanges
<1>4. CASE SaveMetadata
  BY <1>4, SaveMetadataChanges
<1>5. CASE (\E r \in Requests : Open(r)) \/ Create
  BY <1>5 DEF Open, Create, Changing, Underway
<1>6. CASE ReadEmptied \/ Get \/ CatchNothing \/ NewNothing \/ SaveBitmap \/ Kill
  BY <1>6 DEF ReadEmptied, Get, CatchNothing, NewNothing, SaveBitmap, Kill, Die, Answered, Idle, Changing,
              Underway
<1>7. CASE Restart
  BY <1>7 DEF Restart, work, IInv, Phase, Changing, Underway
<1> QED BY <1>1, <1>2, <1>3, <1>4, <1>5, <1>6, <1>7 DEF Next

\* The invariant of the refinement is inductive.
LEMMA RefinementKept == IInv /\ RInv /\ [Next]_vars => RInv'
<1>1. ASSUME IInv, RInv, Next PROVE RInv'
  BY <1>1, UnansweredKept, RestingKept, ChangingKept DEF RInv
<1>2. ASSUME IInv, RInv, UNCHANGED vars PROVE RInv'
  <2>1. /\ metadata' = metadata /\ block' = block /\ pc' = pc /\ request' = request
        /\ content' = content /\ payload' = payload /\ blocks' = blocks /\ gonzalo' = gonzalo
        /\ lost' = lost /\ torn' = torn /\ answer' = answer
    BY <1>2 DEF vars, disk, work, marks
  <2>2. Unanswered'
    BY <1>2, <2>1 DEF RInv, Unanswered
  <2>3. Resting'
    <3> SUFFICES ASSUME NEW p \in Pokemons, Intact(p)', ~(Underway' /\ p = request'.pokemon)
                 PROVE  Sound(p)'
      BY DEF Resting
    <3>1. Sound(p)
      BY <1>2, <2>1 DEF RInv, Resting, Intact, Underway
    <3> QED BY <1>2, <2>1, <3>1, DiskUntouched, UntouchedSound
  <2>4. Changing'
    <3>1. /\ Existing(request.pokemon)' = Existing(request.pokemon)
          /\ Change' = Change /\ Intact(request.pokemon)' = Intact(request.pokemon)
          /\ Underway' = Underway
      BY <2>1 DEF Existing, Usable, Change, Intact, Underway
    <3>2. /\ Stored(request.pokemon, content)' = Stored(request.pokemon, content)
          /\ Stored(request.pokemon, payload)' = Stored(request.pokemon, payload)
      <4> HIDE DEF Existing
      <4> QED BY <2>1, <3>1 DEF Stored, LineBlock
    <3>3. \A i \in 1..gonzalo : (block[blocks[i]] = LineBlock(payload, i))' <=>
                                 block[blocks[i]] = LineBlock(payload, i)
      BY <2>1 DEF LineBlock
    <3> QED BY <1>2, <2>1, <3>1, <3>2, <3>3 DEF RInv, Changing, OnePerPlace, LineBlock
  <2> QED BY <2>2, <2>3, <2>4 DEF RInv
<1> QED BY <1>1, <1>2

-----------------------------------------------------------------------------
(* Each step is one of PokemonPlaces, or changes nothing there *)

\* No file is there, and no pokemon anywhere.
LEMMA InitImplements == Init => Abstract!Init
<1> SUFFICES ASSUME Init PROVE Abstract!Init
  OBVIOUS
<1>1. IInv
  BY InitHolds
<1>2. <<>> \in Seq(Lines) /\ Len(<<>>) = 0
  BY EmptySeq
<1>3. ASSUME NEW p \in Pokemons PROVE World[p] = [l \in Locations |-> 0]
  <2>1. Intact(p) /\ ~Underway
    BY DEF Init, Intact, Underway
  <2>2. Existing(p) = <<>>
    BY DEF Init, Existing, Usable
  <2>3. Stored(p, <<>>)
    BY <1>2, <2>2 DEF Stored
  <2>4. World[p] = WorldOf(<<>>)
    BY <1>1, <1>2, <2>1, <2>3, WorldIs DEF WorldView
  <2>5. \A l \in Locations : Quantity(<<>>, l) = 0
    BY DEF Quantity, LinesAt
  <2> QED BY <2>4, <2>5 DEF WorldOf
<1>4. World = [p \in Pokemons |-> [l \in Locations |-> 0]]
  <2>1. World = [p \in Pokemons |-> World[p]]
    BY <1>1, WorldIs DEF WorldView
  <2> HIDE DEF World
  <2> QED BY <1>3, <2>1
<1>5. answer = <<"none">>
  BY DEF Init, NoAnswer
<1> QED BY <1>4, <1>5 DEF Abstract!Init, Abstract!NoAnswer

\* The world of a file that no request is writing stays as it is.
LEMMA OthersStay ==
  ASSUME IInv, IInv', RInv, Next, NEW p \in Pokemons, Intact(p)',
         ~(Underway /\ p = request.pokemon), ~(Underway' /\ p = request'.pokemon)
  PROVE  World'[p] = World[p]
<1>1. Intact(p) /\ lost = {}
  BY MarksStay DEF Intact
<1>2. PICK c \in Seq(Lines) : Stored(p, c)
  BY <1>1 DEF RInv, Resting, Sound
<1>3. Stored(p, c)'
  BY <1>1, <1>2, OthersUntouched, UntouchedStores
<1>4. World[p] = WorldOf(c)
  BY <1>1, <1>2, WorldIs DEF WorldView
<1>5. World'[p] = WorldOf(c)
  <2>1. WorldView'
    BY WorldIsNext
  <2>2. (World[p])' = WorldOf(c)
    BY <1>3, <2>1 DEF WorldView, WorldOf
  <2> QED BY <2>2
<1> QED BY <1>4, <1>5

\* So does that of a damaged one.
LEMMA DamagedStay ==
  ASSUME IInv, IInv', Next, NEW p \in Pokemons, ~Intact(p)
  PROVE  World[p] = DamagedPokemon /\ World'[p] = DamagedPokemon
<1>1. ~Intact(p)'
  BY MarksStay DEF Intact
<1>2. WorldView' /\ WorldView
  BY WorldIs, WorldIsNext
<1>3. (World[p])' = DamagedPokemon
  BY <1>1, <1>2 DEF WorldView, DamagedPokemon
<1>4. World[p] = DamagedPokemon
  BY <1>2 DEF WorldView
<1> QED BY <1>3, <1>4

\* And that of one that is being written: what was read of it.
LEMMA WrittenStay ==
  ASSUME IInv, IInv', NEW p \in Pokemons, Intact(p), Intact(p)', NEW c \in Seq(Lines),
         \/ Underway /\ p = request.pokemon /\ content = c
         \/ ~(Underway /\ p = request.pokemon) /\ Stored(p, c),
         \/ Underway' /\ p = request'.pokemon /\ content' = c
         \/ ~(Underway' /\ p = request'.pokemon) /\ Stored(p, c)'
  PROVE  World[p] = WorldOf(c) /\ World'[p] = WorldOf(c)
<1>1. WorldView' /\ WorldView
  BY WorldIs, WorldIsNext
<1>2. World[p] = WorldOf(c)
  BY <1>1 DEF WorldView
<1>3. (World[p])' = WorldOf(c)
  <2>1. CASE Underway' /\ p = request'.pokemon /\ content' = c
    BY <1>1, <2>1 DEF WorldView, WorldOf
  <2>2. CASE ~(Underway' /\ p = request'.pokemon) /\ Stored(p, c)'
    BY <1>1, <2>2 DEF WorldView, WorldOf
  <2> QED BY <2>1, <2>2
<1> QED BY <1>2, <1>3

\* The world has the pokemons.
LEMMA WorldFunction == IInv /\ IInv' => /\ World = [p \in Pokemons |-> World[p]]
                                        /\ World' = [p \in Pokemons |-> World'[p]]
<1> SUFFICES ASSUME IInv, IInv' PROVE /\ World = [p \in Pokemons |-> World[p]]
                                      /\ World' = [p \in Pokemons |-> World'[p]]
  OBVIOUS
<1>1. WorldView' /\ WorldView
  BY WorldIs, WorldIsNext
<1> QED BY <1>1 DEF WorldView

\* Steps that mark nothing, and in which no request ends, change nothing in the world.
LEMMA WorldKept ==
  ASSUME IInv, IInv', RInv, Next, lost' = lost, torn' = torn,
         Underway => Underway' /\ content' = content /\ request' = request,
         ~Underway /\ Underway' => /\ pc = "read" /\ Usable(request.pokemon) /\ request' = request
                                   /\ content' \in Contents(request.pokemon) /\ UNCHANGED disk
  PROVE  World' = World
<1>1. ASSUME NEW p \in Pokemons PROVE World'[p] = World[p]
  <2>1. CASE ~Intact(p)
    BY <2>1, DamagedStay
  <2>2. CASE Intact(p)
    <3>1. Intact(p)'
      BY <2>2 DEF Intact
    <3>2. CASE ~(Underway /\ p = request.pokemon) /\ ~(Underway' /\ p = request'.pokemon)
      BY <3>1, <3>2, OthersStay
    <3>3. CASE Underway /\ p = request.pokemon
      <4>1. PICK c \in Seq(Lines) : c = content
        BY DEF IInv, TypeOK
      <4>2. Underway' /\ p = request'.pokemon /\ content' = c
        BY <3>3, <4>1
      <4> QED BY <2>2, <3>1, <3>3, <4>1, <4>2, WrittenStay
    <3>4. CASE ~Underway /\ Underway' /\ p = request'.pokemon
      <4>1. pc = "read" /\ Usable(request.pokemon) /\ p = request.pokemon
        BY <3>4
      <4>2. PICK c \in Contents(request.pokemon) : c = content'
        BY <3>4
      <4>3. Stored(p, c) /\ c \in Seq(Lines)
        BY <2>2, <4>1, ChangeStarts
      <4> QED BY <2>2, <3>1, <3>4, <4>2, <4>3, WrittenStay
    <3> QED BY <3>2, <3>3, <3>4
  <2> QED BY <2>1, <2>2
<1>2. World = [p \in Pokemons |-> World[p]] /\ World' = [p \in Pokemons |-> World'[p]]
  BY WorldFunction
<1> HIDE DEF World
<1> QED BY <1>1, <1>2

\* Any answer will do for a damaged pokemon.
LEMMA GuessedAnswer ==
  ASSUME IInv, Unanswered, pc # "idle", NEW p \in Pokemons, ~Intact(p), World' = World,
         answer' # NoAnswer, answer'[2] = p
  PROVE  Abstract!Next
<1>1. World[p] = DamagedPokemon
  BY WorldIs DEF WorldView
<1>2. answer' # answer
  BY DEF Unanswered
<1>3. Abstract!Guess(p)
  BY <1>2 DEF Abstract!Guess
<1> QED BY <1>1, <1>3 DEF Abstract!Next

\* A pokemon with a quantity somewhere is not damaged.
LEMMA NotDamaged ==
  ASSUME NEW c, NEW l \in Locations, Quantity(c, l) \in 0..MaxQuantity
  PROVE  WorldOf(c) # DamagedPokemon /\ WorldOf(c)[l] = Quantity(c, l)
<1>1. WorldOf(c)[l] = Quantity(c, l)
  BY DEF WorldOf
<1>2. DamagedPokemon[l] = -1
  BY DEF DamagedPokemon
<1>3. Quantity(c, l) # -1
  <2>1. \A n \in 0..MaxQuantity : n # -1
    BY TallGrassAssumption DEF TallGrassAssumption
  <2> QED BY <2>1
<1> QED BY <1>1, <1>2, <1>3

\* A request is asked: its answer is forgotten.
LEMMA OpenImplements ==
  ASSUME IInv, IInv', RInv, Next, NEW r \in Requests, Open(r)
  PROVE  Abstract!Next
<1>1. lost' = lost /\ torn' = torn /\ ~Underway /\ ~Underway' /\ answer' = NoAnswer
  BY DEF Open, Underway
<1>2. World' = World
  BY <1>1, WorldKept
<1>3. Abstract!Ask
  BY <1>1, <1>2 DEF Abstract!Ask, Abstract!NoAnswer, NoAnswer
<1> QED BY <1>3 DEF Abstract!Next

\* Steps that no one sees.
LEMMA SilentStepsImplement ==
  ASSUME IInv, IInv', RInv, Next, Create \/ ReadEmptied \/ NewNothing \/ WriteBlock \/ SaveMetadata
  PROVE  UNCHANGED <<World, answer>>
<1>1. lost' = lost /\ torn' = torn /\ answer' = answer
  BY DEF Create, ReadEmptied, NewNothing, WriteBlock, SaveMetadata, marks
<1>2. CASE Create \/ ReadEmptied \/ NewNothing
  <2>1. ~Underway /\ ~Underway'
    BY <1>2 DEF Create, ReadEmptied, NewNothing, Die, Idle, Underway
  <2> QED BY <1>1, <2>1, WorldKept
<1>3. CASE WriteBlock \/ SaveMetadata
  <2>1. Underway /\ Underway' /\ content' = content /\ request' = request
    BY <1>3 DEF WriteBlock, SaveMetadata, Underway
  <2> QED BY <1>1, <2>1, WorldKept
<1> QED BY <1>2, <1>3

\* A request that starts to write shows what was there before.
LEMMA StartWritingImplements ==
  ASSUME IInv, IInv', RInv, Next, pc = "read", Usable(request.pokemon),
         NEW lines \in Contents(request.pokemon), NEW new, StartWriting(lines, new)
  PROVE  UNCHANGED <<World, answer>>
<1>1. /\ lost' = lost /\ torn' = torn /\ answer' = answer /\ ~Underway /\ UNCHANGED disk
      /\ request' = request /\ content' = lines
  BY DEF StartWriting, marks, Underway
<1> QED BY <1>1, WorldKept

\* The positions that a GET_POKEMON is answered with are those where there are some.
LEMMA GetImplements ==
  ASSUME IInv, IInv', RInv, Next, Get
  PROVE  Abstract!Next \/ UNCHANGED <<World, answer>>
<1> DEFINE r == request.pokemon
<1>1. /\ pc = "read" /\ Usable(r) /\ r \in Pokemons /\ pc # "idle"
  BY InProgress DEF Get
<1>2. PICK lines \in Contents(r) :
        Answered(IF lines = <<>> THEN answer
                 ELSE <<"LOCALIZED", r, {x.at : x \in ToSet(lines)}>>)
  BY DEF Get
<1>3. lost' = lost /\ torn' = torn /\ ~Underway /\ ~Underway'
  BY <1>1, <1>2 DEF Answered, Idle, marks, Underway
<1>4. World' = World
  BY <1>3, WorldKept
<1>5. CASE lines = <<>>
  BY <1>2, <1>4, <1>5 DEF Answered
<1>6. CASE lines # <<>>
  <2> DEFINE places == {x.at : x \in ToSet(lines)}
  <2>1. answer' = <<"LOCALIZED", r, places>>
    BY <1>2, <1>6 DEF Answered
  <2>2. CASE ~Intact(r)
    <3>1. answer'[2] = r /\ answer' # NoAnswer
      <4> HIDE DEF places, r
      <4> QED BY <2>1 DEF NoAnswer
    <3> QED BY <1>1, <1>4, <2>2, <3>1, GuessedAnswer DEF RInv
  <2>3. CASE Intact(r)
    <3>1. Stored(r, lines) /\ OnePerPlace(lines) /\ lines \in Seq(Lines)
      BY <1>1, <2>3, ChangeStarts
    <3>2. World[r] = WorldOf(lines)
      BY <1>1, <1>3, <2>3, <3>1, WorldIs DEF WorldView
    <3>3. DOMAIN lines = 1..Len(lines) /\ Len(lines) \in Nat /\ lines \in Seq(AnyLines)
          /\ \A i \in DOMAIN lines : lines[i] \in Lines
      <4>1. Lines \subseteq AnyLines
        BY TallGrassAssumption DEF Lines, AnyLines, TallGrassAssumption
      <4> QED BY <3>1, <4>1, SeqMonotonic, LenProperties, ElementOfSeq
    <3>4. \A l \in Locations : Quantity(lines, l) > 0 <=> l \in places
      <4> SUFFICES ASSUME NEW l \in Locations PROVE Quantity(lines, l) > 0 <=> l \in places
        OBVIOUS
      <4>1. CASE \E i \in DOMAIN lines : lines[i].at = l
        <5>1. PICK i \in DOMAIN lines : lines[i].at = l
          BY <4>1
        <5>2. Quantity(lines, l) = lines[i].quantity
          BY <3>1, <3>3, <5>1, QuantityOfOne
        <5>3. lines[i].quantity > 0
          <6>1. lines[i].quantity \in 1..MaxQuantity
            BY <3>3, <5>1 DEF Lines
          <6> QED BY <6>1, TallGrassAssumption DEF TallGrassAssumption
        <5>4. l \in places
          BY <5>1 DEF ToSet
        <5> QED BY <5>2, <5>3, <5>4
      <4>2. CASE \A i \in DOMAIN lines : lines[i].at # l
        <5>1. Quantity(lines, l) = 0
          BY <3>1, <3>3, <4>2, QuantityOfOne
        <5>2. l \notin places
          BY <4>2 DEF ToSet
        <5> QED BY <5>1, <5>2
      <4> QED BY <4>1, <4>2
    <3>5. places \subseteq Locations /\ \E l \in Locations : l \in places
      <4>1. \A i \in DOMAIN lines : lines[i].at \in Locations
        BY <3>3 DEF Lines
      <4>2. 1 \in DOMAIN lines
        <5>1. Len(lines) # 0
          BY <1>6, <3>1, EmptySeq
        <5> QED BY <3>3, <5>1
      <4> QED BY <4>1, <4>2 DEF ToSet
    <3> HIDE DEF places
    <3>6. Abstract!Places(r) = places /\ places # {}
      <4>1. \A l \in Locations : World[r][l] = Quantity(lines, l)
        BY <3>2 DEF WorldOf
      <4> QED BY <3>4, <3>5, <4>1 DEF Abstract!Places
    <3>7. PICK l \in Locations : l \in places
      BY <3>5
    <3>8. World[r] # DamagedPokemon
      <4>1. Quantity(lines, l) \in 0..MaxQuantity
        BY <3>1, QuantityTyped
      <4> QED BY <3>2, <4>1, NotDamaged
    <3>9. Abstract!Get(r)
      BY <1>4, <2>1, <3>6 DEF Abstract!Get
    <3> QED BY <1>1, <3>8, <3>9 DEF Abstract!Next
  <2> QED BY <2>2, <2>3
<1> QED BY <1>5, <1>6

\* There is no pokemon to catch at the place.
LEMMA CatchNothingImplements ==
  ASSUME IInv, IInv', RInv, Next, CatchNothing
  PROVE  Abstract!Next
<1> DEFINE r == request.pokemon
           l == request.at
<1>1. /\ pc = "read" /\ Usable(r) /\ r \in Pokemons /\ pc # "idle" /\ l \in Locations
  BY InProgress, RequestTyped DEF CatchNothing
<1>2. PICK lines \in Contents(r) : Quantity(lines, l) = 0 /\ Answered(<<"CAUGHT", r, l, 0>>)
  BY DEF CatchNothing
<1>3. lost' = lost /\ torn' = torn /\ ~Underway /\ ~Underway' /\ answer' = <<"CAUGHT", r, l, 0>>
  BY <1>1, <1>2 DEF Answered, Idle, marks, Underway
<1>4. World' = World
  BY <1>3, WorldKept
<1>5. CASE ~Intact(r)
  <2>1. answer'[2] = r /\ answer' # NoAnswer
    <3> HIDE DEF r, l
    <3> QED BY <1>3 DEF NoAnswer
  <2> QED BY <1>1, <1>4, <1>5, <2>1, GuessedAnswer DEF RInv
<1>6. CASE Intact(r)
  <2>1. Stored(r, lines) /\ lines \in Seq(Lines)
    BY <1>1, <1>6, ChangeStarts
  <2>2. World[r] = WorldOf(lines)
    BY <1>1, <1>3, <1>6, <2>1, WorldIs DEF WorldView
  <2>3. World[r] # DamagedPokemon /\ World[r][l] = 0
    <3>1. Quantity(lines, l) \in 0..MaxQuantity
      BY <1>1, <2>1, QuantityTyped
    <3> QED BY <1>1, <1>2, <2>2, <3>1, NotDamaged
  <2>4. Abstract!Catch(r, l)
    BY <1>3, <1>4, <2>3 DEF Abstract!Catch
  <2> QED BY <1>1, <2>3, <2>4 DEF Abstract!Next
<1> QED BY <1>5, <1>6

\* If no free block is counted there is none.
LEMMA FreeBlocksCounted ==
  Cardinality(FreeBlocks) \in Nat /\ (Cardinality(FreeBlocks) = 0 => FreeBlocks = {})
<1>1. IsFiniteSet(Blocks)
  <2>1. BlockCount - 1 \in Int /\ 0 \in Int
    BY TallGrassAssumption DEF TallGrassAssumption
  <2> QED BY <2>1, FS_Interval DEF Blocks
<1>2. FreeBlocks \in SUBSET Blocks
  BY DEF FreeBlocks
<1> QED BY <1>1, <1>2, FS_Subset, FS_CardinalityType, FS_EmptySet

\* A NEW_POKEMON that finds no free blocks for one more line is answered the same.
LEMMA NewImplements ==
  ASSUME IInv, IInv', RInv, Next, New
  PROVE  Abstract!Next \/ UNCHANGED <<World, answer>>
<1> DEFINE r == request.pokemon
           l == request.at
           n == request.count
           old == Existing(r)
           new(lines) == Serialised(Added(lines, l, n))
<1>1. /\ pc = "read" /\ Usable(r) /\ r \in Pokemons /\ pc # "idle" /\ l \in Locations /\ n \in Counts
      /\ n \in Nat
  BY InProgress, RequestTyped, TallGrassAssumption DEF New, TallGrassAssumption
<1>2. PICK lines \in Contents(r) :
        /\ Quantity(lines, l) + n <= MaxQuantity
        /\ \/ StartWriting(lines, new(lines))
           \/ /\ Len(new(lines)) - Len(old) > Cardinality(FreeBlocks)
              /\ Answered(<<"APPEARED", r, l>>)
  BY DEF New
<1>3. CASE StartWriting(lines, new(lines))
  <2> HIDE DEF new
  <2> QED BY <1>1, <1>3, StartWritingImplements
<1>4. CASE Len(new(lines)) - Len(old) > Cardinality(FreeBlocks) /\ Answered(<<"APPEARED", r, l>>)
  <2>1. lost' = lost /\ torn' = torn /\ ~Underway /\ ~Underway' /\ answer' = <<"APPEARED", r, l>>
    BY <1>1, <1>4 DEF Answered, Idle, marks, Underway
  <2>2. World' = World
    BY <2>1, WorldKept
  <2>3. CASE ~Intact(r)
    <3>1. answer'[2] = r /\ answer' # NoAnswer
      <4> HIDE DEF r, l
      <4> QED BY <2>1 DEF NoAnswer
    <3> QED BY <1>1, <2>2, <2>3, <3>1, GuessedAnswer DEF RInv
  <2>4. CASE Intact(r)
    <3>1. Stored(r, lines) /\ lines \in Seq(Lines)
      BY <1>1, <2>4, ChangeStarts
    <3>2. World[r] = WorldOf(lines)
      BY <1>1, <2>1, <2>4, <3>1, WorldIs DEF WorldView
    <3>3. Quantity(lines, l) \in 0..MaxQuantity
      BY <1>1, <3>1, QuantityTyped
    <3>4. World[r] # DamagedPokemon /\ World[r][l] = Quantity(lines, l)
      BY <1>1, <3>2, <3>3, NotDamaged
    <3>5. Len(old) = Len(lines) /\ Len(lines) \in Nat /\ DOMAIN lines = 1..Len(lines)
      BY <3>1, LenProperties DEF Stored
    <3>6. Added(lines, l, n) \in Seq(AnyLines)
      <4>1. Quantity(lines, l) + n \in 0..MaxQuantity /\ n \in Int
        BY <1>1, <1>2, <3>3, TallGrassAssumption DEF TallGrassAssumption
      <4> HIDE DEF n, l
      <4> QED BY <1>1, <3>1, <4>1, AddedTyped
    <3>7. Len(new(lines)) \in Nat /\ Len(new(lines)) <= Len(Added(lines, l, n))
      BY <3>6, SerialisedTyped
    <3>8. CASE LinesAt(lines, l) # {}
      <4>1. Max(LinesAt(lines, l)) \in 1..Len(lines)
        BY <1>1, <3>1, <3>5, <3>8, QuantityTyped
      <4>2. DOMAIN Added(lines, l, n) = 1..Len(lines)
        BY <3>5, <3>8 DEF Added
      <4>3. Len(Added(lines, l, n)) = Len(lines)
        BY <3>5, <3>6, <4>2, LenProperties
      <4>4. Cardinality(FreeBlocks) \in Nat
        BY FreeBlocksCounted
      <4>5. ~(Len(new(lines)) - Len(old) > Cardinality(FreeBlocks))
        <5> HIDE DEF new, old, n, l
        <5> QED BY <3>5, <3>7, <4>3, <4>4
      <4> QED BY <1>4, <4>5
    <3>9. CASE LinesAt(lines, l) = {}
      <4>1. Quantity(lines, l) = 0
        BY <3>9 DEF Quantity
      <4>2. Len(Added(lines, l, n)) = Len(lines) + 1
        <5>1. Added(lines, l, n) = Append(lines, [at |-> l, quantity |-> n])
          BY <3>9 DEF Added
        <5> QED BY <3>1, <5>1
      <4>3. Cardinality(FreeBlocks) = 0
        <5>1. Cardinality(FreeBlocks) \in Nat
          BY FreeBlocksCounted
        <5> HIDE DEF new, old, n, l
        <5> QED BY <1>4, <3>5, <3>7, <4>2, <5>1
      <4>4. FreeBlocks = {}
        BY <4>3, FreeBlocksCounted
      <4>5. l \notin Abstract!Places(r)
        BY <3>4, <4>1 DEF Abstract!Places
      <4>6. Abstract!New(r, l, n)
        BY <1>1, <2>1, <2>2, <4>4, <4>5 DEF Abstract!New
      <4> QED BY <1>1, <3>4, <4>6 DEF Abstract!Next
    <3> QED BY <3>8, <3>9
  <2> QED BY <2>3, <2>4
<1> QED BY <1>2, <1>3, <1>4

\* What the end of a request that was not cut is in the world: the quantity of its position
\* changes, and no other.
LEMMA WrittenChange ==
  ASSUME IInv, IInv', RInv, Next, Underway, ~Underway', pc = "bitmap",
         lost' = lost, torn' = torn, Intact(request.pokemon)
  PROVE  /\ World[request.pokemon] # DamagedPokemon
         /\ World[request.pokemon][request.at] = Quantity(content, request.at)
         /\ World' = [World EXCEPT ![request.pokemon][request.at] = @ + Change]
<1>1. /\ request.pokemon \in Pokemons /\ request.at \in Locations
      /\ Change \in Int /\ content \in Seq(Lines) /\ payload \in Seq(Lines)
      /\ \A l \in Locations : Quantity(content, l) \in 0..MaxQuantity
      /\ \A l \in Locations :
           Quantity(payload, l) = Quantity(content, l) + (IF l = request.at THEN Change ELSE 0)
  BY Underwritten
<1> SUFFICES ASSUME NEW r \in Pokemons, r = request.pokemon, NEW at \in Locations, at = request.at,
                    NEW old \in Seq(Lines), old = content, NEW new \in Seq(Lines), new = payload,
                    NEW n \in Int, n = Change
             PROVE  /\ World[r] # DamagedPokemon
                    /\ World[r][at] = Quantity(old, at)
                    /\ World' = [World EXCEPT ![r][at] = @ + n]
  BY <1>1
<1>2. Intact(r) /\ Intact(r)'
  BY DEF Intact
<1>3. World[r] = WorldOf(old)
  BY <1>2, WorldIs DEF WorldView
<1>4. World'[r] = WorldOf(new)
  <2>1. Stored(r, new)'
    BY <1>2, EndsSound
  <2>2. WorldView'
    BY WorldIsNext
  <2>3. (World[r])' = WorldOf(new)
    BY <1>2, <2>1, <2>2 DEF WorldView, WorldOf
  <2> QED BY <2>3
<1>5. \A p \in Pokemons \ {r} : World'[p] = World[p]
  <2> SUFFICES ASSUME NEW p \in Pokemons \ {r} PROVE World'[p] = World[p]
    OBVIOUS
  <2>1. CASE ~Intact(p)
    BY <2>1, DamagedStay
  <2>2. CASE Intact(p)
    <3>1. Intact(p)'
      BY <2>2 DEF Intact
    <3> QED BY <3>1, OthersStay
  <2> QED BY <2>1, <2>2
<1>6. WorldOf(new) = [WorldOf(old) EXCEPT ![at] = @ + n]
  <2>1. \A l \in Locations : WorldOf(old)[l] = Quantity(old, l) /\ Quantity(old, l) \in Int
    BY <1>1 DEF WorldOf
  <2>2. WorldOf(new) = [l \in Locations |-> Quantity(new, l)]
        /\ WorldOf(old) = [l \in Locations |-> Quantity(old, l)]
    BY DEF WorldOf
  <2>3. \A l \in Locations : Quantity(new, l) = Quantity(old, l) + (IF l = at THEN n ELSE 0)
    BY <1>1
  <2>4. \A l \in Locations : l # at => Quantity(new, l) = Quantity(old, l)
    BY <2>1, <2>3
  <2>5. Quantity(new, at) = Quantity(old, at) + n
    BY <2>3
  <2> QED BY <2>2, <2>4, <2>5
<1>7. World = [p \in Pokemons |-> World[p]] /\ World' = [p \in Pokemons |-> World'[p]]
  BY WorldFunction
<1>8. World' = [World EXCEPT ![r][at] = @ + n]
  <2> DEFINE w == [World[r] EXCEPT ![at] = @ + n]
  <2>1. World'[r] = w
    BY <1>3, <1>4, <1>6
  <2>2. World' = [World EXCEPT ![r] = w]
    <3> HIDE DEF World, w
    <3> QED BY <1>5, <1>7, <2>1
  <2> HIDE DEF World
  <2> QED BY <2>2
<1>9. World[r] # DamagedPokemon /\ World[r][at] = Quantity(old, at)
  BY <1>1, <1>3, NotDamaged
<1> HIDE DEF World
<1> QED BY <1>8, <1>9

\* The last write of a request is where it has its effect, and its answer.
LEMMA SaveBitmapImplements ==
  ASSUME IInv, IInv', RInv, Next, SaveBitmap
  PROVE  Abstract!Next
<1> DEFINE r == request.pokemon
           l == request.at
<1>1. /\ pc = "bitmap" /\ Underway /\ ~Underway' /\ pc # "idle" /\ ~Before
      /\ metadata' = metadata /\ block' = block /\ lost' = lost /\ torn' = torn
      /\ answer' = IF request.type = "NEW" THEN <<"APPEARED", r, l>> ELSE <<"CAUGHT", r, l, 1>>
  BY DEF SaveBitmap, Underway, Idle, marks, Before
<1>2. /\ r \in Pokemons /\ l \in Locations /\ request.type \in {"NEW", "CATCH"} /\ request \in Requests
      /\ (request.type = "NEW" => request.count \in Counts)
  <2>1. request \in Requests /\ request.type \in {"NEW", "CATCH"}
    BY <1>1, InProgress DEF IInv, Phase
  <2> QED BY <2>1, RequestTyped
<1>3. CASE ~Intact(r)
  <2>1. answer'[2] = r /\ answer' # NoAnswer
    <3>1. answer' = <<"APPEARED", r, l>> \/ answer' = <<"CAUGHT", r, l, 1>>
      BY <1>1
    <3> HIDE DEF r, l
    <3> QED BY <3>1 DEF NoAnswer
  <2>2. World' = World
    <3>1. \A p \in Pokemons : World'[p] = World[p]
      <4> SUFFICES ASSUME NEW p \in Pokemons PROVE World'[p] = World[p]
        OBVIOUS
      <4>1. CASE ~Intact(p)
        BY <4>1, DamagedStay
      <4>2. CASE Intact(p)
        <5>1. Intact(p)' /\ p # r
          BY <1>1, <1>3, <4>2 DEF Intact
        <5> QED BY <1>1, <5>1, OthersStay
      <4> QED BY <4>1, <4>2
    <3>2. World = [p \in Pokemons |-> World[p]] /\ World' = [p \in Pokemons |-> World'[p]]
      BY WorldFunction
    <3> HIDE DEF World
    <3> QED BY <3>1, <3>2
  <2> QED BY <1>1, <1>2, <1>3, <2>1, <2>2, GuessedAnswer DEF RInv
<1>4. CASE Intact(r)
  <2>1. /\ World[r] # DamagedPokemon /\ World[r][l] = Quantity(content, l)
        /\ World' = [World EXCEPT ![r][l] = @ + Change]
    BY <1>1, <1>4, WrittenChange
  <2>2. CASE request.type = "NEW"
    <3>1. Change = request.count /\ answer' = <<"APPEARED", r, l>> /\ request.count \in Counts
      BY <1>1, <1>2, <2>2 DEF Change
    <3>2. World' = Abstract!Changed(r, l, request.count)
      BY <2>1, <3>1 DEF Abstract!Changed
    <3>3. Abstract!New(r, l, request.count)
      BY <1>1, <3>1, <3>2 DEF Abstract!New
    <3> QED BY <1>2, <2>1, <3>1, <3>3 DEF Abstract!Next
  <2>3. CASE request.type = "CATCH"
    <3>1. Change = -1 /\ answer' = <<"CAUGHT", r, l, 1>>
      BY <1>1, <2>3 DEF Change
    <3>2. World' = Abstract!Changed(r, l, -1)
      BY <2>1, <3>1 DEF Abstract!Changed
    <3>3. World[r][l] > 0
      BY <1>1, <1>4, <2>1, <2>3 DEF RInv, Changing
    <3>4. Abstract!Catch(r, l)
      BY <3>1, <3>2, <3>3 DEF Abstract!Catch
    <3> QED BY <1>2, <2>1, <3>4 DEF Abstract!Next
  <2> QED BY <1>2, <2>2, <2>3
<1> QED BY <1>3, <1>4

\* A cut damages the pokemon whose request it cuts, or lets it have had its effect, or none.
LEMMA KillImplements ==
  ASSUME IInv, IInv', RInv, Next, Kill
  PROVE  Abstract!Next \/ UNCHANGED <<World, answer>>
<1> DEFINE r == request.pokemon
<1>1. /\ answer' = answer /\ lost' = lost /\ ~Underway' /\ up
      /\ torn' = torn \/ (torn' = torn \cup {r} /\ pc # "idle")
  BY DEF Kill, Die, Idle, Underway
<1>2. pc # "idle" => r \in Pokemons
  BY InProgress
<1>3. Underway => pc # "idle"
  BY DEF Underway
<1>4. World = [p \in Pokemons |-> World[p]] /\ World' = [p \in Pokemons |-> World'[p]]
  BY WorldFunction
<1>5. ASSUME NEW p \in Pokemons, p # r \/ ~Underway, Intact(p) => Intact(p)' PROVE World'[p] = World[p]
  <2>1. CASE ~Intact(p)
    BY <2>1, DamagedStay
  <2>2. CASE Intact(p)
    BY <1>1, <1>5, <2>2, OthersStay
  <2> QED BY <2>1, <2>2
<1>6. CASE torn' = torn /\ Underway /\ Intact(r)
  <2>1. CASE pc = "bitmap"
    <3>1. /\ r \in Pokemons /\ request.at \in Locations /\ Change \in Counts \cup {-1}
          /\ Quantity(content, request.at) + Change >= 0
      BY <1>6, Underwritten
    <3>2. /\ World[r] # DamagedPokemon /\ World[r][request.at] = Quantity(content, request.at)
          /\ World' = [World EXCEPT ![r][request.at] = @ + Change]
      BY <1>1, <1>6, <2>1, WrittenChange
    <3> DEFINE l == request.at
               n == Change
    <3>3. l \in Locations /\ n \in Counts \cup {-1} /\ World[r][l] + n >= 0
          /\ World' = Abstract!Changed(r, l, n)
      BY <3>1, <3>2 DEF Abstract!Changed
    <3>4. Abstract!Crash
      <4> HIDE DEF l, n, r, World
      <4> QED BY <1>1, <3>1, <3>2, <3>3 DEF Abstract!Crash, r
    <3>5. Abstract!Next
      BY ONLY <3>4 DEF Abstract!Next
    <3> QED BY ONLY <3>5
  <2>2. CASE pc # "bitmap"
    <3>1. content \in Seq(Lines) /\ payload \in Seq(Lines) /\ r \in Pokemons
      BY <1>1, <1>2, <1>3, <1>6 DEF IInv, TypeOK
    <3> SUFFICES ASSUME NEW q \in Pokemons, q = r, NEW old \in Seq(Lines), old = content,
                        NEW new \in Seq(Lines), new = payload
                 PROVE  UNCHANGED <<World, answer>>
      BY <3>1
    <3>2. Intact(q) /\ Intact(q)'
      BY <1>1, <1>6 DEF Intact
    <3>3. Stored(q, old)'
      BY <1>1, <1>6, <2>2, <3>2, EndsSound
    <3>4. World[q] = WorldOf(old) /\ World'[q] = WorldOf(old)
      BY <1>1, <1>6, <3>2, <3>3, WrittenStay
    <3>5. \A p \in Pokemons : World'[p] = World[p]
      <4> SUFFICES ASSUME NEW p \in Pokemons, p # q PROVE World'[p] = World[p]
        BY <3>4
      <4>1. Intact(p) => Intact(p)'
        BY <1>1, <1>6 DEF Intact
      <4> QED BY <1>5, <4>1
    <3> HIDE DEF World
    <3> QED BY <1>1, <1>4, <3>5
  <2> QED BY <2>1, <2>2
<1>7. CASE torn' = torn /\ ~(Underway /\ Intact(r))
  <2>1. \A p \in Pokemons : World'[p] = World[p]
    <3> SUFFICES ASSUME NEW p \in Pokemons PROVE World'[p] = World[p]
      OBVIOUS
    <3>1. CASE ~Intact(p)
      BY <3>1, DamagedStay
    <3>2. CASE Intact(p)
      <4>1. Intact(p)' /\ (p # r \/ ~Underway)
        BY <1>1, <1>7, <3>2 DEF Intact
      <4> QED BY <1>5, <4>1
    <3> QED BY <3>1, <3>2
  <2> HIDE DEF World
  <2> QED BY <1>1, <1>4, <2>1
<1>8. CASE torn' = torn \cup {r} /\ pc # "idle"
  <2> SUFFICES ASSUME NEW q \in Pokemons, q = r PROVE Abstract!Next
    BY <1>2, <1>8
  <2>1. World'[q] = DamagedPokemon
    <3>1. ~Intact(q)'
      BY <1>8 DEF Intact
    <3>2. WorldView'
      BY WorldIsNext
    <3>3. (World[q])' = DamagedPokemon
      BY <3>1, <3>2 DEF WorldView, DamagedPokemon
    <3> QED BY <3>3
  <2>2. \A p \in Pokemons : p # q => World'[p] = World[p]
    <3> SUFFICES ASSUME NEW p \in Pokemons, p # q PROVE World'[p] = World[p]
      OBVIOUS
    <3>1. Intact(p) => Intact(p)'
      BY <1>1, <1>8 DEF Intact
    <3> QED BY <1>5, <3>1
  <2>3. World' = [World EXCEPT ![q] = DamagedPokemon]
    <3> HIDE DEF World, DamagedPokemon
    <3> QED BY <1>4, <2>1, <2>2
  <2>4. Abstract!Crash
    BY <1>1, <2>3 DEF Abstract!Crash
  <2> QED BY <2>4 DEF Abstract!Next
<1> QED BY <1>1, <1>6, <1>7, <1>8

\* A restart changes nothing, or has lost a block that some file has.
LEMMA RestartImplements ==
  ASSUME IInv, IInv', RInv, Next, Restart
  PROVE  Abstract!Next \/ UNCHANGED <<World, answer>>
<1>1. answer' = answer /\ torn' = torn /\ ~Underway /\ ~Underway'
  BY DEF Restart, work, IInv, Phase, Underway
<1>2. CASE lost' = {}
  <2>1. lost' = lost
    BY <1>2, MarksStay
  <2> QED BY <1>1, <2>1, WorldKept
<1>3. CASE lost' # {}
  <2>1. WorldView'
    BY WorldIsNext
  <2>2. \A p \in Pokemons : (World[p])' = DamagedPokemon
    BY <1>3, <2>1 DEF WorldView, Intact, DamagedPokemon
  <2>3. World' = [p \in Pokemons |-> World'[p]]
    BY WorldFunction
  <2>4. World' = [p \in Pokemons |-> DamagedPokemon]
    <3>1. \A p \in Pokemons : World'[p] = DamagedPokemon
      BY <2>2
    <3> HIDE DEF World, DamagedPokemon
    <3> QED BY <2>3, <3>1
  <2>5. Abstract!Ruin
    BY <1>1, <2>4 DEF Abstract!Ruin
  <2> QED BY <2>5 DEF Abstract!Next
<1> QED BY <1>2, <1>3

\* Every step is one of PokemonPlaces, or is not seen there.
LEMMA NextImplements == IInv /\ IInv' /\ RInv /\ [Next]_vars => [Abstract!Next]_(Abstract!vars)
<1>1. ASSUME IInv, IInv', RInv, Next PROVE Abstract!Next \/ UNCHANGED <<World, answer>>
  <2>1. CASE \E r \in Requests : Open(r)
    BY <1>1, <2>1, OpenImplements
  <2>2. CASE Create \/ ReadEmptied \/ NewNothing \/ WriteBlock \/ SaveMetadata
    BY <1>1, <2>2, SilentStepsImplement
  <2>3. CASE Get
    BY <1>1, <2>3, GetImplements
  <2>4. CASE CatchNothing
    BY <1>1, <2>4, CatchNothingImplements
  <2>5. CASE Catch
    BY <1>1, <2>5, StartWritingImplements DEF Catch
  <2>6. CASE New
    BY <1>1, <2>6, NewImplements
  <2>7. CASE SaveBitmap
    BY <1>1, <2>7, SaveBitmapImplements
  <2>8. CASE Kill
    BY <1>1, <2>8, KillImplements
  <2>9. CASE Restart
    BY <1>1, <2>9, RestartImplements
  <2> QED BY <1>1, <2>1, <2>2, <2>3, <2>4, <2>5, <2>6, <2>7, <2>8, <2>9 DEF Next
<1>2. ASSUME IInv, IInv', UNCHANGED vars PROVE UNCHANGED <<World, answer>>
  <2>1. /\ metadata' = metadata /\ block' = block /\ pc' = pc /\ request' = request
        /\ content' = content /\ lost' = lost /\ torn' = torn /\ answer' = answer
    BY <1>2 DEF vars, disk, work, marks
  <2>2. \A p \in Pokemons : Contents(p)' = Contents(p)
    BY <2>1 DEF Contents, WellFormed, Existing, Usable
  <2>3. World' = World
    BY <2>1, <2>2 DEF World
  <2> QED BY <2>1, <2>3
<1> QED BY <1>1, <1>2 DEF Abstract!vars

\* The file system implements PokemonPlaces: until it is answered a request has changed
\* nothing for who reads the files, then it has changed the one quantity it is about; a cut
\* leaves the file of its request as it was, as it was to be, or damaged, and no other; and
\* all is damaged only when a restart does not know a block that a file has (gamecard.c
\* 60-159, 284-420, 587-604).
THEOREM FilesKeepThePlaces == Spec => ImplementsPokemonPlaces
<1>1. Init => IInv /\ RInv /\ Abstract!Init
  <2>1. Init => RInv
    <3> SUFFICES ASSUME Init PROVE RInv
      OBVIOUS
    <3>1. <<>> \in Seq(Lines) /\ Len(<<>>) = 0
      BY EmptySeq
    <3>2. \A p \in Pokemons : Existing(p) = <<>>
      BY DEF Init, Existing, Usable
    <3>3. \A p \in Pokemons : Stored(p, <<>>) /\ OnePerPlace(<<>>)
      BY <3>1, <3>2 DEF Stored, OnePerPlace
    <3>4. Resting
      BY <3>1, <3>3 DEF Resting, Sound
    <3>5. Unanswered /\ Changing
      BY DEF Init, Unanswered, Changing, Underway
    <3> QED BY <3>4, <3>5 DEF RInv
  <2> QED BY <2>1, InitHolds, InitImplements
<1>2. IInv /\ RInv /\ [Next]_vars => IInv' /\ RInv'
  BY NextKeeps, RefinementKept
<1>3. IInv /\ IInv' /\ RInv /\ [Next]_vars => [Abstract!Next]_(Abstract!vars)
  BY NextImplements
<1> QED BY <1>1, <1>2, <1>3, PTL DEF Spec, Abstract!Spec, ImplementsPokemonPlaces

==============================================================================
