------------------------------ MODULE TallGrass ------------------------------
(***************************************************************************)
(* TallGrass, the file system of the GameCard (src/gamecard/src/           *)
(* gamecard.c): a bitmap in memory that is written to disk after each      *)
(* change, a metadata file per pokemon, and the blocks.  op_mutex lets one *)
(* request run at a time, but a request is several writes to disk, and the *)
(* process, which never ends by itself, can be killed between any two or   *)
(* within one: fopen(.., "w") has then emptied the file it was writing.    *)
(*                                                                         *)
(* A line "x-y=q" and its separator take one block, as with the file       *)
(* system of gamecard/test-tall-grass (BLOCK_SIZE=6): SIZE is in lines.    *)
(***************************************************************************)
EXTENDS Integers, FiniteSets, FiniteSetsExt, SequencesExt, Order

CONSTANTS
  Pokemons,      (* one file each                                   *)
  Locations,     (* positions a pokemon can be at                   *)
  BlockCount,    (* BLOCKS of Metadata/Metadata.bin                 *)
  Counts,        (* the counts of NEW_POKEMON messages              *)
  MaxQuantity,   (* bound: pokemons of a kind at one position       *)
  MaxCrashes,    (* bound: how often the process is killed          *)
  MaxLate        (* bound: requests to a file system with damage    *)

ASSUME TallGrassAssumption ==
  /\ BlockCount \in Nat /\ Counts \subseteq Nat /\ MaxQuantity \in Nat
  /\ MaxCrashes \in Nat /\ MaxLate \in Nat

Blocks  == 0..(BlockCount - 1)
Absent  == [exists |-> FALSE]          \* no Metadata.bin
Emptied == [exists |-> TRUE]           \* fopen for writing has truncated it
Blank   == [written |-> FALSE]         \* a block without a line
NoAnswer == <<"none">>
Cut     == <<>>                        \* Bitmap.bin, truncated

Lines == [at : Locations, quantity : 1..MaxQuantity]

Requests ==
  [type : {"NEW"}, pokemon : Pokemons, at : Locations, count : Counts]
    \cup [type : {"CATCH"}, pokemon : Pokemons, at : Locations]
    \cup [type : {"GET"}, pokemon : Pokemons]
NoRequest == [type |-> "none"]

VARIABLES
  metadata,     \* disk: the Metadata.bin of each pokemon
  block,        \* disk: the files of Blocks/
  bitmap_file,  \* disk: Bitmap.bin, a sequence of one bitmap
  up,           \* the process runs
  bitmap,       \* memory: the blocks whose bit is set
  pc, request,  \* the request that holds op_mutex
  content,      \* the lines it has read
  payload,      \* the lines it writes
  blocks, gonzalo,  \* the blocks it writes them to, and how many it has written
  answer,       \* the answer to the last request
  lost,         \* blocks of files that the bitmap did not know after a restart
  torn,         \* pokemons whose request was cut
  crashes, late

disk == <<metadata, block, bitmap_file>>
work == <<pc, request, content, payload, blocks, gonzalo>>
marks == <<lost, torn, crashes, late>>
vars == <<disk, up, bitmap, work, answer, marks>>

Idle ==
  /\ pc' = "idle" /\ request' = NoRequest
  /\ content' = <<>> /\ payload' = <<>> /\ blocks' = <<>> /\ gonzalo' = 0

Init ==
  /\ metadata = [p \in Pokemons |-> Absent]
  /\ block = [b \in Blocks |-> Blank]
  /\ bitmap_file = <<{}>>
  /\ up = TRUE
  /\ bitmap = {}
  /\ pc = "idle" /\ request = NoRequest
  /\ content = <<>> /\ payload = <<>> /\ blocks = <<>> /\ gonzalo = 0
  /\ answer = NoAnswer
  /\ lost = {} /\ torn = {} /\ crashes = 0 /\ late = 0

-----------------------------------------------------------------------------
(* Files and their lines *)

Usable(p)   == metadata[p] \notin {Absent, Emptied}
Existing(p) == IF Usable(p) THEN SubSeq(metadata[p].blocks, 1, metadata[p].size) ELSE <<>>
Listed(p)   == IF Usable(p) THEN ToSet(metadata[p].blocks) ELSE {}

\* Each block has a line, and the last one alone ends with the terminator.
WellFormed(p) ==
  \A i \in DOMAIN Existing(p) :
    LET b == block[Existing(p)[i]]
    IN  b # Blank /\ b.last = (i = Len(Existing(p)))

\* deserialize_pokemon_file on what read_file_content returns.  Blocks of two
\* writings join lines, and an emptied one reads as uninitialised memory.
Contents(p) ==
  IF WellFormed(p) THEN {[i \in DOMAIN Existing(p) |-> block[Existing(p)[i]].line]}
  ELSE UNION {[1..n -> Lines] : n \in 0..metadata[p].size}

\* find_pokemon_file_line_for_location: the last line of the position.
LinesAt(lines, l) == {i \in DOMAIN lines : lines[i].at = l}
Quantity(lines, l) ==
  IF LinesAt(lines, l) = {} THEN 0 ELSE lines[Max(LinesAt(lines, l))].quantity

\* Fault: a line is added even if the position has one.
AddedApart(lines, l, n) == Append(lines, [at |-> l, quantity |-> n])

Added(lines, l, n) ==
  IF LinesAt(lines, l) = {} THEN Append(lines, [at |-> l, quantity |-> n])
  ELSE [lines EXCEPT ![Max(LinesAt(lines, l))].quantity = @ + n]

\* Fault: all lines are written.
AllSerialised(lines) == lines

\* serialize_pokemon_file leaves out the lines with nothing.
Kept(lines) == {i \in DOMAIN lines : lines[i].quantity > 0}
Serialised(lines) == InOrder(lines, Kept(lines))

\* Fault: the search takes blocks whose bit is set too.
AnyBlock == Blocks

FreeBlocks == Blocks \ bitmap

\* find_free_blocks: the first ones of the bitmap.
FirstFree(count) == [k \in 1..count |-> Nth(FreeBlocks, k)]

-----------------------------------------------------------------------------
(* A request *)

\* read_file_content and get_config_for_file: a file is created with no content,
\* as the request is for a pokemon not seen before.
Open(r) ==
  /\ up /\ pc = "idle"
  /\ request' = r
  /\ answer' = NoAnswer
  /\ IF metadata[r.pokemon] = Absent
     THEN /\ metadata' = [metadata EXCEPT ![r.pokemon] = Emptied]
          /\ pc' = "create"
     ELSE pc' = "read" /\ UNCHANGED metadata
  /\ IF lost = {} /\ torn = {} THEN UNCHANGED late ELSE late < MaxLate /\ late' = late + 1
  /\ UNCHANGED <<block, bitmap_file, up, bitmap, content, payload, blocks, gonzalo, lost, torn,
                 crashes>>

Create ==
  /\ up /\ pc = "create"
  /\ metadata' = [metadata EXCEPT ![request.pokemon] = [size |-> 0, blocks |-> <<>>]]
  /\ pc' = "read"
  /\ UNCHANGED <<block, bitmap_file, up, bitmap, request, content, payload, blocks, gonzalo,
                 answer, marks>>

\* A process that dies takes the bitmap and the request with it.
Die == up' = FALSE /\ bitmap' = {} /\ Idle

\* config_get_int_value finds no SIZE.
ReadEmptied ==
  /\ up /\ pc = "read" /\ metadata[request.pokemon] = Emptied
  /\ Die
  /\ UNCHANGED <<disk, answer, marks>>

Answered(a) == answer' = a /\ Idle /\ UNCHANGED <<disk, up, bitmap, marks>>

\* GET_POKEMON sends the positions, if there are any.
Get ==
  /\ up /\ pc = "read" /\ request.type = "GET" /\ Usable(request.pokemon)
  /\ \E lines \in Contents(request.pokemon) :
       Answered(IF lines = <<>> THEN answer
                ELSE <<"LOCALIZED", request.pokemon, {x.at : x \in ToSet(lines)}>>)

CatchNothing ==
  /\ up /\ pc = "read" /\ request.type = "CATCH" /\ Usable(request.pokemon)
  /\ \E lines \in Contents(request.pokemon) :
       /\ Quantity(lines, request.at) = 0
       /\ Answered(<<"CAUGHT", request.pokemon, request.at, 0>>)

\* write_payload_in_file, for one that fits: blocks are added or left over.
StartWriting(lines, new) ==
  LET old  == Existing(request.pokemon)
      more == Len(new) - Len(old)
  IN  /\ more <= Cardinality(FreeBlocks)
      /\ ~(new = <<>> /\ old = <<>>)
      /\ content' = lines
      /\ payload' = new
      /\ blocks' = IF more > 0 THEN old \o FirstFree(more) ELSE old
      /\ gonzalo' = 0
      /\ pc' = "block"
      /\ UNCHANGED <<disk, up, bitmap, request, answer, marks>>

Catch ==
  /\ up /\ pc = "read" /\ request.type = "CATCH" /\ Usable(request.pokemon)
  /\ \E lines \in Contents(request.pokemon) :
       /\ Quantity(lines, request.at) > 0
       /\ StartWriting(lines, Serialised(Added(lines, request.at, -1)))

\* NEW_POKEMON: written, or there are not enough blocks and the answer is the same.
New ==
  /\ up /\ pc = "read" /\ request.type = "NEW" /\ Usable(request.pokemon)
  /\ \E lines \in Contents(request.pokemon) :
       LET new == Serialised(Added(lines, request.at, request.count))
       IN  /\ Quantity(lines, request.at) + request.count <= MaxQuantity
           /\ \/ StartWriting(lines, new)
              \/ /\ Len(new) - Len(Existing(request.pokemon)) > Cardinality(FreeBlocks)
                 /\ Answered(<<"APPEARED", request.pokemon, request.at>>)

\* None added to none: the first block of an empty list.
NewNothing ==
  /\ up /\ pc = "read" /\ request.type = "NEW" /\ Usable(request.pokemon)
  /\ Existing(request.pokemon) = <<>> /\ request.count = 0
  /\ Die
  /\ UNCHANGED <<disk, answer, marks>>

\* One turn of the loop, which takes one even for an empty payload.
WriteBlock ==
  /\ up /\ pc = "block"
  /\ LET n == gonzalo + 1
     IN  /\ block' = [block EXCEPT ![blocks[n]] =
                        IF payload = <<>> THEN Blank
                        ELSE [line |-> payload[n], last |-> n = Len(payload)]]
         /\ bitmap' = bitmap \cup {blocks[n]}
         /\ gonzalo' = n
         /\ pc' = IF n < Len(payload) THEN "block" ELSE "metadata"
  /\ UNCHANGED <<metadata, bitmap_file, up, request, content, payload, blocks, answer, marks>>

\* Fault: the blocks that are left over keep their bits.
KeepSurplus == {}

Surplus == ToSet(SubSeq(blocks, gonzalo + 1, Len(blocks)))

SaveMetadata ==
  /\ up /\ pc = "metadata"
  /\ bitmap' = bitmap \ Surplus
  /\ metadata' = [metadata EXCEPT ![request.pokemon] =
                    [size |-> Len(payload), blocks |-> SubSeq(blocks, 1, gonzalo)]]
  /\ pc' = "bitmap"
  /\ UNCHANGED <<block, bitmap_file, up, request, content, payload, blocks, gonzalo, answer, marks>>

\* save_bitmap, and the answer.
SaveBitmap ==
  /\ up /\ pc = "bitmap"
  /\ bitmap_file' = <<bitmap>>
  /\ answer' = IF request.type = "NEW" THEN <<"APPEARED", request.pokemon, request.at>>
               ELSE <<"CAUGHT", request.pokemon, request.at, 1>>
  /\ Idle
  /\ UNCHANGED <<metadata, block, up, bitmap, marks>>

-----------------------------------------------------------------------------
(* Killed and started again *)

\* The file that is being written is as before, or empty.
CutFile ==
  CASE pc \in {"create", "metadata"} ->
         /\ metadata' = [metadata EXCEPT ![request.pokemon] = Emptied]
         /\ UNCHANGED <<block, bitmap_file>>
    [] pc = "block" ->
         /\ block' = [block EXCEPT ![blocks[gonzalo + 1]] = Blank]
         /\ UNCHANGED <<metadata, bitmap_file>>
    [] pc = "bitmap" -> bitmap_file' = Cut /\ UNCHANGED <<metadata, block>>
    [] OTHER -> UNCHANGED disk

Kill ==
  /\ up /\ crashes < MaxCrashes
  /\ crashes' = crashes + 1
  /\ CutFile \/ UNCHANGED disk
  /\ torn' = IF \/ pc \in {"create", "metadata"}
                \/ pc = "block" /\ (gonzalo > 0 \/ block' # block)
             THEN torn \cup {request.pokemon} ELSE torn
  /\ Die
  /\ UNCHANGED <<answer, lost, late>>

\* setup_tall_grass: of a truncated file nothing is read into the new bitmap.
Restart ==
  /\ ~up
  /\ up' = TRUE
  /\ bitmap' \in IF bitmap_file = Cut THEN SUBSET Blocks ELSE {bitmap_file[1]}
  /\ lost' = lost \cup ((UNION {ToSet(Existing(p)) : p \in Pokemons}) \ bitmap')
  /\ UNCHANGED <<disk, work, answer, torn, crashes, late>>

Next ==
  \/ \E r \in Requests : Open(r)
  \/ Create \/ ReadEmptied \/ Get \/ CatchNothing \/ Catch \/ New \/ NewNothing
  \/ WriteBlock \/ SaveMetadata \/ SaveBitmap
  \/ Kill \/ Restart

Spec == Init /\ [][Next]_vars

-----------------------------------------------------------------------------
(* Properties *)

\* The values the variables take; a request in progress has a block to write.
TypeOK ==
  /\ metadata \in [Pokemons -> {Absent, Emptied}
                     \cup [size : Nat, blocks : Seq(Blocks)]]
  /\ \A p \in Pokemons : Usable(p) => metadata[p].size <= Len(metadata[p].blocks)
  /\ block \in [Blocks -> {Blank} \cup [line : Lines, last : BOOLEAN]]
  /\ bitmap_file = Cut \/ \E bits \in SUBSET Blocks : bitmap_file = <<bits>>
  /\ up \in BOOLEAN /\ bitmap \subseteq Blocks
  /\ pc \in {"idle", "create", "read", "block", "metadata", "bitmap"}
  /\ request \in Requests \cup {NoRequest}
  /\ content \in Seq(Lines) /\ payload \in Seq(Lines) /\ blocks \in Seq(Blocks)
  /\ gonzalo \in 0..Len(blocks)
  /\ pc = "block" => gonzalo < Len(blocks)
  /\ lost \subseteq Blocks /\ torn \subseteq Pokemons /\ crashes \in 0..MaxCrashes
  /\ late \in 0..MaxLate

\* Two files share a block only if a restart did not know it was taken: the writes
\* of a running GameCard never hand out a block that a file uses (355-366, 402-414).
SharedOnlyIfLost ==
  \A p, q \in Pokemons : p # q =>
    ToSet(Existing(p)) \cap ToSet(Existing(q)) \subseteq lost

\* Blocks that are set in the bitmap and in the list of no file or request.
Leaked == bitmap \ ((UNION {Listed(p) : p \in Pokemons}) \cup ToSet(blocks))

\* A block is leaked by a running GameCard only when a file that was emptied is
\* filled again: its SIZE is 0, and the block it kept is not looked at (340-347).
LeakOnlyOnRefill ==
  [][up /\ up' => \A b \in Leaked' \ Leaked :
       \E p \in Pokemons : Usable(p) /\ metadata[p].size = 0 /\ b \in Listed(p)]_vars

\* TallGrass implements PokemonPlaces: until its answer a request has changed
\* nothing, for a reader of the files.
DamagedPokemon == [l \in Locations |-> -1]

World ==
  [p \in Pokemons |->
     IF lost # {} \/ p \in torn THEN DamagedPokemon
     ELSE LET lines == IF request.type # "none" /\ p = request.pokemon
                          /\ pc \in {"block", "metadata", "bitmap"}
                       THEN content
                       ELSE CHOOSE c \in Contents(p) : TRUE
          IN  [l \in Locations |-> Quantity(lines, l)]]

Abstract == INSTANCE PokemonPlaces WITH
  Damaged <- DamagedPokemon, world <- World, full <- pc = "read" /\ FreeBlocks = {}

ImplementsPokemonPlaces == Abstract!Spec
=============================================================================
