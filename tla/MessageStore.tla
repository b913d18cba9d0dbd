---------------------------- MODULE MessageStore ----------------------------
(***************************************************************************)
(* What the broker's cache promises, whatever its partitions look like:    *)
(* each message is stored once, the payloads stored together never exceed  *)
(* the memory, and the message that leaves is the one its replacement      *)
(* algorithm names: the first stored, or the least recently used.          *)
(***************************************************************************)
EXTENDS Naturals, Sequences, SequencesExt, FiniteSets

CONSTANTS Messages,   (* message identifiers                    *)
          Capacity    (* bytes of memory                        *)

VARIABLES policy,     \* the replacement algorithm: "FIFO" or "LRU", for good
          order,      \* stored messages [id, size], the next to leave first
          past        \* every message that was ever stored

vars == <<policy, order, past>>

\* The bytes of the messages of a list.
Bytes(seq) == UNION {{x.id} \X (0..(x.size - 1)) : x \in ToSet(seq)}

Init == policy \in {"FIFO", "LRU"} /\ order = <<>> /\ past = {}

Store(m) ==
  /\ m \notin past
  /\ past' = past \cup {m}
  /\ \E size \in 1..Capacity : order' = Append(order, [id |-> m, size |-> size])
  /\ Cardinality(Bytes(order')) <= Capacity

\* A delivery renews the message under LRU.
Use(i) ==
  /\ policy = "LRU"
  /\ order' = Append(RemoveAt(order, i), order[i])
  /\ UNCHANGED past

Leave ==
  /\ order # <<>>
  /\ order' = Tail(order)
  /\ UNCHANGED past

Next ==
  /\ UNCHANGED policy
  /\ \/ \E m \in Messages : Store(m)
     \/ \E i \in DOMAIN order : Use(i)
     \/ Leave

Spec == Init /\ [][Next]_vars
=============================================================================
