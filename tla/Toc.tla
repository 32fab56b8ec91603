--------------------------------- MODULE Toc --------------------------------
(***************************************************************************)
(* The table of contents (tpx-index/src/toc.rs): every version ever put, in *)
(* order, each with a tombstone.  hash_index always names a key's last      *)
(* entry (distinct keys have distinct hashes here), so it is not kept.      *)
(* value is the tensor that was put: the shape and dtype stand for it in    *)
(* the code, the chunks in the file carry it.                               *)
(***************************************************************************)
EXTENDS Integers, Sequences, FiniteSets, FiniteSetsExt

CONSTANTS Key, Absent

NewEntry(key, value, refs) ==
  [key |-> key, value |-> value, refs |-> refs, dead |-> FALSE]

Positions(toc, key) == {i \in DOMAIN toc : toc[i].key = key}

(* How tombstone could go wrong: the older versions are marked and the one  *)
(* hash_index names is left.                                                *)
TombstonedOlder(toc, key) ==
  [i \in DOMAIN toc |-> IF toc[i].key = key /\ i # Max(Positions(toc, key))
                        THEN [toc[i] EXCEPT !.dead = TRUE] ELSE toc[i]]

(* tombstone marks every version of the key.                                *)
Tombstoned(toc, key) ==
  [i \in DOMAIN toc |-> IF toc[i].key = key THEN [toc[i] EXCEPT !.dead = TRUE]
                        ELSE toc[i]]

(* lookup and keys() look at the last entry of a key only.                  *)
Live(toc, key) == /\ Positions(toc, key) # {}
                  /\ ~toc[Max(Positions(toc, key))].dead

Latest(toc, key) == toc[Max(Positions(toc, key))]

(* The entries at some positions, in order.                                 *)
Rank(places, i) == Cardinality({j \in places : j <= i})

Picked(toc, places) ==
  [n \in 1 .. Cardinality(places) |-> toc[CHOOSE i \in places : Rank(places, i) = n]]

(* The entries of a key, dead or not: what get_version indexes.             *)
EntriesOf(toc, key) == Picked(toc, Positions(toc, key))

(* The map a table of contents stands for: of every live key the tensor its *)
(* latest entry was made for.  That is what get returns where the entry's   *)
(* references lead to the chunks of this tensor.                            *)
View(toc) == [k \in Key |-> IF Live(toc, k) THEN Latest(toc, k).value ELSE Absent]
=============================================================================
