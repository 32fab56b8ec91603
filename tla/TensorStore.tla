----------------------------- MODULE TensorStore ----------------------------
(***************************************************************************)
(* What the engine promises to its callers: one map from keys to tensors,   *)
(* changed by atomic puts and deletes, and a restart that comes back with   *)
(* the map as it was at some moment of the past, never before the last      *)
(* committed checkpoint and never a mixture of two moments.                 *)
(***************************************************************************)
EXTENDS Integers, Sequences

CONSTANTS Key, Value,
          Absent       \* what a key without a tensor is mapped to

VARIABLES kv,          \* the map the callers see
          past,        \* every map since the archive was created, oldest first
          kept,        \* the position in past of the last commit
          up           \* whether the archive is open

storeVars == <<kv, past, kept, up>>

Empty == [k \in Key |-> Absent]

StoreInit == /\ kv = Empty
             /\ past = <<Empty>>
             /\ kept = 0         \* an archive without a checkpoint promises nothing
             /\ up = TRUE

Change(new) == /\ up
               /\ kv' = new
               /\ past' = Append(past, new)
               /\ UNCHANGED <<kept, up>>

StorePut == \E k \in Key, v \in Value : Change([kv EXCEPT ![k] = v])

StoreDelete == \E k \in Key : Change([kv EXCEPT ![k] = Absent])

StoreCommit == /\ up
               /\ kept' \in kept .. Len(past)
               /\ UNCHANGED <<kv, past, up>>

StoreStop == /\ up
             /\ up' = FALSE
             /\ kv' = Empty
             /\ UNCHANGED <<past, kept>>

StoreRestart == /\ ~up
                /\ \E n \in 1 .. Len(past) :
                     /\ kept <= n
                     /\ kv' = past[n]
                     /\ past' = SubSeq(past, 1, n)
                /\ up' = TRUE
                /\ UNCHANGED kept

StoreNext == StorePut \/ StoreDelete \/ StoreCommit \/ StoreStop \/ StoreRestart

StoreSpec == StoreInit /\ [][StoreNext]_storeVars
=============================================================================
