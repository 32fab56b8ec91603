----------------------------- MODULE Dictionary -----------------------------
(***************************************************************************)
(* What an index promises: a map from keys to values of which each call     *)
(* changes its own key, and both calls return the value they replaced.      *)
(***************************************************************************)
CONSTANTS Key, Absent, Inserts

VARIABLES map,    \* the value of every key, or Absent
          call,   \* the last call: what it inserted, or a key without a value
          ret     \* what it returned

dictVars == <<map, call, ret>>

DictInit == /\ map = [k \in Key |-> Absent]
            /\ call = Absent
            /\ ret = Absent

DictInsert == \E in \in Inserts : /\ call' = in
                                  /\ ret' = map[in.key]
                                  /\ map' = [map EXCEPT ![in.key] = in.value]

DictRemove == \E k \in Key : /\ call' = [key |-> k, value |-> Absent]
                             /\ ret' = map[k]
                             /\ map' = [map EXCEPT ![k] = Absent]

DictNext == DictInsert \/ DictRemove

DictSpec == DictInit /\ [][DictNext]_dictVars
=============================================================================
