---------------------------- MODULE ContentStore ----------------------------
(***************************************************************************)
(* The deduplication table (tpx-dedup/src/content_store.rs): where the      *)
(* chunk with a given content hash lies, and how often it is referenced.    *)
(* A store maps every hash to an entry or to NoEntry.  Refcounts are u32    *)
(* and wrap.                                                                *)
(***************************************************************************)
EXTENDS Integers, Sequences, FiniteSets

CONSTANTS Hash,
          NoEntry,
          U32          \* 2^32 in the code

ASSUME StoreAssumption == U32 \in Nat \ {0, 1}

EmptyStore == [h \in Hash |-> NoEntry]

Known(store, h) == store[h] # NoEntry

(* shards.insert: replaces an entry that another thread put there meanwhile *)
StoreInsert(store, h, off) == [store EXCEPT ![h] = [off |-> off, refcount |-> 1]]

(* How deduplication could go wrong: a hit does not count.                  *)
AddRefForgotten(store, h) == store

AddRef(store, h) ==
  IF Known(store, h)
  THEN [store EXCEPT ![h].refcount = (@ + 1) % U32] ELSE store

(* The places in the i-th of some versions that name a hash, and how many   *)
(* such places the versions have.                                           *)
Places(versions, i, h) ==
  {i} \X {j \in DOMAIN versions[i].hashes : versions[i].hashes[j] = h}

PlacesIn(versions, h) == UNION {Places(versions, i, h) : i \in DOMAIN versions}

OccurrencesIn(versions, h) == Cardinality(PlacesIn(versions, h))

(* One release per occurrence; a hash that is not in the table is ignored.  *)
ReleaseAll(store, versions) ==
  [h \in Hash |->
     IF Known(store, h)
     THEN [store[h] EXCEPT !.refcount = (@ - OccurrencesIn(versions, h)) % U32]
     ELSE NoEntry]
=============================================================================
