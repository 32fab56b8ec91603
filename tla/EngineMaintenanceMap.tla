------------------------- MODULE EngineMaintenanceMap ------------------------
(***************************************************************************)
(* Between calls get reads from the file the map that the calls asked for   *)
(* (MapAsIntended), for any number of threads, any batches and any crashes, *)
(* and for compactions in a process of one thread, as long as no truncation *)
(* leaves the content store behind.                                         *)
(*                                                                          *)
(* Two things are proved apart.  The table of contents stands for the map   *)
(* (View), which is what this module is about; and its entries' references  *)
(* lead to the chunks of the tensors it stands for, which is the invariant  *)
(* of EngineMaintenanceProofs.                                              *)
(*                                                                          *)
(* MapInvariant follows a compaction: the table of contents, overwritten    *)
(* with the tensors that are still to be put, is the map.  Of the file it   *)
(* says by copy what a reopening would serve.  A whole file has a footer    *)
(* that is durable, or its beginning, from which on every block serves its  *)
(* own history; while the compaction's thread, which is alone, rebuilds it, *)
(* nothing is said of the file until the flush at the end, whose block      *)
(* serves the map again.                                                    *)
(*                                                                          *)
(* A compaction reads references that are intact (MaintenanceInv) if all    *)
(* before it found the content store empty.  Otherwise references may       *)
(* dangle and a compaction may read another map than was asked for.         *)
(* What then still holds is the shape (ShapeInv): the types, and which      *)
(* points a thread's call takes it to; and that a tombstone spares no       *)
(* earlier entry of its key.  What such a compaction reads are tensors all  *)
(* the same, one for every live key (TensorsRead).                          *)
(***************************************************************************)
EXTENDS EngineMaintenanceProofs, ShardedEngineRefinement

Compacts(t) == work[t].call = "compact"

Counted == compactions \in Nat /\ (compactions = 0 => ~stale)

CountedCompacts ==
  \A t \in Threads : Compacts(t) => compactions > 0 /\ "compact" \in BulkOps[t]

(* What holds of references that are intact and of others.                  *)
ShapeInv == Counted /\ Fits /\ Sound(FALSE) /\ CountedCompacts

-----------------------------------------------------------------------------
(* A reference that need not be intact is none that a truncation could      *)
(* break.                                                                   *)
LEMMA LooseToc ==
  ASSUME NEW intact \in BOOLEAN, ~intact, NEW l, NEW n, NEW entries,
         TocLeads(intact, l, n, entries), NEW l2, NEW n2
  PROVE  TocLeads(intact, l2, n2, entries)
BY DEF TocLeads, AllLead, PartLeads, Leads

(* A truncation, as far as the shape goes, breaks no reference.             *)
LEMMA TruncateShape ==
  ASSUME NEW intact \in BOOLEAN, ~intact, CompactsAlone, Fits, Sound(intact),
         NEW t \in Threads, CompactTruncate(t)
  PROVE  Fits' /\ Sound(intact)'
<1>0. /\ Up /\ Up' /\ pc[t] = "compact_truncate" /\ log' = <<>> /\ durable' = 0
      /\ UNCHANGED <<toc, store, past, arg, work>>
      /\ pc' = [pc EXCEPT ![t] = "compact_forget"]
  BY DEF CompactTruncate, At, Up, Goto, memory, history
<1>1. /\ IInv(intact) /\ pc \in [Threads -> Points]
      /\ PlaceFits(t, "compact_truncate", work[t])
  BY <1>0, BulkFacts
<1>2. /\ pc'[t] = "compact_forget" /\ \A u \in Threads : u = t
      /\ work[t].call = "compact" /\ "compact" \in BulkOps[t]
  BY <1>0, <1>1 DEF PlaceFits, CompactsAlone
<1>3. Types'
  <2>1. <<>> \in Seq(Block) /\ "compact_forget" \in Points
    BY DEF Points, BulkLabels
  <2>2. pc' \in [Threads -> Points]
    BY <1>0, <1>1, <2>1
  <2> QED BY <1>0, <1>1, <2>1, <2>2 DEF IInv, Types
<1>4. TocLeads(intact, log', Len(log'), toc') /\ BlocksLead(intact)'
  <2>1. TocLeads(intact, log', Len(log'), toc)
    BY <1>1, LooseToc DEF IInv
  <2> QED BY <1>0, <2>1 DEF BlocksLead
<1>5. StoreLeads(intact)'
  BY <1>0, <1>1 DEF IInv, StoreLeads, EntryLeads, Leads
<1>6. ThreadLeads(intact, t)'
  BY <1>2 DEF ThreadLeads, Mid, Holding, Complete
<1>7. Holds(intact)'
  BY <1>0, <1>2, <1>3, <1>4, <1>5, <1>6 DEF Holds, IInv, DownIsEmpty
<1>8. /\ PlaceFits(t, "compact_forget", work[t])
      /\ WorkLeads(intact, log', "compact_forget", work[t], arg[t].off)
  BY <1>2 DEF PlaceFits, WorkLeads, Gathering, Publishing, Recording
<1> QED BY <1>0, <1>2, <1>7, <1>8 DEF Fits, Sound

(* Nor does forgetting the tables: an empty one has none.                   *)
LEMMA ForgetShape ==
  ASSUME NEW intact \in BOOLEAN, Fits, Sound(intact), NEW t \in Threads, CompactForget(t)
  PROVE  Fits' /\ Sound(intact)'
<1>0. /\ Up /\ Up' /\ pc[t] = "compact_forget" /\ toc' = <<>>
      /\ log' = log /\ durable' = durable /\ store' = store /\ past' = past
      /\ arg' = [arg EXCEPT ![t] = arg[t]] /\ work' = [work EXCEPT ![t] = work[t]]
      /\ pc' = [pc EXCEPT ![t] = "idle"] /\ arg[t] \in ArgType /\ "idle" \in Free
  BY BulkFacts DEF CompactForget, At, Up, Goto, disk, history, Free
<1>1. /\ IInv(intact) /\ past \in Pasts
      /\ WorkFits(work[t]) /\ PlaceFits(t, "compact_forget", work[t])
  BY <1>0, BulkFacts
<1>2. toc' \in Seq(EntryType) /\ TocLeads(intact, log', Len(log'), toc')
  BY <1>0 DEF TocLeads
<1>3. StoreLeads(intact)'
  BY <1>0, <1>1, SameFile
<1>4. PlaceFits(t, "idle", work[t]) /\ WorkLeads(intact, log, "idle", work[t], arg[t].off)
  <2>1. "idle" \in Labels /\ work[t].call # "put_batch"
    BY <1>1 DEF PlaceFits, Labels
  <2> QED BY <2>1, PlainPlace
<1> QED BY <1>0, <1>1, <1>2, <1>3, <1>4, BulkMemoryStep

-----------------------------------------------------------------------------
(* The counters move with a compaction's two first steps only, and only the *)
(* first makes a call a compaction.                                         *)
LEMMA CountersMove ==
  ASSUME [MaintenanceNext]_allVars
  PROVE  \/ \E t \in Threads : CompactRead(t) \/ CompactTruncate(t)
         \/ UNCHANGED <<compactions, stale>>
<1>1. CASE UNCHANGED allVars
  BY <1>1 DEF allVars, bulk
<1> QED BY ZenonT(60), <1>1 DEF MaintenanceNext, SingleStep, Batch, BatchBegin, BatchLookup,
             BatchAddRef, BatchAppend, BatchContains, BatchInsert, BatchRecord, BatchIndex,
             BatchChain, BatchToc, Compact, CompactForget,
             CompactPut, CompactToc, CompactFlush, Restart, OnlyWork, bulk

(* A batch turns no call into a compaction.                                 *)
LEMMA BatchCalls ==
  ASSUME Fits, NEW t \in Threads, Batch(t)
  PROVE  \E w : work' = [work EXCEPT ![t] = w] /\ (w.call = "compact" => Compacts(t))
<1> DEFINE v == work[t]
           slot == FirstOf(v.slots)
           next == Head(v.pending)
<1>0. /\ work = [work EXCEPT ![t] = v]
      /\ v \in WorkAs(v.call, v.items, v.slots, v.pending, v.done)
  BY DEF Fits, WorkFits
<1> HIDE DEF slot, next
<1>a. ASSUME NEW w, work' = [work EXCEPT ![t] = w], w.call \in {v.call, "none", "put_batch"}
      PROVE  \E x : work' = [work EXCEPT ![t] = x] /\ (x.call = "compact" => Compacts(t))
  BY <1>a DEF Compacts
<1>1. CASE BatchBegin(t)
  <2>1. PICK batch \in Batches :
          work' = [work EXCEPT ![t] = [NoWork EXCEPT
                     !.call = "put_batch", !.slots = Slots(batch),
                     !.items = [i \in DOMAIN batch |-> Unwritten(batch[i])]]]
    BY <1>1 DEF BatchBegin, Work
  <2> DEFINE w == [NoWork EXCEPT
                     !.call = "put_batch", !.slots = Slots(batch),
                     !.items = [i \in DOMAIN batch |-> Unwritten(batch[i])]]
  <2>2. w.call = "put_batch"
    BY DEF NoWork
  <2> HIDE DEF w
  <2> QED BY <1>a, <2>1, <2>2 DEF w
<1>2. CASE BatchLookup(t)
  <2> DEFINE w == [v EXCEPT !.slots = @ \ {slot}, !.pending = Append(@, slot)]
  <2>1. work' = [work EXCEPT ![t] = w] \/ work' = work
    BY <1>2 DEF BatchLookup, Work, slot
  <2>2. w.call = v.call
    BY <1>0 DEF WorkAs
  <2> HIDE DEF w
  <2> QED BY <1>0, <1>a, <2>1, <2>2
<1>3. CASE BatchAddRef(t)
  <2> DEFINE w == [WithRefAt(t, slot, arg[t].off) EXCEPT !.slots = @ \ {slot}]
  <2>1. work' = [work EXCEPT ![t] = w]
    BY <1>3 DEF BatchAddRef, Work, slot
  <2>2. w.call = v.call
    BY <1>0 DEF WorkAs, WithRefAt
  <2> HIDE DEF w
  <2> QED BY <1>a, <2>1, <2>2
<1>4. CASE BatchRecord(t)
  <2> DEFINE w == [WithRefAt(t, next, arg[t].off) EXCEPT !.pending = Tail(v.pending)]
  <2>1. work' = [work EXCEPT ![t] = w]
    BY <1>4 DEF BatchRecord, Work, next
  <2>2. w.call = v.call
    BY <1>0 DEF WorkAs, WithRefAt
  <2> HIDE DEF w
  <2> QED BY <1>a, <2>1, <2>2
<1>5. CASE BatchChain(t)
  <2> DEFINE w == [v EXCEPT !.done = @ + 1]
  <2>1. work' = [work EXCEPT ![t] = w]
    BY <1>5 DEF BatchChain, Work
  <2>2. w.call = v.call
    BY <1>0 DEF WorkAs
  <2> HIDE DEF w
  <2> QED BY <1>a, <2>1, <2>2
<1>6. CASE BatchToc(t)
  <2>1. work' = [work EXCEPT ![t] = NoWork] /\ NoWork.call = "none"
    BY <1>6 DEF BatchToc, Work, NoWork
  <2> QED BY <1>a, <2>1
<1>7. CASE BatchAppend(t) \/ BatchContains(t) \/ BatchInsert(t) \/ BatchIndex(t)
  BY <1>0, <1>7, <1>a DEF BatchAppend, BatchContains, BatchInsert, BatchIndex
<1> QED BY <1>1, <1>2, <1>3, <1>4, <1>5, <1>6, <1>7 DEF Batch

(* Only the first step of a compaction makes a call one.                    *)
LEMMA CompactsMoves ==
  ASSUME Fits, [MaintenanceNext]_allVars, NEW t \in Threads, Compacts(t)'
  PROVE  Compacts(t) \/ CompactRead(t)
<1>0. work = [u \in Threads |-> work[u]] /\ \A u \in Threads : WorkFits(work[u])
  BY DEF Fits
<1>1. ASSUME NEW u \in Threads, NEW w, work' = [work EXCEPT ![u] = w],
             w.call = "compact" => Compacts(u)
      PROVE  Compacts(t)
  BY <1>0, <1>1 DEF Compacts
<1>2. ASSUME NEW u \in Threads, Batch(u) PROVE Compacts(t)
  BY <1>1, <1>2, BatchCalls
<1>3. ASSUME NEW u \in Threads, Compact(u) PROVE Compacts(t) \/ CompactRead(t)
  <2>1. CASE CompactRead(u)
    BY <1>0, <2>1 DEF CompactRead, Compacts, Work
  <2>2. CASE CompactPut(u)
    BY <1>0, <1>1, <2>2 DEF CompactPut, Compacts, Work
  <2>3. CASE CompactFlush(u)
    BY <1>1, <2>3 DEF CompactFlush, Work, NoWork
  <2>4. CASE CompactTruncate(u) \/ CompactForget(u) \/ CompactToc(u)
    BY <2>4 DEF CompactTruncate, CompactForget, CompactToc, Compacts
  <2> QED BY <1>3, <2>1, <2>2, <2>3, <2>4 DEF Compact
<1>4. ASSUME NEW u \in Threads, SingleStep(u) PROVE Compacts(t)
  BY <1>4 DEF SingleStep, Compacts
<1>5. ASSUME Restart PROVE Compacts(t)
  BY <1>5 DEF Restart, Compacts, bulk, NoWork
<1>6. CASE UNCHANGED allVars
  BY <1>6 DEF allVars, bulk, Compacts
<1> QED BY <1>2, <1>3, <1>4, <1>5, <1>6 DEF MaintenanceNext

-----------------------------------------------------------------------------
(* Once a truncation has left the content store behind, it always will      *)
(* have; and the count of compactions does not fall.                        *)
LEMMA MonotoneStale ==
  ASSUME ShapeInv, [MaintenanceNext]_allVars
  PROVE  /\ stale => stale'
         /\ compactions \in Nat /\ compactions' \in compactions .. compactions + 1
         /\ \A t \in Threads : CompactRead(t) => /\ compactions' = compactions + 1
                                                 /\ stale' = stale
<1>1. compactions \in Nat
  BY DEF ShapeInv, Counted
<1>2. \A t \in Threads : CompactRead(t) => compactions' = compactions + 1 /\ stale' = stale
  BY DEF CompactRead
<1>3. \A t \in Threads :
        CompactTruncate(t) => compactions' = compactions /\ (stale => stale')
  BY DEF CompactTruncate
<1> QED BY <1>1, <1>2, <1>3, CountersMove

(* A compaction that starts finds all references intact.                    *)
LEMMA ReadIntact ==
  ASSUME CompactsAlone, MaintenanceInv, ShapeInv, [MaintenanceNext]_allVars, ~stale',
         NEW t \in Threads, CompactRead(t)
  PROVE  Sound(TRUE)
<1>1. ~stale
  BY MonotoneStale
<1>2. ~Truncated
  <2>1. pc[t] = "idle" /\ "compact" \in BulkOps[t]
    BY DEF CompactRead, At
  <2> QED BY <2>1 DEF Truncated, CompactsAlone
<1> QED BY <1>1, <1>2 DEF MaintenanceInv

-----------------------------------------------------------------------------
(* Every entry at one of the positions is picked, and no other.             *)
LEMMA RankWithin ==
  ASSUME NEW n \in Nat, NEW P \in SUBSET (1 .. n), NEW i \in P
  PROVE  /\ Rank(P, i) \in 1 .. Cardinality(P)
         /\ \A j \in P : Rank(P, j) = Rank(P, i) => j = i
<1> DEFINE B(j) == {x \in P : x <= j}
<1>1. IsFiniteSet(P)
  <2>1. IsFiniteSet(1 .. n)
    BY FS_Interval
  <2> QED BY <2>1, FS_Subset
<1>2. \A j \in P : IsFiniteSet(B(j)) /\ Cardinality(B(j)) <= Cardinality(P)
                   /\ Cardinality(B(j)) \in Nat
  BY <1>1, FS_Subset, FS_CardinalityType
<1>3. Cardinality(B(i)) # 0
  <2>1. i \in B(i)
    OBVIOUS
  <2> QED BY <1>2, <2>1, FS_EmptySet
<1>4. Rank(P, i) \in 1 .. Cardinality(P)
  <2>1. Cardinality(P) \in Nat /\ Rank(P, i) = Cardinality(B(i))
    BY <1>1, FS_CardinalityType DEF Rank
  <2> HIDE DEF B
  <2> QED BY <1>2, <1>3, <2>1
<1>5. ASSUME NEW j \in P, NEW x \in P, Rank(P, j) = Rank(P, x), j < x PROVE FALSE
  <2>1. B(j) \in SUBSET B(x) /\ x \in B(x) /\ x \notin B(j)
    <3>1. j \in Int /\ x \in Int /\ \A y \in P : y \in Int
      OBVIOUS
    <3>2. \A y \in P : y <= j => y <= x
      BY <1>5, <3>1
    <3>3. ~(x <= j) /\ x <= x
      BY <1>5, <3>1
    <3> QED BY <3>2, <3>3
  <2>2. Cardinality(B(x)) = Cardinality(B(j))
    BY <1>5 DEF Rank
  <2> HIDE DEF B
  <2> QED BY <1>2, <2>1, <2>2, FS_Subset
<1>6. ASSUME NEW j \in P, Rank(P, j) = Rank(P, i) PROVE j = i
  <2>1. j \in Nat /\ i \in Nat
    OBVIOUS
  <2> QED BY <1>5, <1>6, <2>1
<1> QED BY <1>4, <1>6

(* The sequence of the picked entries holds them all and nothing else.      *)
LEMMA PickedAll ==
  ASSUME NEW s, NEW n \in Nat, NEW P \in SUBSET (1 .. n)
  PROVE  /\ \A i \in P : \E m \in 1 .. Cardinality(P) : Picked(s, P)[m] = s[i]
         /\ \A m \in 1 .. Cardinality(P) : \E i \in P : Picked(s, P)[m] = s[i]
<1> DEFINE at(m) == CHOOSE i \in P : Rank(P, i) = m
<1>1. \A m \in 1 .. Cardinality(P) : Picked(s, P)[m] = s[at(m)]
  BY DEF Picked
<1>2. ASSUME NEW i \in P PROVE \E m \in 1 .. Cardinality(P) : Picked(s, P)[m] = s[i]
  <2>1. Rank(P, i) \in 1 .. Cardinality(P) /\ \A j \in P : Rank(P, j) = Rank(P, i) => j = i
    BY RankWithin
  <2>2. at(Rank(P, i)) = i
    BY <2>1
  <2> HIDE DEF at
  <2> QED BY <1>1, <2>1, <2>2
<1>3. ASSUME NEW m \in 1 .. Cardinality(P) PROVE \E i \in P : Picked(s, P)[m] = s[i]
  <2>1. at(m) \in P
    BY RankExists
  <2> HIDE DEF at
  <2> QED BY <1>1, <2>1
<1> QED BY <1>2, <1>3

-----------------------------------------------------------------------------
(* What a compaction reads through references that lead to chunks, whether  *)
(* or not they are those that were put, is tensors: one for every live key. *)
LEMMA TensorsRead ==
  ASSUME Types, Closed(toc), \A k \in Key : Live(toc, k) => Readable(Latest(toc, k))
  PROVE  /\ LiveTensors \in Seq([key : Key, value : Contents])
         /\ \A k \in Key : Live(toc, k) => Positions(LiveTensors, k) # {}
<1> DEFINE P == {i \in DOMAIN toc : ~toc[i].dead}
           live == Picked(toc, P)
           c == Cardinality(P)
           n == Len(toc)
           T == [key : Key, value : Contents]
           items == [i \in 1 .. c |-> ReadTensor(Latest(toc, live[i].key))]
<1>1. /\ log \in Seq(Block) /\ toc \in Seq(EntryType) /\ n \in Nat /\ DOMAIN toc = 1 .. n
  BY DEF Types
<1>2. /\ P \in SUBSET (1 .. n) /\ \A i \in P : ~toc[i].dead
      /\ \A i \in 1 .. n : i \in P \/ toc[i].dead
  BY <1>1
<1>3. LiveTensors = items
  BY DEF LiveTensors, Picked
<1>4. c \in Nat
  <2>1. IsFiniteSet(1 .. n)
    BY <1>1, FS_Interval
  <2> HIDE DEF P
  <2> QED BY <1>2, <2>1, FS_Subset, FS_CardinalityType
<1> HIDE DEF live, P, c, n
<1>5. /\ \A i \in P : \E m \in 1 .. c : live[m] = toc[i]
      /\ \A m \in 1 .. c : \E i \in P : live[m] = toc[i]
  BY <1>1, <1>2, PickedAll DEF live, c
<1>6. ASSUME NEW e \in EntryType, Readable(e)
      PROVE  ReadTensor(e) \in T /\ ReadTensor(e).key = e.key
  <2> DEFINE r == e.refs
             v == [i \in DOMAIN r |-> BlockAt(log, r[i]).hash]
  <2>1. e.key \in Key /\ r \in Seq(Nat)
    BY DEF EntryType
  <2>2. Len(r) \in Nat /\ DOMAIN r = 1 .. Len(r) /\ \A i \in 1 .. Len(r) : r[i] \in Nat
    BY <2>1
  <2>3. ASSUME NEW i \in 1 .. Len(r) PROVE BlockAt(log, r[i]).hash \in Hash
    <3>1. r[i] < Len(log) /\ BlockAt(log, r[i]).kind = "chunk" /\ r[i] + 1 \in 1 .. Len(log)
      BY <1>1, <1>6, <2>2 DEF Readable
    <3>2. BlockAt(log, r[i]) \in Block
      BY <1>1, <3>1 DEF BlockAt
    <3> QED BY <3>1, <3>2 DEF Block
  <2> HIDE DEF r
  <2>4. v \in Contents
    <3>1. v \in [1 .. Len(r) -> Hash]
      BY <2>2, <2>3
    <3> HIDE DEF v
    <3> QED BY <2>2, <3>1 DEF Contents
  <2>5. ReadTensor(e) = [key |-> e.key, value |-> v]
    BY DEF ReadTensor, r
  <2> QED BY <2>1, <2>4, <2>5
<1>7. ASSUME NEW i \in P
      PROVE  LET e == Latest(toc, toc[i].key)
             IN  e \in EntryType /\ e.key = toc[i].key /\ Readable(e)
  <2> DEFINE k == toc[i].key
             Q == Positions(toc, k)
             m == Max(Q)
  <2>1. i \in 1 .. n /\ k \in Key /\ i \in Q
    <3>1. i \in 1 .. n
      BY <1>2
    <3>2. toc[i] \in EntryType
      BY <1>1, <3>1
    <3> QED BY <1>1, <3>1, <3>2 DEF EntryType, Positions
  <2>2. m \in Q /\ i <= m
    BY <1>1, <2>1, PositionsOf
  <2>3. m \in 1 .. n /\ toc[m].key = k
    BY <1>1, <2>2 DEF Positions
  <2> HIDE DEF m, Q
  <2>4. ~toc[m].dead
    BY <1>1, <1>2, <2>1, <2>2, <2>3 DEF Closed
  <2>5. Latest(toc, k) = toc[m] /\ Live(toc, k)
    BY <2>1, <2>4 DEF Latest, Live, m, Q
  <2> QED BY <1>1, <2>1, <2>3, <2>5
<1>8. ASSUME NEW m \in 1 .. c
      PROVE  ReadTensor(Latest(toc, live[m].key)) \in T
             /\ ReadTensor(Latest(toc, live[m].key)).key = live[m].key
  <2>1. PICK i \in P : live[m] = toc[i]
    BY <1>5
  <2>2. /\ Latest(toc, live[m].key) \in EntryType /\ Readable(Latest(toc, live[m].key))
        /\ Latest(toc, live[m].key).key = live[m].key
    BY <1>7, <2>1
  <2> QED BY <1>6, <2>2
<1>9. items \in Seq(T)
  <2>1. items \in [1 .. c -> T]
    BY <1>8
  <2> HIDE DEF items, T
  <2> QED BY <1>4, <2>1
<1>10. ASSUME NEW k \in Key, Live(toc, k) PROVE Positions(items, k) # {}
  <2> DEFINE m == Max(Positions(toc, k))
  <2>1. m \in Positions(toc, k) /\ ~toc[m].dead
    BY <1>1, <1>10, PositionsOf DEF Live, Latest
  <2>2. m \in P /\ toc[m].key = k
    BY <1>1, <1>2, <2>1 DEF Positions
  <2> HIDE DEF m
  <2>3. PICK x \in 1 .. c : live[x].key = k
    BY <1>5, <2>2
  <2>4. x \in DOMAIN items /\ items[x].key = k
    BY <1>8, <2>3
  <2> QED BY <2>4 DEF Positions
<1> QED BY <1>3, <1>9, <1>10

(* The shape is inductive beside the invariant of the references.           *)
LEMMA ShapeStep ==
  ASSUME CompactsAlone, MaintenanceInv, ShapeInv, Closed(toc), [MaintenanceNext]_allVars
  PROVE  ShapeInv'
<1>0. Counted /\ Fits /\ CountedCompacts /\ Sound(FALSE)
  BY DEF ShapeInv
<1>1. Counted'
  <2>1. CASE \E t \in Threads : CompactTruncate(t)
    <3>1. PICK t \in Threads : CompactTruncate(t)
      BY <2>1
    <3>2. compactions' = compactions /\ pc[t] = "compact_truncate"
      BY <3>1 DEF CompactTruncate, At
    <3>3. compactions > 0
      BY <1>0, <3>2 DEF CountedCompacts, Fits, PlaceFits, Compacts
    <3> QED BY <1>0, <3>2, <3>3 DEF Counted
  <2>2. CASE \A t \in Threads : ~CompactTruncate(t)
    <3>1. CASE UNCHANGED <<compactions, stale>>
      BY <1>0, <3>1 DEF Counted
    <3>2. CASE \E t \in Threads : CompactRead(t)
      BY <1>0, <3>2, MonotoneStale DEF Counted
    <3> QED BY <2>2, <3>1, <3>2, CountersMove
  <2> QED BY <2>1, <2>2
<1>2. ASSUME NEW t \in Threads, Compacts(t)'
      PROVE  compactions' > 0 /\ "compact" \in BulkOps[t]
  <2>1. Compacts(t) => compactions > 0 /\ "compact" \in BulkOps[t]
    BY <1>0 DEF CountedCompacts
  <2>2. CompactRead(t) => "compact" \in BulkOps[t]
    BY DEF CompactRead
  <2> QED BY <1>0, <1>2, <2>1, <2>2, CompactsMoves, MonotoneStale
<1>3. \A t \in Threads :
        CompactRead(t) => LiveTensors \in Seq([key : Key, value : Contents])
  BY <1>0, TensorsRead DEF CompactRead, Sound, Holds, IInv
<1>4. ASSUME NEW intact \in BOOLEAN, ~intact, Sound(intact) PROVE Fits' /\ Sound(intact)'
  <2>1. CASE \E t \in Threads : CompactTruncate(t)
    BY <1>0, <1>4, <2>1, TruncateShape
  <2>2. CASE \E t \in Threads : CompactForget(t)
    BY <1>0, <1>4, <2>2, ForgetShape
  <2>3. CASE \A t \in Threads : ~CompactTruncate(t) /\ ~CompactForget(t)
    BY <1>0, <1>3, <1>4, <2>3, SoundStep
  <2> QED BY <2>1, <2>2, <2>3
<1>5. Fits' /\ Sound(FALSE)'
  BY <1>0, <1>4
<1> QED BY <1>1, <1>2, <1>5 DEF ShapeInv, CountedCompacts

(* What the map needs of the shape.                                         *)
Shape == /\ Types /\ durable \in Nat /\ DownIsEmpty /\ Fits
         /\ \A t \in Threads : /\ pc[t] \in Mid \union Complete => arg[t].key \in Key
                               /\ Compacts(t) => "compact" \in BulkOps[t]
         /\ \A i \in Footers(log) : log[i].tocOffset < i

(* The shape gives what the map needs.                                      *)
LEMMA ShapeFacts ==
  ASSUME ShapeInv
  PROVE  Shape
<1>1. ASSUME NEW intact \in BOOLEAN, Fits, Sound(intact), CountedCompacts PROVE Shape
  <2>1. \A i \in Footers(log) : log[i].tocOffset < i
    BY <1>1 DEF Sound, Holds, IInv, Types, BlocksLead, BlockLeads, Footers
  <2> QED BY <1>1, <2>1 DEF Shape, Sound, Holds, IInv, ThreadLeads, CountedCompacts
<1> QED BY <1>1 DEF ShapeInv

-----------------------------------------------------------------------------
(* What some tensors, put in order, make of a map.                          *)
LEMMA LastOf ==
  ASSUME NEW s, NEW n \in Nat, DOMAIN s = 1 .. n, NEW k, Positions(s, k) # {}
  PROVE  /\ Max(Positions(s, k)) \in Positions(s, k) /\ Max(Positions(s, k)) \in 1 .. n
         /\ \A i \in Positions(s, k) : i <= Max(Positions(s, k))
<1>1. Positions(s, k) \in SUBSET (1 .. n)
  BY DEF Positions
<1> QED BY <1>1, MaxOf

(* No tensor to put changes no map.                                         *)
LEMMA OverwrittenNothing ==
  ASSUME NEW map, map = [k \in Key |-> map[k]]
  PROVE  Overwritten(map, <<>>) = map
<1>1. \A k \in Key : Positions(<<>>, k) = {}
  BY DEF Positions
<1> QED BY <1>1 DEF Overwritten

(* Putting the first tensor and then the rest is putting them all.          *)
LEMMA OverwrittenNext ==
  ASSUME NEW T, NEW items \in Seq(T), items # <<>>,
         NEW map, map = [k \in Key |-> map[k]], Head(items).key \in Key
  PROVE  Overwritten(map, items) =
           Overwritten([map EXCEPT ![Head(items).key] = Head(items).value], Tail(items))
<1> DEFINE item == Head(items)
           left == Tail(items)
           map2 == [map EXCEPT ![item.key] = item.value]
           n == Len(left)
<1>1. /\ n \in Nat /\ DOMAIN left = 1 .. n /\ DOMAIN items = 1 .. n + 1
      /\ items[1] = item /\ \A i \in 1 .. n : left[i] = items[i + 1]
  BY HeadTailProperties
<1> HIDE DEF item, left, n
<1>2. \A k \in Key : map2[k] = IF k = item.key THEN item.value ELSE map[k]
  BY DEF item
<1> HIDE DEF map2
<1>3. ASSUME NEW k \in Key
      PROVE  Overwritten(map, items)[k] = Overwritten(map2, left)[k]
  <2> DEFINE P == Positions(items, k)
             Q == Positions(left, k)
  <2>1. /\ \A i \in P : i \in 1 .. n + 1
        /\ \A i \in Q : i \in 1 .. n
        /\ 1 \in P <=> k = item.key
        /\ \A i \in Q : i + 1 \in P
        /\ \A i \in P : i # 1 => i - 1 \in Q
    <3>1. \A i \in P : i # 1 => i - 1 \in 1 .. n /\ left[i - 1] = items[i]
      BY <1>1 DEF Positions
    <3> QED BY <1>1, <3>1 DEF Positions
  <2>2. P # {} => Max(P) \in P /\ \A i \in P : i <= Max(P)
    <3>1. n + 1 \in Nat
      BY <1>1
    <3> QED BY <1>1, <3>1, LastOf
  <2>3. Q # {} => Max(Q) \in Q /\ \A i \in Q : i <= Max(Q)
    BY <1>1, LastOf
  <2>4. /\ Overwritten(map, items)[k] = IF P = {} THEN map[k] ELSE items[Max(P)].value
        /\ Overwritten(map2, left)[k] = IF Q = {} THEN map2[k] ELSE left[Max(Q)].value
    BY DEF Overwritten
  <2> HIDE DEF P, Q
  <2>5. CASE Q = {}
    <3>1. CASE P = {}
      BY <1>2, <2>1, <2>4, <2>5, <3>1
    <3>2. CASE P # {}
      <4>1. Max(P) = 1 /\ k = item.key
        BY <2>1, <2>2, <2>5, <3>2
      <4> QED BY <1>1, <1>2, <2>4, <2>5, <3>2, <4>1
    <3> QED BY <3>1, <3>2
  <2>6. CASE Q # {}
    <3>1. Max(Q) \in 1 .. n /\ Max(Q) + 1 \in P /\ Max(Q) + 1 <= Max(P) /\ P # {}
      BY <2>1, <2>2, <2>3, <2>6
    <3>2. Max(P) \in 1 .. n + 1 /\ Max(P) # 1
      BY <1>1, <2>1, <2>2, <3>1
    <3>3. Max(P) - 1 \in Q /\ Max(P) - 1 <= Max(Q)
      BY <2>1, <2>2, <2>3, <2>6, <3>1, <3>2
    <3>4. Max(P) = Max(Q) + 1
      BY <1>1, <3>1, <3>2, <3>3
    <3> QED BY <1>1, <2>4, <2>6, <3>1, <3>4
  <2> QED BY <2>5, <2>6
<1> QED BY <1>3 DEF Overwritten, map2, left, item

(* A batch is as good as its puts, one after the other.                     *)
LEMMA BatchLatest ==
  ASSUME NEW s \in Seq(EntryType), NEW es \in Seq(EntryType),
         \A i \in 1 .. Len(es) : ~es[i].dead
  PROVE  /\ \A k \in Key :
              IF Positions(es, k) = {}
              THEN /\ Live(s \o es, k) = Live(s, k)
                   /\ Live(s, k) => Latest(s \o es, k) = Latest(s, k)
              ELSE /\ Live(s \o es, k)
                   /\ Latest(s \o es, k) = es[Max(Positions(es, k))]
         /\ Closed(s) => Closed(s \o es)
<1> DEFINE s2 == s \o es
           n == Len(s)
           m == Len(es)
<1>1. /\ n \in Nat /\ m \in Nat /\ DOMAIN s = 1 .. n /\ DOMAIN es = 1 .. m
      /\ s2 \in Seq(EntryType) /\ DOMAIN s2 = 1 .. n + m
      /\ \A i \in 1 .. n : s2[i] = s[i]
      /\ \A i \in 1 .. m : s2[n + i] = es[i]
      /\ \A i \in 1 .. m : ~es[i].dead
  OBVIOUS
<1> HIDE DEF s2, n, m
<1>2. \A i \in 1 .. n + m : i \in 1 .. n \/ i - n \in 1 .. m
  BY <1>1
<1>3. \A i \in 1 .. n + m : i \notin 1 .. n => s2[i] = es[i - n]
  <2> SUFFICES ASSUME NEW i \in 1 .. n + m, i - n \in 1 .. m PROVE s2[i] = es[i - n]
    BY <1>2
  <2>1. n + (i - n) = i
    BY <1>1
  <2> QED BY <1>1, <2>1
<1>4. ASSUME NEW k \in Key
      PROVE  IF Positions(es, k) = {}
             THEN /\ Live(s2, k) = Live(s, k)
                  /\ Live(s, k) => Latest(s2, k) = Latest(s, k)
             ELSE Live(s2, k) /\ Latest(s2, k) = es[Max(Positions(es, k))]
  <2> DEFINE P == Positions(s2, k)
             Q == Positions(es, k)
             R == Positions(s, k)
  <2>1. /\ \A i \in P : i \in R \/ i - n \in Q
        /\ \A i \in Q : n + i \in P
        /\ \A i \in R : i \in P
        /\ \A i \in P : i \in 1 .. n + m
        /\ \A i \in Q : i \in 1 .. m
        /\ \A i \in R : i \in 1 .. n
    <3>1. \A i \in 1 .. n : i \in 1 .. n + m
      BY <1>1
    <3>2. \A i \in 1 .. m : n + i \in 1 .. n + m
      BY <1>1
    <3> QED BY <1>1, <1>2, <1>3, <3>1, <3>2 DEF Positions
  <2>2. P # {} => Max(P) \in P /\ \A i \in P : i <= Max(P)
    BY <1>1, PositionsOf
  <2>3. Q # {} => Max(Q) \in Q /\ \A i \in Q : i <= Max(Q)
    BY PositionsOf
  <2>4. R # {} => Max(R) \in R
    BY PositionsOf
  <2>5. CASE Q = {}
    <3>1. P = R
      BY <1>1, <2>1, <2>5
    <3>2. R # {} => s2[Max(R)] = s[Max(R)]
      BY <1>1, <2>1, <2>4
    <3>3. Live(s2, k) = Live(s, k) /\ (Live(s, k) => Latest(s2, k) = Latest(s, k))
      BY <3>1, <3>2 DEF Live, Latest
    <3> QED BY <2>5, <3>3
  <2>6. CASE Q # {}
    <3> DEFINE x == Max(Q)
               y == Max(P)
    <3>1. /\ x \in Q /\ x \in 1 .. m /\ n + x \in P
          /\ n + x <= y /\ y \in P /\ y \in 1 .. n + m
      BY <2>1, <2>2, <2>3, <2>6
    <3>2. y \notin R
      BY <1>1, <2>1, <3>1
    <3>3. y - n \in Q /\ y - n <= x
      BY <2>1, <2>3, <3>1, <3>2
    <3> HIDE DEF x, y
    <3>4. y = n + x
      BY <1>1, <3>1, <3>3
    <3>5. s2[y] = es[x] /\ ~es[x].dead
      BY <1>1, <3>1, <3>4
    <3>6. Live(s2, k) /\ Latest(s2, k) = es[x]
      BY <3>1, <3>5 DEF Live, Latest, y
    <3> QED BY <2>6, <3>6 DEF x
  <2> QED BY <2>5, <2>6
<1>5. ASSUME Closed(s), NEW i \in DOMAIN s2, NEW j \in DOMAIN s2, s2[i].key = s2[j].key,
             i < j, s2[j].dead
      PROVE  s2[i].dead
  <2>1. j \in 1 .. n
    BY <1>1, <1>2, <1>3, <1>5
  <2>2. i \in 1 .. n
    BY <1>1, <1>5, <2>1
  <2> QED BY <1>1, <1>5, <2>1, <2>2 DEF Closed
<1>6. Closed(s) => Closed(s2)
  BY <1>5 DEF Closed
<1> QED BY <1>4, <1>6 DEF s2

(* The table with the entries of a batch serves the map overwritten.        *)
LEMMA BatchView ==
  ASSUME NEW s \in Seq(EntryType), NEW items, NEW n \in Nat, DOMAIN items = 1 .. n,
         NEW es \in Seq(EntryType),
         es = [i \in 1 .. n |-> NewEntry(items[i].key, items[i].value, items[i].refs)]
  PROVE  /\ View(s \o es) = Overwritten(View(s), items)
         /\ Closed(s) => Closed(s \o es)
<1>1. DOMAIN es = 1 .. n /\ Len(es) = n
  OBVIOUS
<1>2. \A i \in 1 .. n : /\ es[i].key = items[i].key /\ es[i].value = items[i].value
                        /\ ~es[i].dead
  BY DEF NewEntry
<1>3. ASSUME NEW k \in Key
      PROVE  /\ Positions(es, k) = Positions(items, k)
             /\ Positions(es, k) # {} =>
                  es[Max(Positions(es, k))].value = items[Max(Positions(items, k))].value
  <2>1. Positions(es, k) = Positions(items, k)
    BY <1>1, <1>2 DEF Positions
  <2>2. Positions(items, k) # {} => Max(Positions(items, k)) \in 1 .. n
    BY LastOf
  <2> QED BY <1>2, <2>1, <2>2
<1>4. Closed(s) => Closed(s \o es)
  BY <1>1, <1>2, BatchLatest
<1>5. ASSUME NEW k \in Key
      PROVE  View(s \o es)[k] = IF Positions(es, k) = {} THEN View(s)[k]
                                ELSE es[Max(Positions(es, k))].value
  <2>1. IF Positions(es, k) = {}
        THEN /\ Live(s \o es, k) = Live(s, k)
             /\ Live(s, k) => Latest(s \o es, k) = Latest(s, k)
        ELSE /\ Live(s \o es, k)
             /\ Latest(s \o es, k) = es[Max(Positions(es, k))]
    BY <1>1, <1>2, BatchLatest
  <2> QED BY <2>1 DEF View
<1>6. \A k \in Key : View(s \o es)[k] = Overwritten(View(s), items)[k]
  BY <1>3, <1>5 DEF Overwritten
<1> QED BY <1>4, <1>6 DEF View, Overwritten

(* A compaction reads the whole map.                                        *)
LEMMA LiveMap ==
  ASSUME NEW intact \in BOOLEAN, intact, IInv(intact), Closed(toc)
  PROVE  Overwritten([k \in Key |-> Absent], LiveTensors) = View(toc)
<1> DEFINE P == {i \in DOMAIN toc : ~toc[i].dead}
           live == Picked(toc, P)
           c == Cardinality(P)
           n == Len(toc)
           items == [i \in 1 .. c |-> ReadTensor(Latest(toc, live[i].key))]
<1>1. /\ log \in Seq(Block) /\ toc \in Seq(EntryType) /\ n \in Nat /\ DOMAIN toc = 1 .. n
  BY DEF IInv, Types
<1>2. /\ P \in SUBSET (1 .. n) /\ \A i \in P : ~toc[i].dead
      /\ \A i \in 1 .. n : i \in P \/ toc[i].dead
  BY <1>1
<1>3. DOMAIN live = 1 .. c /\ LiveTensors = items
  BY DEF LiveTensors, Picked
<1>4. c \in Nat
  <2>1. IsFiniteSet(1 .. n)
    BY <1>1, FS_Interval
  <2> HIDE DEF P
  <2> QED BY <1>2, <2>1, FS_Subset, FS_CardinalityType
<1> HIDE DEF live, P, c, n
<1>5. /\ \A i \in P : \E m \in 1 .. c : live[m] = toc[i]
      /\ \A m \in 1 .. c : \E i \in P : live[m] = toc[i]
  BY <1>1, <1>2, PickedAll DEF live, c
<1>6. ASSUME NEW k, Positions(toc, k) # {}
      PROVE  /\ Latest(toc, k).key = k /\ Max(Positions(toc, k)) \in 1 .. n
             /\ ReadTensor(Latest(toc, k)) = [key |-> k, value |-> Latest(toc, k).value]
  <2> DEFINE m == Max(Positions(toc, k))
  <2>1. m \in Positions(toc, k)
    BY <1>1, <1>6, PositionsOf
  <2> HIDE DEF m
  <2>2. m \in 1 .. Len(toc) /\ toc[m].key = k /\ toc[m] \in EntryType
    BY <1>1, <2>1 DEF Positions
  <2>3. AllLead(intact, log, Len(log), toc[m])
    BY <2>2 DEF IInv, TocLeads
  <2>4. ReadTensor(toc[m]) = [key |-> k, value |-> toc[m].value]
    BY <1>1, <2>2, <2>3, TensorRead
  <2> QED BY <2>2, <2>4 DEF Latest, m, n
<1>7. \A m \in 1 .. c : Positions(toc, live[m].key) # {}
  BY <1>1, <1>2, <1>5 DEF Positions
<1>8. \A m \in 1 .. c :
        items[m] = [key |-> live[m].key, value |-> Latest(toc, live[m].key).value]
  BY <1>6, <1>7
<1> HIDE DEF items
<1>9. ASSUME NEW k \in Key
      PROVE  Overwritten([j \in Key |-> Absent], items)[k] = View(toc)[k]
  <2> DEFINE Q == Positions(items, k)
  <2>1. DOMAIN items = 1 .. c
    BY DEF items
  <2>2. \A m \in 1 .. c : m \in Q <=> live[m].key = k
    BY <1>8, <2>1 DEF Positions
  <2>3. Q # {} => Max(Q) \in Q /\ Max(Q) \in 1 .. c
    BY <1>4, <2>1, LastOf
  <2>4. Q # {} <=> Live(toc, k)
    <3>1. ASSUME Live(toc, k) PROVE Q # {}
      <4>1. Max(Positions(toc, k)) \in P /\ toc[Max(Positions(toc, k))].key = k
        BY <1>1, <1>2, <1>6, <3>1 DEF Live, Latest
      <4> QED BY <1>5, <2>2, <4>1
    <3>2. ASSUME NEW m \in 1 .. c, m \in Q PROVE Live(toc, k)
      <4>1. PICK i \in P : toc[i].key = k
        BY <1>5, <2>2, <3>2
      <4> DEFINE x == Max(Positions(toc, k))
      <4>2. i \in Positions(toc, k) /\ i \in 1 .. n
        BY <1>1, <1>2, <4>1 DEF Positions
      <4>3. x \in Positions(toc, k) /\ i <= x
        BY <1>1, <4>2, PositionsOf
      <4> HIDE DEF x
      <4>4. x \in 1 .. n /\ toc[x].key = k
        BY <1>1, <4>3 DEF Positions
      <4>5. ~toc[x].dead
        BY <1>1, <1>2, <4>1, <4>2, <4>3, <4>4 DEF Closed
      <4> QED BY <4>2, <4>5 DEF Live, x
    <3> QED BY <2>3, <3>1, <3>2
  <2>5. Q # {} => items[Max(Q)].value = Latest(toc, k).value
    <3> SUFFICES ASSUME Q # {} PROVE items[Max(Q)].value = Latest(toc, k).value
      OBVIOUS
    <3> DEFINE m == Max(Q)
    <3>1. m \in 1 .. c /\ live[m].key = k
      BY <2>2, <2>3
    <3> HIDE DEF m, Q
    <3>2. items[m] = [key |-> k, value |-> Latest(toc, k).value]
      BY <1>8, <3>1
    <3> QED BY <3>2 DEF m
  <2>6. Overwritten([j \in Key |-> Absent], items)[k]
          = IF Q = {} THEN Absent ELSE items[Max(Q)].value
    BY DEF Overwritten
  <2> HIDE DEF Q
  <2> QED BY <2>4, <2>5, <2>6 DEF View
<1> QED BY <1>3, <1>9 DEF View, Overwritten

-----------------------------------------------------------------------------
Serves(entries, seen) == View(entries) = Last(seen)

Bare == [k \in Key |-> Absent]

(* What the map of a compacting thread is once its current step is done.    *)
Rebuilt(t) ==
  IF pc[t] \in {"compact_truncate", "compact_forget"} THEN Bare
  ELSE IF pc[t] \in Putting THEN [View(toc) EXCEPT ![arg[t].key] = arg[t].value]
  ELSE View(toc)

Restores(t) == Overwritten(Rebuilt(t), work[t].items) = Last(past)

Served == Up => /\ (\A t \in Threads : ~Compacts(t)) => Serves(toc, past)
                /\ \A t \in Threads : Compacts(t) => Restores(t)

(* From the durable footer n on, or from the file's beginning, every table  *)
(* of the file serves its map, and so will those that are being written.    *)
ServesFrom(n) ==
  /\ n <= durable
  /\ n = 0 \/ n \in Footers(log)
  /\ \A i \in Footers(log) :
       i >= n => log[i].tocOffset + 1 >= n /\ Serves(log[i].toc, log[i].past)
  /\ \A t \in Threads :
       /\ pc[t] = "checkpoint_append" => arg[t].off + 1 >= n
       /\ pc[t] \in Taking => Serves(arg[t].toc, arg[t].past)

IsWhole == /\ \E n \in 0 .. Len(log) : ServesFrom(n)
           /\ \A t \in Threads : Compacts(t) => pc[t] = "compact_truncate"

(* The flush at a compaction's end, up to its sync.                         *)
Flushing(t) ==
  /\ ~Compacts(t) /\ arg[t].call = "flush"
  /\ \/ pc[t] = "checkpoint_toc"
     \/ /\ pc[t] \in Taking
        /\ Serves(arg[t].toc, arg[t].past)
        /\ pc[t] = "checkpoint_append" => arg[t].off = Len(log)
     \/ /\ pc[t] = "checkpoint_sync"
        /\ arg[t].off = Len(log) /\ Len(log) \in Footers(log)
        /\ log[Len(log)].tocOffset + 1 = Len(log)
        /\ Serves(log[Len(log)].toc, log[Len(log)].past)

IsRebuilding ==
  /\ Up
  /\ \E t \in Threads : /\ \A u \in Threads : u = t
                        /\ \/ Compacts(t) /\ pc[t] # "compact_truncate"
                           \/ Flushing(t)

TablesClosed == /\ Closed(toc) /\ BlocksClosed
                /\ \A t \in Threads : pc[t] \in Taking => Closed(arg[t].toc)

Deletes(t) == pc[t] \in Deleting => arg[t].key \in Key /\ ~Compacts(t)

CopyServes == /\ copy \in {"whole", "rebuilding", "lost"}
              /\ copy # "lost" => Served
              /\ copy = "whole" => IsWhole
              /\ copy = "rebuilding" => IsRebuilding

(* A table in which no entry outlives its key's deletion is one whether or  *)
(* not its references are intact; only if they are, it serves the map.      *)
MapInvariant(sane) ==
  TablesClosed /\ (sane => CopyServes) /\ \A t \in Threads : Deletes(t)

FaithfulInv == MapInvariant(FALSE) /\ (~stale => MapInvariant(TRUE))

-----------------------------------------------------------------------------
(* A step of one thread that starts or ends no compaction.                  *)
Beside(t) == /\ Up /\ Up'
             /\ \A u \in Threads \ {t} :
                  pc'[u] = pc[u] /\ arg'[u] = arg[u] /\ work'[u] = work[u]
             /\ Compacts(t)' <=> Compacts(t)

(* What a thread beside the others has to show for the table to serve the   *)
(* map still.                                                               *)
LEMMA ServedBy ==
  ASSUME CompactsAlone, Shape, NEW t \in Threads, Beside(t), Served,
         ~Compacts(t) /\ Serves(toc, past) => Serves(toc', past'),
         Compacts(t) /\ Restores(t) => Restores(t)'
  PROVE  Served'
<1>1. \A u \in Threads : Compacts(u) => u = t
  BY DEF Shape, CompactsAlone
<1>2. \A u \in Threads : Compacts(u)' <=> Compacts(u)
  BY DEF Beside, Compacts
<1>3. CASE Compacts(t)
  <2>1. Restores(t)'
    BY <1>3 DEF Served, Beside
  <2> QED BY <1>1, <1>2, <1>3, <2>1 DEF Served
<1>4. CASE ~Compacts(t)
  <2>1. \A u \in Threads : ~Compacts(u) /\ ~Compacts(u)'
    BY <1>1, <1>2, <1>4
  <2>2. Serves(toc', past')
    BY <1>4, <2>1 DEF Served, Beside
  <2> QED BY <2>1, <2>2 DEF Served
<1> QED BY <1>3, <1>4

(* The file keeps its footers and gets no new one.                          *)
SameFooters == /\ Len(log) <= Len(log')
               /\ Footers(log') = Footers(log)
               /\ \A i \in Footers(log) : log'[i] = log[i]
               /\ durable <= durable' /\ durable' \in Int

Critical == Taking \union {"checkpoint_sync", "compact_truncate"}

(* A step that no checkpoint and no compaction takes notice of.             *)
Calm(t) == /\ Beside(t) /\ copy' = copy /\ SameFooters
           /\ pc[t] \notin Critical \union {"checkpoint_toc"}
           /\ pc'[t] \notin Critical
           /\ Deletes(t)'

(* The types of what a step reads.                                          *)
LEMMA TypedFile ==
  ASSUME Shape
  PROVE  /\ log \in Seq(Block) /\ Len(log) \in Nat /\ DOMAIN log = 1 .. Len(log)
         /\ toc \in Seq(EntryType) /\ past \in Pasts /\ durable \in Nat
         /\ \A i \in Footers(log) : /\ i \in 1 .. Len(log) /\ log[i] \in Block
                                    /\ log[i].toc \in Seq(EntryType)
                                    /\ log[i].tocOffset \in Nat
                                    /\ log[i].past \in Pasts
         /\ pc \in [Threads -> Points] /\ arg \in [Threads -> ArgType]
         /\ work = [t \in Threads |-> work[t]]
         /\ \A t \in Threads : arg[t] \in ArgType /\ arg[t].off \in Nat
<1>1. log \in Seq(Block) /\ Len(log) \in Nat /\ DOMAIN log = 1 .. Len(log)
  BY DEF Shape, Types
<1>2. ASSUME NEW i \in Footers(log)
      PROVE  /\ i \in 1 .. Len(log) /\ log[i] \in Block
             /\ log[i].toc \in Seq(EntryType)
             /\ log[i].tocOffset \in Nat
             /\ log[i].past \in Pasts
  <2>1. i \in 1 .. Len(log) /\ log[i].kind = "checkpoint" /\ log[i] \in Block
    BY <1>1 DEF Footers
  <2> QED BY <2>1 DEF Block
<1>3. \A t \in Threads : arg[t] \in ArgType /\ arg[t].off \in Nat
  BY DEF Shape, Types, ArgType
<1> QED BY <1>1, <1>2, <1>3 DEF Shape, Types, Fits

(* A step that leaves the footers and the checkpoints being made alone      *)
(* keeps the invariant, if it keeps the table right.                        *)
LEMMA CalmStep ==
  ASSUME CompactsAlone, Shape, NEW sane, MapInvariant(sane),
         NEW t \in Threads, Calm(t), Closed(toc'),
         ~Compacts(t) /\ Serves(toc, past) => Serves(toc', past'),
         Compacts(t) /\ Restores(t) => Restores(t)'
  PROVE  MapInvariant(sane)'
<1>1. TablesClosed'
  <2>1. BlocksClosed'
    BY DEF MapInvariant, TablesClosed, BlocksClosed, Calm, SameFooters
  <2>2. ASSUME NEW u \in Threads, pc'[u] \in Taking PROVE Closed(arg'[u].toc)
    BY <2>2 DEF MapInvariant, TablesClosed, Calm, Beside, Critical
  <2> QED BY <2>1, <2>2 DEF TablesClosed
<1>2. \A u \in Threads : Deletes(u)'
  BY DEF MapInvariant, Calm, Beside, Deletes, Compacts
<1>3. sane /\ copy # "lost" => Served'
  BY ServedBy DEF MapInvariant, CopyServes, Calm
<1>4. ASSUME IsWhole PROVE IsWhole'
  <2>1. PICK n \in 0 .. Len(log) : ServesFrom(n)
    BY <1>4 DEF IsWhole
  <2>2. n \in 0 .. Len(log') /\ n <= durable'
    BY <2>1, TypedFile DEF ServesFrom, Calm, SameFooters
  <2>3. ASSUME NEW u \in Threads
        PROVE  /\ pc'[u] = "checkpoint_append" => arg'[u].off + 1 >= n
               /\ pc'[u] \in Taking => Serves(arg'[u].toc, arg'[u].past)
    BY <2>1 DEF ServesFrom, Calm, Beside, Critical, Taking
  <2>4. ServesFrom(n)'
    BY <2>1, <2>2, <2>3 DEF ServesFrom, Calm, SameFooters
  <2>5. \A u \in Threads : Compacts(u)' => pc'[u] = "compact_truncate"
    BY <1>4 DEF IsWhole, Calm, Beside, Critical, Compacts
  <2> QED BY <2>2, <2>4, <2>5 DEF IsWhole
<1>5. ASSUME IsRebuilding PROVE IsRebuilding'
  BY <1>5 DEF IsRebuilding, Flushing, Calm, Beside, Critical, Taking
<1> QED BY <1>1, <1>2, <1>3, <1>4, <1>5 DEF MapInvariant, CopyServes, Calm

-----------------------------------------------------------------------------
(* The steps of put, delete, get and flush are of one thread.               *)
LEMMA SingleBeside ==
  ASSUME Shape, NEW t \in Threads, SingleStep(t)
  PROVE  /\ Beside(t) /\ work' = work
         /\ \E label \in Labels : pc' = [pc EXCEPT ![t] = label]
         /\ pc[t] # "checkpoint_sync" => copy' = copy
<1>1. Put(t) \/ TakeCheckpoint(t) \/ Delete(t) \/ Get(t)
  BY DEF SingleStep
<1>2. /\ Up /\ Up'
      /\ arg' = arg \/ \E new : arg' = [arg EXCEPT ![t] = new]
      /\ \E label \in Labels : pc' = [pc EXCEPT ![t] = label]
  BY <1>1, SingleAppends, SingleMoves
<1>3. work' = work /\ (pc[t] # "checkpoint_sync" => copy' = copy)
  BY DEF SingleStep, Rewrites
<1>4. \A u \in Threads \ {t} : pc'[u] = pc[u] /\ arg'[u] = arg[u]
  BY <1>2, TypedFile
<1> QED BY <1>2, <1>3, <1>4 DEF Beside, Compacts

(* A step that leaves the table of contents and its history alone.          *)
Quietly(t) == /\ Calm(t) /\ toc' = toc /\ past' = past /\ work' = work
              /\ Compacts(t) => /\ pc[t] \in Putting <=> pc'[t] \in Putting
                                /\ pc'[t] \in Putting => /\ arg'[t].key = arg[t].key
                                                         /\ arg'[t].value = arg[t].value
                                /\ "compact_forget" \notin {pc[t], pc'[t]}

(* So does a step that leaves the table of contents alone.                  *)
LEMMA QuietStep ==
  ASSUME CompactsAlone, Shape, NEW sane, MapInvariant(sane), NEW t \in Threads, Quietly(t)
  PROVE  MapInvariant(sane)'
<1>1. Closed(toc')
  BY DEF MapInvariant, TablesClosed, Quietly
<1>2. ~Compacts(t) /\ Serves(toc, past) => Serves(toc', past')
  BY DEF Quietly, Serves
<1>3. ASSUME Compacts(t), Restores(t) PROVE Restores(t)'
  <2>1. Rebuilt(t)' = Rebuilt(t)
    BY <1>3 DEF Rebuilt, Quietly, Calm, Critical, Putting, Mid
  <2> QED BY <1>3, <2>1 DEF Restores, Quietly
<1> QED BY <1>1, <1>2, <1>3, CalmStep DEF Quietly

(* A file left alone keeps its footers.                                     *)
LEMMA FileAlone ==
  ASSUME Shape, log' = log, durable' = durable
  PROVE  SameFooters
BY TypedFile DEF SameFooters

(* A chunk at the file's end is no footer.                                  *)
LEMMA ChunksAreNoFooters ==
  ASSUME Shape, NEW n \in Nat, NEW f, log' = log \o [i \in 1 .. n |-> Chunk(f[i])],
         durable' = durable
  PROVE  SameFooters
<1> DEFINE s == [i \in 1 .. n |-> Chunk(f[i])]
           S == {s[i] : i \in 1 .. n} \union Block
           m == Len(log)
<1>1. \A i \in 1 .. n : s[i].kind = "chunk"
  BY DEF Chunk
<1>2. s \in [1 .. n -> S] /\ log' = log \o s
  OBVIOUS
<1>3. log \in Seq(S) /\ m \in Nat /\ DOMAIN log = 1 .. m
  BY TypedFile
<1> HIDE DEF s, S
<1>4. s \in Seq(S) /\ Len(s) = n
  BY <1>2
<1>5. /\ DOMAIN log' = 1 .. m + n /\ Len(log') = m + n
      /\ \A i \in 1 .. m : log'[i] = log[i]
      /\ \A i \in 1 .. n : log'[m + i] = s[i]
  <2>1. log' \in Seq(S) /\ Len(log') = m + n
    <3>1. log \o s \in Seq(S) /\ Len(log \o s) = Len(log) + Len(s)
      BY <1>3, <1>4, ConcatProperties
    <3> QED BY <1>2, <1>4, <3>1
  <2>2. \A i \in 1 .. m : log'[i] = log[i]
    BY <1>2, <1>3, <1>4
  <2>3. ASSUME NEW i \in 1 .. n PROVE log'[m + i] = s[i]
    <3>1. m + i \in 1 .. m + n /\ ~(m + i <= m) /\ (m + i) - m = i
      BY <1>3
    <3>2. (log \o s)[m + i] = s[(m + i) - m]
      BY <1>3, <1>4, <3>1, ConcatProperties
    <3> QED BY <1>2, <3>1, <3>2
  <2> QED BY <2>1, <2>2, <2>3
<1> HIDE DEF m
<1>6. ASSUME NEW i \in 1 .. m + n, i \notin 1 .. m PROVE log'[i].kind = "chunk"
  <2>1. i - m \in 1 .. n /\ m + (i - m) = i
    BY <1>3, <1>6
  <2> QED BY <1>1, <1>5, <2>1
<1>7. Footers(log') = Footers(log)
  <2>1. \A i \in 1 .. m : i \in 1 .. m + n
    BY <1>3
  <2>2. ASSUME NEW i \in 1 .. m + n, i \notin 1 .. m PROVE log'[i].kind # "checkpoint"
    <3>1. log'[i].kind = "chunk"
      BY <1>6, <2>2
    <3> QED BY <3>1
  <2> QED BY <1>3, <1>5, <2>1, <2>2 DEF Footers
<1>8. m <= m + n /\ \A i \in Footers(log) : i \in 1 .. m
  BY <1>3 DEF Footers
<1>9. durable <= durable' /\ durable' \in Int
  BY TypedFile
<1> QED BY <1>5, <1>7, <1>8, <1>9 DEF SameFooters, m

(* The steps of a put up to the one that writes the table of contents.      *)
LEMMA PutQuiet ==
  ASSUME Shape, NEW t \in Threads, SingleStep(t),
         \/ PutBegin(t) \/ PutLookup(t) \/ PutAddRef(t) \/ PutAppend(t) \/ PutContains(t)
         \/ PutInsert(t) \/ PutRecord(t) \/ PutIndex(t) \/ PutChain(t)
         \/ PutShouldCheckpoint(t)
  PROVE  Quietly(t)
<1>0. /\ pc \in [Threads -> Points] /\ arg \in [Threads -> ArgType] /\ arg[t] \in ArgType
      /\ Beside(t) /\ work' = work
      /\ pc[t] # "checkpoint_sync" => copy' = copy
      /\ pc[t] = "idle" => ~Compacts(t)
      /\ log' = log /\ durable' = durable => SameFooters
  <2>1. pc[t] = "idle" => work[t] = NoWork
    BY DEF SingleStep
  <2> QED BY <2>1, SingleBeside, TypedFile, FileAlone DEF Compacts, NoWork
<1> USE DEF Quietly, Calm, Critical, Taking, Putting, Mid, Deletes, Deleting, At, Goto, Set,
            Return, disk, memory, history
<1>1. CASE PutBegin(t)
  BY <1>0, <1>1 DEF PutBegin
<1>2. CASE PutLookup(t)
  BY <1>0, <1>2 DEF PutLookup, ArgType
<1>3. CASE PutAddRef(t)
  BY <1>0, <1>3 DEF PutAddRef, NextSegment, WithRef, ArgType
<1>4. CASE PutAppend(t)
  <2> DEFINE f == [i \in 1 .. 1 |-> Segment(t)]
  <2>1. log' = log \o [i \in 1 .. 1 |-> Chunk(f[i])]
    <3>1. log \in Seq(Block) /\ log' = Append(log, Chunk(Segment(t)))
      BY <1>4, TypedFile DEF PutAppend
    <3>2. Append(log, Chunk(Segment(t))) = log \o <<Chunk(Segment(t))>>
      BY <3>1
    <3>3. <<Chunk(Segment(t))>> = [i \in 1 .. 1 |-> Chunk(f[i])]
      OBVIOUS
    <3> QED BY <3>1, <3>2, <3>3
  <2>2. durable' = durable /\ 1 \in Nat
    BY <1>4 DEF PutAppend
  <2> HIDE DEF f
  <2>3. SameFooters
    BY <2>1, <2>2, ChunksAreNoFooters
  <2> QED BY <1>0, <1>4, <2>3 DEF PutAppend, ArgType
<1>5. CASE PutContains(t)
  BY <1>0, <1>5 DEF PutContains
<1>6. CASE PutInsert(t)
  BY <1>0, <1>6 DEF PutInsert
<1>7. CASE PutRecord(t)
  BY <1>0, <1>7 DEF PutRecord, NextSegment, WithRef, ArgType
<1>8. CASE PutIndex(t)
  BY <1>0, <1>8 DEF PutIndex
<1>9. CASE PutChain(t)
  BY <1>0, <1>9 DEF PutChain
<1>10. CASE PutShouldCheckpoint(t)
  BY <1>0, <1>10 DEF PutShouldCheckpoint
<1> QED BY <1>1, <1>2, <1>3, <1>4, <1>5, <1>6, <1>7, <1>8, <1>9, <1>10

(* A checkpoint up to its reading the table, the last sync, a delete up to  *)
(* its tombstones, and get.                                                 *)
LEMMA OtherQuiet ==
  ASSUME Shape, NEW t \in Threads, SingleStep(t), NEW sane, MapInvariant(sane),
         \/ CheckpointBegin(t) \/ CheckpointReset(t) \/ LastSync(t)
         \/ DeleteBegin(t) \/ DeleteChain(t) \/ Get(t)
  PROVE  Quietly(t)
<1>0. /\ pc \in [Threads -> Points] /\ arg \in [Threads -> ArgType] /\ arg[t] \in ArgType
      /\ Beside(t) /\ work' = work
      /\ pc[t] # "checkpoint_sync" => copy' = copy
      /\ pc[t] = "idle" => ~Compacts(t)
      /\ log' = log /\ durable' = durable => SameFooters
      /\ Deletes(t)
  <2>1. pc[t] = "idle" => work[t] = NoWork
    BY DEF SingleStep
  <2> QED BY <2>1, SingleBeside, TypedFile, FileAlone DEF Compacts, NoWork, MapInvariant
<1> USE DEF Quietly, Calm, Critical, Taking, Putting, Mid, Deletes, Deleting, At, Goto, Set,
            Return, disk, memory, history
<1>1. CASE CheckpointBegin(t)
  BY <1>0, <1>1 DEF CheckpointBegin
<1>2. CASE CheckpointReset(t)
  BY <1>0, <1>2 DEF CheckpointReset
<1>3. CASE LastSync(t)
  <2>1. SameFooters
    BY <1>3, TypedFile DEF LastSync, SyncedFrom, SameFooters
  <2> QED BY <1>0, <1>3, <2>1 DEF LastSync
<1>4. CASE DeleteBegin(t)
  <2>1. PICK k \in Key :
          arg' = [arg EXCEPT ![t] = [IdleArg EXCEPT !.call = "delete", !.key = k]]
    BY <1>4 DEF DeleteBegin
  <2>2. arg'[t].key = k
    BY <1>0, <2>1 DEF IdleArg
  <2>3. Deletes(t)'
    BY <1>0, <1>4, <2>2 DEF DeleteBegin, Compacts
  <2> QED BY <1>0, <1>4, <2>3 DEF DeleteBegin
<1>5. CASE DeleteChain(t)
  <2>1. Deletes(t)'
    BY <1>0, <1>5 DEF DeleteChain, Compacts
  <2> QED BY <1>0, <1>5, <2>1 DEF DeleteChain
<1>6. CASE GetLookup(t)
  BY <1>0, <1>6 DEF GetLookup
<1>7. CASE GetRead(t)
  BY <1>0, <1>7 DEF GetRead
<1> QED BY <1>1, <1>2, <1>3, <1>4, <1>5, <1>6, <1>7 DEF Get

-----------------------------------------------------------------------------
(* The newest map of a history.                                             *)
LEMMA LastAppended ==
  ASSUME Shape, NEW x, past' = Append(past, x)
  PROVE  Last(past') = x
<1> DEFINE S == Map \union {x}
<1>1. past \in Seq(S)
  BY TypedFile DEF Pasts
<1> HIDE DEF S
<1>2. Len(past') = Len(past) + 1 /\ past'[Len(past) + 1] = x
  BY <1>1
<1> QED BY <1>2 DEF Last

(* put_tensor ends in the table of contents: the key has its new value.     *)
LEMMA PutTocFaithful ==
  ASSUME CompactsAlone, Shape, NEW sane, MapInvariant(sane),
         NEW t \in Threads, SingleStep(t), PutToc(t)
  PROVE  MapInvariant(sane)'
<1> DEFINE k == arg[t].key
           v == arg[t].value
           r == arg[t].refs
<1>0. /\ pc \in [Threads -> Points] /\ pc[t] = "put_toc"
      /\ pc' = [pc EXCEPT ![t] = "put_should_checkpoint"]
      /\ toc' = Append(toc, NewEntry(k, v, r))
      /\ past' = Append(past, [Last(past) EXCEPT ![k] = v])
      /\ SameFooters
  BY TypedFile, FileAlone DEF PutToc, At, Goto, Remember, Last, disk
<1>1. Beside(t) /\ copy' = copy /\ ~Compacts(t)
  BY <1>0, SingleBeside DEF SingleStep, Compacts, NoWork
<1>2. k \in Key /\ v \in Contents /\ r \in Seq(Nat) /\ toc \in Seq(EntryType)
  BY <1>0, TypedFile DEF Shape, Complete, ArgType
<1> HIDE DEF k, v, r
<1>3. View(toc') = [View(toc) EXCEPT ![k] = v] /\ Closed(toc')
  BY <1>0, <1>2, PutView, ClosedPut DEF MapInvariant, TablesClosed
<1>4. Last(past') = [Last(past) EXCEPT ![k] = v]
  BY <1>0, LastAppended
<1>5. Calm(t)
  BY <1>0, <1>1 DEF Calm, Critical, Taking, Deletes, Deleting
<1> QED BY <1>1, <1>3, <1>4, <1>5, CalmStep DEF Serves

(* delete ends there too: the key is gone from the map.                     *)
LEMMA DeleteTocFaithful ==
  ASSUME CompactsAlone, Shape, NEW sane, MapInvariant(sane),
         NEW t \in Threads, SingleStep(t), DeleteToc(t)
  PROVE  MapInvariant(sane)'
<1> DEFINE k == arg[t].key
<1>0. /\ pc \in [Threads -> Points] /\ pc[t] = "delete_toc"
      /\ pc' = [pc EXCEPT ![t] = "idle"]
      /\ toc' = Tombstoned(toc, k)
      /\ past' = Append(past, [Last(past) EXCEPT ![k] = Absent])
      /\ SameFooters
  BY TypedFile, FileAlone DEF DeleteToc, At, Goto, Return, Remember, Last, disk
<1>1. Beside(t) /\ copy' = copy /\ ~Compacts(t) /\ k \in Key
  BY <1>0, SingleBeside DEF MapInvariant, Deletes, Deleting
<1>2. toc \in Seq(EntryType)
  BY TypedFile
<1> HIDE DEF k
<1>3. View(toc') = [View(toc) EXCEPT ![k] = Absent] /\ Closed(toc')
  BY <1>0, <1>1, <1>2, DeleteView, ClosedDelete DEF MapInvariant, TablesClosed
<1>4. Last(past') = [Last(past) EXCEPT ![k] = Absent]
  BY <1>0, LastAppended
<1>5. Calm(t)
  BY <1>0, <1>1 DEF Calm, Critical, Taking, Deletes, Deleting
<1> QED BY <1>1, <1>3, <1>4, <1>5, CalmStep DEF Serves

-----------------------------------------------------------------------------
(* A step of a batch is of one thread and starts no checkpoint.             *)
LEMMA BatchBeside ==
  ASSUME Shape, NEW t \in Threads, Batch(t)
  PROVE  /\ Beside(t) /\ ~Compacts(t) /\ copy' = copy
         /\ pc[t] \notin Critical \union {"checkpoint_toc"}
         /\ pc'[t] \notin Critical \union Deleting
<1>0. pc \in [Threads -> Points] /\ arg \in [Threads -> ArgType]
  BY TypedFile
<1>1. /\ Up /\ Up' /\ copy' = copy
      /\ (arg' = arg \/ \E new : arg' = [arg EXCEPT ![t] = new])
      /\ (pc' = pc \/ \E label \in Gathering \union Publishing \union {"put_should_checkpoint"} :
                       pc' = [pc EXCEPT ![t] = label])
      /\ (pc[t] \in Gathering \union Publishing \/ (pc[t] = "idle" /\ work[t] = NoWork))
  <2> USE DEF OnlyWork, At, Up, Goto, Set, Gathering, Publishing
  <2>1. CASE BatchBegin(t)
    BY <2>1 DEF BatchBegin
  <2>2. CASE BatchLookup(t)
    BY <2>2 DEF BatchLookup
  <2>3. CASE BatchAddRef(t)
    BY <2>3 DEF BatchAddRef
  <2>4. CASE BatchAppend(t)
    BY <2>4 DEF BatchAppend
  <2>5. CASE BatchContains(t) \/ BatchInsert(t)
    BY <2>5 DEF BatchContains, BatchInsert
  <2>6. CASE BatchRecord(t)
    BY <2>6 DEF BatchRecord
  <2>7. CASE BatchIndex(t)
    BY <2>7 DEF BatchIndex
  <2>8. CASE BatchChain(t)
    BY <2>8 DEF BatchChain
  <2>9. CASE BatchToc(t)
    BY <2>9 DEF BatchToc
  <2> QED BY <2>1, <2>2, <2>3, <2>4, <2>5, <2>6, <2>7, <2>8, <2>9 DEF Batch
<1>2. ~Compacts(t)
  BY <1>1 DEF Shape, Fits, PlaceFits, Compacts, NoWork
<1>3. ~Compacts(t)' /\ \A u \in Threads \ {t} : work'[u] = work[u]
  <2>1. PICK w : work' = [work EXCEPT ![t] = w] /\ (w.call = "compact" => Compacts(t))
    BY BatchCalls DEF Shape
  <2>2. work = [u \in Threads |-> work[u]]
    BY TypedFile
  <2> QED BY <1>2, <2>1, <2>2 DEF Compacts
<1>4. \A u \in Threads \ {t} : pc'[u] = pc[u] /\ arg'[u] = arg[u]
  BY <1>0, <1>1
<1>5. /\ pc[t] \in Gathering \union Publishing \union {"idle"}
      /\ pc'[t] \in Gathering \union Publishing \union {"idle", "put_should_checkpoint"}
  BY <1>0, <1>1
<1>6. /\ pc[t] \notin Critical \union {"checkpoint_toc"}
      /\ pc'[t] \notin Critical \union Deleting
  BY <1>5 DEF Gathering, Publishing, Critical, Taking, Deleting
<1> QED BY <1>1, <1>2, <1>3, <1>4, <1>6 DEF Beside

(* The entries that put_batch writes.                                       *)
LEMMA BatchEntries ==
  ASSUME Shape, Shape', NEW t \in Threads, BatchToc(t)
  PROVE  /\ Len(work[t].items) \in Nat
         /\ DOMAIN work[t].items = 1 .. Len(work[t].items)
         /\ \E es \in Seq(EntryType) :
              /\ toc' = toc \o es
              /\ es = [i \in 1 .. Len(work[t].items) |->
                        NewEntry(work[t].items[i].key, work[t].items[i].value,
                                 work[t].items[i].refs)]
<1> DEFINE items == work[t].items
           n == Len(items)
           es == [i \in 1 .. n |-> NewEntry(items[i].key, items[i].value, items[i].refs)]
<1>1. WorkFits(work[t])
  BY DEF Shape, Fits
<1>2. n \in Nat /\ DOMAIN items = 1 .. n
  BY <1>1 DEF WorkFits
<1>3. toc' = toc \o es
  BY <1>2 DEF BatchToc
<1>4. toc \in Seq(EntryType) /\ toc' \in Seq(EntryType)
  BY DEF Shape, Types
<1>5. es \in Seq(EntryType)
  <2> DEFINE S == EntryType \union {es[i] : i \in 1 .. n}
  <2>1. es \in [1 .. n -> S]
    OBVIOUS
  <2>2. toc \in Seq(S) /\ DOMAIN es = 1 .. n
    BY <1>4
  <2> HIDE DEF S, es, n
  <2>3. es \in Seq(S) /\ Len(es) = n
    BY <1>2, <2>1
  <2>4. Len(toc') = Len(toc) + n
    BY <1>3, <2>2, <2>3, ConcatProperties
  <2>5. ASSUME NEW i \in 1 .. n PROVE es[i] \in EntryType
    <3>1. /\ Len(toc) + i \in 1 .. Len(toc) + n /\ ~(Len(toc) + i <= Len(toc))
          /\ (Len(toc) + i) - Len(toc) = i
      BY <1>2, <1>4
    <3>2. (toc \o es)[Len(toc) + i] = es[(Len(toc) + i) - Len(toc)]
      BY <2>2, <2>3, <3>1, ConcatProperties
    <3>3. toc'[Len(toc) + i] \in EntryType
      BY <1>4, <2>4, <3>1
    <3> QED BY <1>3, <3>1, <3>2, <3>3
  <2>6. es \in [1 .. n -> EntryType]
    BY <2>1, <2>5
  <2> QED BY <1>2, <2>6
<1> QED BY <1>2, <1>3, <1>5

(* put_batch writes all its entries in one extension of the table.          *)
LEMMA BatchFaithful ==
  ASSUME CompactsAlone, Shape, Shape', NEW sane, MapInvariant(sane),
         NEW t \in Threads, Batch(t)
  PROVE  MapInvariant(sane)'
<1>0. /\ Beside(t) /\ ~Compacts(t) /\ copy' = copy
      /\ pc[t] \notin Critical \union {"checkpoint_toc"}
      /\ pc'[t] \notin Critical \union Deleting
  BY BatchBeside
<1>1. ASSUME SameFooters PROVE Calm(t)
  BY <1>0, <1>1 DEF Calm, Deletes
<1>2. ASSUME SameFooters, toc' = toc, past' = past PROVE MapInvariant(sane)'
  <2>1. Closed(toc')
    BY <1>2 DEF MapInvariant, TablesClosed
  <2> QED BY <1>0, <1>1, <1>2, <2>1, CalmStep DEF Serves
<1>3. CASE BatchAppend(t)
  <2> DEFINE n == Len(work[t].pending)
             f == [i \in 1 .. n |-> HashAt(t, work[t].pending[i])]
  <2>1. work[t].call = "put_batch"
    BY <1>3 DEF BatchAppend, At, Shape, Fits, PlaceFits, Gathering
  <2>2. work[t].pending \in Seq(Slots(work[t].items))
    BY <2>1 DEF Shape, Fits, WorkFits, BatchFits
  <2>3. n \in Nat /\ DOMAIN work[t].pending = 1 .. n
    BY <2>2
  <2>4. log' = log \o [i \in 1 .. n |-> Chunk(f[i])] /\ durable' = durable
    BY <1>3, <2>3 DEF BatchAppend
  <2> HIDE DEF n, f
  <2>5. SameFooters
    BY <2>3, <2>4, ChunksAreNoFooters
  <2> QED BY <1>2, <1>3, <2>5 DEF BatchAppend, memory, history
<1>4. CASE BatchToc(t)
  <2> DEFINE items == work[t].items
             n == Len(items)
  <2>2. n \in Nat /\ DOMAIN items = 1 .. n
    BY <1>4, BatchEntries
  <2>3. /\ past' = Append(past, Overwritten(Last(past), items))
        /\ log' = log /\ durable' = durable
    BY <1>4 DEF BatchToc, Last, disk
  <2>4. toc \in Seq(EntryType)
    BY DEF Shape, Types
  <2>5. PICK es \in Seq(EntryType) :
          /\ toc' = toc \o es
          /\ es = [i \in 1 .. n |-> NewEntry(items[i].key, items[i].value, items[i].refs)]
    BY <1>4, BatchEntries
  <2> HIDE DEF n, items
  <2>7. View(toc') = Overwritten(View(toc), items) /\ Closed(toc')
    BY <2>2, <2>4, <2>5, BatchView DEF MapInvariant, TablesClosed
  <2>8. Last(past') = Overwritten(Last(past), items)
    BY <2>3, LastAppended
  <2>9. Calm(t)
    BY <1>1, <2>3, FileAlone
  <2> QED BY <1>0, <2>7, <2>8, <2>9, CalmStep DEF Serves
<1>5. CASE BatchBegin(t) \/ BatchLookup(t) \/ BatchAddRef(t) \/ BatchContains(t)
           \/ BatchInsert(t) \/ BatchRecord(t) \/ BatchIndex(t) \/ BatchChain(t)
  <2>1. log' = log /\ durable' = durable /\ toc' = toc /\ past' = past
    BY <1>5 DEF BatchBegin, BatchLookup, BatchAddRef, BatchContains, BatchInsert,
                BatchRecord,
                BatchIndex, BatchChain, disk, memory, history
  <2> QED BY <1>2, <2>1, FileAlone
<1> QED BY <1>3, <1>4, <1>5 DEF Batch

-----------------------------------------------------------------------------
(* A compaction takes its next tensor: the map of what is put and what is   *)
(* left to put stays the same.                                              *)
LEMMA CompactPutFaithful ==
  ASSUME CompactsAlone, Shape, NEW sane, MapInvariant(sane),
         NEW t \in Threads, CompactPut(t)
  PROVE  MapInvariant(sane)'
<1> DEFINE items == work[t].items
           item == Head(items)
           new == [IdleArg EXCEPT !.call = "put", !.key = item.key, !.value = item.value]
           label == IF item.value = <<>> THEN "put_index" ELSE "put_lookup"
           w == [work[t] EXCEPT !.items = Tail(@)]
<1>0. /\ Up /\ Up' /\ pc[t] = "idle" /\ Compacts(t) /\ items # <<>>
      /\ pc' = [pc EXCEPT ![t] = label] /\ arg' = [arg EXCEPT ![t] = new]
      /\ work' = [work EXCEPT ![t] = w] /\ copy' = copy
      /\ toc' = toc /\ past' = past /\ SameFooters
  BY FileAlone DEF CompactPut, At, Up, Goto, Set, Work, OnlyWork, Compacts, disk, memory,
                   history
<1>1. /\ pc \in [Threads -> Points] /\ arg \in [Threads -> ArgType]
      /\ work = [u \in Threads |-> work[u]] /\ WorkFits(work[t])
  BY TypedFile DEF Shape, Fits
<1>2. w.call = "compact" /\ w.items = Tail(items)
  BY <1>0, <1>1 DEF WorkFits, WorkAs, Compacts
<1>3. items \in Seq([key : Key, value : Contents])
  BY <1>0, <1>1 DEF WorkFits, Compacts
<1>4. item.key \in Key
  <2> DEFINE T == [key : Key, value : Contents]
  <2> HIDE DEF T, items
  <2>1. Head(items) \in T
    BY <1>0, <1>3, HeadTailProperties DEF T
  <2> QED BY <2>1 DEF T
<1>5. new.key = item.key /\ new.value = item.value
  BY DEF IdleArg
<1>6. label \in {"put_index", "put_lookup"}
  OBVIOUS
<1> HIDE DEF new, label, w
<1>7. pc'[t] = label /\ arg'[t] = new /\ work'[t] = w
  BY <1>0, <1>1
<1>8. Beside(t)
  BY <1>0, <1>1, <1>2, <1>7 DEF Beside, Compacts
<1>9. Calm(t)
  BY <1>0, <1>6, <1>7, <1>8 DEF Calm, Critical, Taking, Deletes, Deleting
<1>10. ASSUME Restores(t) PROVE Restores(t)'
  <2>1. Rebuilt(t) = View(toc) /\ Overwritten(View(toc), items) = Last(past)
    BY <1>0, <1>10 DEF Restores, Rebuilt, Putting, Mid
  <2>2. Rebuilt(t)' = [View(toc) EXCEPT ![item.key] = item.value]
    BY <1>0, <1>5, <1>6, <1>7 DEF Rebuilt, Putting, Mid
  <2>3. View(toc) = [k \in Key |-> View(toc)[k]]
    BY DEF View
  <2> DEFINE m == View(toc)
  <2> HIDE DEF m
  <2>4. Overwritten(m, items)
          = Overwritten([m EXCEPT ![item.key] = item.value], Tail(items))
    BY <1>0, <1>3, <1>4, <2>3, OverwrittenNext DEF m
  <2> QED BY <1>0, <1>2, <1>7, <2>1, <2>2, <2>4 DEF Restores, m
<1>11. Closed(toc')
  BY <1>0 DEF MapInvariant, TablesClosed
<1> QED BY <1>0, <1>9, <1>10, <1>11, CalmStep

(* The tensor has its entry.                                                *)
LEMMA CompactTocFaithful ==
  ASSUME CompactsAlone, Shape, NEW sane, MapInvariant(sane),
         NEW t \in Threads, CompactToc(t)
  PROVE  MapInvariant(sane)'
<1> DEFINE k == arg[t].key
           v == arg[t].value
           r == arg[t].refs
<1>0. /\ Up /\ Up' /\ pc[t] = "put_toc" /\ Compacts(t)
      /\ pc' = [pc EXCEPT ![t] = "put_should_checkpoint"] /\ arg' = arg /\ work' = work
      /\ copy' = copy /\ past' = past /\ SameFooters
      /\ toc' = Append(toc, NewEntry(k, v, r))
  BY FileAlone DEF CompactToc, At, Up, Goto, OnlyWork, Compacts, disk, history
<1>1. k \in Key /\ v \in Contents /\ r \in Seq(Nat) /\ toc \in Seq(EntryType)
      /\ pc \in [Threads -> Points]
  BY <1>0, TypedFile DEF Shape, Complete, ArgType
<1>2. View(toc') = [View(toc) EXCEPT ![k] = v] /\ Closed(toc')
  <2> HIDE DEF k, v, r
  <2>1. Closed(toc)
    BY DEF MapInvariant, TablesClosed
  <2>2. View(Append(toc, NewEntry(k, v, r))) = [View(toc) EXCEPT ![k] = v]
    BY <1>1, PutView
  <2>3. Closed(Append(toc, NewEntry(k, v, r)))
    BY <1>1, <2>1, ClosedPut
  <2> QED BY <1>0, <2>2, <2>3
<1> HIDE DEF r
<1>3. pc'[t] = "put_should_checkpoint"
  BY <1>0, <1>1
<1>4. Calm(t)
  BY <1>0, <1>1, <1>3 DEF Calm, Beside, Compacts, Critical, Taking, Deletes, Deleting
<1>5. Rebuilt(t)' = Rebuilt(t)
  BY <1>0, <1>2, <1>3 DEF Rebuilt, Putting, Mid
<1>6. Restores(t) => Restores(t)'
  BY <1>0, <1>5 DEF Restores
<1> QED BY <1>0, <1>2, <1>4, <1>6, CalmStep

(* The tables are forgotten: all of the map is in the tensors left to put.  *)
LEMMA CompactForgetFaithful ==
  ASSUME CompactsAlone, Shape, NEW sane, MapInvariant(sane),
         NEW t \in Threads, CompactForget(t)
  PROVE  MapInvariant(sane)'
<1>0. /\ Up /\ Up' /\ pc[t] = "compact_forget"
      /\ pc' = [pc EXCEPT ![t] = "idle"] /\ arg' = arg /\ work' = work
      /\ copy' = copy /\ past' = past /\ SameFooters
      /\ toc' = <<>>
  BY FileAlone DEF CompactForget, At, Up, Goto, OnlyWork, disk, history
<1>1. Compacts(t) /\ pc \in [Threads -> Points]
  BY <1>0, TypedFile DEF Shape, Fits, PlaceFits, Compacts
<1>2. View(toc') = Bare /\ Closed(toc')
  BY <1>0, EmptyView DEF Bare, Closed
<1>3. pc'[t] = "idle"
  BY <1>0, <1>1
<1>4. Calm(t)
  BY <1>0, <1>1, <1>3 DEF Calm, Beside, Compacts, Critical, Taking, Deletes, Deleting
<1>5. Rebuilt(t)' = Rebuilt(t)
  BY <1>0, <1>2, <1>3 DEF Rebuilt, Putting, Mid
<1>6. Restores(t) => Restores(t)'
  BY <1>0, <1>5 DEF Restores
<1> QED BY <1>1, <1>2, <1>4, <1>6, CalmStep

-----------------------------------------------------------------------------
(* What a thread knows of its own delete, others do not change.             *)
LEMMA OthersDelete ==
  ASSUME NEW sane, MapInvariant(sane), NEW t \in Threads, Beside(t), Deletes(t)'
  PROVE  \A u \in Threads : Deletes(u)'
BY DEF MapInvariant, Beside, Deletes, Compacts

(* A thread that compacts is alone.                                         *)
LEMMA AloneCompacts ==
  ASSUME CompactsAlone, Shape, NEW t \in Threads
  PROVE  /\ Compacts(t) => \A u \in Threads : u = t
         /\ ~Compacts(t) => /\ \A u \in Threads : ~Compacts(u)
                            /\ Up /\ Served => Serves(toc, past)
<1>1. \A u \in Threads : Compacts(u) => \A x \in Threads : x = u
  BY DEF CompactsAlone, Shape
<1> QED BY <1>1 DEF Served

(* A checkpoint reads the table of contents, which serves the map or is a   *)
(* compaction in the making.                                                *)
LEMMA CheckpointTocFaithful ==
  ASSUME CompactsAlone, Shape, NEW sane, MapInvariant(sane),
         NEW t \in Threads, SingleStep(t),
         CheckpointToc(t)
  PROVE  MapInvariant(sane)'
<1>0. /\ pc[t] = "checkpoint_toc" /\ pc' = [pc EXCEPT ![t] = "checkpoint_len"]
      /\ log' = log /\ durable' = durable /\ toc' = toc /\ past' = past
      /\ arg' = [arg EXCEPT ![t] = [arg[t] EXCEPT !.toc = toc, !.past = past]]
  BY DEF CheckpointToc, At, Goto, Set, disk, memory, history
<1>1. Beside(t) /\ work' = work /\ copy' = copy
  BY <1>0, SingleBeside
<1>2. /\ pc'[t] = "checkpoint_len" /\ arg'[t].toc = toc /\ arg'[t].past = past
      /\ arg'[t].call = arg[t].call
  BY <1>0, TypedFile DEF ArgType
<1>3. TablesClosed'
  BY <1>0, <1>1, <1>2 DEF MapInvariant, TablesClosed, BlocksClosed, Beside
<1>4. \A u \in Threads : Deletes(u)'
  BY <1>1, <1>2, OthersDelete DEF Deletes, Deleting
<1>5. Restores(t)' <=> Restores(t)
  BY <1>0, <1>1, <1>2 DEF Restores, Rebuilt, Putting, Mid
<1>6. ASSUME sane, copy # "lost" PROVE Served /\ Served'
  <2>1. Served
    BY <1>6 DEF MapInvariant, CopyServes
  <2>2. ~Compacts(t) /\ Serves(toc, past) => Serves(toc', past')
    BY <1>0 DEF Serves
  <2> QED BY <1>1, <1>5, <2>1, <2>2, ServedBy
<1>7. ASSUME sane, copy = "whole" PROVE IsWhole'
  <2>1. IsWhole
    BY <1>7 DEF MapInvariant, CopyServes
  <2>2. PICK n \in 0 .. Len(log) : ServesFrom(n)
    BY <2>1 DEF IsWhole
  <2>3. ~Compacts(t)
    BY <1>0, <2>1 DEF IsWhole
  <2>4. (\A u \in Threads : ~Compacts(u)) /\ Serves(toc, past)
    BY <1>1, <1>6, <1>7, <2>3, AloneCompacts DEF Beside
  <2>5. ServesFrom(n)'
    BY <1>0, <1>1, <1>2, <2>2, <2>4 DEF ServesFrom, Beside, Serves
  <2>6. \A u \in Threads : ~Compacts(u)'
    BY <1>1, <2>4 DEF Compacts
  <2> QED BY <1>0, <2>2, <2>5, <2>6 DEF IsWhole
<1>8. ASSUME sane, copy = "rebuilding" PROVE IsRebuilding'
  <2>1. /\ Up /\ \A u \in Threads : u = t
        /\ Compacts(t) \/ Flushing(t)
    BY <1>8 DEF MapInvariant, CopyServes, IsRebuilding
  <2>2. CASE Compacts(t)
    BY <1>1, <1>2, <2>1, <2>2 DEF IsRebuilding, Beside
  <2>3. CASE ~Compacts(t)
    <3>1. Serves(toc, past) /\ arg[t].call = "flush"
      BY <1>6, <1>8, <2>1, <2>3, AloneCompacts DEF Flushing
    <3>2. Serves(arg[t].toc, arg[t].past)'
      BY <1>2, <3>1 DEF Serves
    <3>3. Flushing(t)'
      BY <1>1, <1>2, <2>3, <3>1, <3>2 DEF Flushing, Taking, Beside
    <3> QED BY <1>1, <2>1, <3>3 DEF IsRebuilding, Beside
  <2> QED BY <2>2, <2>3
<1> QED BY <1>1, <1>3, <1>4, <1>6, <1>7, <1>8 DEF MapInvariant, CopyServes

(* It reads the length of the file.                                         *)
LEMMA CheckpointLenFaithful ==
  ASSUME CompactsAlone, Shape, NEW sane, MapInvariant(sane),
         NEW t \in Threads, SingleStep(t),
         CheckpointLen(t)
  PROVE  MapInvariant(sane)'
<1>0. /\ pc[t] = "checkpoint_len" /\ pc' = [pc EXCEPT ![t] = "checkpoint_append"]
      /\ log' = log /\ durable' = durable /\ toc' = toc /\ past' = past
      /\ arg' = [arg EXCEPT ![t] = [arg[t] EXCEPT !.off = Len(log)]]
  BY DEF CheckpointLen, At, Goto, Set, disk, memory, history
<1>1. Beside(t) /\ work' = work /\ copy' = copy
  BY <1>0, SingleBeside
<1>2. /\ pc'[t] = "checkpoint_append"
      /\ arg'[t].toc = arg[t].toc /\ arg'[t].past = arg[t].past
      /\ arg'[t].call = arg[t].call /\ arg'[t].off = Len(log)
  BY <1>0, TypedFile DEF ArgType
<1>3. TablesClosed'
  BY <1>0, <1>1, <1>2 DEF MapInvariant, TablesClosed, BlocksClosed, Beside, Taking
<1>4. \A u \in Threads : Deletes(u)'
  BY <1>1, <1>2, OthersDelete DEF Deletes, Deleting
<1>5. Restores(t)' <=> Restores(t)
  BY <1>0, <1>1, <1>2 DEF Restores, Rebuilt, Putting, Mid
<1>6. ASSUME sane, copy # "lost" PROVE Served'
  <2>1. Served
    BY <1>6 DEF MapInvariant, CopyServes
  <2>2. ~Compacts(t) /\ Serves(toc, past) => Serves(toc', past')
    BY <1>0 DEF Serves
  <2> QED BY <1>1, <1>5, <2>1, <2>2, ServedBy
<1>7. ASSUME sane, copy = "whole" PROVE IsWhole'
  <2>1. IsWhole
    BY <1>7 DEF MapInvariant, CopyServes
  <2>2. PICK n \in 0 .. Len(log) : ServesFrom(n)
    BY <2>1 DEF IsWhole
  <2>3. Len(log) + 1 >= n
    BY TypedFile
  <2>4. ServesFrom(n)'
    BY <1>0, <1>1, <1>2, <2>2, <2>3 DEF ServesFrom, Beside, Serves, Taking
  <2>5. \A u \in Threads : ~Compacts(u)'
    <3>1. ~Compacts(t)
      BY <1>0, <2>1 DEF IsWhole
    <3> QED BY <1>1, <3>1, AloneCompacts DEF Compacts
  <2> QED BY <1>0, <2>2, <2>4, <2>5 DEF IsWhole
<1>8. ASSUME sane, copy = "rebuilding" PROVE IsRebuilding'
  <2>1. /\ Up /\ \A u \in Threads : u = t
        /\ Compacts(t) \/ Flushing(t)
    BY <1>8 DEF MapInvariant, CopyServes, IsRebuilding
  <2>2. CASE Compacts(t)
    BY <1>1, <1>2, <2>1, <2>2 DEF IsRebuilding, Beside
  <2>3. CASE ~Compacts(t)
    <3>1. Serves(arg[t].toc, arg[t].past)' /\ arg[t].call = "flush"
      BY <1>0, <1>2, <2>1, <2>3 DEF Flushing, Serves, Taking
    <3>2. Flushing(t)'
      BY <1>0, <1>1, <1>2, <2>3, <3>1 DEF Flushing, Taking, Beside
    <3> QED BY <1>1, <2>1, <3>2 DEF IsRebuilding, Beside
  <2> QED BY <2>2, <2>3
<1> QED BY <1>1, <1>3, <1>4, <1>6, <1>7, <1>8 DEF MapInvariant, CopyServes

-----------------------------------------------------------------------------
(* An appended checkpoint is the newest footer and spares the others.       *)
LEMMA FooterAppended ==
  ASSUME Shape, NEW b, b.kind = "checkpoint", log' = Append(log, b)
  PROVE  /\ Len(log') = Len(log) + 1 /\ Len(log') \in Footers(log') /\ log'[Len(log')] = b
         /\ \A i \in Footers(log) : i \in Footers(log') /\ log'[i] = log[i]
         /\ \A i \in Footers(log') : i = Len(log') \/ i \in Footers(log)
<1> DEFINE S == Block \union {b}
           m == Len(log)
<1>1. log \in Seq(S) /\ b \in S /\ m \in Nat /\ DOMAIN log = 1 .. m
  BY TypedFile
<1> HIDE DEF S
<1>2. /\ DOMAIN log' = 1 .. m + 1 /\ Len(log') = m + 1 /\ log'[m + 1] = b
      /\ \A i \in 1 .. m : log'[i] = log[i]
  BY <1>1
<1> HIDE DEF m
<1>3. \A i \in 1 .. m + 1 : i = m + 1 \/ i \in 1 .. m
  BY <1>1
<1>4. (\A i \in 1 .. m : i \in 1 .. m + 1) /\ m + 1 \in 1 .. m + 1
  BY <1>1
<1> QED BY <1>1, <1>2, <1>3, <1>4 DEF Footers, m

(* It appends its block.                                                    *)
LEMMA CheckpointAppendFaithful ==
  ASSUME CompactsAlone, Shape, NEW sane, MapInvariant(sane),
         NEW t \in Threads, SingleStep(t),
         CheckpointAppend(t)
  PROVE  MapInvariant(sane)'
<1> DEFINE b == Checkpoint(arg[t].toc, arg[t].off, arg[t].past)
<1>0. /\ pc[t] = "checkpoint_append" /\ pc' = [pc EXCEPT ![t] = "checkpoint_sync"]
      /\ log' = Append(log, b) /\ durable' = durable /\ toc' = toc /\ past' = past
      /\ arg' = [arg EXCEPT ![t] = [arg[t] EXCEPT !.off = Len(log) + 1]]
  BY DEF CheckpointAppend, At, Goto, Set, memory, history
<1>1. Beside(t) /\ work' = work /\ copy' = copy
  BY <1>0, SingleBeside
<1>2. /\ pc'[t] = "checkpoint_sync" /\ arg'[t].off = Len(log) + 1
      /\ arg'[t].call = arg[t].call
  BY <1>0, TypedFile DEF ArgType
<1>3. /\ b.kind = "checkpoint" /\ b.toc = arg[t].toc /\ b.past = arg[t].past
      /\ b.tocOffset = arg[t].off
  BY DEF Checkpoint
<1> HIDE DEF b
<1>4. /\ Len(log') = Len(log) + 1 /\ Len(log') \in Footers(log') /\ log'[Len(log')] = b
      /\ \A i \in Footers(log) : i \in Footers(log') /\ log'[i] = log[i]
      /\ \A i \in Footers(log') : i = Len(log') \/ i \in Footers(log)
  BY <1>0, <1>3, FooterAppended
<1>5. TablesClosed'
  <2>1. BlocksClosed'
    BY <1>0, <1>3, <1>4 DEF MapInvariant, TablesClosed, BlocksClosed, Taking
  <2> QED BY <1>0, <1>1, <1>2, <2>1 DEF MapInvariant, TablesClosed, Beside, Taking
<1>6. \A u \in Threads : Deletes(u)'
  BY <1>1, <1>2, OthersDelete DEF Deletes, Deleting
<1>7. Restores(t)' <=> Restores(t)
  BY <1>0, <1>1, <1>2 DEF Restores, Rebuilt, Putting, Mid
<1>8. ASSUME sane, copy # "lost" PROVE Served'
  <2>1. Served
    BY <1>8 DEF MapInvariant, CopyServes
  <2>2. ~Compacts(t) /\ Serves(toc, past) => Serves(toc', past')
    BY <1>0 DEF Serves
  <2> QED BY <1>1, <1>7, <2>1, <2>2, ServedBy
<1>9. ASSUME sane, copy = "whole" PROVE IsWhole'
  <2>1. IsWhole
    BY <1>9 DEF MapInvariant, CopyServes
  <2>2. PICK n \in 0 .. Len(log) : ServesFrom(n)
    BY <2>1 DEF IsWhole
  <2>3. arg[t].off + 1 >= n /\ Serves(arg[t].toc, arg[t].past)
    BY <1>0, <2>2 DEF ServesFrom, Taking
  <2>4. \A i \in Footers(log') :
          i >= n => log'[i].tocOffset + 1 >= n /\ Serves(log'[i].toc, log'[i].past)
    BY <1>3, <1>4, <2>2, <2>3 DEF ServesFrom
  <2>5. ServesFrom(n)'
    BY <1>0, <1>1, <1>2, <1>4, <2>2, <2>4 DEF ServesFrom, Beside, Serves, Taking
  <2>6. \A u \in Threads : ~Compacts(u)'
    <3>1. ~Compacts(t)
      BY <1>0, <2>1 DEF IsWhole
    <3> QED BY <1>1, <3>1, AloneCompacts DEF Compacts
  <2>7. n \in 0 .. Len(log')
    BY <1>4, <2>2, TypedFile
  <2> QED BY <2>5, <2>6, <2>7 DEF IsWhole
<1>10. ASSUME sane, copy = "rebuilding" PROVE IsRebuilding'
  <2>1. /\ Up /\ \A u \in Threads : u = t
        /\ Compacts(t) \/ Flushing(t)
    BY <1>10 DEF MapInvariant, CopyServes, IsRebuilding
  <2>2. CASE Compacts(t)
    BY <1>1, <1>2, <2>1, <2>2 DEF IsRebuilding, Beside
  <2>3. CASE ~Compacts(t)
    <3>1. /\ Serves(arg[t].toc, arg[t].past) /\ arg[t].call = "flush"
          /\ arg[t].off = Len(log)
      BY <1>0, <2>1, <2>3 DEF Flushing, Taking
    <3>2. Serves(log'[Len(log')].toc, log'[Len(log')].past)
          /\ log'[Len(log')].tocOffset + 1 = Len(log')
      BY <1>3, <1>4, <3>1
    <3>3. Flushing(t)'
      BY <1>1, <1>2, <1>4, <2>3, <3>1, <3>2 DEF Flushing, Beside, Serves
    <3> QED BY <1>1, <2>1, <3>3 DEF IsRebuilding, Beside
  <2> QED BY <2>2, <2>3
<1> QED BY <1>1, <1>5, <1>6, <1>8, <1>9, <1>10 DEF MapInvariant, CopyServes

(* It syncs: a flush at the end of a compaction makes the file whole.       *)
LEMMA CheckpointSyncFaithful ==
  ASSUME CompactsAlone, Shape, NEW sane, MapInvariant(sane),
         NEW t \in Threads, SingleStep(t),
         CheckpointSync(t)
  PROVE  MapInvariant(sane)'
<1>0. /\ pc[t] = "checkpoint_sync" /\ pc' = [pc EXCEPT ![t] = "checkpoint_reset"]
      /\ log' = log /\ toc' = toc /\ past' = past /\ arg' = arg /\ SyncedFrom(arg[t].off)
  BY DEF CheckpointSync, At, Goto, memory
<1>1. Beside(t) /\ work' = work
  BY <1>0, SingleBeside
<1>2. /\ pc'[t] = "checkpoint_reset" /\ durable <= durable' /\ arg[t].off <= durable'
      /\ durable' \in Int
  BY <1>0, TypedFile DEF SyncedFrom
<1>3. copy' = IF copy = "rebuilding" /\ Rewrites(t) THEN "whole" ELSE copy
  BY DEF SingleStep
<1>4. TablesClosed'
  BY <1>0, <1>1, <1>2 DEF MapInvariant, TablesClosed, BlocksClosed, Beside, Taking
<1>5. \A u \in Threads : Deletes(u)'
  BY <1>1, <1>2, OthersDelete DEF Deletes, Deleting
<1>6. Restores(t)' <=> Restores(t)
  BY <1>0, <1>1, <1>2 DEF Restores, Rebuilt, Putting, Mid
<1>7. ASSUME sane, copy # "lost" PROVE Served'
  <2>1. Served
    BY <1>7 DEF MapInvariant, CopyServes
  <2>2. ~Compacts(t) /\ Serves(toc, past) => Serves(toc', past')
    BY <1>0 DEF Serves
  <2> QED BY <1>1, <1>6, <2>1, <2>2, ServedBy
<1>8. ASSUME sane, copy = "whole" PROVE IsWhole'
  <2>1. IsWhole
    BY <1>8 DEF MapInvariant, CopyServes
  <2>2. PICK n \in 0 .. Len(log) : ServesFrom(n)
    BY <2>1 DEF IsWhole
  <2>3. n <= durable'
    BY <1>2, <2>2, TypedFile DEF ServesFrom
  <2>4. ServesFrom(n)'
    BY <1>0, <1>1, <1>2, <2>2, <2>3 DEF ServesFrom, Beside, Serves, Taking
  <2>5. \A u \in Threads : ~Compacts(u)'
    <3>1. ~Compacts(t)
      BY <1>0, <2>1 DEF IsWhole
    <3> QED BY <1>1, <3>1, AloneCompacts DEF Compacts
  <2> QED BY <1>0, <2>2, <2>4, <2>5 DEF IsWhole
<1>9. ASSUME sane, copy = "rebuilding"
      PROVE  (copy' = "rebuilding" /\ IsRebuilding') \/ (copy' = "whole" /\ IsWhole')
  <2>1. /\ Up /\ \A u \in Threads : u = t
        /\ Compacts(t) \/ Flushing(t)
    BY <1>9 DEF MapInvariant, CopyServes, IsRebuilding
  <2>2. CASE Compacts(t)
    <3>1. copy' = "rebuilding"
      BY <1>3, <1>9, <2>2 DEF Rewrites, Compacts
    <3> QED BY <1>1, <1>2, <2>1, <2>2, <3>1 DEF IsRebuilding, Beside
  <2>3. CASE ~Compacts(t)
    <3>0. PICK n \in Nat : n = Len(log)
      BY TypedFile
    <3>1. /\ arg[t].call = "flush" /\ arg[t].off = n /\ n \in Footers(log)
          /\ log[n].tocOffset + 1 = n /\ Serves(log[n].toc, log[n].past)
      BY <1>0, <2>1, <2>3, <3>0 DEF Flushing, Taking
    <3>2. copy' = "whole"
      BY <1>0, <1>3, <1>9, <2>1, <2>3, <3>1 DEF Rewrites, Compacts
    <3>3. \A i \in Footers(log) : i \in 1 .. n
      BY <3>0, TypedFile
    <3>4. \A i \in Footers(log) : i >= n => i = n
      BY <3>3
    <3>5. ServesFrom(n)'
      BY <1>0, <1>2, <2>1, <3>1, <3>3, <3>4 DEF ServesFrom, Serves, Taking
    <3>6. n \in 0 .. n /\ n = Len(log')
      BY <1>0, <3>0
    <3>7. \A u \in Threads : ~Compacts(u)'
      BY <1>1, <2>1, <2>3 DEF Beside
    <3> QED BY <3>2, <3>5, <3>6, <3>7 DEF IsWhole
  <2> QED BY <2>2, <2>3
<1>10. copy \in {"whole", "lost"} => copy' = copy
  BY <1>3
<1>11. sane => CopyServes'
  BY <1>7, <1>8, <1>9, <1>10 DEF MapInvariant, CopyServes
<1> QED BY <1>4, <1>5, <1>11 DEF MapInvariant

-----------------------------------------------------------------------------
(* A compaction reads what the map holds, through references that are       *)
(* intact.                                                                  *)
LEMMA CompactReadFaithful ==
  ASSUME CompactsAlone, Shape, NEW sane, MapInvariant(sane),
         NEW t \in Threads, CompactRead(t),
         NEW intact \in BOOLEAN, sane => intact /\ Sound(intact)
  PROVE  MapInvariant(sane)'
<1>0. /\ Up /\ Up' /\ pc[t] = "idle" /\ work[t] = NoWork /\ "compact" \in BulkOps[t]
      /\ pc' = [pc EXCEPT ![t] = "compact_truncate"]
      /\ work' = [work EXCEPT
                    ![t] = [NoWork EXCEPT !.call = "compact", !.items = LiveTensors]]
      /\ log' = log /\ durable' = durable /\ toc' = toc /\ past' = past /\ arg' = arg
      /\ copy' = copy
  BY DEF CompactRead, At, Up, Goto, Work, disk, memory, history
<1>1. /\ \A u \in Threads : u = t
      /\ pc'[t] = "compact_truncate"
      /\ ~Compacts(t) /\ Compacts(t)' /\ work'[t].items = LiveTensors
  BY <1>0, TypedFile DEF CompactsAlone, Compacts, NoWork
<1>2. TablesClosed'
  BY <1>0, <1>1 DEF MapInvariant, TablesClosed, BlocksClosed, Taking
<1>3. \A u \in Threads : Deletes(u)'
  BY <1>1 DEF Deletes, Deleting
<1>4. ASSUME sane, copy # "lost" PROVE Served'
  <2>1. View(toc) = Last(past)
    BY <1>0, <1>1, <1>4, AloneCompacts DEF MapInvariant, CopyServes, Serves
  <2>2. Overwritten(Bare, LiveTensors) = View(toc)
    BY <1>4, LiveMap DEF Sound, Holds, MapInvariant, TablesClosed, Bare
  <2>3. Rebuilt(t)' = Bare
    BY <1>1 DEF Rebuilt, Bare
  <2>4. Restores(t)'
    BY <1>0, <1>1, <2>1, <2>2, <2>3 DEF Restores
  <2> QED BY <1>1, <2>4 DEF Served
<1>5. ASSUME sane, copy = "whole" PROVE IsWhole'
  <2>1. PICK n \in 0 .. Len(log) : ServesFrom(n)
    BY <1>5 DEF MapInvariant, CopyServes, IsWhole
  <2>2. ServesFrom(n)'
    BY <1>0, <1>1, <2>1 DEF ServesFrom, Serves, Taking
  <2> QED BY <1>0, <1>1, <2>1, <2>2 DEF IsWhole
<1>6. sane => copy # "rebuilding"
  BY <1>0, <1>1 DEF MapInvariant, CopyServes, IsRebuilding, Flushing, Taking
<1> QED BY <1>0, <1>2, <1>3, <1>4, <1>5, <1>6 DEF MapInvariant, CopyServes

(* It truncates the file, which from here on is not whole.                  *)
LEMMA CompactTruncateFaithful ==
  ASSUME CompactsAlone, Shape, NEW sane, MapInvariant(sane),
         NEW t \in Threads, CompactTruncate(t)
  PROVE  MapInvariant(sane)'
<1>0. /\ Up /\ Up' /\ pc[t] = "compact_truncate"
      /\ pc' = [pc EXCEPT ![t] = "compact_forget"]
      /\ log' = <<>> /\ toc' = toc /\ past' = past /\ arg' = arg /\ work' = work
      /\ copy' = IF copy = "lost" THEN "lost" ELSE "rebuilding"
  BY DEF CompactTruncate, At, Up, Goto, memory, history
<1>1. /\ Compacts(t) /\ Compacts(t)' /\ \A u \in Threads : u = t
      /\ pc'[t] = "compact_forget"
  BY <1>0, TypedFile DEF CompactsAlone, Compacts, Shape, Fits, PlaceFits
<1>2. TablesClosed'
  BY <1>0, <1>1 DEF MapInvariant, TablesClosed, BlocksClosed, Taking, Footers
<1>3. \A u \in Threads : Deletes(u)'
  BY <1>1 DEF Deletes, Deleting
<1>4. ASSUME sane, copy # "lost" PROVE Served'
  <2>1. Restores(t)
    BY <1>0, <1>1, <1>4 DEF MapInvariant, CopyServes, Served
  <2>2. Rebuilt(t) = Bare /\ Rebuilt(t)' = Bare
    BY <1>0, <1>1 DEF Rebuilt, Bare
  <2>3. Restores(t)'
    BY <1>0, <2>1, <2>2 DEF Restores
  <2> QED BY <1>1, <2>3 DEF Served
<1>5. IsRebuilding'
  BY <1>0, <1>1 DEF IsRebuilding
<1> QED BY <1>0, <1>2, <1>3, <1>4, <1>5 DEF MapInvariant, CopyServes

(* All is put; the call goes on as a flush.                                 *)
LEMMA CompactFlushFaithful ==
  ASSUME CompactsAlone, Shape, NEW sane, MapInvariant(sane),
         NEW t \in Threads, CompactFlush(t)
  PROVE  MapInvariant(sane)'
<1>0. /\ Up /\ Up' /\ pc[t] = "idle" /\ Compacts(t) /\ work[t].items = <<>>
      /\ pc' = [pc EXCEPT ![t] = "checkpoint_toc"]
      /\ arg' = [arg EXCEPT ![t] = [IdleArg EXCEPT !.call = "flush"]]
      /\ work' = [work EXCEPT ![t] = NoWork]
      /\ log' = log /\ durable' = durable /\ toc' = toc /\ past' = past /\ copy' = copy
  BY DEF CompactFlush, At, Up, Goto, Set, Work, OnlyWork, Compacts, disk, memory, history
<1>1. /\ ~Compacts(t)' /\ \A u \in Threads : u = t
      /\ pc'[t] = "checkpoint_toc" /\ arg'[t].call = "flush"
  BY <1>0, TypedFile, AloneCompacts DEF Compacts, NoWork, IdleArg
<1>2. TablesClosed'
  BY <1>0, <1>1 DEF MapInvariant, TablesClosed, BlocksClosed, Taking
<1>3. \A u \in Threads : Deletes(u)'
  BY <1>1 DEF Deletes, Deleting
<1>4. ASSUME sane, copy # "lost" PROVE Served'
  <2>1. Restores(t)
    BY <1>0, <1>4 DEF MapInvariant, CopyServes, Served
  <2>2. Rebuilt(t) = View(toc)
    BY <1>0 DEF Rebuilt, Putting, Mid
  <2>3. Overwritten(View(toc), <<>>) = View(toc)
    BY OverwrittenNothing DEF View
  <2>4. Serves(toc, past)'
    BY <1>0, <2>1, <2>2, <2>3 DEF Restores, Serves
  <2> QED BY <1>1, <2>4 DEF Served
<1>5. sane => copy # "whole"
  BY <1>0 DEF MapInvariant, CopyServes, IsWhole
<1>6. IsRebuilding'
  BY <1>0, <1>1 DEF IsRebuilding, Flushing
<1> QED BY <1>0, <1>2, <1>3, <1>4, <1>5, <1>6 DEF MapInvariant, CopyServes

-----------------------------------------------------------------------------
(* No thread is in the middle of anything.                                  *)
Resting == \A t \in Threads : pc[t] = "idle" /\ work[t] = NoWork

(* Threads at rest are in the middle of nothing.                            *)
LEMMA RestKnows ==
  ASSUME Resting
  PROVE  /\ \A t \in Threads : Deletes(t) /\ ~Compacts(t) /\ pc[t] \notin Taking
         /\ ~IsRebuilding
<1>1. \A t \in Threads : Deletes(t) /\ ~Compacts(t) /\ pc[t] \notin Taking
  BY DEF Resting, Deletes, Deleting, Compacts, NoWork, Taking
<1> QED BY <1>1 DEF Resting, IsRebuilding, Flushing, Taking

(* A file that is cut behind the newest footer it is whole from, or later.  *)
LEMMA CutServes ==
  ASSUME Shape, NEW n \in 0 .. Len(log), ServesFrom(n), NEW m \in n .. Len(log),
         log' = SubSeq(log, 1, m), n <= durable', Resting'
  PROVE  IsWhole'
<1>1. /\ Len(log') = m /\ \A i \in 1 .. m : log'[i] = log[i]
      /\ Footers(log') = Footers(log) \intersect (1 .. m)
  <2>1. m \in 0 .. Len(log) /\ log \in Seq(Block)
    BY TypedFile
  <2> QED BY <2>1, CutFooters
<1>2. n = 0 \/ n \in Footers(log')
  BY <1>1, TypedFile DEF ServesFrom
<1>3. ServesFrom(n)'
  <2>1. \A i \in Footers(log') : i \in Footers(log) /\ log'[i] = log[i]
    BY <1>1
  <2>2. \A i \in Footers(log') :
          i >= n => log'[i].tocOffset + 1 >= n /\ Serves(log'[i].toc, log'[i].past)
    BY <2>1 DEF ServesFrom
  <2>3. \A t \in Threads : pc'[t] \notin Taking /\ pc'[t] # "checkpoint_append"
    BY DEF Resting, Taking
  <2> QED BY <1>2, <2>2, <2>3 DEF ServesFrom, Serves
<1>4. n \in 0 .. Len(log')
  BY <1>1
<1> QED BY <1>3, <1>4 DEF IsWhole, Resting, Compacts, NoWork

(* Tombstones in the blocks of a file that is cut.                          *)
LEMMA CutClosed ==
  ASSUME Shape, BlocksClosed, NEW m \in 0 .. Len(log), log' = SubSeq(log, 1, m)
  PROVE  BlocksClosed'
<1>1. /\ \A i \in 1 .. m : log'[i] = log[i]
      /\ Footers(log') = Footers(log) \intersect (1 .. m)
  BY TypedFile, CutFooters
<1> QED BY <1>1 DEF BlocksClosed

(* A crash cuts a whole file behind its durable footer; in the middle of a  *)
(* compaction it loses the map.                                             *)
LEMMA CrashFaithful ==
  ASSUME Shape, NEW sane, MapInvariant(sane), Crash, work' = [t \in Threads |-> NoWork],
         copy' = IF copy = "rebuilding" THEN "lost" ELSE copy
  PROVE  MapInvariant(sane)'
<1>1. PICK m \in durable .. Len(log) : log' = SubSeq(log, 1, m)
  BY DEF Crash
<1>2. /\ ~Up' /\ toc' = <<>> /\ durable' = durable /\ Resting'
  BY DEF Crash, Forget, Up, Resting
<1>3. TablesClosed'
  <2>1. BlocksClosed'
    BY <1>1, TypedFile, CutClosed DEF MapInvariant, TablesClosed
  <2>2. \A t \in Threads : pc'[t] \notin Taking
    BY <1>2 DEF Resting, Taking
  <2> QED BY <1>2, <2>1, <2>2 DEF TablesClosed, Closed
<1>4. \A t \in Threads : Deletes(t)'
  BY <1>2 DEF Resting, Deletes, Deleting
<1>5. ASSUME sane, copy = "whole" PROVE IsWhole'
  <2>1. PICK n \in 0 .. Len(log) : ServesFrom(n)
    BY <1>5 DEF MapInvariant, CopyServes, IsWhole
  <2>2. n <= durable' /\ m \in n .. Len(log)
    BY <1>1, <1>2, <2>1, TypedFile DEF ServesFrom
  <2> QED BY <1>1, <1>2, <2>1, <2>2, CutServes
<1> QED BY <1>2, <1>3, <1>4, <1>5 DEF MapInvariant, CopyServes, Served

(* The engine is closed at rest.                                            *)
LEMMA DropFaithful ==
  ASSUME Shape, NEW sane, MapInvariant(sane),
         Drop, \A t \in Threads : work[t] = NoWork, UNCHANGED bulk
  PROVE  MapInvariant(sane)'
<1>1. /\ ~Up' /\ toc' = <<>> /\ log' = log /\ durable' = durable /\ Resting /\ Resting'
      /\ copy' = copy
  BY DEF Drop, Forget, Up, Resting, disk, bulk
<1>2. TablesClosed'
  <2>1. \A t \in Threads : pc'[t] \notin Taking
    BY <1>1 DEF Resting, Taking
  <2> QED BY <1>1, <2>1 DEF MapInvariant, TablesClosed, Closed, BlocksClosed
<1>3. \A t \in Threads : Deletes(t)'
  BY <1>1 DEF Resting, Deletes, Deleting
<1>4. ASSUME IsWhole PROVE IsWhole'
  <2>1. PICK n \in 0 .. Len(log) : ServesFrom(n)
    BY <1>4 DEF IsWhole
  <2>2. ServesFrom(n)'
    BY <1>1, <2>1 DEF ServesFrom, Serves, Resting, Taking
  <2> QED BY <1>1, <2>1, <2>2 DEF IsWhole, Resting, Compacts, NoWork
<1>5. sane => copy # "rebuilding"
  BY <1>1, RestKnows DEF MapInvariant, CopyServes
<1> QED BY <1>1, <1>2, <1>3, <1>4, <1>5 DEF MapInvariant, CopyServes, Served

(* open serves the newest footer, of whose table the map is the one its     *)
(* history ends with.                                                       *)
LEMMA OpenFaithful ==
  ASSUME Shape, NEW sane, MapInvariant(sane), Open, UNCHANGED bulk
  PROVE  MapInvariant(sane)'
<1>0. /\ ~Up /\ pc' = pc /\ arg' = arg /\ work' = work /\ copy' = copy
      /\ Resting /\ Resting' /\ (sane => copy # "rebuilding")
  <2>1. ~Up /\ pc' = pc /\ arg' = arg /\ work' = work /\ copy' = copy
    BY DEF Open, Up, bulk
  <2>2. Resting
    BY <2>1 DEF Shape, DownIsEmpty, Fits, Resting
  <2> QED BY <2>1, <2>2, RestKnows DEF Resting, MapInvariant, CopyServes
<1>1. \A t \in Threads : Deletes(t)' /\ pc'[t] \notin Taking /\ ~Compacts(t)'
  BY <1>0 DEF Resting, Deletes, Deleting, Taking, Compacts, NoWork
<1>2. CASE ~Recoverable(log)
  <2>1. log' = log /\ durable' = durable /\ toc' = toc /\ past' = past /\ ~Up'
    BY <1>2 DEF Open, Up
  <2>2. TablesClosed'
    BY <1>1, <2>1 DEF MapInvariant, TablesClosed, BlocksClosed
  <2>3. ASSUME IsWhole PROVE IsWhole'
    <3>1. PICK n \in 0 .. Len(log) : ServesFrom(n)
      BY <2>3 DEF IsWhole
    <3>2. ServesFrom(n)'
      BY <1>0, <1>1, <2>1, <3>1 DEF ServesFrom, Serves
    <3> QED BY <1>1, <2>1, <3>1, <3>2 DEF IsWhole
  <2> QED BY <1>0, <1>1, <2>1, <2>2, <2>3 DEF MapInvariant, CopyServes, Served
<1>3. CASE Recoverable(log)
  <2>1. PICK m \in Footers(log) : m = Max(Footers(log)) /\ \A i \in Footers(log) : i <= m
    <3>1. Footers(log) \in SUBSET (1 .. Len(log)) /\ Footers(log) # {} /\ Len(log) \in Nat
      BY <1>3, TypedFile DEF Recoverable
    <3>2. /\ Max(Footers(log)) \in Footers(log)
          /\ \A i \in Footers(log) : i <= Max(Footers(log))
      BY <3>1, MaxOf, Zenon
    <3> QED BY <3>2
  <2>2. PICK j \in Int : j = log[m].tocOffset + 1
    BY TypedFile
  <2>3. /\ log' = SubSeq(log, 1, m) /\ toc' = log[j].toc /\ past' = log[j].past
        /\ log[j].kind = "checkpoint"
        /\ durable' = IF durable < Len(log') THEN durable ELSE Len(log')
    BY <1>3, <2>1, <2>2 DEF Open, Recoverable, Recovered, BlockAt
  <2>4. j \in Footers(log) /\ m \in 0 .. Len(log)
    <3>1. log[m].tocOffset \in Nat /\ log[m].tocOffset < m /\ m \in 1 .. Len(log)
      BY TypedFile DEF Shape
    <3> QED BY <2>2, <2>3, <3>1, TypedFile DEF Footers
  <2>5. TablesClosed'
    BY <1>1, <2>3, <2>4, CutClosed DEF MapInvariant, TablesClosed, BlocksClosed
  <2>6. ASSUME sane, copy = "whole" PROVE IsWhole' /\ Served'
    <3>1. PICK n \in 0 .. Len(log) : ServesFrom(n)
      BY <2>6 DEF MapInvariant, CopyServes, IsWhole
    <3>2. m >= n /\ m \in Nat
      BY <2>1, <3>1, TypedFile DEF ServesFrom
    <3>3. Len(log') = m
      BY <2>3, <2>4, TypedFile, CutFooters
    <3>4. n <= durable' /\ m \in n .. Len(log)
      BY <2>3, <2>4, <3>1, <3>2, <3>3, TypedFile DEF ServesFrom
    <3>5. IsWhole'
      BY <1>0, <2>3, <3>1, <3>4, CutServes
    <3>6. Serves(log[j].toc, log[j].past)
      BY <2>2, <2>4, <3>1, <3>2 DEF ServesFrom
    <3> QED BY <1>1, <2>3, <3>5, <3>6 DEF Served, Serves
  <2> QED BY <1>0, <1>1, <2>5, <2>6 DEF MapInvariant, CopyServes
<1> QED BY <1>2, <1>3

-----------------------------------------------------------------------------
(* The invariant reads the variables and nothing else.                      *)
LEMMA SameMap ==
  ASSUME NEW sane, MapInvariant(sane), UNCHANGED allVars
  PROVE  MapInvariant(sane)'
<1>0. /\ log' = log /\ durable' = durable /\ toc' = toc /\ past' = past /\ pc' = pc
      /\ arg' = arg /\ work' = work /\ copy' = copy /\ status' = status
  BY DEF allVars, bulk, vars, disk, memory, history
<1>1. TablesClosed'
  BY <1>0 DEF MapInvariant, TablesClosed, BlocksClosed
<1>2. Served => Served'
  BY <1>0 DEF Served, Serves, Restores, Rebuilt, Compacts, Up
<1>3. ASSUME IsWhole PROVE IsWhole'
  <2>1. PICK n \in 0 .. Len(log) : ServesFrom(n)
    BY <1>3 DEF IsWhole
  <2>2. ServesFrom(n)'
    BY <1>0, <2>1 DEF ServesFrom, Serves
  <2> QED BY <1>0, <1>3, <2>1, <2>2 DEF IsWhole, Compacts
<1>4. IsRebuilding => IsRebuilding'
  BY <1>0 DEF IsRebuilding, Flushing, Serves, Compacts, Up
<1>5. \A t \in Threads : Deletes(t)'
  BY <1>0 DEF MapInvariant, Deletes, Compacts
<1> QED BY <1>0, <1>1, <1>2, <1>3, <1>4, <1>5 DEF MapInvariant, CopyServes

(* Every step keeps the tables closed, and if a compaction finds references *)
(* intact the map as intended.                                              *)
LEMMA MapStep ==
  ASSUME CompactsAlone, Shape, Shape', NEW sane, MapInvariant(sane),
         [MaintenanceNext]_allVars,
         sane => \A t \in Threads : CompactRead(t) => Sound(TRUE)
  PROVE  MapInvariant(sane)'
<1>1. ASSUME NEW t \in Threads, SingleStep(t) PROVE MapInvariant(sane)'
  <2>1. Put(t) \/ TakeCheckpoint(t) \/ Delete(t) \/ Get(t)
    BY <1>1 DEF SingleStep
  <2>2. ASSUME \/ PutBegin(t) \/ PutLookup(t) \/ PutAddRef(t) \/ PutAppend(t)
               \/ PutContains(t) \/ PutInsert(t) \/ PutRecord(t) \/ PutIndex(t) \/ PutChain(t)
               \/ PutShouldCheckpoint(t)
        PROVE  MapInvariant(sane)'
    BY <1>1, <2>2, PutQuiet, QuietStep
  <2>3. ASSUME \/ CheckpointBegin(t) \/ CheckpointReset(t) \/ LastSync(t)
               \/ DeleteBegin(t) \/ DeleteChain(t) \/ Get(t)
        PROVE  MapInvariant(sane)'
    BY <1>1, <2>3, OtherQuiet, QuietStep
  <2>4. ASSUME PutToc(t) \/ DeleteToc(t) PROVE MapInvariant(sane)'
    BY <1>1, <2>4, PutTocFaithful, DeleteTocFaithful
  <2>5. ASSUME CheckpointToc(t) \/ CheckpointLen(t) \/ CheckpointAppend(t) \/ CheckpointSync(t)
        PROVE  MapInvariant(sane)'
    BY <1>1, <2>5, CheckpointTocFaithful, CheckpointLenFaithful,
       CheckpointAppendFaithful, CheckpointSyncFaithful
  <2> QED BY <2>1, <2>2, <2>3, <2>4, <2>5 DEF Put, TakeCheckpoint, Delete
<1>2. ASSUME NEW t \in Threads, Batch(t) PROVE MapInvariant(sane)'
  BY <1>2, BatchFaithful
<1>3. ASSUME NEW t \in Threads, CompactRead(t) PROVE MapInvariant(sane)'
  <2>1. ASSUME NEW intact \in BOOLEAN, sane => intact /\ Sound(intact)
        PROVE  MapInvariant(sane)'
    BY <1>3, <2>1, CompactReadFaithful
  <2>2. CASE sane
    BY <1>3, <2>1, <2>2
  <2>3. CASE ~sane
    BY <2>1, <2>3
  <2> QED BY <2>2, <2>3
<1>4. ASSUME NEW t \in Threads, CompactTruncate(t) \/ CompactForget(t) \/ CompactPut(t)
                                \/ CompactToc(t) \/ CompactFlush(t)
      PROVE  MapInvariant(sane)'
  BY <1>4, CompactTruncateFaithful, CompactForgetFaithful, CompactPutFaithful,
     CompactTocFaithful, CompactFlushFaithful
<1>5. ASSUME Restart PROVE MapInvariant(sane)'
  BY <1>5, CrashFaithful, DropFaithful, OpenFaithful DEF Restart
<1>6. CASE UNCHANGED allVars
  BY <1>6, SameMap
<1> QED BY <1>1, <1>2, <1>3, <1>4, <1>5, <1>6 DEF MaintenanceNext, Compact

------------------------------------------------------------------
(* Shape and map go together, beside the invariant of the references.       *)
LEMMA FaithfulStep ==
  ASSUME CompactsAlone, MaintenanceInv, ShapeInv, FaithfulInv, [MaintenanceNext]_allVars
  PROVE  ShapeInv' /\ FaithfulInv'
<1>1. ShapeInv'
  BY ShapeStep DEF FaithfulInv, MapInvariant, TablesClosed
<1>2. Shape /\ Shape'
  <2>1. ShapeInv' => Shape'
    BY ShapeFacts, PTL
  <2> QED BY <1>1, <2>1, ShapeFacts
<1>3. ASSUME NEW sane, sane \in BOOLEAN, MapInvariant(sane), sane => ~stale'
      PROVE  MapInvariant(sane)'
  <2>1. sane => \A t \in Threads : CompactRead(t) => Sound(TRUE)
    BY <1>3, ReadIntact
  <2> QED BY <1>2, <1>3, <2>1, MapStep
<1>4. MapInvariant(FALSE)'
  BY <1>3 DEF FaithfulInv
<1>5. ASSUME ~stale' PROVE MapInvariant(TRUE)'
  <2>1. MapInvariant(TRUE)
    BY <1>5, MonotoneStale DEF FaithfulInv
  <2> QED BY <1>3, <1>5, <2>1
<1> QED BY <1>1, <1>4, <1>5 DEF FaithfulInv

-----------------------------------------------------------------------------
(* A new engine has the shape.                                              *)
LEMMA ShapeInit == MaintenanceInit => ShapeInv
<1> SUFFICES ASSUME MaintenanceInit PROVE Counted /\ Fits /\ Sound(FALSE) /\ CountedCompacts
  BY DEF ShapeInv
<1>1. Counted /\ CountedCompacts
  BY DEF MaintenanceInit, Counted, CountedCompacts, Compacts, NoWork
<1>2. work = [t \in Threads |-> NoWork] /\ \A t \in Threads : pc[t] = "idle"
  BY DEF MaintenanceInit, Init
<1>3. ASSUME NEW intact \in BOOLEAN PROVE Fits /\ Sound(intact)
  <2>1. Holds(intact)
    BY InitHolds DEF MaintenanceInit
  <2> QED BY <1>2, <2>1, NoWorkFits DEF Fits, Sound
<1>4. Fits /\ Sound(FALSE)
  BY <1>3
<1> QED BY <1>1, <1>4

(* A new engine serves the empty map.                                       *)
LEMMA FaithfulInit == MaintenanceInit => FaithfulInv
<1> SUFFICES ASSUME MaintenanceInit, NEW sane PROVE MapInvariant(sane)
  BY DEF FaithfulInv
<1>1. /\ log = <<>> /\ durable = 0 /\ toc = <<>> /\ past = NoChanges /\ copy = "whole"
      /\ Resting
  BY DEF MaintenanceInit, Init, Resting
<1>2. Footers(log) = {} /\ Len(log) = 0
  BY <1>1 DEF Footers
<1>3. TablesClosed
  BY <1>1, <1>2, RestKnows DEF TablesClosed, Closed, BlocksClosed
<1>4. Serves(toc, past)
  BY <1>1, EmptyView DEF Serves, Last, NoChanges
<1>5. Served
  BY <1>1, <1>4, RestKnows DEF Served
<1>6. ServesFrom(0)
  BY <1>1, <1>2 DEF ServesFrom, Resting, Taking
<1>7. IsWhole
  BY <1>1, <1>2, <1>6, RestKnows DEF IsWhole
<1> QED BY <1>1, <1>3, <1>5, <1>7, RestKnows DEF MapInvariant, CopyServes

-----------------------------------------------------------------------------
(* What every state of the engine satisfies.                                *)
BulkInv == MaintenanceInv /\ ShapeInv /\ FaithfulInv

(* The three hold together.                                                 *)
LEMMA BulkInvHolds ==
  ASSUME CompactsAlone
  PROVE  MaintenanceSpec => []BulkInv
<1>1. MaintenanceInit => BulkInv
  BY MaintenanceInitInv, ShapeInit, FaithfulInit DEF BulkInv
<1>2. BulkInv /\ [MaintenanceNext]_allVars => BulkInv'
  <2> SUFFICES ASSUME BulkInv, [MaintenanceNext]_allVars PROVE BulkInv'
    OBVIOUS
  <2>1. MaintenanceInv' /\ ShapeInv' /\ FaithfulInv'
    BY MaintenanceStep, FaithfulStep DEF BulkInv
  <2> QED BY <2>1 DEF BulkInv
<1> QED BY <1>1, <1>2, PTL DEF MaintenanceSpec

(***************************************************************************)
(* put_batch and compact (engine.rs) keep their place among their tensors,  *)
(* and a batch has as many references as segments for every one of them,    *)
(* after any number of compactions and crashes.                             *)
(***************************************************************************)
THEOREM MaintenanceWorkOK ==
  ASSUME CompactsAlone
  PROVE  MaintenanceSpec => []WorkOK
<1>1. ASSUME NEW item, ItemFits(item) PROVE Len(item.refs) = Len(item.value)
  <2> DEFINE n == Len(item.value)
             S == {item.refs[j] : j \in 1 .. n}
  <2>1. n \in Nat
    BY <1>1, EngineAssumption DEF ItemFits
  <2>2. item.refs \in [1 .. n -> S]
    BY <1>1 DEF ItemFits
  <2> HIDE DEF n, S
  <2>3. item.refs \in Seq(S) /\ Len(item.refs) = n
    BY <2>1, <2>2
  <2> QED BY <2>3 DEF n
<1>2. BulkInv => WorkOK
  <2> SUFFICES ASSUME BulkInv, NEW t \in Threads
               PROVE  /\ work[t].call \in {"none", "put_batch", "compact"}
                      /\ work[t].done \in 0 .. Len(work[t].items)
                      /\ work[t].call = "put_batch" =>
                           \A i \in DOMAIN work[t].items :
                             Len(work[t].items[i].refs) = Len(work[t].items[i].value)
    BY DEF WorkOK
  <2>1. WorkFits(work[t])
    BY DEF BulkInv, ShapeInv, Fits
  <2>2. DOMAIN work[t].items = 1 .. Len(work[t].items)
    BY <2>1 DEF WorkFits
  <2> QED BY <1>1, <2>1, <2>2 DEF WorkFits, BatchFits
<1> QED BY <1>2, BulkInvHolds, PTL

(* What get reads for an entry whose references lead to its chunks.         *)
LEMMA GetReads ==
  ASSUME IInv(TRUE), NEW k \in Key
  PROVE  GetReturns(k, View(toc)[k])
<1>1. /\ log \in Seq(Block) /\ toc \in Seq(EntryType) /\ DOMAIN toc = 1 .. Len(toc)
  BY DEF IInv, Types
<1>2. CASE ~Live(toc, k)
  BY <1>2 DEF GetReturns, View
<1>3. CASE Live(toc, k)
  <2> DEFINE m == Max(Positions(toc, k))
  <2>1. m \in Positions(toc, k)
    BY <1>1, <1>3, PositionsOf DEF Live
  <2> HIDE DEF m
  <2>2. m \in 1 .. Len(toc) /\ toc[m] \in EntryType
    BY <1>1, <2>1 DEF Positions
  <2>3. AllLead(TRUE, log, Len(log), toc[m])
    BY <2>2 DEF IInv, TocLeads
  <2>4. ReadTensor(toc[m]).value = toc[m].value
    <3>1. ReadTensor(toc[m]) = [key |-> toc[m].key, value |-> toc[m].value]
      BY <1>1, <2>2, <2>3, TensorRead
    <3> QED BY <3>1
  <2>5. Readable(toc[m])
    <3>1. toc[m].refs \in Seq(Nat)
      BY <2>2 DEF EntryType
    <3>2. ASSUME NEW i \in DOMAIN toc[m].refs
          PROVE  toc[m].refs[i] < Len(log) /\ log[toc[m].refs[i] + 1].kind = "chunk"
      <4>1. i \in 1 .. Len(toc[m].refs)
        BY <3>1
      <4>2. /\ toc[m].refs[i] < Len(log)
            /\ log[toc[m].refs[i] + 1] = Chunk(toc[m].value[i])
        BY <2>3, <4>1 DEF AllLead, PartLeads, Leads
      <4> QED BY <4>2 DEF Chunk
    <3> QED BY <3>2 DEF Readable, BlockAt
  <2> QED BY <1>3, <2>4, <2>5 DEF GetReturns, View, Latest, m
<1> QED BY <1>2, <1>3

(***************************************************************************)
(* Between calls get reads from the file, for every key, the tensor that    *)
(* the puts, deletes and batches of engine.rs asked for, and a compaction   *)
(* has changed nothing of it; a crash and open take it back to a moment of  *)
(* the past.  Not once a truncation has left the content store with offsets *)
(* of the old file, nor after a crash inside a compaction, whose puts       *)
(* rebuild a truncated file.                                                *)
(***************************************************************************)
THEOREM MaintenanceMapAsIntended ==
  ASSUME CompactsAlone
  PROVE  MaintenanceSpec => []MapAsIntended
<1>1. BulkInv => MapAsIntended
  <2> SUFFICES ASSUME BulkInv, Settled, copy # "lost", ~stale, NEW k \in Key
               PROVE  GetReturns(k, past[Len(past)][k])
    BY DEF MapAsIntended
  <2>1. Up /\ Resting /\ Served
    BY DEF BulkInv, FaithfulInv, MapInvariant, CopyServes, Settled, Quiet, Resting
  <2>2. View(toc) = past[Len(past)]
    BY <2>1, RestKnows DEF Served, Serves, Last
  <2>3. ~Truncated
    BY DEF Settled, Quiet, Truncated
  <2>4. IInv(TRUE)
    BY <2>1, <2>3 DEF BulkInv, MaintenanceInv, Sound, Holds
  <2> QED BY <2>2, <2>4, GetReads
<1> QED BY <1>1, BulkInvHolds, PTL
=============================================================================
