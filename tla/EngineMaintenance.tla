-------------------------- MODULE EngineMaintenance -------------------------
(***************************************************************************)
(* put_batch and compact (tpx-shard/src/engine.rs), on top of the engine.   *)
(*                                                                          *)
(* A batch looks all its chunks up before it appends those it missed in one *)
(* write, and publishes its tensors under one write lock of the table of    *)
(* contents.  A compaction reads the live tensors, truncates the file to    *)
(* its header and puts the tensors again, one by one.                       *)
(***************************************************************************)
EXTENDS ShardedEngine

CONSTANTS BulkOps,        \* which bulk calls each thread makes
          Batches,        \* what put_batch is called with
          MaxCompactions  \* bound: compactions started

(* put_batch returns at once when it is called with nothing.                *)
ASSUME BulkAssumption ==
  /\ BulkOps \in [Threads -> SUBSET {"put_batch", "compact"}]
  /\ Batches \subseteq (Seq([key : Key, value : Value]) \ {<<>>})

VARIABLES work,           \* per thread: local variables of a bulk call
          compactions,    \* history: compactions started
          stale,          \* history: a truncation left content_store behind
          copy            \* history: whether the file holds a "whole" copy of the
                          \* data, is "rebuilding" it, or was "lost" in between

bulk == <<work, compactions, stale, copy>>
allVars == <<vars, bulk>>

NoWork == [call |-> "none", items |-> <<>>, slots |-> {}, pending |-> <<>>, done |-> 0]

MaintenanceInit == /\ Init
                   /\ work = [t \in Threads |-> NoWork]
                   /\ compactions = 0
                   /\ stale = FALSE
                   /\ copy = "whole"

Work(t, new) == work' = [work EXCEPT ![t] = new]
OnlyWork == UNCHANGED <<compactions, stale, copy>>

-----------------------------------------------------------------------------
(* A tensor of a batch, without its references; the places <<i, j>> of      *)
(* chunk j of tensor i; and the first of some places in the order of the    *)
(* code's two nested loops.                                                 *)
Unwritten(tensor) == [key |-> tensor.key, value |-> tensor.value,
                      refs |-> [j \in DOMAIN tensor.value |-> NotIndexed]]

Slots(batch) == UNION {{i} \X DOMAIN batch[i].value : i \in DOMAIN batch}

Before(p, q) == p[1] < q[1] \/ (p[1] = q[1] /\ p[2] <= q[2])

FirstOf(slots) == CHOOSE p \in slots : \A q \in slots : Before(p, q)

(* How references could go wrong: they are pushed in the order they become  *)
(* known, hits before misses, instead of being put in their places.         *)
WithRefPushed(t, slot, off) == [work[t] EXCEPT !.items[slot[1]].refs = Append(@, off)]

HashAt(t, slot) == work[t].items[slot[1]].value[slot[2]]

WithRefAt(t, slot, off) == [work[t] EXCEPT !.items[slot[1]].refs[slot[2]] = off]

BatchBegin(t) == \E batch \in Batches :
  /\ At(t, "idle") /\ work[t] = NoWork
  /\ "put_batch" \in BulkOps[t]
  /\ Len(past) <= MaxChanges
  /\ Work(t, [NoWork EXCEPT !.call = "put_batch", !.slots = Slots(batch),
                            !.items = [i \in DOMAIN batch |-> Unwritten(batch[i])]])
  /\ Goto(t, "batch_lookup")
  /\ OnlyWork /\ UNCHANGED <<disk, memory, status, arg, history>>

(* A chunk the content store does not have goes into the coalesced buffer,  *)
(* once for every time the batch holds it.                                  *)
BatchLookup(t) ==
  /\ At(t, "batch_lookup") /\ work[t].slots # {}
  /\ LET slot == FirstOf(work[t].slots)
     IN  IF Known(store, HashAt(t, slot))
         THEN /\ Set(t, [arg[t] EXCEPT !.off = store[HashAt(t, slot)].off])
              /\ Goto(t, "batch_add_ref") /\ UNCHANGED work
         ELSE /\ Work(t, [work[t] EXCEPT !.slots = @ \ {slot},
                                            !.pending = Append(@, slot)])
              /\ UNCHANGED <<pc, arg>>
  /\ OnlyWork /\ UNCHANGED <<disk, memory, status, history>>

BatchAddRef(t) ==
  /\ At(t, "batch_add_ref")
  /\ LET slot == FirstOf(work[t].slots)
     IN  /\ store' = AddRef(store, HashAt(t, slot))
         /\ Work(t, [WithRefAt(t, slot, arg[t].off) EXCEPT !.slots = @ \ {slot}])
  /\ Goto(t, "batch_lookup")
  /\ OnlyWork /\ UNCHANGED <<disk, toc, chains, art, dirty, status, arg, history>>

(* How a batch could go wrong: every chunk is told the buffer's offset.     *)
BatchRecordSameOffset(t) ==
  /\ At(t, "batch_record")
  /\ LET slot == Head(work[t].pending)
         left == Tail(work[t].pending)
     IN  /\ Work(t, [WithRefAt(t, slot, arg[t].off) EXCEPT !.pending = left])
         /\ Goto(t, IF left = <<>> THEN "batch_index" ELSE "batch_contains")
  /\ dirty' = dirty + 1
  /\ OnlyWork /\ UNCHANGED <<disk, toc, chains, store, art, status, arg, history>>

BatchAppend(t) ==
  /\ At(t, "batch_lookup") /\ work[t].slots = {}
  /\ MayAppend(t)
  /\ log' = log \o [i \in DOMAIN work[t].pending |-> Chunk(HashAt(t, work[t].pending[i]))]
  /\ Set(t, [arg[t] EXCEPT !.off = Len(log)])
  /\ Goto(t, IF work[t].pending = <<>> THEN "batch_index" ELSE "batch_contains")
  /\ OnlyWork /\ UNCHANGED <<durable, memory, status, work, history>>

BatchContains(t) ==
  /\ At(t, "batch_contains")
  /\ Goto(t, IF Known(store, HashAt(t, Head(work[t].pending)))
             THEN "batch_record" ELSE "batch_insert")
  /\ OnlyWork /\ UNCHANGED <<disk, memory, status, arg, work, history>>

BatchInsert(t) ==
  /\ At(t, "batch_insert")
  /\ store' = StoreInsert(store, HashAt(t, Head(work[t].pending)), arg[t].off)
  /\ Goto(t, "batch_record")
  /\ OnlyWork /\ UNCHANGED <<disk, toc, chains, art, dirty, status, arg, work, history>>

BatchRecord(t) ==
  /\ At(t, "batch_record")
  /\ LET slot == Head(work[t].pending)
         left == Tail(work[t].pending)
     IN  /\ Work(t, [WithRefAt(t, slot, arg[t].off) EXCEPT !.pending = left])
         /\ Goto(t, IF left = <<>> THEN "batch_index" ELSE "batch_contains")
  /\ Set(t, [arg[t] EXCEPT !.off = @ + 1])
  /\ dirty' = dirty + 1
  /\ OnlyWork /\ UNCHANGED <<disk, toc, chains, store, art, status, history>>

(* Publication: the write lock of master_toc is held from the first         *)
(* BatchIndex to BatchToc.  An existing chain keeps its retention.          *)
Publishing == {"batch_index", "batch_chain", "batch_toc"}

Item(t) == work[t].items[work[t].done + 1]

Unlocked(t) == \A u \in Threads \ {t} : pc[u] \notin Publishing

BatchIndex(t) ==
  /\ At(t, "batch_index") /\ Unlocked(t)
  /\ art' = IF Item(t).refs = <<>> THEN art
            ELSE [art EXCEPT ![Item(t).key] = Head(Item(t).refs)]
  /\ Goto(t, "batch_chain")
  /\ OnlyWork /\ UNCHANGED <<disk, toc, chains, store, dirty, status, arg, work, history>>

BatchChain(t) ==
  /\ At(t, "batch_chain")
  /\ LET k == Item(t).key
     IN  /\ chains' = [chains EXCEPT ![k] = ChainAppend(@, Item(t).value)]
         /\ store' = ReleaseAll(store, Evicted(chains[k], Item(t).value))
  /\ Work(t, [work[t] EXCEPT !.done = @ + 1])
  /\ Goto(t, IF work'[t].done = Len(work[t].items) THEN "batch_toc" ELSE "batch_index")
  /\ OnlyWork /\ UNCHANGED <<disk, toc, art, dirty, status, arg, history>>

(* Of several tensors under one key the last one counts.                    *)
Overwritten(map, items) ==
  [k \in Key |-> LET own == Positions(items, k)
                 IN  IF own = {} THEN map[k] ELSE items[Max(own)].value]

BatchToc(t) ==
  /\ At(t, "batch_toc")
  /\ toc' = toc \o [i \in DOMAIN work[t].items |->
                     NewEntry(work[t].items[i].key, work[t].items[i].value,
                              work[t].items[i].refs)]
  /\ past' = Append(past, Overwritten(past[Len(past)], work[t].items))
  /\ Work(t, NoWork)
  /\ Goto(t, "put_should_checkpoint")
  /\ OnlyWork /\ UNCHANGED <<disk, chains, store, art, dirty, status, arg, kept>>

Batch(t) == \/ BatchBegin(t) \/ BatchLookup(t) \/ BatchAddRef(t) \/ BatchAppend(t)
            \/ BatchContains(t) \/ BatchInsert(t) \/ BatchRecord(t)
            \/ BatchIndex(t) \/ BatchChain(t) \/ BatchToc(t)

-----------------------------------------------------------------------------
(* What a read through an entry's references returns: the chunks that lie   *)
(* there.  Where no chunk lies the read fails.                              *)
Readable(e) == \A i \in DOMAIN e.refs : /\ e.refs[i] < Len(log)
                                        /\ BlockAt(log, e.refs[i]).kind = "chunk"

ReadTensor(e) == [key   |-> e.key,
                  value |-> [i \in DOMAIN e.refs |-> BlockAt(log, e.refs[i]).hash]]

(* How compact could go wrong: the entries of deleted keys come along.      *)
AllTensors == [i \in DOMAIN toc |-> ReadTensor(Latest(toc, toc[i].key))]

(* What compact puts again: for every live entry, older versions included,  *)
(* the tensor that get returns for its key.                                 *)
LiveTensors == LET live == Picked(toc, {i \in DOMAIN toc : ~toc[i].dead})
               IN  [i \in DOMAIN live |-> ReadTensor(Latest(toc, live[i].key))]

(* Whether get, for a key, reads this answer from the file: the chunks that *)
(* the references of the key's latest entry lead to, or that it is absent.  *)
GetReturns(k, answer) ==
  IF Live(toc, k)
  THEN Readable(Latest(toc, k)) /\ ReadTensor(Latest(toc, k)).value = answer
  ELSE answer = Absent

(* The reads happen under the read lock; the first that fails ends the call *)
(* before anything is changed.                                              *)
CompactRead(t) ==
  /\ At(t, "idle") /\ work[t] = NoWork /\ Unlocked(t)
  /\ "compact" \in BulkOps[t]
  /\ compactions < MaxCompactions
  /\ \A k \in Key : Live(toc, k) => Readable(Latest(toc, k))
  /\ Work(t, [NoWork EXCEPT !.call = "compact", !.items = LiveTensors])
  /\ Goto(t, "compact_truncate")
  /\ compactions' = compactions + 1
  /\ UNCHANGED <<disk, memory, status, arg, history, stale, copy>>

(* The header is written again and the file is cut behind it.               *)
CompactTruncate(t) ==
  /\ At(t, "compact_truncate")
  /\ log' = <<>>
  /\ durable' = 0
  /\ stale' = (stale \/ store # EmptyStore)
  /\ copy' = IF copy = "lost" THEN "lost" ELSE "rebuilding"
  /\ Goto(t, "compact_forget")
  /\ UNCHANGED <<memory, status, arg, history, work, compactions>>

(* Only the table of contents starts afresh: content store, chains and      *)
(* radix trees stay.                                                        *)
CompactForget(t) ==
  /\ At(t, "compact_forget") /\ Unlocked(t)
  /\ toc' = <<>>
  /\ Goto(t, "idle")
  /\ OnlyWork
  /\ UNCHANGED <<disk, chains, store, art, dirty, status, arg, history, work>>

(* The next tensor is put under keep_latest, by the steps of any put.       *)
CompactPut(t) ==
  /\ At(t, "idle") /\ work[t].call = "compact" /\ work[t].items # <<>>
  /\ LET item == Head(work[t].items)
     IN  /\ Set(t, [IdleArg EXCEPT !.call = "put", !.key = item.key, !.value = item.value])
         /\ Goto(t, IF item.value = <<>> THEN "put_index" ELSE "put_lookup")
  /\ Work(t, [work[t] EXCEPT !.items = Tail(@)])
  /\ OnlyWork /\ UNCHANGED <<disk, memory, status, history>>

(* Such a put changes the table of contents as any other, but it is no      *)
(* change that a caller asked for.                                          *)
CompactToc(t) ==
  /\ At(t, "put_toc") /\ work[t].call = "compact" /\ Unlocked(t)
  /\ toc' = Append(toc, NewEntry(arg[t].key, arg[t].value, arg[t].refs))
  /\ Goto(t, "put_should_checkpoint")
  /\ OnlyWork /\ UNCHANGED <<disk, chains, store, art, dirty, status, arg, history, work>>

CompactFlush(t) ==
  /\ At(t, "idle") /\ work[t].call = "compact" /\ work[t].items = <<>>
  /\ Set(t, [IdleArg EXCEPT !.call = "flush"])
  /\ Goto(t, "checkpoint_toc")
  /\ Work(t, NoWork)
  /\ OnlyWork /\ UNCHANGED <<disk, memory, status, history>>

Compact(t) == \/ CompactRead(t) \/ CompactTruncate(t) \/ CompactForget(t)
              \/ CompactPut(t) \/ CompactToc(t) \/ CompactFlush(t)

-----------------------------------------------------------------------------
(* A step of one of the other calls waits for the lock of a publication.    *)
TakesToc(t) == pc[t] \in {"put_toc", "checkpoint_toc", "delete_toc"} \/ pc'[t] = "get_read"

(* The flush at the end of a compaction commits the new copy of the data.   *)
Rewrites(t) == /\ pc[t] = "checkpoint_sync" /\ arg[t].call = "flush"
               /\ \A u \in Threads : work[u].call # "compact"

SingleStep(t) == /\ Put(t) \/ TakeCheckpoint(t) \/ Delete(t) \/ Get(t)
                 /\ pc[t] \in {"idle", "put_toc"} => work[t] = NoWork
                 /\ TakesToc(t) => Unlocked(t)
                 /\ copy' = IF copy = "rebuilding" /\ Rewrites(t) THEN "whole" ELSE copy
                 /\ UNCHANGED <<work, compactions, stale>>

Restart == \/ /\ Crash
              /\ work' = [t \in Threads |-> NoWork]
              /\ copy' = IF copy = "rebuilding" THEN "lost" ELSE copy
              /\ UNCHANGED <<compactions, stale>>
           \/ /\ Drop /\ \A t \in Threads : work[t] = NoWork
              /\ UNCHANGED bulk
           \/ Open /\ UNCHANGED bulk

MaintenanceNext == \/ \E t \in Threads : SingleStep(t) \/ Batch(t) \/ Compact(t)
                   \/ Restart

MaintenanceSpec == MaintenanceInit /\ [][MaintenanceNext]_allVars

-----------------------------------------------------------------------------
WorkOK ==
  \A t \in Threads :
    /\ work[t].call \in {"none", "put_batch", "compact"}
    /\ work[t].done \in 0 .. Len(work[t].items)
    /\ work[t].call = "put_batch" =>
         \A i \in DOMAIN work[t].items :
           Len(work[t].items[i].refs) = Len(work[t].items[i].value)

Settled == Quiet /\ \A t \in Threads : work[t] = NoWork

(* Batches and compactions included, every entry names its own tensor's     *)
(* chunks, as long as no compaction found anything in the content store.    *)
(* Between the truncation and the new table of contents nothing resolves.   *)
RefsResolveFresh ==
  ~stale /\ (\A t \in Threads : pc[t] # "compact_forget") => RefsResolve

(* Between calls get returns, for every key, what the calls asked for, read *)
(* from the file through the entry's references: a batch is as good as its  *)
(* puts in order, and a compaction that finds the content store empty, as   *)
(* after a reopening, changes nothing.  Not so when a truncation has left   *)
(* the content store behind (TensorsIntact), nor after a crash inside a     *)
(* compaction, which keeps no second copy of the data.                      *)
MapAsIntended ==
  Settled /\ copy # "lost" /\ ~stale =>
    \A k \in Key : GetReturns(k, past[Len(past)][k])

(* Batches number versions as single puts do, under the retention the chain *)
(* already has.  Deletions and compactions are known to break the numbers.  *)
VersionsAgreeUndeleted ==
  Settled /\ compactions = 0 =>
    \A k \in Key : (\A i \in Positions(toc, k) : ~toc[i].dead) => VersionsOf(k)

(* The radix trees agree with the table of contents between calls.          *)
IndexAgreesSettled == Settled => IndexAgrees

(* The tests and the manual let a compaction pass unnoticed: "deleted keys  *)
(* must be gone, remaining 50 keys intact".  So between calls, compaction   *)
(* or not, every entry must name its tensor's chunks.                       *)
TensorsIntact == Settled => RefsResolve
=============================================================================
