---------------------------- MODULE ShardedEngine ---------------------------
(***************************************************************************)
(* The storage engine (tpx-shard): puts with deduplication and versions,    *)
(* deletes, reads, checkpoints, crash and reopen, by several threads.       *)
(*                                                                          *)
(* The file is the append log that MmapBackend implements, one element per  *)
(* append: a chunk or a checkpoint (TOC bytes and footer in one block).  An *)
(* offset is the number of elements before it.  Each step of a thread is    *)
(* one critical section or one call of the I/O layer.  The shards only      *)
(* split the locks of the version chains and the radix trees; a step holds  *)
(* one of these locks for its whole length, so no shard is modelled.        *)
(***************************************************************************)
EXTENDS Toc, VersionChain, ContentStore

CONSTANTS Threads,
          Value,        \* tensors: the sequences of their chunks' content hashes
          Retentions,   \* the policies puts ask for
          Ops,          \* which calls each thread makes
          Interval,     \* interval_bytes, in chunks
          Timer,        \* whether interval_ms may elapse
          Crashes,      \* whether the process may crash
          Exclusive,    \* whether callers keep appends out of each other's checkpoints
          MaxChanges,   \* bound: puts and deletes, counted in past
          MaxLog        \* bound: no explicit checkpoint beyond this length

Calls == {"put", "delete", "get", "checkpoint", "flush", "close"}

ASSUME EngineAssumption ==
  /\ Ops \in [Threads -> SUBSET Calls]
  /\ Value \subseteq Seq(Hash)
  /\ Retentions \subseteq Policies
  /\ Interval \in Nat \ {0}
  /\ Timer \in BOOLEAN
  /\ Crashes \in BOOLEAN
  /\ Exclusive \in BOOLEAN
  /\ NoEntry \notin [off : Nat, refcount : Nat]

VARIABLES log,       \* what was appended, on disk or still buffered
          durable,   \* how many elements of log are synced
          toc,       \* master_toc
          chains,    \* the version chains
          store,     \* content_store
          art,       \* the radix trees: the chunk a key is indexed under
          dirty,     \* bytes_written_since_last, in chunks
          status,    \* "open", "closed" (still usable), "down", "unopenable"
          pc, arg,   \* per thread: where it is, and its local variables
          past,      \* history: what the map should be after every put and delete
          kept       \* history: where in past the last returned checkpoint is

memory == <<toc, chains, store, art, dirty>>
disk == <<log, durable>>
history == <<past, kept>>
vars == <<log, durable, toc, chains, store, art, dirty, status, pc, arg, past, kept>>

Chunk(h) == [kind |-> "chunk", hash |-> h]

(* A checkpoint block also carries, as history, past when its TOC was read. *)
Checkpoint(entries, tocOffset, seen) ==
  [kind |-> "checkpoint", toc |-> entries, tocOffset |-> tocOffset, past |-> seen]

NotIndexed == -1

NoChanges == <<[k \in Key |-> Absent]>>

IdleArg == [call |-> "none", key |-> Absent, value |-> <<>>, retention |-> KeepLatest,
            refs |-> <<>>, off |-> 0, toc |-> <<>>, past |-> NoChanges]

Init == /\ log = <<>>
        /\ durable = 0
        /\ toc = <<>>
        /\ chains = [k \in Key |-> NoChain]
        /\ store = EmptyStore
        /\ art = [k \in Key |-> NotIndexed]
        /\ dirty = 0
        /\ status = "open"
        /\ pc = [t \in Threads |-> "idle"]
        /\ arg = [t \in Threads |-> IdleArg]
        /\ past = NoChanges
        /\ kept = 0

-----------------------------------------------------------------------------
Up == status \in {"open", "closed"}

At(t, label) == Up /\ pc[t] = label
Goto(t, label) == pc' = [pc EXCEPT ![t] = label]
Set(t, new) == arg' = [arg EXCEPT ![t] = new]
Return(t) == Goto(t, "idle") /\ Set(t, IdleArg)

(* What callers that follow the manual's "1 writer" see to, and nothing in  *)
(* the engine does: no other thread appends while one is between the        *)
(* reading of the table of contents and the appending of its block.         *)
MayAppend(t) == Exclusive =>
  \A u \in Threads \ {t} : pc[u] \notin {"checkpoint_len", "checkpoint_append"}

Remember(key, value) ==
  past' = Append(past, [past[Len(past)] EXCEPT ![key] = value])

(* The segment put is at: the first one without a chunk reference.          *)
Segment(t) == arg[t].value[Len(arg[t].refs) + 1]

WithRef(t, off) == [arg[t] EXCEPT !.refs = Append(@, off)]

NextSegment(t, refs) ==
  IF Len(refs) < Len(arg[t].value) THEN "put_lookup" ELSE "put_index"

-----------------------------------------------------------------------------
(* put_with_retention                                                       *)
PutBegin(t) == \E k \in Key, v \in Value, r \in Retentions :
  /\ At(t, "idle") /\ "put" \in Ops[t]
  /\ Len(past) <= MaxChanges
  /\ Set(t, [IdleArg EXCEPT !.call = "put", !.key = k, !.value = v, !.retention = r])
  /\ Goto(t, IF v = <<>> THEN "put_index" ELSE "put_lookup")
  /\ UNCHANGED <<disk, memory, status, history>>

PutLookup(t) ==
  /\ At(t, "put_lookup")
  /\ IF Known(store, Segment(t))
     THEN /\ Goto(t, "put_add_ref")
          /\ Set(t, [arg[t] EXCEPT !.off = store[Segment(t)].off])
     ELSE Goto(t, "put_append") /\ UNCHANGED arg
  /\ UNCHANGED <<disk, memory, status, history>>

PutAddRef(t) ==
  /\ At(t, "put_add_ref")
  /\ store' = AddRef(store, Segment(t))
  /\ Set(t, WithRef(t, arg[t].off))
  /\ Goto(t, NextSegment(t, arg'[t].refs))
  /\ UNCHANGED <<disk, toc, chains, art, dirty, status, history>>

(* How an offset could go wrong: it is one short, it is the end of the      *)
(* chunk, or it is taken from the length of the file afterwards.            *)
PutAppendShort(t) ==
  /\ At(t, "put_append")
  /\ MayAppend(t)
  /\ log' = Append(log, Chunk(Segment(t)))
  /\ Set(t, [arg[t] EXCEPT !.off = Len(log) - 1])
  /\ Goto(t, "put_contains")
  /\ UNCHANGED <<durable, memory, status, history>>

PutAppendEnd(t) ==
  /\ At(t, "put_append")
  /\ MayAppend(t)
  /\ log' = Append(log, Chunk(Segment(t)))
  /\ Set(t, [arg[t] EXCEPT !.off = Len(log) + 1])
  /\ Goto(t, "put_contains")
  /\ UNCHANGED <<durable, memory, status, history>>

PutInsertFromLen(t) ==
  /\ At(t, "put_insert")
  /\ store' = StoreInsert(store, Segment(t), Len(log) - 1)
  /\ Goto(t, "put_record")
  /\ UNCHANGED <<disk, toc, chains, art, dirty, status, arg, history>>

PutAppend(t) ==
  /\ At(t, "put_append")
  /\ MayAppend(t)
  /\ log' = Append(log, Chunk(Segment(t)))
  /\ Set(t, [arg[t] EXCEPT !.off = Len(log)])
  /\ Goto(t, "put_contains")
  /\ UNCHANGED <<durable, memory, status, history>>

(* ContentStore::insert: the check and the insertion are two steps; when    *)
(* the check fails, neither the entry nor its refcount is touched.          *)
PutContains(t) ==
  /\ At(t, "put_contains")
  /\ Goto(t, IF Known(store, Segment(t)) THEN "put_record" ELSE "put_insert")
  /\ UNCHANGED <<disk, memory, status, arg, history>>

PutInsert(t) ==
  /\ At(t, "put_insert")
  /\ store' = StoreInsert(store, Segment(t), arg[t].off)
  /\ Goto(t, "put_record")
  /\ UNCHANGED <<disk, toc, chains, art, dirty, status, arg, history>>

PutRecord(t) ==
  /\ At(t, "put_record")
  /\ dirty' = dirty + 1
  /\ Set(t, WithRef(t, arg[t].off))
  /\ Goto(t, NextSegment(t, arg'[t].refs))
  /\ UNCHANGED <<disk, toc, chains, store, art, status, history>>

PutIndex(t) ==
  /\ At(t, "put_index")
  /\ art' = IF arg[t].refs = <<>> THEN art
            ELSE [art EXCEPT ![arg[t].key] = Head(arg[t].refs)]
  /\ Goto(t, "put_chain")
  /\ UNCHANGED <<disk, toc, chains, store, dirty, status, arg, history>>

PutChain(t) ==
  /\ At(t, "put_chain")
  /\ LET k     == arg[t].key
         chain == [chains[k] EXCEPT !.retention = arg[t].retention]
     IN  /\ chains' = [chains EXCEPT ![k] = ChainAppend(chain, arg[t].value)]
         /\ store' = ReleaseAll(store, Evicted(chain, arg[t].value))
  /\ Goto(t, "put_toc")
  /\ UNCHANGED <<disk, toc, art, dirty, status, arg, history>>

PutToc(t) ==
  /\ At(t, "put_toc")
  /\ toc' = Append(toc, NewEntry(arg[t].key, arg[t].value, arg[t].refs))
  /\ Remember(arg[t].key, arg[t].value)
  /\ Goto(t, "put_should_checkpoint")
  /\ UNCHANGED <<disk, chains, store, art, dirty, status, arg, kept>>

PutShouldCheckpoint(t) ==
  /\ At(t, "put_should_checkpoint")
  /\ \/ /\ dirty >= Interval \/ (Timer /\ dirty > 0)
        /\ Len(log) < MaxLog
        /\ Goto(t, "checkpoint_toc") /\ UNCHANGED arg
     \/ /\ dirty < Interval
        /\ Return(t)
  /\ UNCHANGED <<disk, memory, status, history>>

-----------------------------------------------------------------------------
(* checkpoint, flush and close; close returns at once when already closed   *)
(* and excludes other closes by the is_closed lock.                         *)
CheckpointBegin(t) == \E call \in {"checkpoint", "flush", "close"} :
  /\ At(t, "idle") /\ call \in Ops[t]
  /\ Len(log) < MaxLog
  /\ call = "close" => /\ status = "open"
                       /\ \A u \in Threads : arg[u].call # "close"
  /\ Set(t, [IdleArg EXCEPT !.call = call])
  /\ Goto(t, "checkpoint_toc")
  /\ UNCHANGED <<disk, memory, status, history>>

(* How a checkpoint could go wrong: the last entry is not serialised.       *)
CheckpointTocShort(t) ==
  /\ At(t, "checkpoint_toc")
  /\ MayAppend(t)
  /\ Set(t, [arg[t] EXCEPT !.toc = SubSeq(toc, 1, Len(toc) - 1), !.past = past])
  /\ Goto(t, "checkpoint_len")
  /\ UNCHANGED <<disk, memory, status, history>>

(* execute_checkpoint: the TOC is serialised under its lock, the length is  *)
(* read, and the block is appended: three separate moments.                 *)
CheckpointToc(t) ==
  /\ At(t, "checkpoint_toc")
  /\ MayAppend(t)
  /\ Set(t, [arg[t] EXCEPT !.toc = toc, !.past = past])
  /\ Goto(t, "checkpoint_len")
  /\ UNCHANGED <<disk, memory, status, history>>

CheckpointLen(t) ==
  /\ At(t, "checkpoint_len")
  /\ Set(t, [arg[t] EXCEPT !.off = Len(log)])
  /\ Goto(t, "checkpoint_append")
  /\ UNCHANGED <<disk, memory, status, history>>

CheckpointAppend(t) ==
  /\ At(t, "checkpoint_append")
  /\ log' = Append(log, Checkpoint(arg[t].toc, arg[t].off, arg[t].past))
  /\ Set(t, [arg[t] EXCEPT !.off = Len(log) + 1])
  /\ Goto(t, "checkpoint_sync")
  /\ UNCHANGED <<durable, memory, status, history>>

(* sync covers what was appended before it began, and perhaps more.  The    *)
(* checkpoint is committed now.                                             *)
SyncedFrom(n) == durable' \in IF durable > n THEN durable .. Len(log) ELSE n .. Len(log)

(* How a commit could go wrong: nothing is synced.                          *)
CheckpointSyncMissing(t) ==
  /\ At(t, "checkpoint_sync")
  /\ kept' = IF Len(arg[t].past) > kept THEN Len(arg[t].past) ELSE kept
  /\ Goto(t, "checkpoint_reset")
  /\ UNCHANGED <<disk, memory, status, arg, past>>

CheckpointSync(t) ==
  /\ At(t, "checkpoint_sync")
  /\ SyncedFrom(arg[t].off)
  /\ kept' = IF Len(arg[t].past) > kept THEN Len(arg[t].past) ELSE kept
  /\ Goto(t, "checkpoint_reset")
  /\ UNCHANGED <<log, memory, status, arg, past>>

CheckpointReset(t) ==
  /\ At(t, "checkpoint_reset")
  /\ dirty' = 0
  /\ IF arg[t].call \in {"flush", "close"}
     THEN Goto(t, "last_sync") /\ UNCHANGED arg
     ELSE Return(t)
  /\ UNCHANGED <<disk, toc, chains, store, art, status, history>>

(* flush syncs once more; close closes the I/O layer, which syncs too.      *)
LastSync(t) ==
  /\ At(t, "last_sync")
  /\ SyncedFrom(arg[t].off)
  /\ status' = IF arg[t].call = "close" THEN "closed" ELSE status
  /\ Return(t)
  /\ UNCHANGED <<log, memory, history>>

-----------------------------------------------------------------------------
(* How delete could go wrong: the key stays in the radix tree.              *)
DeleteBeginIndexed(t) == \E k \in Key :
  /\ At(t, "idle") /\ "delete" \in Ops[t]
  /\ Len(past) <= MaxChanges
  /\ Set(t, [IdleArg EXCEPT !.call = "delete", !.key = k])
  /\ Goto(t, "delete_chain")
  /\ UNCHANGED <<disk, memory, status, history>>

(* delete: radix tree, chain, TOC, one lock after the other.  The chunks'   *)
(* references are not released.                                             *)
DeleteBegin(t) == \E k \in Key :
  /\ At(t, "idle") /\ "delete" \in Ops[t]
  /\ Len(past) <= MaxChanges
  /\ art' = [art EXCEPT ![k] = NotIndexed]
  /\ Set(t, [IdleArg EXCEPT !.call = "delete", !.key = k])
  /\ Goto(t, "delete_chain")
  /\ UNCHANGED <<disk, toc, chains, store, dirty, status, history>>

DeleteChain(t) ==
  /\ At(t, "delete_chain")
  /\ chains' = [chains EXCEPT ![arg[t].key] = NoChain]
  /\ Goto(t, "delete_toc")
  /\ UNCHANGED <<disk, toc, store, art, dirty, status, arg, history>>

DeleteToc(t) ==
  /\ At(t, "delete_toc")
  /\ toc' = Tombstoned(toc, arg[t].key)
  /\ Remember(arg[t].key, Absent)
  /\ Return(t)
  /\ UNCHANGED <<disk, chains, store, art, dirty, status, kept>>

(* get: the entry is cloned under the TOC lock and its chunks are read      *)
(* after the lock is gone.                                                  *)
GetLookup(t) == \E k \in Key :
  /\ At(t, "idle") /\ "get" \in Ops[t]
  /\ Live(toc, k)
  /\ Set(t, [IdleArg EXCEPT !.call = "get", !.key = k, !.value = Latest(toc, k).value,
                            !.refs = Latest(toc, k).refs])
  /\ Goto(t, "get_read")
  /\ UNCHANGED <<disk, memory, status, history>>

GetRead(t) ==
  /\ At(t, "get_read")
  /\ Return(t)
  /\ UNCHANGED <<disk, memory, status, history>>

-----------------------------------------------------------------------------
(* scan_for_footer finds the last block with a footer.  The TOC is read     *)
(* from the offset the footer names, up to the footer: when another block   *)
(* lies there, its bytes are taken for the TOC, and bytes that follow a TOC *)
(* are ignored.                                                             *)
Footers(l) == {i \in DOMAIN l : l[i].kind = "checkpoint"}

BlockAt(l, off) == l[off + 1]

Recoverable(l) == /\ Footers(l) # {}
                  /\ BlockAt(l, l[Max(Footers(l))].tocOffset).kind = "checkpoint"

(* How recovery could go wrong: the first footer counts.                    *)
RecoveredFirst(l) == BlockAt(l, l[Min(Footers(l))].tocOffset)

Recovered(l) == BlockAt(l, l[Max(Footers(l))].tocOffset)

(* open inserts every chunk of an entry, so the last one stays indexed, and *)
(* gives every chain KeepForever and the chunks' offsets as hashes.         *)
OffsetHashes(refs) == [i \in DOMAIN refs |-> [at |-> refs[i]]]

LiveEntriesOf(entries, k) ==
  Picked(entries, {i \in Positions(entries, k) : ~entries[i].dead})

RebuiltChain(entries, k) ==
  LET own == LiveEntriesOf(entries, k)
  IN  [versions  |-> [i \in DOMAIN own |-> [id |-> i - 1,
                                            hashes |-> OffsetHashes(own[i].refs)]],
       retention |-> IF own = <<>> THEN KeepLatest ELSE KeepForever]

RebuiltIndex(entries, k) ==
  LET own == {i \in Positions(entries, k) : ~entries[i].dead /\ entries[i].refs # <<>>}
  IN  IF own = {} THEN NotIndexed
      ELSE LET refs == entries[Max(own)].refs IN refs[Len(refs)]

(* ... or the content store outlives the engine ...                         *)
ForgetKeepsStore == /\ toc' = <<>>
                    /\ chains' = [k \in Key |-> NoChain]
                    /\ store' = store
                    /\ art' = [k \in Key |-> NotIndexed]
                    /\ dirty' = 0
                    /\ pc' = [t \in Threads |-> "idle"]
                    /\ arg' = [t \in Threads |-> IdleArg]

Forget == /\ toc' = <<>>
          /\ chains' = [k \in Key |-> NoChain]
          /\ store' = EmptyStore
          /\ art' = [k \in Key |-> NotIndexed]
          /\ dirty' = 0
          /\ pc' = [t \in Threads |-> "idle"]
          /\ arg' = [t \in Threads |-> IdleArg]

(* get_version checks the id against the chain, when there is one, and the  *)
(* key against the TOC; then it counts the key's entries, deleted ones too. *)
VersionFound(k, id) ==
  /\ chains[k].versions # <<>> => id \in ListVersions(chains[k])
  /\ Live(toc, k)
  /\ id + 1 \in DOMAIN EntriesOf(toc, k)

VersionEntry(k, id) == EntriesOf(toc, k)[id + 1]

-----------------------------------------------------------------------------
(* The process dies: any part of what was not yet synced may still be in    *)
(* the write buffer and is lost; a torn block is not a block.  (An element  *)
(* that an earlier process left in the file unsynced may go as well.)       *)
Crash == /\ Crashes /\ Up
         /\ \E n \in durable .. Len(log) : log' = SubSeq(log, 1, n)
         /\ status' = "down"
         /\ Forget
         /\ UNCHANGED <<durable, history>>

(* The engine is dropped after close (drop calls close when nobody has):    *)
(* the backend writes its buffer out.                                       *)
Drop == /\ status = "closed"
        /\ \A t \in Threads : pc[t] = "idle"
        /\ status' = "down"
        /\ Forget
        /\ UNCHANGED <<disk, history>>

(* ... or the footer is cut off with the tail.                              *)
OpenCutsBlock ==
  /\ status = "down"
  /\ IF Recoverable(log)
     THEN /\ status' = "open"
          /\ log' = SubSeq(log, 1, Max(Footers(log)) - 1)
          /\ durable' = IF durable < Len(log') THEN durable ELSE Len(log')
          /\ toc' = Recovered(log).toc
          /\ chains' = [k \in Key |-> RebuiltChain(toc', k)]
          /\ art' = [k \in Key |-> RebuiltIndex(toc', k)]
          /\ past' = Recovered(log).past
     ELSE /\ status' = "unopenable"
          /\ UNCHANGED <<log, durable, toc, chains, art, past>>
  /\ UNCHANGED <<store, dirty, pc, arg, kept>>

(* open for writing: the tail behind the footer is cut off.                 *)
Open ==
  /\ status = "down"
  /\ IF Recoverable(log)
     THEN /\ status' = "open"
          /\ log' = SubSeq(log, 1, Max(Footers(log)))
          /\ durable' = IF durable < Len(log') THEN durable ELSE Len(log')
          /\ toc' = Recovered(log).toc
          /\ chains' = [k \in Key |-> RebuiltChain(toc', k)]
          /\ art' = [k \in Key |-> RebuiltIndex(toc', k)]
          /\ past' = Recovered(log).past
     ELSE /\ status' = "unopenable"
          /\ UNCHANGED <<log, durable, toc, chains, art, past>>
  /\ UNCHANGED <<store, dirty, pc, arg, kept>>

-----------------------------------------------------------------------------
Put(t) == \/ PutBegin(t) \/ PutLookup(t) \/ PutAddRef(t) \/ PutAppend(t)
          \/ PutContains(t) \/ PutInsert(t) \/ PutRecord(t) \/ PutIndex(t)
          \/ PutChain(t) \/ PutToc(t) \/ PutShouldCheckpoint(t)

TakeCheckpoint(t) == \/ CheckpointBegin(t) \/ CheckpointToc(t) \/ CheckpointLen(t)
                     \/ CheckpointAppend(t) \/ CheckpointSync(t)
                     \/ CheckpointReset(t) \/ LastSync(t)

Delete(t) == DeleteBegin(t) \/ DeleteChain(t) \/ DeleteToc(t)

Get(t) == GetLookup(t) \/ GetRead(t)

Next == \/ \E t \in Threads : Put(t) \/ TakeCheckpoint(t) \/ Delete(t) \/ Get(t)
        \/ Crash \/ Drop \/ Open

Spec == Init /\ [][Next]_vars

-----------------------------------------------------------------------------
(* A tensor's chunks.  What is put is in Value; a compaction that reads     *)
(* references which no longer lead there puts what it finds.                *)
Contents == Seq(Hash)

EntryType == [key : Key, value : Contents, refs : Seq(Nat), dead : BOOLEAN]

Map == [Key -> Contents \union {Absent}]

Pasts == Seq(Map) \ {<<>>}

Block == [kind : {"chunk"}, hash : Hash]
           \union [kind : {"checkpoint"}, toc : Seq(EntryType), tocOffset : Nat,
                      past : Pasts]

(* What a version lists: content hashes, or after a reopening offsets.      *)
Hashes == Seq(Hash) \union Seq([at : Nat])

Labels == {"idle", "put_lookup", "put_add_ref", "put_append", "put_contains",
           "put_insert", "put_record", "put_index", "put_chain", "put_toc",
           "put_should_checkpoint", "checkpoint_toc", "checkpoint_len",
           "checkpoint_append", "checkpoint_sync", "checkpoint_reset", "last_sync",
           "delete_chain", "delete_toc", "get_read"}

TypeOK ==
  /\ log \in Seq(Block)
  /\ durable \in Nat
  /\ toc \in Seq(EntryType)
  /\ chains \in [Key -> ChainType(Hashes)]
  /\ store \in [Hash -> [off : Nat, refcount : 0 .. U32 - 1] \union {NoEntry}]
  /\ art \in [Key -> Nat \union {NotIndexed}]
  /\ dirty \in Nat
  /\ status \in {"open", "closed", "down", "unopenable"}
  /\ pc \in [Threads -> Labels]
  /\ arg \in [Threads -> [call : Calls \union {"none"}, key : Key \union {Absent},
                          value : Contents, retention : Retentions \union {KeepLatest},
                          refs : Seq(Nat), off : Nat, toc : Seq(EntryType),
                          past : Pasts]]
  /\ past \in Pasts
  /\ kept \in Nat

Quiet == Up /\ \A t \in Threads : pc[t] = "idle"

(* An entry whose references lead, in a file l, to the chunks of the tensor *)
(* it was made for.                                                         *)
Resolves(l, value, refs) ==
  \A i \in DOMAIN refs : /\ refs[i] < Len(l)
                         /\ i \in DOMAIN value
                         /\ BlockAt(l, refs[i]) = Chunk(value[i])

EntryResolves(l, e) == Len(e.refs) = Len(e.value) /\ Resolves(l, e.value, e.refs)

(* Whatever was deduplicated, evicted, deleted, lost in a crash or reopened *)
(* in between, and whichever threads raced for the same content: every      *)
(* entry of the table of contents, and the entry a get is about to read,    *)
(* names exactly the chunks of its own tensor.                              *)
RefsResolve ==
  /\ \A i \in DOMAIN toc : EntryResolves(log, toc[i])
  /\ \A t \in Threads :
       pc[t] = "get_read" => /\ Len(arg[t].refs) = Len(arg[t].value)
                             /\ Resolves(log, arg[t].value, arg[t].refs)

(* "All data committed up to the last checkpoint is 100% intact" (manual    *)
(* 14.3): whatever part of the unsynced tail a crash leaves, the reopened   *)
(* table of contents is not older than the newest checkpoint that returned. *)
CommittedSurvives ==
  Up /\ kept > 0 =>
    \A n \in durable .. Len(log) :
      LET left == SubSeq(log, 1, n)
      IN  Recoverable(left) /\ Len(Recovered(left).past) >= kept

(* Every version of k that is listed is found by get_version, and it is the *)
(* tensor that was put as that version: chain and TOC count alike.          *)
VersionsOf(k) ==
  \A i \in DOMAIN chains[k].versions :
    LET version == chains[k].versions[i]
    IN  /\ VersionFound(k, version.id)
        /\ LET e == VersionEntry(k, version.id)
           IN  ~e.dead /\ version.hashes \in {e.value, OffsetHashes(e.refs)}

(* The places in the versions of all keys that name a chunk.                *)
NamedIn(c, h) == UNION {{k} \X PlacesIn(c[k].versions, h) : k \in Key}

(* A chunk's refcount covers every place in a version that names it, so it  *)
(* reaches 0 only when no version needs the chunk.                          *)
RefcountsCoverVersions ==
  Quiet => \A h \in Hash : Known(store, h) =>
    Cardinality(NamedIn(chains, h)) <= store[h].refcount

(* The radix trees index exactly the live keys, under a chunk of their      *)
(* latest tensor.                                                           *)
IndexAgrees ==
  Quiet => \A k \in Key :
    /\ art[k] # NotIndexed => Live(toc, k)
    /\ Live(toc, k) /\ Latest(toc, k).refs # <<>>
         => \E i \in DOMAIN Latest(toc, k).refs : art[k] = Latest(toc, k).refs[i]

(* The engine implements the map that forgets at most what was not yet      *)
(* checkpointed.                                                            *)
Store == INSTANCE TensorStore WITH kv <- View(toc), up <- Up

ImplementsTensorStore == Store!StoreSpec
=============================================================================
