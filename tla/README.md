# TPX in TLA+

A verification project for TPX (TensorPack X), the Rust tensor archive of this
repository: TLA+ modules for the parts where order, concurrency and failure
decide whether data survives, TLC configurations that check them on small
instances, and TLAPS proofs of the central invariants for all instances.
`PROJECT.json` maps every definition to the lines it models.

## 1. The system

A `.tpx` file is a header, then chunks of compressed tensor data, then blocks
of *table of contents + footer* that checkpoints append. All state except the
file is in memory and is rebuilt when the file is opened.

| part | state it keeps | operations | modelled in |
|---|---|---|---|
| file backend, `tpx-io/src/mmap.rs` | file, write buffer and its mutex, `write_buffer_start`, `logical_len` | append, read_at, write_at, sync, truncate, close | `MmapBackend` (detailed), `AppendLog` (abstract), `ByteFile` (data) |
| engine, `tpx-shard/src/engine.rs` | the five structures below, `is_closed` | put, put_batch, delete, get, versions, checkpoint, flush, compact, close, open | `ShardedEngine` (detailed), `EngineMaintenance` (put_batch, compact), `TensorStore` (abstract) |
| checkpoint coordinator, `checkpoint.rs` | bytes since the last checkpoint, its time | should_checkpoint, execute_checkpoint | `ShardedEngine` |
| table of contents, `tpx-index/src/toc.rs` | entries, hash index | add_entry, tombstone, lookup, serialize | `Toc` |
| version chains, `tpx-version/src/chain.rs` | per key: versions, retention | append with eviction, list_versions | `VersionChain` |
| content store, `tpx-dedup/src/content_store.rs` | per content hash: offset, refcount | lookup, insert, add_ref, release | `ContentStore` |
| radix tree, `tpx-index/src/art.rs` | nodes of four sizes | insert, remove, get, get_prefix | `RadixTree` (detailed), `Dictionary` (abstract) |
| recovery scan, `tpx-core/src/footer.rs` | none | scan_for_footer | `ArchiveFormat` (cell by cell), `ShardedEngine` (`Recovered`) |
| byte formats of header, chunk, attributes, table of contents, footer | none | serialize, deserialize | `ArchiveFormat` |
| the archive as a file several processes see | the file, what of it is on the disk | create, open, append, sync; a reader's open | `ArchiveFile` |
| chunker, codecs, filters | none | pure functions | `ChunkCodec`, `Chimp128`, `Filters` |
| `tpx-engine` (`TpxDatabase`) | none of its own | create or open; all else forwards to the engine | `ArchiveFile` (create, open) |
| `tpx-py`, `tpx/`, `tpx-cli` | none of their own | forward to the engine | not modelled |
| `tpx-accel`, `tpx-gpu`, `hugepages`, SuRF, RadixSpline | none that is read | stubs, or built and never queried | not modelled |

How they interact: a put asks the content store for each chunk, appends the
missing ones to the backend, then publishes the key in the radix tree, the
chain and the table of contents, one lock after the other. A checkpoint takes a
snapshot of the table of contents, asks the backend for its length, appends the
block and syncs. Any put may turn into a checkpoint (bytes written, or time).
A get takes the entry from the table of contents and reads its chunks after the
lock is gone. Open finds the newest footer, reads the table of contents it
names, cuts the file behind it, and rebuilds chains and radix trees; the content
store starts empty. A reader process opens the same file without a lock: it reads
the length, then the footer, then the table of contents, while a writer goes on.

What is hard here, and what must hold:

* *Interleaving.* Nothing holds a lock over a whole put, delete or checkpoint.
  Entries must name their own chunks whatever races (`RefsResolve`); callers must
  see one atomic map (`ImplementsTensorStore`); the buffer must continue the file
  (`BufferContinuesFile`); an unlocked load decides about a flush (`ReadFindsExtent`).
* *Crashes.* What a returned checkpoint committed must come back
  (`CommittedSurvives`), as one moment of the past and not a mixture
  (`ImplementsTensorStore`). The death of the writer may cut its last write anywhere
  (`KillRecoversNewest`); a loss of power may lose any unsynced page and keep the
  next (`PowerLossWouldBeTold`).
* *Several processes.* A reader must serve one checkpoint although its three reads
  may see three states of the file (`ReaderServesOneCheckpoint`).
* *Widths.* Lengths are written in 8 and 16 bits, names are cut in bytes, and the
  scan finds a footer by its last four bytes (`RoundTrips`, `KillRecoversNewest`).
* *Failed writes.* They may happen half way and are retried by the next flush
  (`AckedInPlace`).
* *Long sequences.* Version ids under changing retention (`VersionsAgreeUndeleted`),
  reference counts (`RefcountsCoverVersions`), batches and compactions between
  other calls (`MapAsIntended`, `RefsResolveFresh`, `IndexAgreesSettled`), node
  growth and shrinkage (`StepsAgree`, `PrefixAgrees`).
* *Types.* Content is shared without its element type, while filters and Chimp128
  depend on it (`SharedChunkReadsBack`); cuts ignore element boundaries
  (`FiltersRevert`, `ChimpNeverLies`).

`PROJECT.json` lists every such hazard with its line and the properties that cover it.

## 2. The modules

**`ByteFile`** is a file as a sequence of cells, with the operating system's
write and set_len. A cell stands for bytes that always move together.
**`AppendLog`** is what the engine relies on: appends are atomic, return where
they put their data, and what was appended stays until a truncation.
**`MmapBackend`** is the real thing. `file`, `wb`, `wbStart`, `logicalLen` and
`wbLock` are the fields of the struct; `pc`, `arg` are each thread's position and
argument. A step is what a thread does between two points where another can
interfere: taking the mutex, one critical section of the file lock, one atomic
load. `acked` and `need` are history. With `IoErrors`, a write may stop after any
part of its data (`WriteError`), with the early return the code has at that
point. Its refinement mapping is `file \o wb`, except during a truncation.

**`Toc`**, **`VersionChain`** and **`ContentStore`** are the operators of the
three structures. **`ShardedEngine`** EXTENDS them. One action is one critical
section or one call of the backend: a put goes through `PutBegin`, `PutLookup`,
`PutAddRef` or `PutAppend`, `PutContains`, `PutInsert`, `PutRecord`, `PutIndex`,
`PutChain`, `PutToc`, `PutShouldCheckpoint`; a checkpoint through
`CheckpointBegin`, `CheckpointToc`, `CheckpointLen`, `CheckpointAppend`,
`CheckpointSync`, `CheckpointReset`, `LastSync`. The file is the append log of
`AppendLog`, one element per append, with `durable` counting what is synced.
`Crash` leaves any prefix of the log that holds the durable part. **`TensorStore`** is the promise
to callers: a map with atomic changes that restarts at a moment not before the
last commit. Its variables are mapped to `View(toc)` (the map a table of
contents stands for), to the histories `past`
and `kept` of the engine, and to whether the engine is up. `past` records what
each call was asked to do (`Remember`), not what the table became, so the
refinement also says that the table of contents did it.

**`EngineMaintenance`** EXTENDS the engine with the two bulk calls. A batch has
two passes: `BatchLookup` and `BatchAddRef` ask the content store for every chunk,
`BatchAppend` writes what was missed in one block, `BatchContains`, `BatchInsert`
and `BatchRecord` register it; then `BatchIndex`, `BatchChain` and `BatchToc`
publish under one write lock of the table of contents (`Unlocked`). A compaction
is `CompactRead`, `CompactTruncate`, `CompactForget`, then one ordinary put per
live entry and an ordinary flush. `CompactRead` takes from the log what a read
would find there, not what the entry ought to hold. `work` has the local
variables of a bulk call. `stale` remembers that a truncation left the content store
with entries, `copy` whether the file holds the data, is being rebuilt by a
compaction, or was lost by a crash in between.

**`ArchiveFormat`** has the archive's bytes: `Header`, `Chunk`, `TocCells`,
`AttrCells`, `Block`, `Footer` write them, `HeaderOk`, `ReadChunk`, `ReadToc`,
`ReadAttrs`, `ScanForFooter` read them back, with each check and each missing check
of the code. A cell is one field, or one byte of a key, name or payload; the
alignment `Page` and the widths `U8`, `U16` are constants in cells. **`ArchiveFile`**
is the file as processes see it: `os` is what any process reads, `buffer` what the
writer holds back, `synced` how much is safe from a loss of power. The writer's
`Create`, `Open`, `Put`, `Checkpoint`, `Sync` follow `create_with_retention`, `open`,
`put_with_retention` and `execute_checkpoint` with its sync; `WriteOut` is the flush of the buffer, page by page as
another process may see it. `Kill` leaves any part of the buffer up to a page or a
cell behind one, `PowerLoss` keeps any subset of the unsynced pages and zeros the
rest. The reader is `ReaderOpen`, `ReaderScan`, `ReaderToc`, `ReaderClose`. `blocks`
(every checkpoint block and the tensors it stands for), `kept`, `tensors` and `torn`
are history. The threads inside the writer are the subject of `ShardedEngine`; here
the writer makes one call at a time.

**`Filters`** and **`Chimp128`** are the algorithms of `tpx-filter` and of the
Chimp128 codec as operators. The number of bits of a byte and of a word and the
length of the history are constants; integers are taken modulo their width.
**`ChunkCodec`** is a tensor's way through them: `Segments` (the chunker),
`AutoSelect`, `ChunkOf`, `ReadChunk`. Its one action puts a content under one
more element type; what is already in the file is shared.

**`RadixTree`** is the tree with its node shapes; the capacities 4, 16, 48 and
the byte alphabet are constants. **`Dictionary`** is the abstract map; the
refinement mapping is `get` on every key. `call` and `ret` are the last call and its
answer, so a step must do what that call asks and not what another might. `MCView`
leaves them out of the comparison of states: no step reads them.

Operators under a comment that begins "How ... could go wrong" are faulty
variants used to test that the properties can fail; no specification uses them.

## 3. The runs

| run | instance | shows |
|---|---|---|
| `backend_safety` | 2 threads, payloads below, at the edge of and at the limit (1, 2, 3 cells; limit 3), file up to 6 cells, fairness | type invariant; `BufferContinuesFile`, `AckedInPlace`, `ReadFindsExtent`, `SyncCoversAcked`; the backend implements the append log; every call returns |
| `backend_retry` | the same with failing writes, payloads below the limit | acknowledged data survives failed flushes, reads never see half-written extents, every call still returns |
| `backend_large_error` (violation) | failing writes, payloads at the limit | a failed large append leaves `write_buffer_start` behind `logical_len`: later data is written below its offset |
| `engine_sequential` | 1 thread, 2 keys, 2 values that share a chunk, `keep_latest` and `keep_last_n:2`, checkpoints by size, time and call, crashes and reopening | the engine implements the store; references, commits, reference counts and index agree |
| `engine_writers` | a thread that puts and flushes and one that puts, deletes and reads; crashes; no append of one inside a checkpoint of the other (`Exclusive`) | no entry names another tensor's chunk; what was committed survives; the map stays atomic under every other interleaving |
| `engine_flush_race` (violation) | a flush against a put | the footer names the put's chunk as the table of contents; after a crash the archive does not open |
| `engine_maintenance` | 1 thread, 2 keys, 3 values (empty, repeated, shared chunks), all policies incl. `keep_last_n:0`, two batches (shared chunk; one key three times), one compaction, crashes | after every call get reads, through the references, the map asked for, and entries resolve, as long as no compaction met a used content store; listed versions are the tensors put as such; the index agrees |
| `engine_compact_stale` (violation) | put, compact | the tensor's entry points behind the truncated file |
| `chunk_codec` | all contents of up to 6 bytes of 2 bits; words of 4 bits, history of 2, chunks of at most 5 bytes; 4 element types | cut, share and read back under any type; filters revert; Chimp128 never returns wrong data |
| `radix_tree` | 8 keys (5 bytes, the empty key, two below another), two of them with two values, capacities 2, 3, 4 | every call changes its own key as asked and returns what a map would, and prefix scans agree, as long as no slot of a Node48 is reused |
| `radix_tree_slots` (violation) | the same | the reuse of a slot loses another key |
| `archive_recovery` | pages of 16 cells, 2 payloads (one fills its page and ends as a footer would), up to 80 cells and 3 lives of the writer, kills and losses of power, one reader | open finds the newest whole checkpoint after any cut; the checksum would tell every torn table from a right one; a reader serves one checkpoint; what is written is read back |

*Bounds.* `MaxLen` (backend) lets the buffer fill twice and a large append follow
a part-full buffer. `MaxChanges` counts puts and deletes started while `past` is
that short: with 3, a key is put, replaced or deleted and put again. `MaxLog`
stops explicit checkpoints on a long log; two checkpoints around two puts fit.
`U32 = 16` keeps the wrap of the reference counters, which no passing run
reaches. Two threads suffice for the races between check and use that the code
has; every wait is for one mutex. Capacities 2, 3, 4 keep each growth and need 5
bytes; a leaf split needs a Node4 for two children. Six bytes make three words for
Chimp128, one more than its history holds, and six half words; every 4-bit word
and every pair of zero bounds occurs, and every length leaves every tail. Chunks of
2 to 5 bytes give contents of one to several chunks, and chunks of enough elements
for a shuffle to move bytes and for Chimp128 to be chosen. The engine runs set
CHECK_DEADLOCK FALSE because they stop at `MaxChanges` or when open fails,
`archive_recovery` because it stops at `MaxLives`.

In `archive_recovery`, 80 cells are five pages: header, chunk, block, chunk, block,
so a life can end behind one checkpoint and the next begin, and the last append may
go beyond the bound. Three lives allow a create, a recovery, and a recovery or a
create over what the recovery left. `U8 = 4`, `U16 = 5`, `MaxValue = 3` and `Word = 2`
let `Samples` hold keys, shapes, references and names at each limit and one beyond,
and a name whose cut splits a character of two bytes; 16 cells are enough for a
footer or a chunk header never to be longer than a page. The checksum of a block is
its number among the blocks, so two blocks never share one: the model asks what a
checksum that works would tell.

*Fairness.* `FairSpec` assumes strong fairness of each thread's own steps, not
of calls: threads are scheduled, and parking_lot's mutex hands itself over to a
waiter after a bounded time of being overtaken, so a thread that finds it free
again and again gets it.

*Conditions a run states.* `radix_tree` checks its properties in states where no
slot has been reused (`NoHoles`); the violation run shows what happens outside.
`backend_retry` leaves out `SyncCoversAcked`: `close` ignores the error of its
flush, syncs a file without the data and reports success, so it does not hold
with failing writes. `VersionsAgreeUndeleted` speaks of keys without deleted versions and of the time
before a compaction: after put, delete, put the chain counts from 0 again while
`get_version` counts deleted entries too, and answers version 0 with the deleted
tensor; a compaction empties the table of contents and not the chains.
`MapAsIntended` compares what get reads from the file, through the references of an
entry (`GetReturns`), with what the calls asked for. Like `RefsResolveFresh` it stops
where a truncation leaves the content store with old offsets (`stale`), which is where
`engine_compact_stale` begins; after a reopening the store is empty and a compaction
is held to the map. It also ends with a crash inside a compaction (`copy` is then
"lost"): between the truncation and its final flush a compaction keeps no second copy
of the data, an interval checkpoint in between commits a part of the map, and the
manual's promise about committed data is not kept. The interval of 2 lets such
checkpoints happen. Retention is not
checked over a reopening: `open` gives every chain `KeepForever`, so evicted
versions are listed again.
`CommittedSurvives` is checked with one thread, and with two under `Exclusive`, which
stands for callers who keep appends out of each other's checkpoints (the manual's
"1 writer", line 387, read that way; nothing in the engine enforces it):
`engine_flush_race` shows the other case.
`KillRecoversNewest` and `ReaderServesOneCheckpoint` speak of files in which every
block starts at a page (`Aligned`: `create` does not truncate, so over an old file
that ends inside a page the later footers are off the scan's grid) and no payload
looks like a footer where the scan looks (`NoLookalike`). `JudgedReaders` stops
following a reader once these conditions fail for it, as they do after a loss of
power, whose damage a reader cannot tell. `PowerLossWouldBeTold` is conditional on
the checksum agreeing: `open` reads it and never compares it, so as the code is, it
may serve a torn table, or fail although an older checkpoint is whole; a chunk page
that was lost reads as zeros, which pass for an empty payload.
`RoundTrips` says nothing of the state and is therefore asked once, before any
archive exists; entries wider than their length fields (`Fits`) do not come back. An
attribute value over the size limit is dropped without an error when the table is
written (`Accepted`); the entry comes back with its other attributes.

## 4. The proofs

**`MmapBackendProofs`**, assuming `~IoErrors`, on facts about `WriteAll`, `SetLen` and
`Holds` that it proves first: `BackendSafe` proves the type
invariant and the four safety invariants, `BackendImplementsAppendLog` the
refinement. The inductive invariant `IInv` adds to the type invariant: when the
mutex is free, buffer and file are continuous and all acknowledged extents are
in place (`FreeInv`); what the holder of the mutex knows at each of its steps,
for instance that in `append_large` the file ends at the reserved offset
(`HolderInv`); that the counters are ordered (`CounterInv`); and that what a
thread needs to read or sync lies below `write_buffer_start` once it has passed
its check. The last is why the unlocked load is harmless: only a truncation
lowers the counter, and it cuts `need` as well. One lemma per action shows it
preserves the invariant, one per action that it is a step or stutter of the log.

**`MmapBackendRetry`** lets writes fail. `BackendTypeCorrect` asks nothing more: the
state stays well formed whatever fails. `BackendRetrySafe` and
`BackendRetryReadFindsExtent` assume `SmallPayloads`, every payload shorter than the
buffer limit, because a large append that fails does break the backend (the run
`backend_large_error`). What the file holds behind `write_buffer_start` is then of no
account, since a half-written drain is written again at the same place; so the
invariant compares cells, the file's up to that mark and the buffer's behind it, and
says of every point of a drain or a header write that it changes no cell in front of
the mark that matters. `SyncCoversAcked` is not claimed: `close` goes on after a
failed flush.

**`ShardedEngineProofs`**: `EngineRefsResolve` proves for any threads, keys,
values, policies, intervals and crashes that every entry of the table of
contents, and every entry a get is reading, names exactly its own tensor's
chunks. The property alone is not inductive: the invariant also says it of the
references a put has collected so far, of the content store (each entry's offset
holds a chunk with that hash), of the snapshot a checkpoint carries, and of the
table of contents in every checkpoint block relative to the log in front of that
block, which is what survives the cut that open makes.

**`MmapBackendProofs`** also states three of the invariants in `BackendSafe` as
theorems of their own (`BackendBufferContinuesFile`, `BackendReadFindsExtent`,
`BackendSyncCoversAcked`).

The same module proves `EngineTypeCorrect`, the engine's type invariant: chains hold
versions under their policy, a reopened chain one of offsets, and the counters of the
content store stay below `U32` although releases wrap. It rests on what `Picked` (the
entries at some positions, in order) is, for any table: a sequence of as many entries.
`EngineVersionIds` adds that the ids of a chain follow one another, through evictions,
deletions and reopenings. `ChainAppendKeepsIds` is the fact behind it: for any chain
whose ids follow one another and any policy, changed from put to put or not, the new
version is the last, its id above all others, and as many stay as the policy says, at
least one.

**`EngineMaintenanceProofs`**: `MaintenanceRefsResolve`, assuming `CompactsAlone`: a
process in which some thread compacts has no other thread. (What another thread does
between the truncation and the new table of contents dangles, as the hazards at
engine.rs:864 say.) Batches run in any number of threads beside any other call.
`MaintenanceInv` keeps the engine's invariant and adds what a bulk call holds in its
local variables: of the places of a batch each is still to be looked up, or waits in
the buffer, or has a reference that leads to its chunk; after the append the n-th
chunk of the buffer lies n places behind the offset the append returned (`WorkLeads`).
Between the truncation and the new table nothing of this holds: what holds is that
file and content store are empty (`Emptied`), which is why `stale` is the condition.

**`ShardedEngineRefinement`** assumes `OneAtATime`: callers are `Exclusive`, or there
is one thread. That is what `engine_flush_race` shows to be needed. First it proves
`EngineCommittedSurvives`. `DurInv` says why a crash then costs nothing: every footer
in the file names its own block (`SelfPointing`), later blocks are at least as new
(`Ordered`), one at least as new as the last commit lies below `durable`
(`Committed`), and of a thread inside a checkpoint, how far it has come: the table
it carries is not older than any block, the offset it read is still the end of the
file, the block it appended is there (`Takes`).

On top of that comes `EngineImplementsTensorStore`, under the same
assumption: every step of the engine is a step of the atomic map or a stutter. A
restart must land on one moment of the past, so `MapInv` says of every table that
may come back (the engine's, the one a checkpoint carries, that of every block) that
it is the map its recorded history ends with, and that this history begins the
engine's own.

The same module proves `EngineIndexAgrees`, assuming that one thread alone puts and
deletes (others may read, checkpoint and close): between calls the radix trees index
exactly the live keys. The tree is written before the table of contents, so
`IndexInv` sets the key in between aside. After a reopening the tree comes from
entries that are not dead, wherever they are, while lookup looks at the last one
only; the two agree because a tombstone spares no earlier entry of its key
(`Closed`), which must hold of every table that may come back.

It also proves `EngineRefcountsCover`, again for one thread that puts and deletes:
between calls the refcount of every chunk the content store knows covers all places in
the versions of all keys that name it, whatever was deduplicated, evicted, deleted,
lost in a crash or reopened. Between the steps of a put this is not enough: the store
counts a chunk long before a chain names it. So `CountInv` adds to the places in
versions the chunks the put in progress has counted so far (`Tallied`), and the put's
chain step, which names them all at once and releases what the retention evicts,
balances: what a chain gains and what it loses is what the tensor names
(`ChainCount`), and the places in all chains change by what that one chain gained and
lost (`RekeyCount`). A new entry starts at 1, which is right only because the chunk is
still unknown when it is inserted. That a count never wraps around needs a bound:
`FewReferences` says that the puts of one history make fewer references than a `u32`
counts, and `CountInv` carries how many there can be so far. `OffsetsAreNoHashes` says
that the offsets a reopened chain lists are not content hashes; in the code both are
128-bit numbers, and a coincidence would only release a chunk's reference too early, as
a collision of two hashes would. With two putting threads the property does not hold
(content_store.rs:47: the loser of a race for the same chunk does not count its
reference), which is why `engine_writers` does not check it.

**`EngineMaintenanceMap`**: `MaintenanceMapAsIntended`, again assuming `CompactsAlone`:
between calls get reads from the file the map that the puts, deletes and batches asked
for, a compaction having changed nothing of it, as long as no truncation has left the
content store behind. Two facts make it: the table of contents stands for that map
(`Served`), and the references of its entries lead to the chunks of the tensors it stands
for, which is `MaintenanceInv` of the module before (`GetReads` joins them).
`MapInvariant` follows a compaction:
the table, overwritten with the tensors still to be put, is the map (`Restores`).
A tensor comes twice in what a compaction reads when its key has several entries, and
the step that reads is right because each copy has the latest value and because no live
key is missed (`LiveMap`, which needs `Closed` as the index does). The file has three
states (`copy`): whole, from some durable footer on, or from its beginning
(`ServesFrom`); being rebuilt, where only the flush at the end is followed; lost, after a
crash in between, of which the property says nothing.
What a compaction reads it reads through its references too, so the step stands on
`MaintenanceInv` as well: they are intact if every truncation so far found the content
store empty. The invariants have a parameter for what holds without that: the engine's,
with `intact` FALSE, keeps the types and the places and says nothing of references
(`ShapeInv`); `MapInvariant`, with `sane` FALSE, keeps that tables are closed and that a
compaction reads one tensor per live key at least, whatever chunks it finds
(`TensorsRead`). `MaintenanceWorkOK` follows from that half alone, for any
number of compactions and crashes.

**`EngineMaintenanceMemory`**: `MaintenanceIndexAgrees`, assuming `CompactsAlone` and
`OneChanger`, one thread alone that puts, deletes, batches or compacts: between calls
the radix trees index exactly the live keys. Neither a crash inside a compaction nor
dangling references are excepted here. A batch writes trees and chains tensor by tensor
and the table once at the end, so until then each key of the batch is set aside
(`Touching`) and what the tree has for it is the last tensor so far (`ThreadTrees`). A
compaction is the other way round: it empties the table and never looks at the trees, so
the trees are right afterwards only because every key in them is put again. `Coming`
says which still are, and `TreesInv` joins the two.

Under the same assumptions `MaintenanceVersionsAgree`: until a first compaction, every
version that the chain of an undeleted key lists is found by get_version, and is the
tensor put under that number. Chains and table count apart, and the chain is first, so
`VersionsInv` compares the chain with the table as it will be: `Ahead` is what the one
changing thread has in the chains and not yet in the table, one entry of a put or the
tensors of a batch so far. A chain then lists the last of its key's entries, with their
places as numbers (`Lists`), whatever the retention has evicted; a reopening starts over
from the table, so nothing has to be known of the file. With two changing threads chain
and table may disagree on the order; after a deletion they disagree on the count (the
hazard at engine.rs:725), and so they do after a compaction, which leaves the chains.

**`FilterProofs`**: for data of any length and elements of any size `Unshuffle` undoes
`Shuffle` (`ShuffleReverts`), and for any even modulus `UnZigZag` undoes `ZigZag`, where
the shift overflows too (`ZigZagReverts`).

Assumptions: only `ConfigAssumption`, `ZeroAssumption`, `EngineAssumption`,
`StoreAssumption` and `BulkAssumption`, which TLC evaluates in the runs, and those a
theorem's ASSUME names.

Model-checked only: liveness; `ChunkCodec` and `Chimp128` as wholes; `RadixTree` and `ArchiveFile`,
which rest on recursive operators.

## 5. What the model leaves out

* Distinct keys, and distinct contents, have distinct hashes.
* In the engine modules a torn block is not a block, and a crash keeps whole
  appends; how the bytes of a torn one are read is in `ArchiveFile`.
* A file of `ArchiveFile` has one reader at a time, and pages as the unit of what a
  loss of power keeps. Header fields that nothing reads (flags, block size, global
  attributes) are left out. A put writes one chunk and one block per chunk.
* The backend's file lock is no variable: it is always taken last, and each section
  under it is one step. Taking the mutex and the first assignment under it are one step
  in `TruncateBegin`.
* Callers of truncate only pass lengths between the header and
  `write_buffer_start`; `set_len` and `sync` themselves do not fail.
* The engine runs on a backend without write errors. Nor does its compression fail:
  `put` returns early and `put_batch` falls back to the raw bytes (engine.rs:373) when
  `compress` fails, but with the speed floor of 250 that the engine sets, `auto_select`
  chooses LZ4 or none and no filter, neither of which fails. The filters and Chimp128
  are checked as parts of the format, which that floor keeps out of use.
* In the engine modules an entry's value stands for bytes, attributes, shape and
  dtype; what happens to the bytes is in `ChunkCodec`.
* LZ4 and Zstd are libraries and taken as lossless. The estimates of `auto_select`
  (correlation, trend, entropy) are left open: any answer is allowed.
* Shards split locks and decide nothing else; `chunk_count` and `append_offset`
  are never read for a decision. Read-only mode only adds early returns.
* One writing process. After close the engine still accepts puts (as in the code), but
  a second writer that takes the released file lock is not modelled.
* Bulk calls run in one thread in the checked instance, and no reader process lives
  through a compaction. `compact` holds the read lock of the table of contents while
  its gets take it again (engine.rs:835): with a writer waiting in between this may
  block for ever, and the queue of that lock is not modelled. Queries (`diff`,
  prefix and batch reads) only read.
* SuRF and RadixSpline are a sorted list and a binary search of the standard library,
  built with every table of contents and asked by nothing but a test; `tpx-accel`,
  `tpx-gpu` and `hugepages` are stubs; the Zstd dictionaries are trained and never used.

## 6. Plan

1. Done: backend, engine, batches and compaction, radix tree, chunker, codecs and
   filters, byte formats, recovery, loss of power, a reader process; type and safety
   invariants; the proofs of section 4.
2. Not yet: the read-write lock of the table of contents with its queue of waiters,
   under get, put and the double read of `compact`; bulk calls against other threads
   and readers, for which neither code nor manual says what they promise.
3. More proofs: that one call of the Chimp128 decoder undoes one call of the encoder;
   the bit shuffle for every length.
