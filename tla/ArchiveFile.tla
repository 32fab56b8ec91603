----------------------------- MODULE ArchiveFile ----------------------------
(***************************************************************************)
(* An archive as the file it is: one writer process that creates or opens   *)
(* it, puts tensors and checkpoints; its death in the middle of a write; a  *)
(* loss of power that tears what was not synced; and a reader process that  *)
(* opens the file while the writer works (tpx-shard engine and checkpoint,  *)
(* tpx-core footer, tpx-engine database).  The threads inside the writer    *)
(* are the subject of ShardedEngine; here it makes one call at a time.      *)
(***************************************************************************)
EXTENDS ArchiveFormat

CONSTANTS Keys,          \* the keys put
          MaxEntries,    \* bound: entries of a table of contents
          MaxLen,        \* bound: nothing is written beyond this length
          MaxLives,      \* bound: how often a writer creates or opens the file
          Samples        \* tables of contents to be written and read back

ASSUME ArchiveAssumption == {MaxEntries, MaxLen, MaxLives} \subseteq Nat

VARIABLES os,        \* the file as every process sees it
          buffer,    \* write_buffer: what the writer appended behind it
          synced,    \* how much of the file is on the disk for sure
          status,    \* the writer: "down", "open", or "syncing" a checkpoint
          toc,       \* master_toc
          store,     \* content_store: the reference of each payload it knows
          lives,     \* how often a writer has created or opened the file
          reader,    \* the reader process
          tensors,   \* history: what the entries of toc were made for
          blocks,    \* history: the checkpoint blocks appended to the file
          kept,      \* history: how many of them the last commit covers
          torn       \* history: whether a loss of power left damage in the file

writer == <<status, toc, store, tensors, lives>>
history == <<blocks, kept, torn>>
vars == <<os, buffer, synced, status, toc, store, lives, reader, tensors, blocks, kept,
          torn>>

File == os \o buffer

NoRef == <<>>
Known(p) == store[p] # NoRef
PayloadSet == ToSet(Payloads)
EmptyStore == [p \in PayloadSet |-> NoRef]

NoReader == [pc |-> "none", len |-> 0, at |-> 0, off |-> 0, checksum |-> 0, since |-> 0,
             fair |-> TRUE, toc |-> <<>>, block |-> 0, tensors |-> <<>>]

Init == /\ os = <<>> /\ buffer = <<>> /\ synced = 0
        /\ status = "down" /\ toc = <<>> /\ store = EmptyStore
        /\ lives = 0 /\ reader = NoReader
        /\ tensors = <<>> /\ blocks = <<>> /\ kept = 0 /\ torn = FALSE

-----------------------------------------------------------------------------
(* The conditions of the properties.                                        *)
(* Nobody created an archive over a file that does not end with a page.     *)
Aligned == \A i \in DOMAIN blocks : blocks[i].off % Page = 0

(* No payload looks like a footer where the scan looks.                     *)
NoLookalike(c) ==
  \A at \in AlignedProbes(c) \union {Len(c) - FooterSize} :
    IsFooter(c, at) => \E i \in DOMAIN blocks : blocks[i].end = at + FooterSize

(* What open makes of a file: the footer of the scan, and the table of      *)
(* contents in front of it.  The checksum is read and never compared.       *)
TocAt(c, off, at) == ReadToc(Slice(c, off, at - off))

NotRecovered == [ok |-> FALSE, at |-> NoFooter, off |-> 0, checksum |-> 0,
                 toc |-> <<>>, used |-> 0]

Recover(c) ==
  LET at  == IF HeaderOk(c) THEN ScanForFooter(c) ELSE NoFooter
      off == Cell(c, at)
      got == TocAt(c, off, at)
  IN  IF at = NoFooter THEN NotRecovered
      ELSE [ok |-> got.ok, at |-> at, off |-> off, checksum |-> Cell(c, at + 1),
            toc |-> got.read, used |-> got.pos]

(* What comparing the checksum would say: it is the one of these bytes at   *)
(* this offset.  The checksum of a block is its number among the blocks.    *)
Verified(c, r) ==
  /\ r.checksum \in DOMAIN blocks
  /\ blocks[r.checksum].off = r.off
  /\ blocks[r.checksum].bytes = Slice(c, r.off, r.used)

ReadAll(c, entries) == [i \in DOMAIN entries |-> ReadTensor(c, entries[i])]

BlocksIn(c) == SelectSeq(blocks, LAMBDA b : b.end <= Len(c))

Least(m, n) == IF m < n THEN m ELSE n

-----------------------------------------------------------------------------
(* create writes the header over whatever file there is, and appends behind *)
(* its end; database.open creates when there is no file.                    *)
Create ==
  /\ status = "down" /\ lives < MaxLives
  /\ Len(os) < MaxLen
  /\ os' = Header(1) \o SubSeq(os, Page + 1, Len(os))
  /\ synced' = IF HeaderOk(os) THEN synced ELSE 0
  /\ status' = "open" /\ toc' = <<>> /\ store' = EmptyStore /\ tensors' = <<>>
  /\ lives' = lives + 1
  /\ UNCHANGED <<buffer, reader, history>>

(* open for writing cuts what lies behind the footer.  When nothing can be  *)
(* recovered it fails and changes nothing.                                  *)
Open ==
  LET r == Recover(os)
  IN  /\ status = "down" /\ lives < MaxLives
      /\ r.ok
      /\ os' = SubSeq(os, 1, r.at + FooterSize)
      /\ synced' = Least(synced, Len(os'))
      /\ status' = "open" /\ toc' = r.toc /\ store' = EmptyStore
      /\ lives' = lives + 1
      /\ tensors' = ReadAll(os, r.toc)
      /\ blocks' = BlocksIn(os')
      /\ kept' = Least(kept, Len(blocks'))
      /\ torn' = (torn /\ ~(Verified(os, r) /\ tensors' = blocks[r.checksum].tensors))
      /\ UNCHANGED <<buffer, reader>>

(* put: a payload the content store knows is not written again.             *)
Put == \E k \in Keys, p \in PayloadSet :
  LET chunk == Chunk(0, 0, p)
      ref   == IF Known(p) THEN store[p] ELSE <<0, Len(File), Len(chunk)>>
  IN  /\ status = "open"
      /\ Len(toc) < MaxEntries /\ Len(File) < MaxLen
      /\ buffer' = IF Known(p) THEN buffer ELSE buffer \o chunk
      /\ store' = [store EXCEPT ![p] = ref]
      /\ toc' = Append(toc, NewEntry(k, 0, <<>>, NoAttrs, <<ref>>))
      /\ tensors' = Append(tensors, p)
      /\ UNCHANGED <<os, synced, status, lives, reader, history>>

(* How a checkpoint could go wrong: its offset leaves out the buffer.       *)
CheckpointOfFile ==
  /\ status = "open"
  /\ Len(File) < MaxLen
  /\ LET block == Block(toc, Len(os), Len(blocks) + 1)
     IN  /\ buffer' = buffer \o block
         /\ blocks' = Append(blocks, [off |-> Len(File), end |-> Len(File) + Len(block),
                                      bytes |-> TocCells(toc), tensors |-> tensors])
  /\ status' = "syncing"
  /\ UNCHANGED <<os, synced, toc, store, lives, reader, tensors, kept, torn>>

(* execute_checkpoint, also of flush and close, up to its append.           *)
Checkpoint ==
  /\ status = "open"
  /\ Len(File) < MaxLen
  /\ LET block == Block(toc, Len(File), Len(blocks) + 1)
     IN  /\ buffer' = buffer \o block
         /\ blocks' = Append(blocks, [off |-> Len(File), end |-> Len(File) + Len(block),
                                      bytes |-> TocCells(toc), tensors |-> tensors])
  /\ status' = "syncing"
  /\ UNCHANGED <<os, synced, toc, store, lives, reader, tensors, kept, torn>>

(* How a commit could go wrong: the buffer stays behind, ...                *)
SyncUnflushed ==
  /\ status = "syncing"
  /\ synced' = Len(File)
  /\ status' = "open"
  /\ kept' = Len(blocks)
  /\ UNCHANGED <<os, buffer, toc, store, lives, reader, tensors, blocks, torn>>

(* ... or it is written, and nothing synced.                                *)
SyncNothing ==
  /\ status = "syncing"
  /\ os' = File /\ buffer' = <<>> /\ synced' = synced
  /\ status' = "open"
  /\ kept' = Len(blocks)
  /\ UNCHANGED <<toc, store, lives, reader, tensors, blocks, torn>>

(* ... and its sync: the checkpoint is committed.                           *)
Sync ==
  /\ status = "syncing"
  /\ os' = File /\ buffer' = <<>> /\ synced' = Len(File)
  /\ status' = "open"
  /\ kept' = Len(blocks)
  /\ UNCHANGED <<toc, store, lives, reader, tensors, blocks, torn>>

(* The buffer reaches the file when it is full, before a sync and before a  *)
(* read; another process may see it arrive page by page.                    *)
WriteOut ==
  /\ \E n \in 1 .. Len(buffer) :
       /\ n % Page = 0 \/ n = Len(buffer)
       /\ os' = os \o SubSeq(buffer, 1, n)
       /\ buffer' = SubSeq(buffer, n + 1, Len(buffer))
  /\ UNCHANGED <<synced, writer, reader, history>>

-----------------------------------------------------------------------------
Lost == /\ status' = "down" /\ toc' = <<>> /\ store' = EmptyStore /\ tensors' = <<>>
        /\ buffer' = <<>>
        /\ blocks' = BlocksIn(os')

(* The writer dies: a part of its buffer may get into the file,             *)
(* perhaps with one cell of the next page.                                  *)
Kill ==
  /\ status # "down"
  /\ \E n \in 0 .. Len(buffer) : /\ n % Page \in {0, 1} \/ n = Len(buffer)
                                 /\ os' = os \o SubSeq(buffer, 1, n)
  /\ Lost
  /\ UNCHANGED <<synced, lives, reader, kept, torn>>

(* The power fails: of the pages that were not synced, any are on the disk; *)
(* the others read as zeros, or the file is shorter.                        *)
PageOf(i) == (i - 1) \div Page

Torn(n, lost) ==
  [i \in 1 .. n |-> IF i > synced /\ PageOf(i) \in lost THEN 0 ELSE os[i]]

PowerLoss ==
  /\ synced < Len(os)
  /\ \E n \in synced .. Len(os) :
       /\ n % Page = 0 \/ n \in {synced, Len(os)}
       /\ \E lost \in SUBSET {PageOf(i) : i \in synced + 1 .. n} : os' = Torn(n, lost)
  /\ Lost
  /\ synced' = Len(os')
  /\ reader' = NoReader
  /\ torn' = TRUE
  /\ UNCHANGED <<lives, kept>>

-----------------------------------------------------------------------------
(* The reader opens the file: its length, then header and contents up to    *)
(* that length, then the table of contents are three reads.                 *)
ReaderOpen ==
  /\ reader.pc = "none"
  /\ Len(os) >= HeaderSize
  /\ reader' = [NoReader EXCEPT !.pc = "scan", !.len = Len(os), !.since = kept,
                                 !.fair = ~torn /\ Aligned /\ NoLookalike(os)]
  /\ UNCHANGED <<os, buffer, synced, writer, history>>

ReaderScan ==
  LET seen == SubSeq(os, 1, reader.len)
      at   == ScanForFooter(seen)
  IN  /\ reader.pc = "scan"
      /\ IF reader.len <= Len(os) /\ HeaderOk(seen) /\ at # NoFooter
         THEN reader' = [reader EXCEPT !.pc = "toc", !.at = at, !.off = Cell(seen, at),
                                       !.checksum = Cell(seen, at + 1),
                                       !.fair = @ /\ Aligned /\ NoLookalike(seen)]
         ELSE reader' = NoReader
      /\ UNCHANGED <<os, buffer, synced, writer, history>>

ReaderToc ==
  LET got == TocAt(os, reader.off, reader.at)
      r   == [reader EXCEPT !.pc = "open", !.toc = got.read]
      ok  == Verified(os, [checksum |-> reader.checksum, off |-> reader.off,
                           used |-> got.pos])
  IN  /\ reader.pc = "toc"
      /\ IF reader.at <= Len(os) /\ got.ok
         THEN reader' = [r EXCEPT !.block = IF ok THEN reader.checksum ELSE 0,
                                  !.tensors = IF ok THEN blocks[reader.checksum].tensors
                                              ELSE <<>>]
         ELSE reader' = NoReader
      /\ UNCHANGED <<os, buffer, synced, writer, history>>

ReaderClose ==
  /\ reader.pc = "open"
  /\ reader' = NoReader
  /\ UNCHANGED <<os, buffer, synced, writer, history>>

-----------------------------------------------------------------------------
Next == \/ Create \/ Open \/ Put \/ Checkpoint \/ Sync \/ WriteOut
        \/ Kill \/ PowerLoss
        \/ ReaderOpen \/ ReaderScan \/ ReaderToc \/ ReaderClose

Spec == Init /\ [][Next]_vars

-----------------------------------------------------------------------------
TypeOK ==
  /\ os \in Seq(Nat) /\ buffer \in Seq(Nat)
  /\ synced \in 0 .. Len(os)
  /\ status \in {"down", "open", "syncing"}
  /\ status = "down" => buffer = <<>>
  /\ reader.pc \in {"none", "scan", "toc", "open"}
  /\ kept \in Nat /\ lives \in 0 .. MaxLives
  /\ torn \in BOOLEAN

(* A table of contents whose fields hold what they are given is read back   *)
(* as it was written, whatever the attributes, the multi-byte characters at *)
(* the limit of a name, and the zeros that pad the block (toc.rs, attrs.rs). *)
(* An attribute whose value is too large is missing, and only that one.      *)
(* This says nothing of the state: it is asked once, before any archive is.  *)
RoundTrips == lives = 0 =>
  \A t \in Samples : (\A i \in DOMAIN t : Fits(t[i])) =>
    LET got == ReadToc(TocCells(t) \o Zeros(Page))
    IN  got.ok /\ got.read = [i \in DOMAIN t |-> [t[i] EXCEPT !.attrs = Accepted(@)]]

(* The death of the writer alone costs nothing that reached the file: open  *)
(* finds the newest block that is there as a whole, however the tail behind *)
(* it was cut, and every tensor of its table of contents reads back.        *)
KillRecoversNewest ==
  status = "down" /\ ~torn /\ Aligned /\ NoLookalike(os) =>
    LET r == Recover(os)
        b == blocks[Len(blocks)]
    IN  /\ r.ok <=> blocks # <<>>
        /\ r.ok => r.checksum = Len(blocks) /\ ReadAll(os, r.toc) = b.tensors

(* After a loss of power the checksum of the footer would tell every wrong  *)
(* table of contents from a right one: when it agrees, open serves a        *)
(* checkpoint not older than the last commit.  Of the last commit every     *)
(* tensor is as it was; of a later checkpoint a tensor may also be an error *)
(* or, because its page was never written, be empty.                        *)
PowerLossWouldBeTold ==
  status = "down" /\ Aligned =>
    LET r       == Recover(os)
        damaged == IF r.checksum = kept THEN {} ELSE {Unreadable, <<>>}
    IN  r.ok /\ Verified(os, r) =>
          /\ r.checksum >= kept
          /\ \A i \in DOMAIN r.toc :
               ReadTensor(os, r.toc[i]) \in {blocks[r.checksum].tensors[i]} \union damaged

(* A reader next to a working, dying and reopening writer serves one        *)
(* checkpoint, not older than the last commit when it opened, and each get  *)
(* returns that checkpoint's tensor for as long as the reader lives.        *)
ReaderServesOneCheckpoint ==
  reader.pc = "open" /\ reader.fair =>
    /\ reader.block >= reader.since /\ reader.block > 0
    /\ ReadAll(os, reader.toc) = reader.tensors
=============================================================================
