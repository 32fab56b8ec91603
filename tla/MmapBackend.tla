----------------------------- MODULE MmapBackend ----------------------------
(***************************************************************************)
(* The file backend of tpx-io (mmap.rs): a file, a write buffer in front of *)
(* it under a mutex, and two atomic counters.  Several threads call it at   *)
(* once; a step of a thread is what it does between two points where        *)
(* another thread can see or change something: taking the write-buffer      *)
(* mutex, one critical section of the file lock, one load of an atomic.     *)
(* The file lock is never held across a step, so it needs no variable.      *)
(***************************************************************************)
EXTENDS ByteFile

CONSTANTS Threads,
          NoThread,     \* nobody holds the mutex
          Payloads,     \* the data append is called with
          Headers,      \* the images write_at(0, ..) is called with
          HeaderLen,
          Limit,        \* WRITE_BUFFER_LIMIT, in cells
          IoErrors,     \* whether a write to the file may fail
          MaxLen        \* bound: no append beyond this length

ASSUME ConfigAssumption ==
  /\ NoThread \notin Threads
  /\ HeaderLen \in Nat
  /\ Limit \in Nat \ {0}
  /\ MaxLen \in Nat
  /\ IoErrors \in BOOLEAN
  /\ Headers \subseteq Seq(Cell)
  /\ \A h \in Headers : Len(h) = HeaderLen
  /\ Payloads \subseteq Seq(Cell) \ {<<>>}

VARIABLES file,        \* what the operating system holds
          wb,          \* write_buffer
          wbStart,     \* write_buffer_start
          logicalLen,  \* logical_len
          wbLock,      \* the holder of the write_buffer mutex
          pc, arg,     \* per thread: where it is, and the extent it works on
          acked,       \* history: extents returned by append and not cut since
          need         \* history, per thread: the extents acked when its call began

vars == <<file, wb, wbStart, logicalLen, wbLock, pc, arg, acked, need>>

Entry == [off : Nat, data : Payloads]

\* A call whose argument is not an extent to place works on the empty one.
NoExtent == Extent(0, <<>>)

FlushPcs == {"read_flush", "write_flush", "sync_flush", "close_flush"}
LockedPcs == {"append_drain", "append_large", "append_small", "truncate_set_len",
              "read_drain", "write_drain", "sync_drain", "close_drain"}
FilePcs == {"read_file", "write_file", "sync_data"}
Pcs == {"idle", "read_start"} \union FlushPcs \union LockedPcs \union FilePcs

TypeOK == /\ file \in Seq(Cell)
          /\ wb \in Seq(Cell)
          /\ wbStart \in Nat
          /\ logicalLen \in Nat
          /\ wbLock \in Threads \union {NoThread}
          /\ pc \in [Threads -> Pcs]
          /\ arg \in [Threads -> [off : Nat, data : Seq(Cell)]]
          /\ acked \subseteq Entry
          /\ need \in [Threads -> SUBSET Entry]

(* open_or_create on the file create_with_retention leaves: just a header.  *)
Init == /\ file \in Headers
        /\ wb = <<>>
        /\ wbStart = Len(file)
        /\ logicalLen = Len(file)
        /\ wbLock = NoThread
        /\ pc = [t \in Threads |-> "idle"]
        /\ arg = [t \in Threads |-> NoExtent]
        /\ acked = {}
        /\ need = [t \in Threads |-> {}]

-----------------------------------------------------------------------------
Goto(t, label) == pc' = [pc EXCEPT ![t] = label]

Lock(t) == wbLock = NoThread /\ wbLock' = t
Unlock(t) == wbLock = t /\ wbLock' = NoThread

(* A call leaves nothing behind in the history of its thread.               *)
Return(t) == /\ Goto(t, "idle")
             /\ arg' = [arg EXCEPT ![t] = NoExtent]
             /\ need' = [need EXCEPT ![t] = {}]

(* The write of the whole buffer at write_buffer_start.                     *)
Drained == WriteAll(file, wbStart, wb)

-----------------------------------------------------------------------------
(* How append could go wrong: large data that overtakes a buffer that is    *)
(* not empty; a drain that leaves write_buffer_start behind.                *)
AppendBeginOvertakes(t) == \E d \in Payloads :
  /\ pc[t] = "idle"
  /\ logicalLen + Len(d) <= MaxLen
  /\ Lock(t)
  /\ arg' = [arg EXCEPT ![t] = Extent(logicalLen, d)]
  /\ logicalLen' = logicalLen + Len(d)
  /\ Goto(t, IF Len(d) < Limit THEN "append_small" ELSE "append_large")
  /\ UNCHANGED <<file, wb, wbStart, acked, need>>

AppendSmallForgetsStart(t) ==
  /\ pc[t] = "append_small"
  /\ LET full == wb \o arg[t].data
     IN  IF Len(full) < Limit
         THEN wb' = full /\ UNCHANGED file
         ELSE file' = WriteAll(file, wbStart, full) /\ wb' = <<>>
  /\ acked' = acked \union {arg[t]}
  /\ Unlock(t)
  /\ Return(t)
  /\ UNCHANGED <<logicalLen, wbStart>>

(* append.  The mutex is held from the first step to the return.            *)
AppendBegin(t) == \E d \in Payloads :
  /\ pc[t] = "idle"
  /\ logicalLen + Len(d) <= MaxLen
  /\ Lock(t)
  /\ arg' = [arg EXCEPT ![t] = Extent(logicalLen, d)]
  /\ logicalLen' = logicalLen + Len(d)
  /\ Goto(t, IF Len(d) < Limit THEN "append_small"
             ELSE IF wb # <<>> THEN "append_drain" ELSE "append_large")
  /\ UNCHANGED <<file, wb, wbStart, acked, need>>

(* Large data: the buffer goes first; write_buffer_start is not moved here. *)
AppendDrain(t) ==
  /\ pc[t] = "append_drain"
  /\ file' = Drained
  /\ wb' = <<>>
  /\ Goto(t, "append_large")
  /\ UNCHANGED <<wbStart, logicalLen, wbLock, arg, acked, need>>

AppendLarge(t) ==
  /\ pc[t] = "append_large"
  /\ file' = WriteAll(file, arg[t].off, arg[t].data)
  /\ wbStart' = ExtentEnd(arg[t])
  /\ acked' = acked \union {arg[t]}
  /\ Unlock(t)
  /\ Return(t)
  /\ UNCHANGED <<wb, logicalLen>>

(* Small data stays in the buffer until the buffer reaches the limit.       *)
AppendSmall(t) ==
  /\ pc[t] = "append_small"
  /\ LET full == wb \o arg[t].data
     IN  IF Len(full) < Limit
         THEN wb' = full /\ UNCHANGED <<file, wbStart>>
         ELSE /\ file' = WriteAll(file, wbStart, full)
              /\ wbStart' = wbStart + Len(full)
              /\ wb' = <<>>
  /\ acked' = acked \union {arg[t]}
  /\ Unlock(t)
  /\ Return(t)
  /\ UNCHANGED logicalLen

-----------------------------------------------------------------------------
(* flush_buffer_internal, called from read_at, write_at, sync and close.    *)
AfterFlush(label) == CASE label \in {"read_flush", "read_drain"}   -> "read_file"
                       [] label \in {"write_flush", "write_drain"} -> "write_file"
                       [] OTHER                                    -> "sync_data"

DrainOf(label) == CASE label = "read_flush"  -> "read_drain"
                    [] label = "write_flush" -> "write_drain"
                    [] label = "sync_flush"  -> "sync_drain"
                    [] label = "close_flush" -> "close_drain"

(* How a flush could go wrong: an early return that keeps the mutex; a      *)
(* counter moved the wrong way.                                             *)
FlushEmptyKeepsLock(t) ==
  /\ pc[t] \in FlushPcs
  /\ wb = <<>>
  /\ Lock(t)
  /\ Goto(t, AfterFlush(pc[t]))
  /\ UNCHANGED <<file, wb, wbStart, logicalLen, arg, acked, need>>

FlushDrainBackwards(t) ==
  /\ pc[t] \in {"read_drain", "write_drain", "sync_drain", "close_drain"}
  /\ file' = Drained
  /\ wbStart' = wbStart - Len(wb)
  /\ wb' = <<>>
  /\ Unlock(t)
  /\ Goto(t, AfterFlush(pc[t]))
  /\ UNCHANGED <<logicalLen, arg, acked, need>>

(* An empty buffer: the mutex is taken and given back, nothing is written.  *)
FlushEmpty(t) ==
  /\ pc[t] \in FlushPcs
  /\ wbLock = NoThread
  /\ wb = <<>>
  /\ Goto(t, AfterFlush(pc[t]))
  /\ UNCHANGED <<file, wb, wbStart, logicalLen, wbLock, arg, acked, need>>

FlushLock(t) ==
  /\ pc[t] \in FlushPcs
  /\ wb # <<>>
  /\ Lock(t)
  /\ Goto(t, DrainOf(pc[t]))
  /\ UNCHANGED <<file, wb, wbStart, logicalLen, arg, acked, need>>

FlushDrain(t) ==
  /\ pc[t] \in {"read_drain", "write_drain", "sync_drain", "close_drain"}
  /\ file' = Drained
  /\ wbStart' = wbStart + Len(wb)
  /\ wb' = <<>>
  /\ Unlock(t)
  /\ Goto(t, AfterFlush(pc[t]))
  /\ UNCHANGED <<logicalLen, arg, acked, need>>

-----------------------------------------------------------------------------
(* read_at of an extent: the callers hold chunk references, which are the   *)
(* offsets append returned.                                                 *)
ReadBegin(t) == \E e \in acked :
  /\ pc[t] = "idle"
  /\ arg' = [arg EXCEPT ![t] = e]
  /\ need' = [need EXCEPT ![t] = {e}]
  /\ Goto(t, "read_start")
  /\ UNCHANGED <<file, wb, wbStart, logicalLen, wbLock, acked>>

(* How read_at could go wrong: it looks at the start of the extent only.    *)
ReadCheckStart(t) ==
  /\ pc[t] = "read_start"
  /\ Goto(t, IF arg[t].off > wbStart THEN "read_flush" ELSE "read_file")
  /\ UNCHANGED <<file, wb, wbStart, logicalLen, wbLock, arg, acked, need>>

(* The unlocked load of write_buffer_start decides whether to flush.        *)
ReadCheck(t) ==
  /\ pc[t] = "read_start"
  /\ Goto(t, IF ExtentEnd(arg[t]) > wbStart THEN "read_flush" ELSE "read_file")
  /\ UNCHANGED <<file, wb, wbStart, logicalLen, wbLock, arg, acked, need>>

(* read_exact: what it returns is what the file holds now, or an error.     *)
ReadFile(t) ==
  /\ pc[t] = "read_file"
  /\ Return(t)
  /\ UNCHANGED <<file, wb, wbStart, logicalLen, wbLock, acked>>

-----------------------------------------------------------------------------
(* write_at(0, header), the only use of write_at.                           *)
WriteBegin(t) == \E h \in Headers :
  /\ pc[t] = "idle"
  /\ arg' = [arg EXCEPT ![t] = Extent(0, h)]
  /\ Goto(t, "write_flush")
  /\ UNCHANGED <<file, wb, wbStart, logicalLen, wbLock, acked, need>>

WriteFile(t) ==
  /\ pc[t] = "write_file"
  /\ file' = WriteAll(file, arg[t].off, arg[t].data)
  /\ logicalLen' = Larger(logicalLen, ExtentEnd(arg[t]))
  /\ wbStart' = Larger(wbStart, ExtentEnd(arg[t]))
  /\ Return(t)
  /\ UNCHANGED <<wb, wbLock, acked>>

-----------------------------------------------------------------------------
(* How sync could go wrong: it syncs the file and leaves the buffer.        *)
SyncBeginUnflushed(t) ==
  /\ pc[t] = "idle"
  /\ need' = [need EXCEPT ![t] = acked]
  /\ Goto(t, "sync_data")
  /\ UNCHANGED <<file, wb, wbStart, logicalLen, wbLock, arg, acked>>

(* sync and close: both flush, then sync the file.  They differ only in     *)
(* what a failed flush does (WriteError).                                   *)
SyncBegin(t) ==
  /\ pc[t] = "idle"
  /\ need' = [need EXCEPT ![t] = acked]
  /\ \E label \in {"sync_flush", "close_flush"} : Goto(t, label)
  /\ UNCHANGED <<file, wb, wbStart, logicalLen, wbLock, arg, acked>>

SyncData(t) ==
  /\ pc[t] = "sync_data"
  /\ Return(t)
  /\ UNCHANGED <<file, wb, wbStart, logicalLen, wbLock, acked>>

-----------------------------------------------------------------------------
(* How truncate could go wrong: it keeps the buffer.                        *)
TruncateBeginKeepsBuffer(t) == \E n \in HeaderLen .. wbStart :
  /\ pc[t] = "idle"
  /\ Lock(t)
  /\ wbStart' = n
  /\ logicalLen' = n
  /\ acked' = {e \in acked : ExtentEnd(e) <= n}
  /\ need' = [u \in Threads |-> {e \in need[u] : ExtentEnd(e) <= n}]
  /\ Goto(t, "truncate_set_len")
  /\ UNCHANGED <<file, wb, arg>>

(* truncate: never above what is in the file, never into the header.  It    *)
(* moves both counters before set_len.                                      *)
TruncateBegin(t) == \E n \in HeaderLen .. wbStart :
  /\ pc[t] = "idle"
  /\ Lock(t)
  /\ wb' = <<>>
  /\ wbStart' = n
  /\ logicalLen' = n
  /\ acked' = {e \in acked : ExtentEnd(e) <= n}
  /\ need' = [u \in Threads |-> {e \in need[u] : ExtentEnd(e) <= n}]
  /\ Goto(t, "truncate_set_len")
  /\ UNCHANGED <<file, arg>>

TruncateSetLen(t) ==
  /\ pc[t] = "truncate_set_len"
  /\ file' = SetLen(file, wbStart)
  /\ Unlock(t)
  /\ Return(t)
  /\ UNCHANGED <<wb, wbStart, logicalLen, acked>>

-----------------------------------------------------------------------------
(* A write_all that fails after writing part of its data.  The mutex guard  *)
(* is dropped by the early return; the counters and the buffer stay as they *)
(* were at that point.  close ignores the error of its flush.               *)
Writing(t) ==
  CASE pc[t] = "append_large" -> arg[t]
    [] pc[t] = "append_small" -> Extent(wbStart, wb \o arg[t].data)
    [] pc[t] = "write_file"   -> arg[t]
    [] OTHER                  -> Extent(wbStart, wb)

PartlyWritten(t) ==
  /\ IoErrors
  /\ pc[t] \in (LockedPcs \ {"truncate_set_len"}) \union {"write_file"}
  /\ pc[t] = "append_small" => Len(wb) + Len(arg[t].data) >= Limit
  /\ \E k \in 0 .. Len(Writing(t).data) - 1 :
       file' = IF k = 0 THEN file
               ELSE WriteAll(file, Writing(t).off, SubSeq(Writing(t).data, 1, k))

KeptBuffer(t) == IF pc[t] = "append_small" THEN wb \o arg[t].data ELSE wb

(* How the handling of an error could go wrong: the buffer is given up, the *)
(* mutex is kept, or a read goes on.                                        *)
WriteErrorDropsBuffer(t) ==
  /\ PartlyWritten(t)
  /\ wb' = <<>>
  /\ wbLock' = IF wbLock = t THEN NoThread ELSE wbLock
  /\ Return(t)
  /\ UNCHANGED <<wbStart, logicalLen, acked>>

WriteErrorKeepsLock(t) ==
  /\ PartlyWritten(t)
  /\ wb' = KeptBuffer(t)
  /\ Return(t)
  /\ UNCHANGED <<wbStart, logicalLen, wbLock, acked>>

WriteErrorReadsOn(t) ==
  /\ PartlyWritten(t)
  /\ wb' = KeptBuffer(t)
  /\ wbLock' = IF wbLock = t THEN NoThread ELSE wbLock
  /\ IF pc[t] \in {"read_drain", "close_drain"}
     THEN Goto(t, AfterFlush(pc[t])) /\ UNCHANGED <<arg, need>>
     ELSE Return(t)
  /\ UNCHANGED <<wbStart, logicalLen, acked>>

WriteError(t) ==
  /\ PartlyWritten(t)
  /\ wb' = KeptBuffer(t)
  /\ wbLock' = IF wbLock = t THEN NoThread ELSE wbLock
  /\ IF pc[t] = "close_drain"
     THEN Goto(t, AfterFlush(pc[t])) /\ UNCHANGED <<arg, need>>
     ELSE Return(t)
  /\ UNCHANGED <<wbStart, logicalLen, acked>>

-----------------------------------------------------------------------------
Step(t) == \/ AppendDrain(t) \/ AppendLarge(t) \/ AppendSmall(t)
           \/ FlushEmpty(t) \/ FlushLock(t) \/ FlushDrain(t)
           \/ ReadCheck(t) \/ ReadFile(t) \/ WriteFile(t)
           \/ SyncData(t) \/ TruncateSetLen(t) \/ WriteError(t)

Call(t) == \/ AppendBegin(t) \/ ReadBegin(t) \/ WriteBegin(t)
           \/ SyncBegin(t) \/ TruncateBegin(t)

Next == \E t \in Threads : Call(t) \/ Step(t)

Spec == Init /\ [][Next]_vars

(* Threads keep running, and the mutex is eventually fair (parking_lot): a  *)
(* thread that can take it again and again takes it.  Calls are optional.   *)
FairSpec == Spec /\ \A t \in Threads : SF_vars(Step(t))

-----------------------------------------------------------------------------
(* No append, flush or truncation by any interleaving leaves the buffer     *)
(* detached from the file: whenever nobody holds the mutex, the buffer      *)
(* continues exactly where the file ends, logical_len is the end of both,   *)
(* and the buffer is below its limit.                                       *)
BufferContinuesFile ==
  wbLock = NoThread => /\ wbStart = Len(file)
                       /\ logicalLen = wbStart + Len(wb)
                       /\ Len(wb) < Limit

(* What append acknowledged stays where append said it is: at every moment, *)
(* the file that a drain of the buffer would leave has it at its offset.    *)
(* No append, header rewrite or flush, of any thread, moves or overwrites   *)
(* it ("append-only architecture", README).                                 *)
AckedInPlace ==
  \A e \in acked : HeaderLen <= e.off /\ Holds(Drained, e)

(* When read_at reaches the file, the extent it was asked for is there,     *)
(* though the decision to flush was taken on an unlocked, possibly stale    *)
(* load of write_buffer_start (unless a truncation cut it off meanwhile).   *)
ReadFindsExtent ==
  \A t \in Threads : pc[t] = "read_file" => \A e \in need[t] : Holds(file, e)

(* When sync or close reaches sync_data, everything acknowledged before the *)
(* call began is in the file, not in a buffer.                              *)
SyncCoversAcked ==
  \A t \in Threads : pc[t] = "sync_data" => \A e \in need[t] : Holds(file, e)

(* No call of the backend blocks for ever.                                  *)
EveryCallReturns ==
  \A t \in Threads : pc[t] # "idle" ~> pc[t] = "idle"

(* The backend implements the atomic append log.  While a truncation has    *)
(* moved the counters and not yet cut the file, the log already is cut.     *)
logBar == IF \E t \in Threads : pc[t] = "truncate_set_len"
          THEN SetLen(file, wbStart) ELSE file \o wb

Log == INSTANCE AppendLog WITH log <- logBar

ImplementsAppendLog == Log!LogSpec
=============================================================================
