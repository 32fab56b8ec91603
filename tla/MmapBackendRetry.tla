--------------------------- MODULE MmapBackendRetry -------------------------
(***************************************************************************)
(* The backend when writes to the file may fail, after any part of their    *)
(* data (the error returns of mmap.rs).                                     *)
(*                                                                          *)
(* Its state is well formed whatever happens.  With no data as large as the *)
(* buffer it is also right: a failed drain or append leaves the buffer and  *)
(* write_buffer_start alone, so the next one writes the same cells to the   *)
(* same place again.  What the file holds behind write_buffer_start is then *)
(* of no account, so the invariant speaks of the log cell by cell: the file *)
(* up to write_buffer_start, then the buffer.                               *)
(***************************************************************************)
EXTENDS MmapBackendProofs

AppendPcs == {"append_drain", "append_large", "append_small"}

DrainPcs == {"read_drain", "write_drain", "sync_drain", "close_drain"}

(* set_len never extends the file, and what append acknowledges was given   *)
(* to it.                                                                   *)
TInv == /\ TypeOK
        /\ wbStart <= Len(file)
        /\ \A t \in Threads : pc[t] \in AppendPcs => arg[t].data \in Payloads

-----------------------------------------------------------------------------
LEMMA InitTInv == Init => TInv
BY InitIInv, ConfigAssumption DEF IInv, TInv, CounterInv, Init, AppendPcs

(* A thread's step to a place outside append keeps the part of TInv about   *)
(* the threads.                                                             *)
LEMMA ThreadsTInv ==
  ASSUME TInv, NEW t \in Threads, NEW label \in Pcs \ AppendPcs,
         pc' = [pc EXCEPT ![t] = label],
         \/ UNCHANGED <<arg, need>>
         \/ /\ arg' = [arg EXCEPT ![t] = NoExtent]
            /\ need' = [need EXCEPT ![t] = {}]
  PROVE  /\ pc' \in [Threads -> Pcs]
         /\ arg' \in [Threads -> [off : Nat, data : Seq(Cell)]]
         /\ need' \in [Threads -> SUBSET Entry]
         /\ \A u \in Threads : pc'[u] \in AppendPcs => arg'[u].data \in Payloads
<1>1. NoExtent \in [off : Nat, data : Seq(Cell)]
  BY DEF NoExtent, Extent
<1> QED
  BY <1>1 DEF TInv, TypeOK

(* The labels steps lead to.                                                *)
LEMMA LabelFacts ==
  ASSUME NEW p
  PROVE  /\ "idle" \in Pcs \ AppendPcs
         /\ {"read_start", "truncate_set_len"} \subseteq Pcs \ AppendPcs
         /\ FilePcs \subseteq Pcs \ AppendPcs
         /\ FlushPcs \subseteq Pcs \ AppendPcs
         /\ DrainPcs \subseteq Pcs \ AppendPcs
         /\ AfterFlush(p) \in FilePcs \ {"read_start"}
         /\ p \in FlushPcs => DrainOf(p) \in DrainPcs
BY DEF Pcs, AppendPcs, FilePcs, FlushPcs, DrainPcs, LockedPcs, AfterFlush, DrainOf

(* A write inside the file or at its end never shortens it.                 *)
LEMMA WriteKeepsLength ==
  ASSUME NEW f \in Seq(Cell), NEW off \in Nat, NEW d \in Seq(Cell)
  PROVE  /\ WriteAll(f, off, d) \in Seq(Cell)
         /\ Len(f) <= Len(WriteAll(f, off, d))
         /\ off + Len(d) <= Len(WriteAll(f, off, d))
<1>1. /\ WriteAll(f, off, d) \in Seq(Cell)
      /\ Len(WriteAll(f, off, d)) = Larger(Len(f), off + Len(d))
  BY WriteAllProperties
<1>2. Len(f) \in Nat /\ Len(d) \in Nat
  OBVIOUS
<1>3. Len(f) <= Larger(Len(f), off + Len(d)) /\ off + Len(d) <= Larger(Len(f), off + Len(d))
  BY <1>2 DEF Larger
<1> QED
  BY <1>1, <1>3

LEMMA AppendTInv ==
  ASSUME TInv, NEW t \in Threads,
         AppendBegin(t) \/ AppendDrain(t) \/ AppendLarge(t) \/ AppendSmall(t)
  PROVE  TInv'
<1> USE DEF TInv
<1>0. /\ file \in Seq(Cell) /\ wb \in Seq(Cell) /\ wbStart \in Nat
      /\ logicalLen \in Nat /\ arg[t] \in [off : Nat, data : Seq(Cell)]
      /\ Len(file) \in Nat /\ Len(wb) \in Nat
  BY DEF TypeOK
<1>1. CASE AppendBegin(t)
  <2>1. PICK d \in Payloads :
          /\ arg' = [arg EXCEPT ![t] = Extent(logicalLen, d)]
          /\ logicalLen' = logicalLen + Len(d)
          /\ \E label \in AppendPcs : pc' = [pc EXCEPT ![t] = label]
          /\ wbLock' = t
          /\ UNCHANGED <<file, wb, wbStart, acked, need>>
    BY <1>1 DEF AppendBegin, Lock, Goto, AppendPcs
  <2>2. d \in Seq(Cell) /\ Len(d) \in Nat
    BY ConfigAssumption
  <2> QED
    BY <2>1, <2>2 DEF TypeOK, AppendPcs, Pcs, LockedPcs, Extent
<1>2. CASE AppendDrain(t)
  <2>1. /\ pc[t] = "append_drain"
        /\ file' = WriteAll(file, wbStart, wb)
        /\ wb' = <<>>
        /\ pc' = [pc EXCEPT ![t] = "append_large"]
        /\ UNCHANGED <<wbStart, logicalLen, wbLock, arg, acked, need>>
    BY <1>2 DEF AppendDrain, Drained, Goto
  <2>2. file' \in Seq(Cell) /\ Len(file) <= Len(file')
    BY <1>0, <2>1, WriteKeepsLength
  <2> QED
    BY <1>0, <2>1, <2>2 DEF TypeOK, AppendPcs, Pcs, LockedPcs
<1>3. CASE AppendLarge(t) \/ AppendSmall(t)
  <2>1. /\ pc[t] \in AppendPcs
        /\ acked' = acked \union {arg[t]}
        /\ wbLock' = NoThread
        /\ pc' = [pc EXCEPT ![t] = "idle"]
        /\ arg' = [arg EXCEPT ![t] = NoExtent]
        /\ need' = [need EXCEPT ![t] = {}]
        /\ logicalLen' = logicalLen
    BY <1>3 DEF AppendLarge, AppendSmall, Unlock, Return, Goto, AppendPcs
  <2>2. arg[t] \in Entry
    BY <1>0, <2>1 DEF Entry
  <2>3. /\ file' \in Seq(Cell) /\ wb' \in Seq(Cell)
        /\ wbStart' \in Nat /\ wbStart' <= Len(file')
    <3>1. CASE AppendLarge(t)
      <4>1. /\ file' = WriteAll(file, arg[t].off, arg[t].data)
            /\ wbStart' = arg[t].off + Len(arg[t].data) /\ wb' = wb
        BY <3>1 DEF AppendLarge, ExtentEnd
      <4>2. arg[t].off \in Nat /\ arg[t].data \in Seq(Cell) /\ Len(arg[t].data) \in Nat
        BY <1>0
      <4> QED
        BY <1>0, <4>1, <4>2, WriteKeepsLength
    <3>2. CASE AppendSmall(t)
      <4> DEFINE full == wb \o arg[t].data
      <4>1. full \in Seq(Cell) /\ Len(full) \in Nat
        BY <1>0
      <4>2. \/ wb' = full /\ file' = file /\ wbStart' = wbStart
            \/ /\ file' = WriteAll(file, wbStart, full)
               /\ wbStart' = wbStart + Len(full) /\ wb' = <<>>
        BY <3>2 DEF AppendSmall
      <4>3. /\ WriteAll(file, wbStart, full) \in Seq(Cell)
            /\ wbStart + Len(full) <= Len(WriteAll(file, wbStart, full))
        BY <1>0, <4>1, WriteKeepsLength
      <4> HIDE DEF full
      <4>4. CASE wb' = full /\ file' = file /\ wbStart' = wbStart
        BY <1>0, <4>1, <4>4
      <4>5. CASE /\ file' = WriteAll(file, wbStart, full)
                 /\ wbStart' = wbStart + Len(full) /\ wb' = <<>>
        <5>1. wbStart' \in Nat /\ wb' \in Seq(Cell)
          BY <1>0, <4>1, <4>5
        <5> QED
          BY <4>3, <4>5, <5>1
      <4> QED
        BY <4>2, <4>4, <4>5
    <3> QED
      BY <1>3, <3>1, <3>2
  <2>4. /\ pc' \in [Threads -> Pcs]
        /\ arg' \in [Threads -> [off : Nat, data : Seq(Cell)]]
        /\ need' \in [Threads -> SUBSET Entry]
        /\ \A u \in Threads : pc'[u] \in AppendPcs => arg'[u].data \in Payloads
    BY <2>1, LabelFacts, ThreadsTInv
  <2> QED
    BY <2>1, <2>2, <2>3, <2>4 DEF TypeOK
<1> QED
  BY <1>1, <1>2, <1>3

LEMMA FlushTInv ==
  ASSUME TInv, NEW t \in Threads, FlushEmpty(t) \/ FlushLock(t) \/ FlushDrain(t)
  PROVE  TInv'
<1> USE DEF TInv
<1>0. /\ file \in Seq(Cell) /\ wb \in Seq(Cell) /\ wbStart \in Nat
      /\ Len(file) \in Nat /\ Len(wb) \in Nat
  BY DEF TypeOK
<1>1. /\ \E label \in Pcs \ AppendPcs : pc' = [pc EXCEPT ![t] = label]
      /\ UNCHANGED <<logicalLen, arg, acked, need>>
      /\ wbLock' \in Threads \union {NoThread}
  <2>1. \A p : AfterFlush(p) \in Pcs \ AppendPcs
    BY LabelFacts
  <2>2. \A p \in FlushPcs : DrainOf(p) \in Pcs \ AppendPcs
    BY LabelFacts
  <2> QED
    BY <2>1, <2>2 DEF FlushEmpty, FlushLock, FlushDrain, Goto, Lock, Unlock, TypeOK
<1>2. /\ pc' \in [Threads -> Pcs]
      /\ arg' \in [Threads -> [off : Nat, data : Seq(Cell)]]
      /\ need' \in [Threads -> SUBSET Entry]
      /\ \A u \in Threads : pc'[u] \in AppendPcs => arg'[u].data \in Payloads
  BY <1>1, ThreadsTInv
<1>3. CASE UNCHANGED <<file, wb, wbStart>>
  BY <1>0, <1>1, <1>2, <1>3 DEF TypeOK
<1>4. CASE FlushDrain(t)
  <2>1. /\ file' = WriteAll(file, wbStart, wb) /\ wb' = <<>>
        /\ wbStart' = wbStart + Len(wb)
    BY <1>4 DEF FlushDrain, Drained
  <2>2. file' \in Seq(Cell) /\ wbStart' \in Nat /\ wbStart' <= Len(file')
    BY <1>0, <2>1, WriteKeepsLength
  <2> QED
    BY <1>1, <1>2, <2>1, <2>2 DEF TypeOK
<1> QED
  BY <1>3, <1>4 DEF FlushEmpty, FlushLock

LEMMA ReadTInv ==
  ASSUME TInv, NEW t \in Threads,
         ReadBegin(t) \/ ReadCheck(t) \/ ReadFile(t) \/ SyncBegin(t) \/ SyncData(t)
  PROVE  TInv'
<1> USE DEF TInv
<1>1. UNCHANGED <<file, wb, wbStart, logicalLen, wbLock, acked>>
  BY DEF ReadBegin, ReadCheck, ReadFile, SyncBegin, SyncData
<1>2. CASE ReadBegin(t)
  BY <1>1, <1>2, TypeFacts DEF ReadBegin, Goto, TypeOK, ExtentType, Pcs, AppendPcs
<1>3. CASE SyncBegin(t)
  BY <1>1, <1>3 DEF SyncBegin, Goto, TypeOK, Pcs, FlushPcs, AppendPcs
<1>4. CASE ReadCheck(t) \/ ReadFile(t) \/ SyncData(t)
  <2>1. /\ \E label \in Pcs \ AppendPcs : pc' = [pc EXCEPT ![t] = label]
        /\ \/ UNCHANGED <<arg, need>>
           \/ /\ arg' = [arg EXCEPT ![t] = NoExtent]
              /\ need' = [need EXCEPT ![t] = {}]
    BY <1>4 DEF ReadCheck, ReadFile, SyncData, Return, Goto,
                Pcs, FlushPcs, FilePcs, AppendPcs
  <2>2. /\ pc' \in [Threads -> Pcs]
        /\ arg' \in [Threads -> [off : Nat, data : Seq(Cell)]]
        /\ need' \in [Threads -> SUBSET Entry]
        /\ \A u \in Threads : pc'[u] \in AppendPcs => arg'[u].data \in Payloads
    BY <2>1, ThreadsTInv
  <2> QED
    BY <1>1, <2>2 DEF TypeOK
<1> QED
  BY <1>2, <1>3, <1>4

LEMMA WriteTInv ==
  ASSUME TInv, NEW t \in Threads, WriteBegin(t) \/ WriteFile(t)
  PROVE  TInv'
<1> USE DEF TInv
<1>1. CASE WriteBegin(t)
  BY <1>1, ConfigAssumption
     DEF WriteBegin, Goto, TypeOK, Extent, Pcs, FlushPcs, AppendPcs
<1>2. CASE WriteFile(t)
  <2>1. /\ file' = WriteAll(file, arg[t].off, arg[t].data)
        /\ logicalLen' = Larger(logicalLen, ExtentEnd(arg[t]))
        /\ wbStart' = Larger(wbStart, ExtentEnd(arg[t]))
        /\ pc' = [pc EXCEPT ![t] = "idle"]
        /\ arg' = [arg EXCEPT ![t] = NoExtent]
        /\ need' = [need EXCEPT ![t] = {}]
        /\ UNCHANGED <<wb, wbLock, acked>>
    BY <1>2 DEF WriteFile, Return, Goto
  <2>2. /\ file \in Seq(Cell) /\ arg[t].off \in Nat /\ arg[t].data \in Seq(Cell)
        /\ Len(arg[t].data) \in Nat /\ Len(file) \in Nat
        /\ wbStart \in Nat /\ logicalLen \in Nat
    BY DEF TypeOK
  <2>3. /\ file' \in Seq(Cell) /\ Len(file) <= Len(file')
        /\ ExtentEnd(arg[t]) <= Len(file') /\ ExtentEnd(arg[t]) \in Nat
    BY <2>1, <2>2, WriteKeepsLength DEF ExtentEnd
  <2>4. wbStart' \in Nat /\ logicalLen' \in Nat /\ wbStart' <= Len(file')
    BY <2>1, <2>2, <2>3 DEF Larger
  <2>5. /\ pc' \in [Threads -> Pcs]
        /\ arg' \in [Threads -> [off : Nat, data : Seq(Cell)]]
        /\ need' \in [Threads -> SUBSET Entry]
        /\ \A u \in Threads : pc'[u] \in AppendPcs => arg'[u].data \in Payloads
    BY <2>1, LabelFacts, ThreadsTInv
  <2> QED
    BY <2>1, <2>3, <2>4, <2>5 DEF TypeOK
<1> QED
  BY <1>1, <1>2

LEMMA TruncateTInv ==
  ASSUME TInv, NEW t \in Threads, TruncateBegin(t) \/ TruncateSetLen(t)
  PROVE  TInv'
<1> USE DEF TInv
<1>1. CASE TruncateBegin(t)
  BY <1>1, ConfigAssumption
     DEF TruncateBegin, Lock, Goto, TypeOK, Pcs, LockedPcs, AppendPcs
<1>2. CASE TruncateSetLen(t)
  <2>1. /\ file' = SetLen(file, wbStart)
        /\ wbLock' = NoThread
        /\ pc' = [pc EXCEPT ![t] = "idle"]
        /\ arg' = [arg EXCEPT ![t] = NoExtent]
        /\ need' = [need EXCEPT ![t] = {}]
        /\ UNCHANGED <<wb, wbStart, logicalLen, acked>>
    BY <1>2 DEF TruncateSetLen, Unlock, Return, Goto
  <2>2. file \in Seq(Cell) /\ wbStart \in 0 .. Len(file)
    BY DEF TypeOK
  <2>3. file' \in Seq(Cell) /\ Len(file') = wbStart
    BY <2>1, <2>2, HoldsAfterCut
  <2>4. /\ pc' \in [Threads -> Pcs]
        /\ arg' \in [Threads -> [off : Nat, data : Seq(Cell)]]
        /\ need' \in [Threads -> SUBSET Entry]
        /\ \A u \in Threads : pc'[u] \in AppendPcs => arg'[u].data \in Payloads
    BY <2>1, LabelFacts, ThreadsTInv
  <2> QED
    BY <2>1, <2>2, <2>3, <2>4 DEF TypeOK
<1> QED
  BY <1>1, <1>2

(* What a write_all that fails leaves of the file: never less of it, and    *)
(* nothing new before the place it writes to.                               *)
LEMMA PartlyWrittenFile ==
  ASSUME TInv, NEW t \in Threads, PartlyWritten(t)
  PROVE  /\ file' \in Seq(Cell) /\ Len(file) <= Len(file')
         /\ Writing(t) \in ExtentType
         /\ \A i \in 1 .. Len(file) :
              i <= Writing(t).off \/ ExtentEnd(Writing(t)) < i => file'[i] = file[i]
<1> DEFINE w == Writing(t)
<1>1. /\ file \in Seq(Cell) /\ wb \in Seq(Cell) /\ wbStart \in Nat
      /\ arg[t].data \in Seq(Cell) /\ arg[t].off \in Nat
      /\ arg[t] \in ExtentType
  BY DEF TInv, TypeOK, ExtentType
<1>2. w \in ExtentType
  BY <1>1 DEF Writing, ExtentType, Extent
<1> HIDE DEF w
<1>3. w.off \in Nat /\ w.data \in Seq(Cell) /\ Len(w.data) \in Nat
  BY <1>2 DEF ExtentType
<1>4. PICK k \in 0 .. Len(w.data) - 1 :
        file' = IF k = 0 THEN file ELSE WriteAll(file, w.off, SubSeq(w.data, 1, k))
  BY DEF PartlyWritten, w
<1>5. CASE k = 0
  BY <1>1, <1>2, <1>4, <1>5 DEF w
<1>6. CASE k # 0
  <2> DEFINE d == SubSeq(w.data, 1, k)
  <2>1. d \in Seq(Cell) /\ Len(d) = k /\ k \in 1 .. Len(w.data)
    BY <1>3, <1>6
  <2>2. file' = WriteAll(file, w.off, d)
    BY <1>4, <1>6
  <2> HIDE DEF d
  <2>3. /\ file' \in Seq(Cell) /\ Len(file') = Larger(Len(file), w.off + k)
        /\ \A i \in 1 .. Larger(Len(file), w.off + k) :
             file'[i] = IF w.off < i /\ i <= w.off + k THEN d[i - w.off]
                        ELSE IF i <= Len(file) THEN file[i] ELSE Zero
    <3>1. /\ WriteAll(file, w.off, d) \in Seq(Cell)
          /\ Len(WriteAll(file, w.off, d)) = Larger(Len(file), w.off + Len(d))
          /\ \A i \in 1 .. Larger(Len(file), w.off + Len(d)) :
               WriteAll(file, w.off, d)[i] =
                 IF w.off < i /\ i <= w.off + Len(d) THEN d[i - w.off]
                 ELSE IF i <= Len(file) THEN file[i] ELSE Zero
      BY <1>1, <1>3, <2>1, WriteAllProperties
    <3>2. Len(d) = k
      BY <2>1
    <3> QED
      BY <2>2, <3>1, <3>2
  <2>4. Len(file) \in Nat /\ Len(file) <= Larger(Len(file), w.off + k)
    BY <1>1, <1>3 DEF Larger
  <2>5. \A i \in 1 .. Len(file) :
          i <= w.off \/ ExtentEnd(w) < i => file'[i] = file[i]
    BY <1>3, <2>1, <2>3, <2>4 DEF ExtentEnd
  <2> QED
    BY <1>2, <2>3, <2>4, <2>5 DEF w
<1> QED
  BY <1>5, <1>6

LEMMA WriteErrorTInv ==
  ASSUME TInv, NEW t \in Threads, WriteError(t)
  PROVE  TInv'
<1> USE DEF TInv
<1>1. /\ PartlyWritten(t)
      /\ wb' = KeptBuffer(t)
      /\ wbLock' = IF wbLock = t THEN NoThread ELSE wbLock
      /\ \/ /\ pc' = [pc EXCEPT ![t] = AfterFlush(pc[t])] /\ UNCHANGED <<arg, need>>
         \/ /\ pc' = [pc EXCEPT ![t] = "idle"]
            /\ arg' = [arg EXCEPT ![t] = NoExtent]
            /\ need' = [need EXCEPT ![t] = {}]
      /\ UNCHANGED <<wbStart, logicalLen, acked>>
  BY DEF WriteError, Return, Goto
<1>2. /\ file \in Seq(Cell) /\ wbStart \in Nat /\ Len(file) \in Nat
      /\ wb \in Seq(Cell) /\ arg[t].data \in Seq(Cell)
  BY DEF TypeOK
<1>3. file' \in Seq(Cell) /\ wbStart' <= Len(file')
  BY <1>1, <1>2, PartlyWrittenFile
<1>4. wb' \in Seq(Cell)
  BY <1>1, <1>2 DEF KeptBuffer
<1>5. /\ pc' \in [Threads -> Pcs]
      /\ arg' \in [Threads -> [off : Nat, data : Seq(Cell)]]
      /\ need' \in [Threads -> SUBSET Entry]
      /\ \A u \in Threads : pc'[u] \in AppendPcs => arg'[u].data \in Payloads
  <2>1. AfterFlush(pc[t]) \in Pcs \ AppendPcs /\ "idle" \in Pcs \ AppendPcs
    BY LabelFacts
  <2> QED
    BY <1>1, <2>1, ThreadsTInv
<1> QED
  BY <1>1, <1>3, <1>4, <1>5 DEF TypeOK

LEMMA StepPreservesTInv == TInv /\ [Next]_vars => TInv'
<1> SUFFICES ASSUME TInv, [Next]_vars PROVE TInv'
  OBVIOUS
<1>1. CASE UNCHANGED vars
  BY <1>1 DEF vars, TInv, TypeOK
<1>2. ASSUME NEW t \in Threads, Call(t) \/ Step(t) PROVE TInv'
  BY <1>2, AppendTInv, FlushTInv, ReadTInv, WriteTInv, TruncateTInv, WriteErrorTInv
     DEF Call, Step
<1> QED
  BY <1>1, <1>2 DEF Next

(* The backend's state is well formed for every number of threads, every    *)
(* limit and payload, and whatever writes fail at whatever point: truncate  *)
(* never cuts beyond the end of the file, and what counts as acknowledged   *)
(* was passed to append (append, truncate and the error returns of mmap.rs).*)
THEOREM BackendTypeCorrect == Spec => []TypeOK
<1>1. Init => TInv
  BY InitTInv
<1>2. TInv /\ [Next]_vars => TInv'
  BY StepPreservesTInv
<1>3. TInv => TypeOK
  BY DEF TInv
<1> QED
  BY <1>1, <1>2, <1>3, PTL DEF Spec
-----------------------------------------------------------------------------
(* The log cell by cell.                                                    *)
LogLen == wbStart + Len(wb)

CellOf(f, s, w, i) == IF i <= s THEN f[i] ELSE w[i - s]

LogCell(i) == CellOf(file, wbStart, wb, i)

InLog(e) == /\ ExtentEnd(e) <= LogLen
            /\ \A i \in 1 .. Len(e.data) : LogCell(e.off + i) = e.data[i]

(* No data reaches the limit alone: append never writes past the buffer.    *)
SmallPayloads == \A d \in Payloads : Len(d) < Limit

LockInv == \A t \in Threads :
  /\ pc[t] \in LockedPcs <=> wbLock = t
  /\ pc[t] \notin {"append_drain", "append_large"}
  /\ pc[t] = "append_small" => /\ arg[t].off = LogLen
                               /\ logicalLen = ExtentEnd(arg[t])
  /\ pc[t] = "truncate_set_len" => wb = <<>>

(* A failed append leaves its data in the buffer and logical_len behind it. *)
LengthInv == \/ \E t \in Threads : pc[t] = "append_small"
             \/ logicalLen = LogLen

(* A read that does not flush, or whose flush returned, finds its extent    *)
(* below write_buffer_start; close, which ignores a failed flush, does not. *)
CallInv == \A t \in Threads :
  /\ pc[t] \in {"write_flush", "write_drain", "write_file"}
       => arg[t].off = 0 /\ arg[t].data \in Headers
  /\ need[t] \subseteq acked
  /\ pc[t] \in {"read_start", "read_flush", "read_drain", "read_file"}
       => need[t] \subseteq {arg[t]}
  /\ pc[t] = "read_file" => \A e \in need[t] : ExtentEnd(e) <= wbStart

AckedInv == \A e \in acked : HeaderLen <= e.off /\ InLog(e)

RInv == /\ TInv
        /\ HeaderLen <= wbStart
        /\ LockInv
        /\ LengthInv
        /\ CallInv
        /\ AckedInv

-----------------------------------------------------------------------------
LEMMA InitRInv == Init => RInv
<1> SUFFICES ASSUME Init PROVE RInv
  OBVIOUS
<1>1. IInv /\ TInv
  BY InitIInv, InitTInv
<1>2. Len(wb) = 0 /\ acked = {} /\ logicalLen = wbStart /\ wbStart \in Nat
      /\ \A t \in Threads : pc[t] = "idle" /\ need[t] = {}
      /\ wbLock = NoThread
  BY <1>1 DEF Init, IInv, TypeOK
<1>3. LockInv
  BY <1>2, ConfigAssumption DEF LockInv, LockedPcs
<1>4. LengthInv
  BY <1>2 DEF LengthInv, LogLen
<1> QED
  BY <1>1, <1>2, <1>3, <1>4 DEF RInv, CallInv, AckedInv, IInv, CounterInv

LEMMA RFacts ==
  ASSUME RInv
  PROVE  /\ file \in Seq(Cell) /\ wb \in Seq(Cell)
         /\ wbStart \in Nat /\ logicalLen \in Nat /\ HeaderLen \in Nat
         /\ Len(file) \in Nat /\ Len(wb) \in Nat /\ LogLen \in Nat
         /\ HeaderLen <= wbStart /\ wbStart <= Len(file) /\ wbStart <= LogLen
         /\ NoThread \notin Threads /\ acked \subseteq ExtentType
         /\ \A e \in acked : ExtentEnd(e) \in Nat /\ e.off \in Nat
         /\ \A t \in Threads : /\ arg[t] \in ExtentType
                               /\ arg[t].off \in Nat /\ arg[t].data \in Seq(Cell)
                               /\ Len(arg[t].data) \in Nat
<1>1. TypeOK /\ wbStart <= Len(file) /\ HeaderLen <= wbStart
  BY DEF RInv, TInv
<1>2. /\ file \in Seq(Cell) /\ wb \in Seq(Cell) /\ wbStart \in Nat /\ logicalLen \in Nat
      /\ HeaderLen \in Nat
  BY <1>1, ConfigAssumption DEF TypeOK
<1>3. acked \subseteq ExtentType /\ NoThread \notin Threads
      /\ \A t \in Threads : arg[t] \in ExtentType
  BY <1>1, TypeFacts
<1>4. \A e \in ExtentType : /\ e.off \in Nat /\ e.data \in Seq(Cell)
                            /\ Len(e.data) \in Nat /\ ExtentEnd(e) \in Nat
  BY DEF ExtentType, ExtentEnd
<1> QED
  BY <1>1, <1>2, <1>3, <1>4 DEF LogLen

(* An extent stays in the log as long as its cells do.                      *)
LEMMA InLogKept ==
  ASSUME HeaderLen \in Nat, NEW e \in ExtentType, HeaderLen <= e.off, InLog(e),
         NEW m \in Nat, ExtentEnd(e) <= m, m <= LogLen', LogLen' \in Nat,
         \A i \in HeaderLen + 1 .. m : LogCell(i)' = LogCell(i)
  PROVE  InLog(e)'
<1>1. e.off \in Nat /\ Len(e.data) \in Nat /\ e.off + Len(e.data) <= m
  BY DEF ExtentType, ExtentEnd
<1>2. \A i \in 1 .. Len(e.data) : e.off + i \in HeaderLen + 1 .. m
  BY <1>1
<1>3. \A i \in 1 .. Len(e.data) : LogCell(e.off + i)' = e.data[i]
  BY <1>2 DEF InLog
<1>4. ExtentEnd(e) <= LogLen'
  BY <1>1 DEF ExtentEnd
<1> QED
  BY <1>3, <1>4 DEF InLog

LEMMA AckedKept ==
  ASSUME RInv, LogLen' \in Nat, LogLen <= LogLen',
         \A i \in HeaderLen + 1 .. LogLen : LogCell(i)' = LogCell(i)
  PROVE  \A e \in acked : HeaderLen <= e.off /\ InLog(e)'
<1> SUFFICES ASSUME NEW e \in acked PROVE HeaderLen <= e.off /\ InLog(e)'
  OBVIOUS
<1>1. e \in ExtentType /\ HeaderLen <= e.off /\ InLog(e) /\ ExtentEnd(e) <= LogLen
  BY RFacts DEF RInv, AckedInv, InLog
<1> QED
  BY <1>1, RFacts, InLogKept

(* What follows the buffer follows the log, also when it is written out.    *)
LEMMA CellsBehind ==
  ASSUME NEW f, NEW s \in Nat, NEW w \in Seq(Cell), NEW d \in Seq(Cell)
  PROVE  /\ \A i \in 1 .. s + Len(w) : CellOf(f, s, w \o d, i) = CellOf(f, s, w, i)
         /\ \A i \in 1 .. Len(d) : CellOf(f, s, w \o d, s + Len(w) + i) = d[i]
<1> DEFINE full == w \o d
<1>1. /\ Len(w) \in Nat /\ Len(d) \in Nat
      /\ \A i \in 1 .. Len(w) : full[i] = w[i]
      /\ \A i \in 1 .. Len(d) : full[Len(w) + i] = d[i]
  OBVIOUS
<1> HIDE DEF full
<1>2. ASSUME NEW i \in 1 .. s + Len(w) PROVE CellOf(f, s, full, i) = CellOf(f, s, w, i)
  <2>1. i <= s \/ (~(i <= s) /\ i - s \in 1 .. Len(w))
    BY <1>1
  <2> QED
    BY <1>1, <2>1 DEF CellOf
<1>3. ASSUME NEW i \in 1 .. Len(d) PROVE CellOf(f, s, full, s + Len(w) + i) = d[i]
  <2>1. ~(s + Len(w) + i <= s) /\ (s + Len(w) + i) - s = Len(w) + i
    BY <1>1
  <2> QED
    BY <1>1, <2>1 DEF CellOf
<1> QED
  BY <1>2, <1>3 DEF full

LEMMA CellsWritten ==
  ASSUME NEW f \in Seq(Cell), NEW s \in Nat, s <= Len(f), NEW w \in Seq(Cell)
  PROVE  \A i \in 1 .. s + Len(w) :
           CellOf(WriteAll(f, s, w), s + Len(w), <<>>, i) = CellOf(f, s, w, i)
<1> DEFINE g == WriteAll(f, s, w)
           n == Larger(Len(f), s + Len(w))
<1>1. \A i \in 1 .. n :
        g[i] = IF s < i /\ i <= s + Len(w) THEN w[i - s]
               ELSE IF i <= Len(f) THEN f[i] ELSE Zero
  BY WriteAllProperties
<1>2. Len(f) \in Nat /\ Len(w) \in Nat /\ s + Len(w) <= n /\ n \in Nat
  BY DEF Larger
<1> HIDE DEF g, n
<1>3. ASSUME NEW i \in 1 .. s + Len(w)
      PROVE  CellOf(g, s + Len(w), <<>>, i) = CellOf(f, s, w, i)
  <2>1. i \in 1 .. n /\ i <= s + Len(w)
    BY <1>2
  <2>2. CellOf(g, s + Len(w), <<>>, i) = g[i]
    BY <2>1 DEF CellOf
  <2>3. CASE i <= s
    BY <1>1, <1>2, <2>1, <2>2, <2>3 DEF CellOf
  <2>4. CASE ~(i <= s)
    BY <1>1, <1>2, <2>1, <2>2, <2>4 DEF CellOf
  <2> QED
    BY <2>3, <2>4
<1> QED
  BY <1>3 DEF g

(* Data that goes behind the buffer, and stays there or is written out with *)
(* it, goes behind the log.                                                 *)
LEMMA LogGrows ==
  ASSUME RInv, NEW d \in Seq(Cell),
         \/ wb' = wb \o d /\ file' = file /\ wbStart' = wbStart
         \/ /\ file' = WriteAll(file, wbStart, wb \o d)
            /\ wbStart' = wbStart + Len(wb \o d)
            /\ wb' = <<>>
  PROVE  /\ LogLen' = LogLen + Len(d)
         /\ LogLen' \in Nat /\ LogLen <= LogLen' /\ wbStart <= wbStart'
         /\ \A i \in 1 .. LogLen :
              CellOf(file', wbStart', wb', i) = CellOf(file, wbStart, wb, i)
         /\ \A i \in 1 .. Len(d) :
              CellOf(file', wbStart', wb', LogLen + i) = d[i]
<1> DEFINE full == wb \o d
<1>1. /\ file \in Seq(Cell) /\ wb \in Seq(Cell) /\ wbStart \in Nat
      /\ wbStart <= Len(file) /\ Len(wb) \in Nat /\ Len(d) \in Nat
      /\ LogLen = wbStart + Len(wb) /\ LogLen \in Nat
  BY RFacts DEF LogLen
<1>2. full \in Seq(Cell) /\ Len(full) = Len(wb) + Len(d)
  BY <1>1
<1>3. /\ \A i \in 1 .. LogLen : CellOf(file, wbStart, full, i) = CellOf(file, wbStart, wb, i)
      /\ \A i \in 1 .. Len(d) : CellOf(file, wbStart, full, LogLen + i) = d[i]
  <2>1. /\ \A i \in 1 .. wbStart + Len(wb) :
             CellOf(file, wbStart, full, i) = CellOf(file, wbStart, wb, i)
        /\ \A i \in 1 .. Len(d) : CellOf(file, wbStart, full, wbStart + Len(wb) + i) = d[i]
    <3>1. wbStart \in Nat /\ wb \in Seq(Cell)
      BY <1>1
    <3> QED
      BY <3>1, CellsBehind, Zenon
  <2> HIDE DEF full
  <2> QED
    BY <1>1, <2>1
<1> HIDE DEF full
<1>4. CASE wb' = full /\ file' = file /\ wbStart' = wbStart
  <2>1. LogLen' = wbStart + Len(full)
    BY <1>4 DEF LogLen
  <2>2. LogLen' = LogLen + Len(d) /\ LogLen' \in Nat /\ LogLen <= LogLen'
        /\ wbStart <= wbStart'
    BY <1>1, <1>2, <1>4, <2>1
  <2> QED
    BY <1>3, <1>4, <2>2
<1>5. CASE /\ file' = WriteAll(file, wbStart, full)
           /\ wbStart' = wbStart + Len(full)
           /\ wb' = <<>>
  <2>1. LogLen' = LogLen + Len(d) /\ wbStart' = LogLen + Len(d)
        /\ LogLen' \in Nat /\ LogLen <= LogLen' /\ wbStart <= wbStart'
    BY <1>1, <1>2, <1>5 DEF LogLen
  <2>2. \A i \in 1 .. wbStart + Len(full) :
          CellOf(WriteAll(file, wbStart, full), wbStart + Len(full), <<>>, i)
            = CellOf(file, wbStart, full, i)
    BY <1>1, <1>2, CellsWritten
  <2>3. \A i \in 1 .. wbStart + Len(full) :
          CellOf(file', wbStart', wb', i) = CellOf(file, wbStart, full, i)
    BY <1>5, <2>2
  <2>4. /\ \A i \in 1 .. LogLen : i \in 1 .. wbStart + Len(full)
        /\ \A i \in 1 .. Len(d) : LogLen + i \in 1 .. wbStart + Len(full)
    BY <1>1, <1>2
  <2> QED
    BY <1>3, <2>1, <2>3, <2>4
<1> QED
  BY <1>4, <1>5 DEF full

(* The steps that change nothing but the thread's own place and argument.   *)
LEMMA LocalStepRInv ==
  ASSUME RInv, NEW t \in Threads,
         UNCHANGED <<file, wb, wbStart, logicalLen, wbLock, acked>>,
         \A u \in Threads \ {t} :
           pc'[u] = pc[u] /\ arg'[u] = arg[u] /\ need'[u] = need[u],
         pc[t] \notin LockedPcs, pc'[t] \notin LockedPcs,
         TInv',
         pc'[t] \in {"write_flush", "write_drain", "write_file"}
           => arg'[t].off = 0 /\ arg'[t].data \in Headers,
         need'[t] \subseteq acked,
         pc'[t] \in {"read_start", "read_flush", "read_drain", "read_file"}
           => need'[t] \subseteq {arg'[t]},
         pc'[t] = "read_file" => \A e \in need'[t] : ExtentEnd(e) <= wbStart
  PROVE  RInv'
<1> USE DEF RInv
<1>1. LogLen' = LogLen /\ \A i : LogCell(i)' = LogCell(i)
  BY DEF LogLen, LogCell
<1>2. LockInv'
  BY <1>1 DEF LockInv, LockedPcs
<1>3. LengthInv'
  BY <1>1 DEF LengthInv, LockedPcs
<1>4. CallInv'
  BY DEF CallInv
<1>5. AckedInv'
  BY <1>1 DEF AckedInv, InLog
<1> QED
  BY <1>2, <1>3, <1>4, <1>5

LEMMA LocalRInv ==
  ASSUME RInv, NEW t \in Threads,
         \/ ReadBegin(t) \/ ReadCheck(t) \/ ReadFile(t)
         \/ SyncBegin(t) \/ SyncData(t) \/ WriteBegin(t)
  PROVE  RInv'
<1>1. TInv' /\ TypeOK
  BY ReadTInv, WriteTInv DEF TInv, RInv
<1>2. CASE ReadBegin(t)
  <2>1. PICK e \in acked :
          /\ pc[t] = "idle"
          /\ arg' = [arg EXCEPT ![t] = e]
          /\ need' = [need EXCEPT ![t] = {e}]
          /\ pc' = [pc EXCEPT ![t] = "read_start"]
          /\ UNCHANGED <<file, wb, wbStart, logicalLen, wbLock, acked>>
    BY <1>2 DEF ReadBegin, Goto
  <2>2. /\ pc'[t] = "read_start" /\ arg'[t] = e /\ need'[t] = {e}
        /\ \A u \in Threads \ {t} :
             pc'[u] = pc[u] /\ arg'[u] = arg[u] /\ need'[u] = need[u]
    BY <1>1, <2>1 DEF TypeOK
  <2> QED
    BY <1>1, <2>1, <2>2, LocalStepRInv DEF LockedPcs
<1>3. CASE ReadCheck(t)
  <2>1. /\ pc[t] = "read_start"
        /\ UNCHANGED <<file, wb, wbStart, logicalLen, wbLock, arg, acked, need>>
        /\ pc'[t] = IF ExtentEnd(arg[t]) > wbStart THEN "read_flush" ELSE "read_file"
        /\ \A u \in Threads \ {t} : pc'[u] = pc[u]
    BY <1>1, <1>3 DEF ReadCheck, Goto, TypeOK
  <2>2. need[t] \subseteq {arg[t]} /\ need[t] \subseteq acked
    BY <2>1 DEF CallInv, RInv
  <2>3. ExtentEnd(arg[t]) \in Nat /\ wbStart \in Nat
    BY RFacts DEF ExtentEnd
  <2>4. pc'[t] = "read_file" => \A e \in need'[t] : ExtentEnd(e) <= wbStart
    BY <2>1, <2>2, <2>3
  <2> QED
    BY <1>1, <2>1, <2>2, <2>4, LocalStepRInv DEF LockedPcs
<1>4. CASE ReadFile(t) \/ SyncData(t)
  <2>1. /\ pc[t] \in {"read_file", "sync_data"} /\ pc'[t] = "idle" /\ need'[t] = {}
        /\ \A u \in Threads \ {t} :
             pc'[u] = pc[u] /\ arg'[u] = arg[u] /\ need'[u] = need[u]
        /\ UNCHANGED <<file, wb, wbStart, logicalLen, wbLock, acked>>
    BY <1>1, <1>4 DEF ReadFile, SyncData, Return, Goto, TypeOK
  <2> QED
    BY <1>1, <2>1, LocalStepRInv DEF LockedPcs
<1>5. CASE SyncBegin(t)
  <2>1. /\ pc[t] = "idle" /\ pc'[t] \in {"sync_flush", "close_flush"}
        /\ need'[t] = acked
        /\ \A u \in Threads \ {t} :
             pc'[u] = pc[u] /\ arg'[u] = arg[u] /\ need'[u] = need[u]
        /\ UNCHANGED <<file, wb, wbStart, logicalLen, wbLock, acked>>
    BY <1>1, <1>5 DEF SyncBegin, Goto, TypeOK
  <2> QED
    BY <1>1, <2>1, LocalStepRInv DEF LockedPcs
<1>6. CASE WriteBegin(t)
  <2>1. /\ pc[t] = "idle" /\ pc'[t] = "write_flush" /\ need'[t] = need[t]
        /\ arg'[t].off = 0 /\ arg'[t].data \in Headers
        /\ \A u \in Threads \ {t} :
             pc'[u] = pc[u] /\ arg'[u] = arg[u] /\ need'[u] = need[u]
        /\ UNCHANGED <<file, wb, wbStart, logicalLen, wbLock, acked>>
    BY <1>1, <1>6 DEF WriteBegin, Goto, Extent, TypeOK
  <2>2. need[t] \subseteq acked
    BY DEF CallInv, RInv
  <2> QED
    BY <1>1, <2>1, <2>2, LocalStepRInv DEF LockedPcs
<1> QED
  BY <1>2, <1>3, <1>4, <1>5, <1>6

(* With an empty buffer every acknowledged extent ends in the file.         *)
LEMMA EmptyBuffer ==
  ASSUME RInv, wb = <<>>
  PROVE  LogLen = wbStart /\ \A e \in acked : ExtentEnd(e) <= wbStart
<1>1. Len(wb) = 0 /\ wbStart \in Nat
  BY RFacts
<1>2. LogLen = wbStart
  BY <1>1 DEF LogLen
<1> QED
  BY <1>2 DEF RInv, AckedInv, InLog

(* The mutex: whoever is in a locked place is the only one, and nobody is   *)
(* when it is free.                                                         *)
LEMMA LockFacts ==
  ASSUME RInv
  PROVE  /\ wbLock = NoThread => /\ \A u \in Threads : pc[u] \notin LockedPcs
                                 /\ logicalLen = LogLen
         /\ \A t \in Threads : pc[t] \in LockedPcs =>
              /\ wbLock = t
              /\ \A u \in Threads \ {t} : pc[u] \notin LockedPcs
              /\ pc[t] # "append_small" => logicalLen = LogLen
BY RFacts DEF RInv, LockInv, LengthInv, LockedPcs

LEMMA AppendBeginRInv ==
  ASSUME RInv, SmallPayloads, NEW t \in Threads, AppendBegin(t)
  PROVE  RInv'
<1>1. PICK d \in Payloads :
        /\ arg' = [arg EXCEPT ![t] = Extent(logicalLen, d)]
        /\ logicalLen' = logicalLen + Len(d)
        /\ pc' = [pc EXCEPT ![t] = "append_small"]
  BY DEF AppendBegin, Goto, SmallPayloads
<1>2. /\ pc[t] = "idle"
      /\ wbLock = NoThread /\ wbLock' = t
      /\ UNCHANGED <<file, wb, wbStart, acked, need>>
  BY DEF AppendBegin, Lock
<1>3. /\ TypeOK /\ TInv'
      /\ logicalLen = LogLen
      /\ \A u \in Threads : pc[u] \notin LockedPcs
  BY <1>2, AppendTInv, LockFacts DEF RInv, TInv
<1>4. /\ arg'[t] = Extent(logicalLen, d) /\ pc'[t] = "append_small"
      /\ \A u \in Threads \ {t} : arg'[u] = arg[u] /\ pc'[u] = pc[u]
  BY <1>1, <1>3 DEF TypeOK
<1>5. LogLen' = LogLen /\ \A i : LogCell(i)' = LogCell(i)
  BY <1>2 DEF LogLen, LogCell
<1>6. LockInv'
  BY <1>1, <1>2, <1>3, <1>4, <1>5 DEF LockInv, LockedPcs, Extent, ExtentEnd
<1>7. LengthInv'
  BY <1>4 DEF LengthInv
<1>8. CallInv'
  BY <1>2, <1>4 DEF CallInv, RInv
<1>9. AckedInv'
  BY <1>2, <1>5 DEF AckedInv, InLog, RInv
<1> QED
  BY <1>2, <1>3, <1>6, <1>7, <1>8, <1>9 DEF RInv

(* A step of the holder that gives the mutex back.                          *)
LEMMA UnlockLockInv ==
  ASSUME RInv, NEW t \in Threads, pc[t] \in LockedPcs, wbLock' = NoThread,
         pc'[t] \notin LockedPcs, \A u \in Threads \ {t} : pc'[u] = pc[u],
         logicalLen' = LogLen'
  PROVE  LockInv' /\ LengthInv'
<1>1. \A u \in Threads : pc'[u] \notin LockedPcs
  BY LockFacts
<1> QED
  BY <1>1, RFacts DEF LockInv, LengthInv, LockedPcs

LEMMA AppendSmallRInv ==
  ASSUME RInv, NEW t \in Threads, AppendSmall(t)
  PROVE  RInv'
<1> DEFINE d == arg[t].data
<1>1. /\ pc[t] = "append_small" /\ pc[t] \in LockedPcs
      /\ \/ wb' = wb \o d /\ file' = file /\ wbStart' = wbStart
         \/ /\ file' = WriteAll(file, wbStart, wb \o d)
            /\ wbStart' = wbStart + Len(wb \o d)
            /\ wb' = <<>>
      /\ acked' = acked \union {arg[t]}
      /\ wbLock' = NoThread
      /\ pc' = [pc EXCEPT ![t] = "idle"]
      /\ arg' = [arg EXCEPT ![t] = NoExtent]
      /\ need' = [need EXCEPT ![t] = {}]
      /\ logicalLen' = logicalLen
  BY DEF AppendSmall, Unlock, Return, Goto, LockedPcs
<1>2. /\ TypeOK /\ TInv' /\ d \in Seq(Cell) /\ Len(d) \in Nat
      /\ LogLen \in Nat /\ HeaderLen \in Nat /\ HeaderLen <= wbStart
      /\ wbStart \in Nat /\ wbStart <= LogLen
      /\ arg[t].off = LogLen /\ logicalLen = LogLen + Len(d)
  BY <1>1, AppendTInv, RFacts DEF RInv, TInv, LockInv, ExtentEnd
<1>3. /\ LogLen' = LogLen + Len(d)
      /\ LogLen' \in Nat /\ LogLen <= LogLen' /\ wbStart <= wbStart'
      /\ \A i \in 1 .. LogLen :
           CellOf(file', wbStart', wb', i) = CellOf(file, wbStart, wb, i)
      /\ \A i \in 1 .. Len(d) :
           CellOf(file', wbStart', wb', LogLen + i) = d[i]
  BY <1>1, <1>2, LogGrows
<1>4. /\ pc'[t] = "idle" /\ need'[t] = {}
      /\ \A u \in Threads \ {t} :
           pc'[u] = pc[u] /\ arg'[u] = arg[u] /\ need'[u] = need[u]
  BY <1>1, <1>2 DEF TypeOK
<1>5. LockInv' /\ LengthInv'
  BY <1>1, <1>2, <1>3, <1>4, UnlockLockInv DEF LockedPcs
<1>6. CallInv'
  <2>1. \A e \in acked : ExtentEnd(e) \in Nat
    BY RFacts
  <2>2. wbStart' \in Nat
    BY <1>2 DEF TInv, TypeOK
  <2>3. \A n \in Nat : n <= wbStart => n <= wbStart'
    BY <1>2, <1>3, <2>2
  <2> QED
    BY <1>1, <1>4, <2>1, <2>3 DEF CallInv, RInv
<1>7. AckedInv'
  <2>1. \A i \in HeaderLen + 1 .. LogLen : LogCell(i)' = LogCell(i)
    BY <1>2, <1>3 DEF LogCell
  <2>2. \A e \in acked : HeaderLen <= e.off /\ InLog(e)'
    BY <1>3, <2>1, AckedKept
  <2>3. HeaderLen <= arg[t].off
    BY <1>2
  <2>4. /\ ExtentEnd(arg[t]) <= LogLen'
        /\ \A i \in 1 .. Len(d) : CellOf(file', wbStart', wb', arg[t].off + i) = d[i]
    BY <1>2, <1>3 DEF ExtentEnd
  <2> SUFFICES ASSUME NEW e \in acked'
               PROVE  (HeaderLen <= e.off /\ InLog(e))'
    BY DEF AckedInv
  <2>5. CASE e \in acked
    BY <2>2, <2>5
  <2>6. CASE e = arg[t]
    BY <2>3, <2>4, <2>6 DEF InLog, LogCell, ExtentEnd
  <2> QED
    BY <1>1, <2>5, <2>6
<1>8. HeaderLen <= wbStart'
  BY <1>2, <1>3 DEF TInv, TypeOK
<1> QED
  BY <1>2, <1>5, <1>6, <1>7, <1>8 DEF RInv

LEMMA FlushEmptyRInv ==
  ASSUME RInv, NEW t \in Threads, FlushEmpty(t)
  PROVE  RInv'
<1>1. /\ pc[t] \in FlushPcs /\ wb = <<>>
      /\ pc' = [pc EXCEPT ![t] = AfterFlush(pc[t])]
      /\ UNCHANGED <<file, wb, wbStart, logicalLen, wbLock, arg, acked, need>>
  BY DEF FlushEmpty, Goto
<1>2. AfterFlush(pc[t]) =
        IF pc[t] = "read_flush" THEN "read_file"
        ELSE IF pc[t] = "write_flush" THEN "write_file" ELSE "sync_data"
  BY <1>1 DEF AfterFlush, FlushPcs
<1>3. TypeOK /\ TInv'
  BY FlushTInv DEF RInv, TInv
<1>4. /\ pc'[t] = AfterFlush(pc[t])
      /\ \A u \in Threads \ {t} : pc'[u] = pc[u]
  BY <1>1, <1>3 DEF TypeOK
<1>5. \A e \in acked : ExtentEnd(e) <= wbStart
  BY <1>1, EmptyBuffer
<1>6. pc[t] \notin LockedPcs /\ pc'[t] \notin LockedPcs
  BY <1>1, <1>2, <1>4 DEF FlushPcs, LockedPcs
<1>7. /\ need[t] \subseteq acked
      /\ pc[t] = "read_flush" => need[t] \subseteq {arg[t]}
      /\ pc[t] = "write_flush" => arg[t].off = 0 /\ arg[t].data \in Headers
  BY DEF RInv, CallInv
<1>8. /\ pc'[t] \in {"write_flush", "write_drain", "write_file"}
           => arg'[t].off = 0 /\ arg'[t].data \in Headers
      /\ need'[t] \subseteq acked
      /\ pc'[t] \in {"read_start", "read_flush", "read_drain", "read_file"}
           => need'[t] \subseteq {arg'[t]}
      /\ pc'[t] = "read_file" => \A e \in need'[t] : ExtentEnd(e) <= wbStart
  BY <1>1, <1>2, <1>4, <1>5, <1>7 DEF FlushPcs
<1> QED
  BY <1>1, <1>3, <1>4, <1>6, <1>8, LocalStepRInv

LEMMA FlushLockRInv ==
  ASSUME RInv, NEW t \in Threads, FlushLock(t)
  PROVE  RInv'
<1>1. /\ pc[t] \in FlushPcs
      /\ wbLock = NoThread /\ wbLock' = t
      /\ pc' = [pc EXCEPT ![t] = DrainOf(pc[t])]
      /\ UNCHANGED <<file, wb, wbStart, logicalLen, arg, acked, need>>
  BY DEF FlushLock, Goto, Lock
<1>2. /\ TypeOK /\ TInv' /\ logicalLen = LogLen
      /\ \A u \in Threads : pc[u] \notin LockedPcs
  BY <1>1, FlushTInv, LockFacts DEF RInv, TInv
<1>3. /\ pc[t] = "read_flush" => DrainOf(pc[t]) = "read_drain"
      /\ pc[t] = "write_flush" => DrainOf(pc[t]) = "write_drain"
      /\ pc[t] = "sync_flush" => DrainOf(pc[t]) = "sync_drain"
      /\ pc[t] = "close_flush" => DrainOf(pc[t]) = "close_drain"
  BY DEF DrainOf
<1>4. /\ pc'[t] = DrainOf(pc[t]) /\ pc'[t] \in DrainPcs
      /\ \A u \in Threads \ {t} : pc'[u] = pc[u]
  BY <1>1, <1>2, <1>3 DEF TypeOK, FlushPcs, DrainPcs
<1>5. LogLen' = LogLen /\ \A i : LogCell(i)' = LogCell(i)
  BY <1>1 DEF LogLen, LogCell
<1>6. LockInv'
  BY <1>1, <1>2, <1>4 DEF LockInv, LockedPcs, DrainPcs
<1>7. LengthInv'
  BY <1>1, <1>2, <1>5 DEF LengthInv
<1>8. CallInv'
  BY <1>1, <1>3, <1>4 DEF CallInv, RInv, FlushPcs
<1>9. AckedInv'
  BY <1>1, <1>5 DEF AckedInv, InLog, RInv
<1> QED
  BY <1>1, <1>2, <1>6, <1>7, <1>8, <1>9 DEF RInv

LEMMA FlushDrainRInv ==
  ASSUME RInv, NEW t \in Threads, FlushDrain(t)
  PROVE  RInv'
<1>1. /\ pc[t] \in DrainPcs /\ pc[t] \in LockedPcs /\ pc[t] # "append_small"
      /\ file' = WriteAll(file, wbStart, wb)
      /\ wbStart' = wbStart + Len(wb)
      /\ wb' = <<>>
      /\ wbLock' = NoThread
      /\ pc' = [pc EXCEPT ![t] = AfterFlush(pc[t])]
      /\ UNCHANGED <<logicalLen, arg, acked, need>>
  BY DEF FlushDrain, Drained, Goto, Unlock, DrainPcs, LockedPcs
<1>2. AfterFlush(pc[t]) =
        IF pc[t] = "read_drain" THEN "read_file"
        ELSE IF pc[t] = "write_drain" THEN "write_file" ELSE "sync_data"
  BY <1>1 DEF AfterFlush, DrainPcs
<1>3. /\ TypeOK /\ TInv' /\ logicalLen = LogLen
      /\ file \in Seq(Cell) /\ wb \in Seq(Cell) /\ wbStart \in Nat
      /\ wbStart <= Len(file) /\ Len(wb) \in Nat
      /\ HeaderLen <= wbStart /\ HeaderLen \in Nat
  BY <1>1, FlushTInv, LockFacts, RFacts DEF RInv, TInv
<1>4. LogLen' = LogLen /\ LogLen \in Nat /\ wbStart' = LogLen
  BY <1>1, <1>3 DEF LogLen
<1>5. \A i \in 1 .. LogLen : LogCell(i)' = LogCell(i)
  <2>1. LogLen = wbStart + Len(wb)
    BY DEF LogLen
  <2>2. \A i \in 1 .. LogLen :
          CellOf(file', wbStart', wb', i) = CellOf(file, wbStart, wb, i)
    BY <1>1, <1>3, <2>1, CellsWritten
  <2> QED
    BY <2>2 DEF LogCell
<1>6. /\ pc'[t] = AfterFlush(pc[t]) /\ pc'[t] \notin LockedPcs
      /\ \A u \in Threads \ {t} : pc'[u] = pc[u]
  BY <1>1, <1>2, <1>3 DEF TypeOK, LockedPcs
<1>7. LockInv' /\ LengthInv'
  BY <1>1, <1>3, <1>4, <1>6, UnlockLockInv
<1>8. AckedInv'
  <2>1. \A i \in HeaderLen + 1 .. LogLen : LogCell(i)' = LogCell(i)
    BY <1>3, <1>5
  <2>2. \A e \in acked : HeaderLen <= e.off /\ InLog(e)'
    BY <1>4, <2>1, AckedKept
  <2> QED
    BY <1>1, <2>2 DEF AckedInv
<1>9. \A e \in acked : ExtentEnd(e) <= wbStart'
  BY <1>4 DEF RInv, AckedInv, InLog
<1>10. CallInv'
  BY <1>1, <1>2, <1>6, <1>9 DEF CallInv, RInv, DrainPcs
<1>11. HeaderLen <= wbStart'
  BY <1>1, <1>3
<1> QED
  BY <1>3, <1>7, <1>8, <1>10, <1>11 DEF RInv

(* The header is rewritten below every extent, under no mutex.              *)
LEMMA WriteFileRInv ==
  ASSUME RInv, NEW t \in Threads, WriteFile(t)
  PROVE  RInv'
<1> DEFINE hd == arg[t].data
<1>1. /\ pc[t] = "write_file"
      /\ file' = WriteAll(file, arg[t].off, hd)
      /\ logicalLen' = Larger(logicalLen, ExtentEnd(arg[t]))
      /\ wbStart' = Larger(wbStart, ExtentEnd(arg[t]))
      /\ pc' = [pc EXCEPT ![t] = "idle"]
      /\ arg' = [arg EXCEPT ![t] = NoExtent]
      /\ need' = [need EXCEPT ![t] = {}]
      /\ UNCHANGED <<wb, wbLock, acked>>
  BY DEF WriteFile, Return, Goto
<1>2. /\ TypeOK /\ TInv'
      /\ arg[t].off = 0 /\ hd \in Seq(Cell) /\ Len(hd) = HeaderLen
      /\ file \in Seq(Cell) /\ wbStart \in Nat /\ wbStart <= Len(file)
      /\ logicalLen \in Nat /\ Len(file) \in Nat /\ LogLen \in Nat
      /\ HeaderLen <= wbStart /\ HeaderLen \in Nat
  BY <1>1, WriteTInv, RFacts, ConfigAssumption DEF RInv, TInv, CallInv
<1>3. wbStart <= logicalLen
  <2>1. CASE logicalLen = LogLen
    BY <2>1, RFacts
  <2>2. ASSUME NEW u \in Threads, pc[u] = "append_small" PROVE wbStart <= logicalLen
    <3>1. logicalLen = LogLen + Len(arg[u].data) /\ Len(arg[u].data) \in Nat
      BY <2>2, RFacts DEF RInv, LockInv, ExtentEnd
    <3> QED
      BY <3>1, RFacts
  <2> QED
    BY <2>1, <2>2 DEF RInv, LengthInv
<1>4. wbStart' = wbStart /\ logicalLen' = logicalLen
  BY <1>1, <1>2, <1>3 DEF ExtentEnd, Larger
<1>5. /\ LogLen' = LogLen
      /\ \A i \in HeaderLen + 1 .. LogLen : LogCell(i)' = LogCell(i)
  <2>1. WriteAll(file, 0, hd) = file'
    BY <1>1, <1>2
  <2>2. Len(hd) <= Len(file)
    BY <1>2
  <2>3. \A i \in HeaderLen + 1 .. Len(file) : file'[i] = file[i]
    BY <1>2, <2>1, <2>2, RewriteStart
  <2>4. LogLen' = LogLen
    BY <1>1, <1>4 DEF LogLen
  <2>5. \A i \in HeaderLen + 1 .. LogLen : i <= wbStart => i \in HeaderLen + 1 .. Len(file)
    BY <1>2
  <2> QED
    BY <1>1, <1>4, <2>3, <2>4, <2>5 DEF LogCell, CellOf
<1>6. /\ pc'[t] = "idle" /\ need'[t] = {}
      /\ \A u \in Threads \ {t} :
           pc'[u] = pc[u] /\ arg'[u] = arg[u] /\ need'[u] = need[u]
  BY <1>1, <1>2 DEF TypeOK
<1>7. LockInv'
  BY <1>1, <1>4, <1>5, <1>6 DEF LockInv, RInv, LockedPcs
<1>8. LengthInv'
  BY <1>1, <1>4, <1>5, <1>6 DEF LengthInv, RInv
<1>9. CallInv'
  BY <1>1, <1>4, <1>6 DEF CallInv, RInv
<1>10. AckedInv'
  <2>1. \A e \in acked : HeaderLen <= e.off /\ InLog(e)'
    BY <1>2, <1>5, AckedKept
  <2> QED
    BY <1>1, <2>1 DEF AckedInv
<1> QED
  BY <1>2, <1>4, <1>7, <1>8, <1>9, <1>10 DEF RInv

(* truncate cuts the log: the buffer goes, and what the file holds behind   *)
(* the new end is not looked at any more.                                   *)
LEMMA TruncateBeginRInv ==
  ASSUME RInv, NEW t \in Threads, TruncateBegin(t)
  PROVE  RInv'
<1>1. PICK n \in HeaderLen .. wbStart :
        /\ pc[t] = "idle"
        /\ wbLock = NoThread /\ wbLock' = t
        /\ wb' = <<>>
        /\ wbStart' = n
        /\ logicalLen' = n
        /\ acked' = {e \in acked : ExtentEnd(e) <= n}
        /\ need' = [u \in Threads |-> {e \in need[u] : ExtentEnd(e) <= n}]
        /\ pc' = [pc EXCEPT ![t] = "truncate_set_len"]
        /\ UNCHANGED <<file, arg>>
  BY DEF TruncateBegin, Lock, Goto
<1>2. /\ TypeOK /\ TInv' /\ n \in Nat /\ n <= wbStart /\ HeaderLen <= n
      /\ wbStart \in Nat /\ HeaderLen \in Nat
      /\ \A u \in Threads : pc[u] \notin LockedPcs
  BY <1>1, TruncateTInv, LockFacts, RFacts DEF RInv, TInv
<1>3. /\ pc'[t] = "truncate_set_len"
      /\ \A u \in Threads \ {t} : pc'[u] = pc[u]
  BY <1>1, <1>2 DEF TypeOK
<1>4. LogLen' = n
  BY <1>1, <1>2 DEF LogLen
<1>5. LockInv'
  BY <1>1, <1>2, <1>3 DEF LockInv, LockedPcs
<1>6. LengthInv'
  BY <1>1, <1>4 DEF LengthInv
<1>7. CallInv'
  BY <1>1, <1>3 DEF CallInv, RInv
<1>8. AckedInv'
  <2> SUFFICES ASSUME NEW e \in acked'
               PROVE  (HeaderLen <= e.off /\ InLog(e))'
    BY DEF AckedInv
  <2>1. e \in ExtentType /\ HeaderLen <= e.off /\ InLog(e) /\ ExtentEnd(e) <= n
    BY <1>1, RFacts DEF RInv, AckedInv
  <2>2. \A i \in HeaderLen + 1 .. n : LogCell(i)' = LogCell(i)
    BY <1>1, <1>2 DEF LogCell, CellOf
  <2>3. InLog(e)'
    BY <1>2, <1>4, <2>1, <2>2, InLogKept
  <2> QED
    BY <2>1, <2>3
<1> QED
  BY <1>1, <1>2, <1>5, <1>6, <1>7, <1>8 DEF RInv

LEMMA TruncateSetLenRInv ==
  ASSUME RInv, NEW t \in Threads, TruncateSetLen(t)
  PROVE  RInv'
<1>1. /\ pc[t] = "truncate_set_len" /\ pc[t] \in LockedPcs
      /\ file' = SubSeq(file, 1, wbStart)
      /\ wbLock' = NoThread
      /\ pc' = [pc EXCEPT ![t] = "idle"]
      /\ arg' = [arg EXCEPT ![t] = NoExtent]
      /\ need' = [need EXCEPT ![t] = {}]
      /\ UNCHANGED <<wb, wbStart, logicalLen, acked>>
  BY DEF TruncateSetLen, SetLen, Unlock, Return, Goto, LockedPcs
<1>2. /\ TypeOK /\ TInv' /\ logicalLen = LogLen /\ LogLen = wbStart
      /\ file \in Seq(Cell) /\ wbStart \in Nat /\ wbStart <= Len(file)
      /\ HeaderLen <= wbStart /\ HeaderLen \in Nat
  BY <1>1, TruncateTInv, LockFacts, RFacts, EmptyBuffer DEF RInv, TInv, LockInv
<1>3. LogLen' = LogLen
  BY <1>1 DEF LogLen
<1>4. /\ pc'[t] = "idle" /\ need'[t] = {}
      /\ \A u \in Threads \ {t} :
           pc'[u] = pc[u] /\ arg'[u] = arg[u] /\ need'[u] = need[u]
  BY <1>1, <1>2 DEF TypeOK
<1>5. LockInv' /\ LengthInv'
  BY <1>1, <1>2, <1>3, <1>4, UnlockLockInv DEF LockedPcs
<1>6. CallInv'
  BY <1>1, <1>4 DEF CallInv, RInv
<1>7. AckedInv'
  <2>1. \A i \in 1 .. wbStart : file'[i] = file[i]
    BY <1>1, <1>2
  <2>2. \A i \in HeaderLen + 1 .. LogLen : LogCell(i)' = LogCell(i)
    BY <1>1, <1>2, <2>1 DEF LogCell, CellOf
  <2>3. \A e \in acked : HeaderLen <= e.off /\ InLog(e)'
    BY <1>2, <1>3, <2>2, AckedKept
  <2> QED
    BY <1>1, <2>3 DEF AckedInv
<1> QED
  BY <1>1, <1>2, <1>5, <1>6, <1>7 DEF RInv

(* A write that fails leaves what the log is made of: the file up to        *)
(* write_buffer_start, behind the header, and the buffer.                   *)
LEMMA WriteErrorRInv ==
  ASSUME RInv, NEW t \in Threads, WriteError(t)
  PROVE  RInv'
<1> DEFINE d == IF pc[t] = "append_small" THEN arg[t].data ELSE <<>>
<1>1. /\ PartlyWritten(t)
      /\ pc[t] \in (LockedPcs \ {"truncate_set_len"}) \union {"write_file"}
      /\ wb' = KeptBuffer(t)
      /\ wbLock' = IF wbLock = t THEN NoThread ELSE wbLock
      /\ UNCHANGED <<wbStart, logicalLen, acked>>
  BY DEF WriteError, PartlyWritten
<1>2. /\ TypeOK /\ TInv'
      /\ file \in Seq(Cell) /\ wb \in Seq(Cell) /\ wbStart \in Nat
      /\ Len(file) \in Nat /\ Len(wb) \in Nat /\ LogLen \in Nat
      /\ wbStart <= Len(file) /\ HeaderLen <= wbStart /\ HeaderLen \in Nat
      /\ arg[t].data \in Seq(Cell)
      /\ pc[t] \notin {"append_drain", "append_large"}
  BY WriteErrorTInv, RFacts DEF RInv, TInv, LockInv
<1>3. /\ d \in Seq(Cell) /\ Len(d) \in Nat /\ wb' = wb \o d
      /\ Len(wb') = Len(wb) + Len(d)
  <2>1. d \in Seq(Cell)
    BY <1>2
  <2>2. wb' = wb \o d
    <3>1. wb \o <<>> = wb
      BY <1>2
    <3> QED
      BY <1>1, <3>1 DEF KeptBuffer
  <2> HIDE DEF d
  <2> QED
    BY <1>2, <2>1, <2>2
<1>4. \A i \in HeaderLen + 1 .. wbStart : file'[i] = file[i]
  <2>1. \A i \in 1 .. Len(file) :
          i <= Writing(t).off \/ ExtentEnd(Writing(t)) < i => file'[i] = file[i]
    BY <1>1, PartlyWrittenFile DEF RInv
  <2>2. \A i \in HeaderLen + 1 .. wbStart : i \in 1 .. Len(file)
    BY <1>2
  <2>3. CASE pc[t] = "write_file"
    <3>1. ExtentEnd(Writing(t)) = HeaderLen
      BY <1>2, <2>3, ConfigAssumption DEF Writing, RInv, CallInv, ExtentEnd
    <3> QED
      BY <1>2, <2>1, <2>2, <3>1
  <2>4. CASE pc[t] # "write_file"
    <3>1. Writing(t).off = wbStart
      BY <1>2, <2>4 DEF Writing, Extent
    <3> QED
      BY <1>2, <2>1, <2>2, <3>1
  <2> QED
    BY <2>3, <2>4
<1>5. /\ LogLen' = LogLen + Len(d) /\ LogLen' \in Nat /\ LogLen <= LogLen'
      /\ \A i \in HeaderLen + 1 .. LogLen : LogCell(i)' = LogCell(i)
  <2> HIDE DEF d
  <2>1. LogLen' = LogLen + Len(d) /\ LogLen' \in Nat /\ LogLen <= LogLen'
    BY <1>1, <1>2, <1>3 DEF LogLen
  <2>2. \A i \in 1 .. LogLen : CellOf(file, wbStart, wb \o d, i) = CellOf(file, wbStart, wb, i)
    <3>1. \A i \in 1 .. wbStart + Len(wb) :
            CellOf(file, wbStart, wb \o d, i) = CellOf(file, wbStart, wb, i)
      <4>1. wbStart \in Nat /\ wb \in Seq(Cell) /\ d \in Seq(Cell)
        BY <1>2, <1>3
      <4> QED
        BY <4>1, CellsBehind, Zenon
    <3> QED
      BY <3>1 DEF LogLen
  <2>3. ASSUME NEW i \in HeaderLen + 1 .. LogLen PROVE LogCell(i)' = LogCell(i)
    <3>1. i \in 1 .. LogLen /\ (i <= wbStart => i \in HeaderLen + 1 .. wbStart)
      BY <1>2
    <3>2. CellOf(file', wbStart', wb', i) = CellOf(file, wbStart, wb \o d, i)
      BY <1>1, <1>3, <1>4, <3>1 DEF CellOf
    <3> QED
      BY <2>2, <3>1, <3>2 DEF LogCell
  <2> QED
    BY <2>1, <2>3
<1>6. \/ /\ pc[t] = "close_drain" /\ pc'[t] = "sync_data"
         /\ \A u \in Threads \ {t} : pc'[u] = pc[u]
         /\ UNCHANGED <<arg, need>>
      \/ /\ pc'[t] = "idle" /\ need'[t] = {}
         /\ \A u \in Threads \ {t} :
              pc'[u] = pc[u] /\ arg'[u] = arg[u] /\ need'[u] = need[u]
  <2>1. pc[t] = "close_drain" => AfterFlush(pc[t]) = "sync_data"
    BY DEF AfterFlush
  <2> QED
    BY <1>2, <2>1 DEF WriteError, Return, Goto, TypeOK
<1>7. LockInv' /\ LengthInv'
  <2>1. CASE pc[t] \in LockedPcs
    <3>1. wbLock' = NoThread
      BY <1>1, <2>1, LockFacts
    <3>2. pc'[t] \notin LockedPcs /\ \A u \in Threads \ {t} : pc'[u] = pc[u]
      BY <1>6 DEF LockedPcs
    <3>3. logicalLen' = LogLen'
      <4>1. CASE pc[t] = "append_small"
        BY <1>1, <1>5, <4>1 DEF RInv, LockInv, ExtentEnd
      <4>2. CASE pc[t] # "append_small"
        <5>1. Len(d) = 0
          BY <4>2
        <5> HIDE DEF d
        <5> QED
          BY <1>1, <1>2, <1>5, <2>1, <4>2, <5>1, LockFacts
      <4> QED
        BY <4>1, <4>2
    <3> QED
      BY <2>1, <3>1, <3>2, <3>3, UnlockLockInv
  <2>2. CASE pc[t] = "write_file"
    <3>1. /\ wbLock' = wbLock
          /\ pc'[t] \notin LockedPcs
          /\ \A u \in Threads \ {t} : pc'[u] = pc[u] /\ arg'[u] = arg[u]
          /\ Len(d) = 0 /\ wb' = wb
      BY <1>1, <1>6, <2>2 DEF RInv, LockInv, LockedPcs, KeptBuffer
    <3>2. LogLen' = LogLen
      BY <1>1, <3>1 DEF LogLen
    <3>3. LockInv'
      BY <1>1, <2>2, <3>1, <3>2 DEF RInv, LockInv, LockedPcs
    <3>4. LengthInv'
      BY <1>1, <2>2, <3>1, <3>2 DEF RInv, LengthInv
    <3> QED
      BY <3>3, <3>4
  <2> QED
    BY <1>1, <2>1, <2>2
<1>8. CallInv'
  BY <1>1, <1>6 DEF CallInv, RInv
<1>9. AckedInv'
  <2>1. \A e \in acked : HeaderLen <= e.off /\ InLog(e)'
    BY <1>5, AckedKept
  <2> QED
    BY <1>1, <2>1 DEF AckedInv
<1> QED
  BY <1>1, <1>2, <1>7, <1>8, <1>9 DEF RInv

LEMMA StepPreservesRInv ==
  ASSUME SmallPayloads
  PROVE  RInv /\ [Next]_vars => RInv'
<1> SUFFICES ASSUME RInv, [Next]_vars PROVE RInv'
  OBVIOUS
<1>1. CASE UNCHANGED vars
  <2>1. TInv'
    BY StepPreservesTInv DEF RInv
  <2>2. LogLen' = LogLen /\ \A i : LogCell(i)' = LogCell(i)
    BY <1>1 DEF vars, LogLen, LogCell
  <2> QED
    BY <1>1, <2>1, <2>2 DEF vars, RInv, LockInv, LengthInv, CallInv, AckedInv, InLog
<1>2. ASSUME NEW t \in Threads, Call(t) \/ Step(t) PROVE RInv'
  <2>1. ~AppendDrain(t) /\ ~AppendLarge(t)
    BY DEF AppendDrain, AppendLarge, RInv, LockInv
  <2> QED
    BY <1>2, <2>1, AppendBeginRInv, AppendSmallRInv, FlushEmptyRInv, FlushLockRInv,
       FlushDrainRInv, LocalRInv, WriteFileRInv, TruncateBeginRInv,
       TruncateSetLenRInv, WriteErrorRInv DEF Call, Step
<1> QED
  BY <1>1, <1>2 DEF Next

(* What is in the log is where a drain of the buffer puts it, whatever an   *)
(* earlier drain left behind write_buffer_start.                            *)
LEMMA RInvImplies == RInv => AckedInPlace /\ ReadFindsExtent
<1> SUFFICES ASSUME RInv PROVE AckedInPlace /\ ReadFindsExtent
  OBVIOUS
<1>1. /\ file \in Seq(Cell) /\ wb \in Seq(Cell) /\ wbStart \in Nat
      /\ wbStart <= Len(file) /\ Len(file) \in Nat /\ LogLen = wbStart + Len(wb)
  BY RFacts DEF LogLen
<1>2. ASSUME NEW e \in acked
      PROVE  /\ e.off \in Nat /\ Len(e.data) \in Nat /\ e.off + Len(e.data) <= LogLen
             /\ \A i \in 1 .. Len(e.data) : LogCell(e.off + i) = e.data[i]
             /\ HeaderLen <= e.off
  BY RFacts DEF RInv, AckedInv, InLog, ExtentEnd, ExtentType
<1>3. AckedInPlace
  <2>1. /\ LogLen <= Len(Drained) /\ Len(Drained) \in Nat /\ LogLen \in Nat
        /\ \A i \in 1 .. LogLen : Drained[i] = LogCell(i)
    <3>1. LogLen <= Len(Drained) /\ Len(Drained) \in Nat /\ LogLen \in Nat
      BY <1>1, WriteKeepsLength, RFacts DEF Drained
    <3>2. \A i \in 1 .. LogLen : CellOf(Drained, LogLen, <<>>, i) = LogCell(i)
      BY <1>1, CellsWritten DEF Drained, LogCell
    <3>3. \A i \in 1 .. LogLen : CellOf(Drained, LogLen, <<>>, i) = Drained[i]
      BY DEF CellOf
    <3> QED
      BY <3>1, <3>2, <3>3
  <2> SUFFICES ASSUME NEW e \in acked
               PROVE  HeaderLen <= e.off /\ Holds(Drained, e)
    BY DEF AckedInPlace
  <2>2. \A i \in 1 .. Len(e.data) : e.off + i \in 1 .. LogLen
    BY <1>1, <1>2
  <2>3. e.off + Len(e.data) <= Len(Drained)
    BY <1>2, <2>1
  <2> QED
    BY <1>2, <2>1, <2>2, <2>3 DEF Holds, ExtentEnd
<1>4. ReadFindsExtent
  <2> SUFFICES ASSUME NEW t \in Threads, pc[t] = "read_file", NEW e \in need[t]
               PROVE  Holds(file, e)
    BY DEF ReadFindsExtent
  <2>1. e \in acked /\ ExtentEnd(e) <= wbStart
    BY DEF RInv, CallInv
  <2>2. e.off + Len(e.data) <= wbStart
    BY <2>1 DEF ExtentEnd
  <2>3. \A i \in 1 .. Len(e.data) : e.off + i <= wbStart
    BY <1>1, <1>2, <2>1, <2>2
  <2>4. \A i \in 1 .. Len(e.data) : file[e.off + i] = e.data[i]
    BY <1>2, <2>1, <2>3 DEF LogCell, CellOf
  <2> QED
    BY <1>1, <1>2, <2>1, <2>2, <2>4 DEF Holds, ExtentEnd
<1> QED
  BY <1>3, <1>4

(* A failed write costs nothing that was acknowledged: as long as no data   *)
(* is as large as the write buffer, every extent append returned is where   *)
(* append said, or goes there with the next drain, however many drains,     *)
(* appends and header writes failed half-way in between and whichever       *)
(* threads retry them (the error returns of append, flush_locked, write_at).*)
THEOREM BackendRetrySafe ==
  ASSUME SmallPayloads
  PROVE  Spec => []AckedInPlace
<1>1. Init => RInv
  BY InitRInv
<1>2. RInv /\ [Next]_vars => RInv'
  BY StepPreservesRInv
<1>3. RInv => AckedInPlace
  BY RInvImplies
<1> QED
  BY <1>1, <1>2, <1>3, PTL DEF Spec

(* A read whose flush failed returns the error and does not go on: what     *)
(* reaches the file finds its extent there (read_at_into).                  *)
THEOREM BackendRetryReadFindsExtent ==
  ASSUME SmallPayloads
  PROVE  Spec => []ReadFindsExtent
<1>1. Init => RInv
  BY InitRInv
<1>2. RInv /\ [Next]_vars => RInv'
  BY StepPreservesRInv
<1>3. RInv => ReadFindsExtent
  BY RInvImplies
<1> QED
  BY <1>1, <1>2, <1>3, PTL DEF Spec
=============================================================================
