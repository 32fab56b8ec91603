-------------------------- MODULE MmapBackendProofs -------------------------
(***************************************************************************)
(* The backend keeps every acknowledged extent in place and implements the  *)
(* append log, for every number of threads, buffer limit and payload, as    *)
(* long as no write to the file fails.                                      *)
(***************************************************************************)
EXTENDS MmapBackend, SequenceTheorems, TLAPS

(* What positioned writes, cuts and appends do to an extent, for every      *)
(* file: the facts the proofs below rest on.                                *)
ExtentType == [off : Nat, data : Seq(Cell)]

(* WriteAll yields a file of the expected length, cell by cell (the         *)
(* seek/write_all pairs of mmap.rs).                                        *)
LEMMA WriteAllProperties ==
  ASSUME NEW f \in Seq(Cell), NEW off \in Nat, NEW d \in Seq(Cell)
  PROVE  /\ WriteAll(f, off, d) \in Seq(Cell)
         /\ Len(WriteAll(f, off, d)) = Larger(Len(f), off + Len(d))
         /\ \A i \in 1 .. Larger(Len(f), off + Len(d)) :
              WriteAll(f, off, d)[i] =
                IF off < i /\ i <= off + Len(d) THEN d[i - off]
                ELSE IF i <= Len(f) THEN f[i] ELSE Zero
<1> DEFINE n == Larger(Len(f), off + Len(d))
           g == WriteAll(f, off, d)
<1>1. n \in Nat
  BY DEF Larger
<1>2. \A i \in 1 .. n :
        (IF off < i /\ i <= off + Len(d) THEN d[i - off]
         ELSE IF i <= Len(f) THEN f[i] ELSE Zero) \in Cell
  BY <1>1, ZeroAssumption DEF Larger
<1>3. g \in [1 .. n -> Cell]
  BY <1>2 DEF WriteAll
<1>4. g \in Seq(Cell) /\ Len(g) = n
  BY <1>1, <1>3, SeqDef
<1>5. \A i \in 1 .. n :
        g[i] = IF off < i /\ i <= off + Len(d) THEN d[i - off]
               ELSE IF i <= Len(f) THEN f[i] ELSE Zero
  BY DEF WriteAll
<1> QED
  BY <1>4, <1>5

(* A write at the end of the file is an append.                             *)
LEMMA WriteAtEnd ==
  ASSUME NEW f \in Seq(Cell), NEW d \in Seq(Cell)
  PROVE  WriteAll(f, Len(f), d) = f \o d
<1> DEFINE g == WriteAll(f, Len(f), d)
<1>1. /\ g \in Seq(Cell)
      /\ Len(g) = Larger(Len(f), Len(f) + Len(d))
      /\ \A i \in 1 .. Larger(Len(f), Len(f) + Len(d)) :
           g[i] = IF Len(f) < i /\ i <= Len(f) + Len(d) THEN d[i - Len(f)]
                  ELSE IF i <= Len(f) THEN f[i] ELSE Zero
  <2>1. Len(f) \in Nat
    OBVIOUS
  <2> QED
    BY <2>1, WriteAllProperties
<1>2. Larger(Len(f), Len(f) + Len(d)) = Len(f) + Len(d)
  BY DEF Larger
<1>3. f \o d \in Seq(Cell) /\ Len(f \o d) = Len(f) + Len(d)
  OBVIOUS
<1>4. \A i \in 1 .. Len(f \o d) :
        (f \o d)[i] = IF i <= Len(f) THEN f[i] ELSE d[i - Len(f)]
  OBVIOUS
<1>5. \A i \in 1 .. Len(g) : g[i] = (f \o d)[i]
  BY <1>1, <1>2, <1>3, <1>4
<1> HIDE DEF g
<1>6. g = f \o d
  BY <1>1, <1>2, <1>3, <1>5, SeqEqual
<1> QED
  BY <1>6 DEF g

(* Writing no data inside the file changes nothing.                         *)
LEMMA WriteNothing ==
  ASSUME NEW f \in Seq(Cell), NEW off \in Nat, off <= Len(f)
  PROVE  WriteAll(f, off, <<>>) = f
<1>1. Larger(Len(f), off + Len(<<>>)) = Len(f)
  BY DEF Larger
<1>2. WriteAll(f, off, <<>>) = [i \in 1 .. Len(f) |-> f[i]]
  BY <1>1 DEF WriteAll
<1> QED
  BY <1>2

(* Writing the buffer with new data behind it appends one after the other.  *)
LEMMA WriteBufferAndData ==
  ASSUME NEW f \in Seq(Cell), NEW w \in Seq(Cell), NEW d \in Seq(Cell)
  PROVE  /\ f \o (w \o d) = (f \o w) \o d
         /\ WriteAll(f, Len(f), w \o d) = (f \o w) \o d
<1>1. f \o (w \o d) = (f \o w) \o d
  BY ConcatAssociative
<1>2. w \o d \in Seq(Cell)
  BY ConcatProperties
<1>3. WriteAll(f, Len(f), w \o d) = f \o (w \o d)
  BY <1>2, WriteAtEnd
<1> QED
  BY <1>1, <1>3

(* Appending moves no extent, and puts its own data where it says.          *)
LEMMA HoldsAfterAppend ==
  ASSUME NEW f \in Seq(Cell), NEW d \in Seq(Cell)
  PROVE  /\ \A e \in ExtentType : Holds(f, e) => Holds(f \o d, e)
         /\ Holds(f \o d, Extent(Len(f), d))
<1>1. \A e \in ExtentType : Holds(f, e) => Holds(f \o d, e)
  BY DEF Holds, ExtentEnd, ExtentType
<1>2. Holds(f \o d, Extent(Len(f), d))
  BY DEF Holds, ExtentEnd, Extent
<1> QED
  BY <1>1, <1>2

(* What lies before the end of the first part lies in the first part.       *)
LEMMA HoldsInFirstPart ==
  ASSUME NEW f \in Seq(Cell), NEW w \in Seq(Cell), NEW e \in ExtentType,
         Holds(f \o w, e), ExtentEnd(e) <= Len(f)
  PROVE  Holds(f, e)
BY DEF Holds, ExtentEnd, ExtentType

(* A cut keeps the extents that end at or before it.                        *)
LEMMA HoldsAfterCut ==
  ASSUME NEW f \in Seq(Cell), NEW n \in 0 .. Len(f)
  PROVE  /\ SetLen(f, n) \in Seq(Cell)
         /\ Len(SetLen(f, n)) = n
         /\ \A e \in ExtentType :
              Holds(f, e) /\ ExtentEnd(e) <= n => Holds(SetLen(f, n), e)
<1>1. /\ SetLen(f, n) \in Seq(Cell)
      /\ Len(SetLen(f, n)) = n
      /\ \A i \in 1 .. n : SetLen(f, n)[i] = f[i]
  BY DEF SetLen
<1> QED
  BY <1>1 DEF Holds, ExtentEnd, ExtentType

(* Rewriting the first cells changes no extent behind them.                 *)
LEMMA RewriteStart ==
  ASSUME NEW f \in Seq(Cell), NEW h \in Seq(Cell), Len(h) <= Len(f)
  PROVE  /\ WriteAll(f, 0, h) \in Seq(Cell)
         /\ Len(WriteAll(f, 0, h)) = Len(f)
         /\ \A i \in Len(h) + 1 .. Len(f) : WriteAll(f, 0, h)[i] = f[i]
         /\ \A i \in 1 .. Len(h) : WriteAll(f, 0, h)[i] = h[i]
<1> DEFINE g == WriteAll(f, 0, h)
<1>1. Larger(Len(f), 0 + Len(h)) = Len(f)
  BY DEF Larger
<1>2. /\ g \in Seq(Cell)
      /\ Len(g) = Larger(Len(f), 0 + Len(h))
      /\ \A i \in 1 .. Larger(Len(f), 0 + Len(h)) :
           g[i] = IF 0 < i /\ i <= 0 + Len(h) THEN h[i - 0]
                  ELSE IF i <= Len(f) THEN f[i] ELSE Zero
  <2>1. 0 \in Nat
    OBVIOUS
  <2> QED
    BY <2>1, WriteAllProperties
<1> HIDE DEF g
<1>3. Len(g) = Len(f) /\ Len(f) \in Nat /\ Len(h) \in Nat
  BY <1>1, <1>2
<1>4. \A i \in 1 .. Len(f) :
        g[i] = IF 0 < i /\ i <= 0 + Len(h) THEN h[i - 0] ELSE f[i]
  BY <1>1, <1>2, <1>3
<1>5. /\ \A i \in Len(h) + 1 .. Len(f) : g[i] = f[i]
      /\ \A i \in 1 .. Len(h) : g[i] = h[i]
  BY <1>3, <1>4
<1> QED
  BY <1>2, <1>3, <1>5 DEF g

LEMMA HoldsAfterRewrite ==
  ASSUME NEW f \in Seq(Cell), NEW w \in Seq(Cell), NEW h \in Seq(Cell),
         Len(h) <= Len(f), NEW e \in ExtentType, Len(h) <= e.off,
         Holds(f \o w, e)
  PROVE  Holds(WriteAll(f, 0, h) \o w, e)
<1> DEFINE g == WriteAll(f, 0, h)
<1>1. /\ g \in Seq(Cell)
      /\ Len(g) = Len(f)
      /\ \A i \in Len(h) + 1 .. Len(f) : g[i] = f[i]
  BY RewriteStart
<1> HIDE DEF g
<1>2. /\ e.off \in Nat /\ e.data \in Seq(Cell) /\ Len(h) \in Nat
      /\ Len(g \o w) = Len(f) + Len(w) /\ Len(f \o w) = Len(f) + Len(w)
  <2>1. e.off \in Nat /\ e.data \in Seq(Cell) /\ Len(h) \in Nat
    BY DEF ExtentType
  <2>2. Len(g \o w) = Len(g) + Len(w) /\ Len(f \o w) = Len(f) + Len(w)
    BY <1>1, ConcatProperties
  <2> QED
    BY <1>1, <2>1, <2>2
<1>3. \A i \in 1 .. Len(e.data) : (g \o w)[e.off + i] = (f \o w)[e.off + i]
  <2> TAKE i \in 1 .. Len(e.data)
  <2>1. e.off + i \in Len(h) + 1 .. Len(f) + Len(w)
    BY <1>2 DEF Holds, ExtentEnd
  <2>2. CASE e.off + i <= Len(f)
    BY <1>1, <1>2, <2>1, <2>2
  <2>3. CASE Len(f) < e.off + i
    <3>1. \A j \in Len(f) + 1 .. Len(f) + Len(w) :
            (g \o w)[j] = w[j - Len(f)] /\ (f \o w)[j] = w[j - Len(f)]
      BY SMTT(30), <1>1
    <3>2. e.off + i \in Len(f) + 1 .. Len(f) + Len(w)
      BY <1>2, <2>1, <2>3
    <3> QED
      BY <3>1, <3>2
  <2> QED
    BY <1>2, <2>1, <2>2, <2>3
<1>4. Holds(g \o w, e)
  BY <1>2, <1>3 DEF Holds, ExtentEnd
<1> QED
  BY <1>4 DEF g

(* Rewriting the start of the file is rewriting the start of the log.       *)
LEMMA RewriteStartOfLog ==
  ASSUME NEW f \in Seq(Cell), NEW w \in Seq(Cell), NEW h \in Seq(Cell),
         Len(h) <= Len(f)
  PROVE  WriteAll(f, 0, h) \o w = WriteAll(f \o w, 0, h)
<1> DEFINE g == WriteAll(f, 0, h)
           k == WriteAll(f \o w, 0, h)
<1>1. /\ g \in Seq(Cell)
      /\ Len(g) = Len(f)
      /\ \A i \in Len(h) + 1 .. Len(f) : g[i] = f[i]
      /\ \A i \in 1 .. Len(h) : g[i] = h[i]
  BY RewriteStart
<1>2. /\ f \o w \in Seq(Cell)
      /\ Len(f \o w) = Len(f) + Len(w)
      /\ \A i \in 1 .. Len(f) + Len(w) :
           (f \o w)[i] = IF i <= Len(f) THEN f[i] ELSE w[i - Len(f)]
  OBVIOUS
<1>3. /\ k \in Seq(Cell)
      /\ Len(k) = Len(f) + Len(w)
      /\ \A i \in Len(h) + 1 .. Len(f) + Len(w) : k[i] = (f \o w)[i]
      /\ \A i \in 1 .. Len(h) : k[i] = h[i]
  <2>1. Len(h) <= Len(f \o w)
    BY <1>2
  <2>2. /\ k \in Seq(Cell)
        /\ Len(k) = Len(f \o w)
        /\ \A i \in Len(h) + 1 .. Len(f \o w) : k[i] = (f \o w)[i]
        /\ \A i \in 1 .. Len(h) : k[i] = h[i]
    BY <1>2, <2>1, RewriteStart
  <2> HIDE DEF k
  <2> QED
    BY <1>2, <2>2
<1> HIDE DEF g, k
<1>4. g \o w \in Seq(Cell) /\ Len(g \o w) = Len(k)
  <2>1. g \o w \in Seq(Cell) /\ Len(g \o w) = Len(g) + Len(w)
    BY <1>1, ConcatProperties
  <2> QED
    BY <1>1, <1>3, <2>1
<1>5. \A i \in 1 .. Len(g \o w) : (g \o w)[i] = k[i]
  <2> TAKE i \in 1 .. Len(g \o w)
  <2>1. (g \o w)[i] = IF i <= Len(f) THEN g[i] ELSE w[i - Len(f)]
    BY <1>1
  <2>2. i \in 1 .. Len(f) + Len(w)
    BY <1>1
  <2>3. CASE i <= Len(h)
    BY <2>1, <2>2, <2>3, <1>1, <1>3
  <2>4. CASE Len(h) < i
    <3>1. i \in Len(h) + 1 .. Len(f) + Len(w)
      BY <2>2, <2>4
    <3>2. k[i] = IF i <= Len(f) THEN f[i] ELSE w[i - Len(f)]
      BY <1>2, <1>3, <2>2, <3>1
    <3>3. i <= Len(f) => g[i] = f[i]
      BY <1>1, <3>1
    <3> QED
      BY <2>1, <3>2, <3>3
  <2> QED
    BY <2>3, <2>4
<1>6. g \o w = k
  BY <1>3, <1>4, <1>5, SeqEqual
<1> QED
  BY <1>6 DEF g, k

(* A cut inside the file does not see what follows the file.                *)
LEMMA CutOfLog ==
  ASSUME NEW f \in Seq(Cell), NEW w \in Seq(Cell), NEW n \in 0 .. Len(f)
  PROVE  SetLen(f \o w, n) = SetLen(f, n)
BY SubSeqOfConcat1 DEF SetLen

(* A rewrite of the start and a cut behind it commute.                      *)
LEMMA RewriteStartOfCut ==
  ASSUME NEW f \in Seq(Cell), NEW h \in Seq(Cell), NEW n \in 0 .. Len(f),
         Len(h) <= n
  PROVE  SetLen(WriteAll(f, 0, h), n) = WriteAll(SetLen(f, n), 0, h)
<1> DEFINE g == WriteAll(f, 0, h)
           c == SetLen(f, n)
           k == WriteAll(c, 0, h)
           l == SetLen(g, n)
<1>1. /\ g \in Seq(Cell) /\ Len(g) = Len(f)
      /\ \A i \in Len(h) + 1 .. Len(f) : g[i] = f[i]
      /\ \A i \in 1 .. Len(h) : g[i] = h[i]
  <2>1. Len(h) <= Len(f)
    OBVIOUS
  <2> QED
    BY <2>1, RewriteStart
<1>2. c \in Seq(Cell) /\ Len(c) = n /\ \A i \in 1 .. n : c[i] = f[i]
  BY DEF SetLen
<1> HIDE DEF g, c
<1>3. /\ k \in Seq(Cell) /\ Len(k) = Len(c)
      /\ \A i \in Len(h) + 1 .. Len(c) : k[i] = c[i]
      /\ \A i \in 1 .. Len(h) : k[i] = h[i]
  BY <1>2, RewriteStart
<1>4. n \in 0 .. Len(g)
  BY <1>1
<1>5. l \in Seq(Cell) /\ Len(l) = n /\ \A i \in 1 .. n : l[i] = g[i]
  BY <1>1, <1>4 DEF SetLen
<1> HIDE DEF k, l
<1>6. \A i \in 1 .. Len(l) : l[i] = k[i]
  <2> SUFFICES ASSUME NEW i \in 1 .. n
               PROVE  l[i] = k[i]
    BY <1>5
  <2>1. CASE i <= Len(h)
    <3>1. i \in 1 .. Len(h)
      BY <2>1
    <3> QED
      BY <1>1, <1>3, <1>5, <3>1
  <2>2. CASE Len(h) < i
    <3>1. i \in Len(h) + 1 .. Len(f) /\ i \in Len(h) + 1 .. Len(c)
      BY <1>2, <2>2
    <3>2. l[i] = f[i] /\ k[i] = f[i]
      BY <1>1, <1>2, <1>3, <1>5, <3>1
    <3> QED
      BY <3>2
  <2>3. i <= Len(h) \/ Len(h) < i
    OBVIOUS
  <2> QED
    BY <2>1, <2>2, <2>3
<1>7. l = k
  BY <1>2, <1>3, <1>5, <1>6, SeqEqual
<1> QED
  BY <1>7 DEF l, k, g, c

-----------------------------------------------------------------------------

(* What the holder of the mutex may assume, by where it is.  With nobody    *)
(* holding it, and before a drain, the buffer continues the file.           *)
Continuous == /\ wbStart = Len(file)
              /\ logicalLen = Len(file) + Len(wb)
              /\ Len(wb) < Limit

Reserved(t) == /\ wbStart = Len(file)
               /\ Len(wb) < Limit
               /\ arg[t].off = Len(file) + Len(wb)

HolderInv == \A t \in Threads :
  /\ pc[t] \in LockedPcs <=> wbLock = t
  /\ pc[t] \in {"read_drain", "write_drain", "sync_drain", "close_drain"}
       => Continuous
  /\ pc[t] \in {"append_small", "append_drain"} => Reserved(t)
  /\ pc[t] = "append_large" => /\ wb = <<>>
                               /\ arg[t].off = Len(file)
  /\ pc[t] \in {"append_small", "append_drain", "append_large"}
       => /\ arg[t].data \in Payloads
          /\ logicalLen = ExtentEnd(arg[t])
  /\ pc[t] = "truncate_set_len" => /\ wb = <<>>
                                   /\ logicalLen = wbStart
                                   /\ \A e \in acked : ExtentEnd(e) <= wbStart

FreeInv == wbLock = NoThread => Continuous

CounterInv == HeaderLen <= wbStart /\ wbStart <= Len(file)

HeaderArg == \A t \in Threads :
  pc[t] \in {"write_flush", "write_drain", "write_file"}
    => arg[t].off = 0 /\ arg[t].data \in Headers

(* A call past its flush has everything it needs below write_buffer_start.  *)
NeedInv == \A t \in Threads :
  /\ need[t] \subseteq acked
  /\ pc[t] \in {"read_start", "read_flush", "read_drain", "read_file"}
       => need[t] \subseteq {arg[t]}
  /\ pc[t] \in FilePcs \ {"write_file"}
       => \A e \in need[t] : ExtentEnd(e) <= wbStart

(* The form of AckedInPlace that the steps keep.                            *)
AckedInLog == \A e \in acked : HeaderLen <= e.off /\ Holds(file \o wb, e)

IInv == /\ TypeOK
        /\ HolderInv
        /\ FreeInv
        /\ CounterInv
        /\ HeaderArg
        /\ NeedInv
        /\ AckedInLog

-----------------------------------------------------------------------------
LEMMA TypeFacts ==
  ASSUME TypeOK
  PROVE  /\ Entry \subseteq ExtentType
         /\ acked \subseteq ExtentType
         /\ \A t \in Threads : arg[t] \in ExtentType
         /\ NoExtent \in ExtentType
         /\ NoThread \notin Threads
BY ConfigAssumption DEF TypeOK, Entry, ExtentType, NoExtent, Extent

LEMMA InitIInv == Init => IInv
<1> SUFFICES ASSUME Init PROVE IInv
  OBVIOUS
<1> USE DEF Init
<1>1. file \in Seq(Cell) /\ Len(file) = HeaderLen /\ HeaderLen \in Nat
  BY ConfigAssumption
<1>2. TypeOK
  BY <1>1, TypeFacts DEF TypeOK, Pcs, NoExtent, Extent
<1>3. HolderInv
  BY ConfigAssumption DEF HolderInv, LockedPcs
<1>4. FreeInv
  BY <1>1, ConfigAssumption DEF FreeInv, Continuous
<1>5. CounterInv
  BY <1>1 DEF CounterInv
<1>6. HeaderArg
  BY DEF HeaderArg
<1>7. NeedInv
  BY DEF NeedInv, FilePcs
<1>8. AckedInLog
  BY DEF AckedInLog
<1> QED
  BY <1>2, <1>3, <1>4, <1>5, <1>6, <1>7, <1>8 DEF IInv

(* append takes the mutex and reserves its offset: nothing it can disturb   *)
(* but its own reservation.                                                 *)
LEMMA AppendBeginIInv ==
  ASSUME IInv, NEW t \in Threads, AppendBegin(t)
  PROVE  IInv'
<1> USE DEF IInv
<1>1. PICK d \in Payloads :
        /\ arg' = [arg EXCEPT ![t] = Extent(logicalLen, d)]
        /\ logicalLen' = logicalLen + Len(d)
        /\ Goto(t, IF Len(d) < Limit THEN "append_small"
                   ELSE IF wb # <<>> THEN "append_drain" ELSE "append_large")
  BY DEF AppendBegin
<1>2. /\ pc[t] = "idle"
      /\ wbLock = NoThread /\ wbLock' = t
      /\ UNCHANGED <<file, wb, wbStart, acked, need>>
  BY DEF AppendBegin, Lock
<1>3. d \in Seq(Cell) /\ Len(d) \in Nat /\ Continuous
  BY <1>2, ConfigAssumption DEF FreeInv
<1>4. /\ arg'[t] = Extent(logicalLen, d)
      /\ pc'[t] = IF Len(d) < Limit THEN "append_small"
                  ELSE IF wb # <<>> THEN "append_drain" ELSE "append_large"
      /\ \A u \in Threads \ {t} : arg'[u] = arg[u] /\ pc'[u] = pc[u]
  BY <1>1 DEF TypeOK, Goto
<1>5. TypeOK'
  BY <1>1, <1>2, <1>3 DEF TypeOK, Pcs, LockedPcs, Goto, Extent
<1>6. HolderInv'
  <2> SUFFICES ASSUME NEW u \in Threads
               PROVE  (HolderInv!(u))'
    BY DEF HolderInv
  <2>1. CASE u = t
    BY <1>1, <1>2, <1>3, <1>4, <2>1
       DEF LockedPcs, Continuous, Reserved, Extent, ExtentEnd, TypeOK
  <2>2. CASE u # t
    BY <1>2, <1>4, <2>2, TypeFacts DEF HolderInv, LockedPcs
  <2> QED
    BY <2>1, <2>2
<1>7. FreeInv'
  BY <1>2, TypeFacts DEF FreeInv
<1>8. CounterInv'
  BY <1>2 DEF CounterInv
<1>9. HeaderArg'
  BY <1>4 DEF HeaderArg
<1>10. NeedInv'
  BY <1>2, <1>4 DEF NeedInv, FilePcs
<1>11. AckedInLog'
  BY <1>2 DEF AckedInLog, Holds
<1> QED
  BY <1>5, <1>6, <1>7, <1>8, <1>9, <1>10, <1>11
(* The buffer goes to the end of the file: the log does not change.         *)
LEMMA DrainedLog ==
  ASSUME TypeOK, wbStart = Len(file)
  PROVE  Drained = file \o wb /\ Drained \in Seq(Cell)
         /\ Len(Drained) = Len(file) + Len(wb) /\ Drained \o <<>> = Drained
<1>1. file \in Seq(Cell) /\ wb \in Seq(Cell)
  BY DEF TypeOK
<1>2. Drained = file \o wb
  BY <1>1, WriteAtEnd DEF Drained
<1>3. /\ file \o wb \in Seq(Cell)
      /\ Len(file \o wb) = Len(file) + Len(wb)
      /\ (file \o wb) \o <<>> = file \o wb
  BY <1>1, ConcatProperties, ConcatEmptySeq
<1> QED
  BY <1>2, <1>3

LEMMA AppendDrainIInv ==
  ASSUME IInv, NEW t \in Threads, AppendDrain(t)
  PROVE  IInv'
<1> USE DEF IInv
<1>1. /\ pc[t] = "append_drain"
      /\ file' = Drained
      /\ wb' = <<>>
      /\ pc' = [pc EXCEPT ![t] = "append_large"]
      /\ UNCHANGED <<wbStart, logicalLen, wbLock, arg, acked, need>>
  BY DEF AppendDrain, Goto
<1>2. Reserved(t) /\ wbLock = t /\ t # NoThread
  BY <1>1, TypeFacts DEF HolderInv, LockedPcs
<1>3. /\ file' = file \o wb
      /\ file' \in Seq(Cell)
      /\ Len(file') = Len(file) + Len(wb)
      /\ file' \o wb' = file'
      /\ Len(file) \in Nat /\ Len(wb) \in Nat
  BY <1>1, <1>2, DrainedLog DEF Reserved, TypeOK
<1>4. /\ pc'[t] = "append_large"
      /\ \A u \in Threads \ {t} : pc'[u] = pc[u]
  BY <1>1 DEF TypeOK
<1>5. TypeOK'
  BY <1>1, <1>3 DEF TypeOK, Pcs, LockedPcs
<1>6. HolderInv'
  <2> SUFFICES ASSUME NEW u \in Threads
               PROVE  (HolderInv!(u))'
    BY DEF HolderInv
  <2>1. CASE u = t
    BY <1>1, <1>2, <1>3, <1>4, <2>1
       DEF HolderInv, LockedPcs, Reserved, Extent, ExtentEnd, TypeOK
  <2>2. CASE u # t
    BY <1>1, <1>2, <1>4, <2>2 DEF HolderInv, LockedPcs
  <2> QED
    BY <2>1, <2>2
<1>7. FreeInv'
  BY <1>1, <1>2 DEF FreeInv
<1>8. CounterInv'
  BY <1>1, <1>3 DEF CounterInv, TypeOK
<1>9. HeaderArg'
  BY <1>1, <1>4 DEF HeaderArg
<1>10. NeedInv'
  BY <1>1, <1>4 DEF NeedInv, FilePcs
<1>11. AckedInLog'
  BY ZenonT(60), <1>1, <1>3 DEF AckedInLog, Holds
<1> QED
  BY <1>5, <1>6, <1>7, <1>8, <1>9, <1>10, <1>11

LEMMA AppendLargeIInv ==
  ASSUME IInv, NEW t \in Threads, AppendLarge(t)
  PROVE  IInv'
<1> USE DEF IInv
<1> DEFINE d == arg[t].data
<1>1. /\ pc[t] = "append_large"
      /\ file' = WriteAll(file, arg[t].off, arg[t].data)
      /\ wbStart' = ExtentEnd(arg[t])
      /\ acked' = acked \union {arg[t]}
      /\ wbLock = t /\ wbLock' = NoThread
      /\ pc' = [pc EXCEPT ![t] = "idle"]
      /\ arg' = [arg EXCEPT ![t] = NoExtent]
      /\ need' = [need EXCEPT ![t] = {}]
      /\ UNCHANGED <<wb, logicalLen>>
  BY DEF AppendLarge, Unlock, Return, Goto
<1>2. /\ wb = <<>>
      /\ arg[t].off = Len(file)
      /\ d \in Payloads
      /\ logicalLen = ExtentEnd(arg[t])
  BY <1>1 DEF HolderInv
<1>3. /\ d \in Seq(Cell) /\ Len(d) \in Nat
      /\ file \in Seq(Cell) /\ Len(file) \in Nat
      /\ arg[t] = Extent(Len(file), d)
      /\ arg[t] \in Entry
  BY <1>2, ConfigAssumption DEF TypeOK, Extent, Entry
<1>4. /\ file' = file \o d
      /\ file' \in Seq(Cell)
      /\ Len(file') = Len(file) + Len(d)
  <2>1. file' = WriteAll(file, Len(file), d)
    BY <1>1, <1>2
  <2>2. WriteAll(file, Len(file), d) = file \o d
    BY <1>3, WriteAtEnd
  <2>3. file \o d \in Seq(Cell) /\ Len(file \o d) = Len(file) + Len(d)
    BY <1>3, ConcatProperties
  <2> QED
    BY <2>1, <2>2, <2>3
<1>5. file \o wb = file /\ file' \o wb' = file'
  BY <1>1, <1>2, <1>3, <1>4, ConcatEmptySeq
<1>6. wbStart' = Len(file') /\ logicalLen' = Len(file') /\ wbStart <= wbStart'
  BY <1>1, <1>2, <1>3, <1>4 DEF ExtentEnd, CounterInv, TypeOK
<1>7. /\ pc'[t] = "idle"
      /\ \A u \in Threads \ {t} : /\ pc'[u] = pc[u] /\ pc[u] \notin LockedPcs
                                  /\ arg'[u] = arg[u] /\ need'[u] = need[u]
      /\ need'[t] = {}
  BY <1>1 DEF TypeOK, HolderInv
<1>8. TypeOK'
  BY <1>1, <1>3, <1>4, <1>6, TypeFacts DEF TypeOK, Pcs, NoExtent, Extent
<1>9. HolderInv'
  BY <1>1, <1>7, TypeFacts DEF HolderInv, LockedPcs
<1>10. FreeInv'
  BY <1>1, <1>2, <1>4, <1>6, ConfigAssumption DEF FreeInv, Continuous
<1>11. CounterInv'
  BY <1>3, <1>4, <1>6, ConfigAssumption DEF CounterInv, TypeOK
<1>12. HeaderArg'
  BY <1>7 DEF HeaderArg
<1>13. NeedInv'
  <2>1. \A e \in acked : ExtentEnd(e) \in Nat
    BY TypeFacts DEF ExtentType, ExtentEnd
  <2> QED
    BY <1>1, <1>3, <1>6, <1>7, <2>1, ConfigAssumption
       DEF NeedInv, FilePcs, CounterInv, TypeOK
<1>14. AckedInLog'
  <2> SUFFICES ASSUME NEW e \in acked'
               PROVE  HeaderLen <= e.off /\ Holds(file' \o wb', e)
    BY DEF AckedInLog, Holds
  <2>1. CASE e \in acked
    BY <1>3, <1>4, <1>5, <2>1, HoldsAfterAppend, TypeFacts DEF AckedInLog
  <2>2. CASE e = arg[t]
    BY <1>2, <1>3, <1>4, <1>5, <2>2, HoldsAfterAppend, ConfigAssumption
       DEF CounterInv, TypeOK
  <2> QED
    BY <1>1, <2>1, <2>2
<1> QED
  BY <1>8, <1>9, <1>10, <1>11, <1>12, <1>13, <1>14

LEMMA AppendSmallIInv ==
  ASSUME IInv, NEW t \in Threads, AppendSmall(t)
  PROVE  IInv'
<1> USE DEF IInv
<1> DEFINE d == arg[t].data
           full == wb \o d
<1>1. /\ pc[t] = "append_small"
      /\ \/ /\ Len(full) < Limit
            /\ wb' = full /\ file' = file /\ wbStart' = wbStart
         \/ /\ ~(Len(full) < Limit)
            /\ file' = WriteAll(file, wbStart, full)
            /\ wbStart' = wbStart + Len(full)
            /\ wb' = <<>>
      /\ acked' = acked \union {arg[t]}
      /\ wbLock = t /\ wbLock' = NoThread
      /\ pc' = [pc EXCEPT ![t] = "idle"]
      /\ arg' = [arg EXCEPT ![t] = NoExtent]
      /\ need' = [need EXCEPT ![t] = {}]
      /\ logicalLen' = logicalLen
  BY DEF AppendSmall, Unlock, Return, Goto
<1>2. /\ wbStart = Len(file)
      /\ arg[t].off = Len(file) + Len(wb)
      /\ d \in Payloads
      /\ logicalLen = ExtentEnd(arg[t])
  BY <1>1 DEF HolderInv, Reserved
<1>3. /\ d \in Seq(Cell) /\ Len(d) \in Nat
      /\ file \in Seq(Cell) /\ Len(file) \in Nat
      /\ wb \in Seq(Cell) /\ Len(wb) \in Nat
      /\ file \o wb \in Seq(Cell) /\ Len(file \o wb) = Len(file) + Len(wb)
      /\ full \in Seq(Cell) /\ Len(full) = Len(wb) + Len(d)
      /\ arg[t] = Extent(Len(file \o wb), d)
      /\ arg[t] \in Entry
  BY <1>2, ConfigAssumption, ConcatProperties DEF TypeOK, Extent, Entry
<1>4. /\ file' \o wb' = (file \o wb) \o d
      /\ file' \in Seq(Cell) /\ wb' \in Seq(Cell)
      /\ wbStart' = Len(file')
      /\ logicalLen' = Len(file') + Len(wb')
      /\ Len(wb') < Limit
      /\ wbStart <= wbStart'
      /\ Len(file') \in Nat
  <2>1. /\ file \o full = (file \o wb) \o d
        /\ WriteAll(file, Len(file), full) = (file \o wb) \o d
    <3>1. file \in Seq(Cell) /\ wb \in Seq(Cell) /\ d \in Seq(Cell)
      BY <1>3
    <3> HIDE DEF d
    <3> QED
      BY ZenonT(60), <3>1, WriteBufferAndData
  <2>4. /\ logicalLen = Len(file) + Len(wb) + Len(d)
        /\ Len(full) \in Nat /\ Len(full) = Len(wb) + Len(d)
    BY <1>2, <1>3 DEF ExtentEnd
  <2> HIDE DEF full, d
  <2>2. CASE Len(full) < Limit
    <3>1. wb' = full /\ file' = file /\ wbStart' = wbStart
      BY <1>1, <2>2
    <3>2. file' \o wb' = (file \o wb) \o d
      BY <2>1, <3>1
    <3> QED
      BY <1>1, <1>2, <1>3, <2>2, <2>4, <3>1, <3>2
  <2>3. CASE ~(Len(full) < Limit)
    <3>1. file' = file \o full
      BY <1>1, <1>2, <2>1, <2>3
    <3>2. file' \in Seq(Cell) /\ Len(file') = Len(file) + Len(full)
      BY <1>3, <3>1, ConcatProperties
    <3>3. wb' = <<>> /\ wbStart' = wbStart + Len(full) /\ file' \o wb' = file'
      BY <1>1, <2>3, <3>2, ConcatEmptySeq
    <3>4. Len(wb') = 0 /\ wb' \in Seq(Cell) /\ 0 < Limit
      BY <3>3, ConfigAssumption
    <3>5. /\ wbStart' = Len(file') /\ wbStart <= wbStart'
          /\ logicalLen' = Len(file') + Len(wb') /\ Len(file') \in Nat
      BY <1>1, <1>2, <1>3, <2>4, <3>2, <3>3, <3>4
    <3> QED
      BY <2>1, <3>1, <3>2, <3>3, <3>4, <3>5
  <2> QED
    BY <2>2, <2>3
<1>5. /\ pc'[t] = "idle"
      /\ \A u \in Threads \ {t} : /\ pc'[u] = pc[u] /\ pc[u] \notin LockedPcs
                                  /\ arg'[u] = arg[u] /\ need'[u] = need[u]
      /\ need'[t] = {}
  BY <1>1 DEF TypeOK, HolderInv
<1>6. TypeOK'
  <2>1. wbLock' \in Threads \union {NoThread} /\ pc' \in [Threads -> Pcs]
    BY <1>1 DEF TypeOK, Pcs
  <2>2. arg' \in [Threads -> [off : Nat, data : Seq(Cell)]]
    BY <1>1 DEF TypeOK, NoExtent, Extent
  <2>3. acked' \subseteq Entry /\ need' \in [Threads -> SUBSET Entry]
    BY <1>1, <1>3 DEF TypeOK
  <2> QED BY <1>1, <1>3, <1>4, <2>1, <2>2, <2>3 DEF TypeOK
<1>7. HolderInv'
  BY <1>1, <1>5, TypeFacts DEF HolderInv, LockedPcs
<1>8. FreeInv'
  BY <1>4 DEF FreeInv, Continuous
<1>9. CounterInv'
  BY <1>3, <1>4, ConfigAssumption DEF CounterInv, TypeOK
<1>10. HeaderArg'
  BY <1>5 DEF HeaderArg
<1>11. NeedInv'
  <2>1. \A e \in acked : ExtentEnd(e) \in Nat
    BY TypeFacts DEF ExtentType, ExtentEnd
  <2> QED
    BY <1>1, <1>4, <1>5, <2>1 DEF NeedInv, FilePcs, TypeOK
<1>12. AckedInLog'
  <2> SUFFICES ASSUME NEW e \in acked'
               PROVE  HeaderLen <= e.off /\ Holds(file' \o wb', e)
    BY DEF AckedInLog, Holds
  <2>1. CASE e \in acked
    BY <1>3, <1>4, <2>1, HoldsAfterAppend, TypeFacts DEF AckedInLog
  <2>2. CASE e = arg[t]
    <3>1. HeaderLen <= e.off
      BY <1>2, <1>3, <2>2, ConfigAssumption DEF CounterInv, TypeOK
    <3>2. Holds((file \o wb) \o d, Extent(Len(file \o wb), d))
      BY <1>3, HoldsAfterAppend
    <3> QED
      BY <1>3, <1>4, <2>2, <3>1, <3>2
  <2> QED
    BY <1>1, <2>1, <2>2
<1> QED
  BY <1>6, <1>7, <1>8, <1>9, <1>10, <1>11, <1>12
(* The steps that change nothing but the thread's own place and argument.   *)
LEMMA LocalStepIInv ==
  ASSUME IInv, NEW t \in Threads,
         UNCHANGED <<file, wb, wbStart, logicalLen, wbLock, acked>>,
         \A u \in Threads \ {t} :
           pc'[u] = pc[u] /\ arg'[u] = arg[u] /\ need'[u] = need[u],
         pc[t] \notin LockedPcs, pc'[t] \notin LockedPcs,
         TypeOK',
         pc'[t] \in {"write_flush", "write_drain", "write_file"}
           => arg'[t].off = 0 /\ arg'[t].data \in Headers,
         need'[t] \subseteq acked,
         pc'[t] \in {"read_start", "read_flush", "read_drain", "read_file"}
           => need'[t] \subseteq {arg'[t]},
         pc'[t] \in FilePcs \ {"write_file"}
           => \A e \in need'[t] : ExtentEnd(e) <= wbStart
  PROVE  IInv'
<1> USE DEF IInv
<1>1. HolderInv'
  <2> SUFFICES ASSUME NEW u \in Threads
               PROVE  (HolderInv!(u))'
    BY DEF HolderInv
  <2>1. CASE u = t
    BY <2>1 DEF HolderInv, LockedPcs
  <2>2. CASE u # t
    BY <2>2 DEF HolderInv, LockedPcs, Continuous, Reserved
  <2> QED
    BY <2>1, <2>2
<1>2. FreeInv'
  BY DEF FreeInv, Continuous
<1>3. CounterInv'
  BY DEF CounterInv
<1>4. HeaderArg'
  BY DEF HeaderArg
<1>5. NeedInv'
  BY DEF NeedInv
<1>6. AckedInLog'
  BY DEF AckedInLog, Holds
<1> QED
  BY <1>1, <1>2, <1>3, <1>4, <1>5, <1>6

LEMMA FlushEmptyIInv ==
  ASSUME IInv, NEW t \in Threads, FlushEmpty(t)
  PROVE  IInv'
<1> USE DEF IInv
<1>1. /\ pc[t] \in FlushPcs
      /\ wbLock = NoThread
      /\ wb = <<>>
      /\ pc' = [pc EXCEPT ![t] = AfterFlush(pc[t])]
      /\ UNCHANGED <<file, wb, wbStart, logicalLen, wbLock, arg, acked, need>>
  BY DEF FlushEmpty, Goto
<1>2. AfterFlush(pc[t]) =
        IF pc[t] = "read_flush" THEN "read_file"
        ELSE IF pc[t] = "write_flush" THEN "write_file" ELSE "sync_data"
  BY <1>1 DEF AfterFlush, FlushPcs
<1>3. /\ pc'[t] = AfterFlush(pc[t])
      /\ \A u \in Threads \ {t} : pc'[u] = pc[u]
  BY <1>1 DEF TypeOK
<1>4. TypeOK'
  BY <1>1, <1>2 DEF TypeOK, Pcs, FilePcs
(* With an empty buffer every acknowledged extent ends inside the file.     *)
<1>5. \A e \in acked : ExtentEnd(e) <= wbStart
  <2>1. Continuous /\ file \o wb = file
    BY <1>1, ConcatEmptySeq DEF FreeInv, TypeOK
  <2> QED
    BY <2>1 DEF Continuous, AckedInLog, Holds
<1>6. pc[t] \notin LockedPcs /\ pc'[t] \notin LockedPcs
  BY <1>1, <1>2, <1>3 DEF FlushPcs, LockedPcs
<1> QED
  BY <1>1, <1>2, <1>3, <1>4, <1>5, <1>6, LocalStepIInv
     DEF FlushPcs, FilePcs, HeaderArg, NeedInv

LEMMA FlushLockIInv ==
  ASSUME IInv, NEW t \in Threads, FlushLock(t)
  PROVE  IInv'
<1> USE DEF IInv
<1>1. /\ pc[t] \in FlushPcs
      /\ wbLock = NoThread /\ wbLock' = t
      /\ pc' = [pc EXCEPT ![t] = DrainOf(pc[t])]
      /\ UNCHANGED <<file, wb, wbStart, logicalLen, arg, acked, need>>
  BY DEF FlushLock, Goto, Lock
<1>2. /\ pc[t] = "read_flush" => DrainOf(pc[t]) = "read_drain"
      /\ pc[t] = "write_flush" => DrainOf(pc[t]) = "write_drain"
      /\ pc[t] = "sync_flush" => DrainOf(pc[t]) = "sync_drain"
      /\ pc[t] = "close_flush" => DrainOf(pc[t]) = "close_drain"
  BY DEF DrainOf
<1>3. /\ pc'[t] = DrainOf(pc[t])
      /\ \A u \in Threads \ {t} : pc'[u] = pc[u]
  BY <1>1 DEF TypeOK
<1>4. TypeOK'
  BY <1>1, <1>2 DEF TypeOK, Pcs, LockedPcs, FlushPcs
<1>5. Continuous
  BY <1>1 DEF FreeInv
<1>6. HolderInv'
  <2> SUFFICES ASSUME NEW u \in Threads
               PROVE  (HolderInv!(u))'
    BY DEF HolderInv
  <2>1. CASE u = t
    BY <1>1, <1>2, <1>3, <1>5, <2>1 DEF LockedPcs, FlushPcs, Continuous
  <2>2. CASE u # t
    BY <1>1, <1>3, <2>2, TypeFacts DEF HolderInv, LockedPcs
  <2> QED
    BY <2>1, <2>2
<1>7. FreeInv'
  BY <1>1, TypeFacts DEF FreeInv
<1>8. CounterInv'
  BY <1>1 DEF CounterInv
<1>9. HeaderArg'
  BY <1>1, <1>2, <1>3 DEF HeaderArg, FlushPcs
<1>10. NeedInv'
  BY <1>1, <1>2, <1>3 DEF NeedInv, FilePcs, FlushPcs
<1>11. AckedInLog'
  BY <1>1 DEF AckedInLog, Holds
<1> QED
  BY <1>4, <1>6, <1>7, <1>8, <1>9, <1>10, <1>11

LEMMA FlushDrainIInv ==
  ASSUME IInv, NEW t \in Threads, FlushDrain(t)
  PROVE  IInv'
<1> USE DEF IInv
<1>1. /\ pc[t] \in {"read_drain", "write_drain", "sync_drain", "close_drain"}
      /\ file' = Drained
      /\ wbStart' = wbStart + Len(wb)
      /\ wb' = <<>>
      /\ wbLock = t /\ wbLock' = NoThread
      /\ pc' = [pc EXCEPT ![t] = AfterFlush(pc[t])]
      /\ UNCHANGED <<logicalLen, arg, acked, need>>
  BY DEF FlushDrain, Goto, Unlock
<1>2. AfterFlush(pc[t]) =
        IF pc[t] = "read_drain" THEN "read_file"
        ELSE IF pc[t] = "write_drain" THEN "write_file" ELSE "sync_data"
  BY <1>1 DEF AfterFlush
<1>3. Continuous
  BY <1>1 DEF HolderInv
<1>4. /\ file' = file \o wb
      /\ file' \in Seq(Cell)
      /\ Len(file') = Len(file) + Len(wb)
      /\ file' \o wb' = file'
      /\ Len(file) \in Nat /\ Len(wb) \in Nat
      /\ Len(wb') = 0
  BY <1>1, <1>3, DrainedLog DEF Continuous, TypeOK
<1>5. /\ wbStart' = Len(file') /\ wbStart <= wbStart'
      /\ logicalLen' = wbStart'
  BY <1>1, <1>3, <1>4 DEF Continuous
<1>6. /\ pc'[t] = AfterFlush(pc[t]) /\ pc'[t] \notin LockedPcs
      /\ \A u \in Threads \ {t} : pc'[u] = pc[u] /\ pc[u] \notin LockedPcs
  BY <1>1, <1>2 DEF TypeOK, HolderInv, LockedPcs
<1>7. TypeOK'
  BY <1>1, <1>2, <1>4 DEF TypeOK, Pcs, FilePcs
<1>8. HolderInv'
  BY <1>1, <1>6, TypeFacts DEF HolderInv, LockedPcs
<1>9. FreeInv'
  BY <1>4, <1>5, ConfigAssumption DEF FreeInv, Continuous
<1>10. CounterInv'
  BY <1>4, <1>5, ConfigAssumption DEF CounterInv, TypeOK
<1>11. HeaderArg'
  BY <1>1, <1>2, <1>6 DEF HeaderArg
<1>12. \A e \in acked : ExtentEnd(e) <= wbStart'
  BY <1>4, <1>5 DEF AckedInLog, Holds
<1>13. NeedInv'
  BY <1>1, <1>2, <1>6, <1>12 DEF NeedInv, FilePcs
<1>14. AckedInLog'
  <2> SUFFICES ASSUME NEW e \in acked
               PROVE  HeaderLen <= e.off /\ Holds(file' \o wb', e)
    BY <1>1 DEF AckedInLog, Holds
  <2>1. file' \o wb' = file \o wb
    BY <1>4
  <2> QED
    BY <2>1 DEF AckedInLog
<1> QED
  BY <1>7, <1>8, <1>9, <1>10, <1>11, <1>13, <1>14

LEMMA ReadBeginIInv ==
  ASSUME IInv, NEW t \in Threads, ReadBegin(t)
  PROVE  IInv'
<1> USE DEF IInv
<1>1. PICK e \in acked :
        /\ pc[t] = "idle"
        /\ arg' = [arg EXCEPT ![t] = e]
        /\ need' = [need EXCEPT ![t] = {e}]
        /\ pc' = [pc EXCEPT ![t] = "read_start"]
        /\ UNCHANGED <<file, wb, wbStart, logicalLen, wbLock, acked>>
  BY DEF ReadBegin, Goto
<1>2. /\ pc'[t] = "read_start" /\ arg'[t] = e /\ need'[t] = {e}
      /\ \A u \in Threads \ {t} :
           pc'[u] = pc[u] /\ arg'[u] = arg[u] /\ need'[u] = need[u]
  BY <1>1 DEF TypeOK
<1>3. TypeOK'
  BY <1>1, TypeFacts DEF TypeOK, Pcs, ExtentType
<1> QED
  BY <1>1, <1>2, <1>3, LocalStepIInv DEF LockedPcs, FilePcs

LEMMA ReadCheckIInv ==
  ASSUME IInv, NEW t \in Threads, ReadCheck(t)
  PROVE  IInv'
<1> USE DEF IInv
<1>1. /\ pc[t] = "read_start"
      /\ pc' = [pc EXCEPT ![t] = IF ExtentEnd(arg[t]) > wbStart
                                 THEN "read_flush" ELSE "read_file"]
      /\ UNCHANGED <<file, wb, wbStart, logicalLen, wbLock, arg, acked, need>>
  BY DEF ReadCheck, Goto
<1>2. /\ pc'[t] = IF ExtentEnd(arg[t]) > wbStart THEN "read_flush" ELSE "read_file"
      /\ \A u \in Threads \ {t} : pc'[u] = pc[u]
  BY <1>1 DEF TypeOK
<1>3. TypeOK'
  BY <1>1 DEF TypeOK, Pcs, FlushPcs, FilePcs
<1>4. need[t] \subseteq {arg[t]} /\ need[t] \subseteq acked
  BY <1>1 DEF NeedInv
<1>5. ExtentEnd(arg[t]) \in Nat /\ wbStart \in Nat
  BY TypeFacts DEF TypeOK, ExtentType, ExtentEnd
<1> QED
  BY <1>1, <1>2, <1>3, <1>4, <1>5, LocalStepIInv DEF LockedPcs, FilePcs

LEMMA ReturnIInv ==
  ASSUME IInv, NEW t \in Threads, ReadFile(t) \/ SyncData(t)
  PROVE  IInv'
<1> USE DEF IInv
<1>1. /\ pc[t] \in {"read_file", "sync_data"}
      /\ pc' = [pc EXCEPT ![t] = "idle"]
      /\ arg' = [arg EXCEPT ![t] = NoExtent]
      /\ need' = [need EXCEPT ![t] = {}]
      /\ UNCHANGED <<file, wb, wbStart, logicalLen, wbLock, acked>>
  BY DEF ReadFile, SyncData, Return, Goto
<1>2. /\ pc'[t] = "idle" /\ need'[t] = {}
      /\ \A u \in Threads \ {t} :
           pc'[u] = pc[u] /\ arg'[u] = arg[u] /\ need'[u] = need[u]
  BY <1>1 DEF TypeOK
<1>3. TypeOK'
  BY <1>1 DEF TypeOK, Pcs, NoExtent, Extent
<1> QED
  BY <1>1, <1>2, <1>3, LocalStepIInv DEF LockedPcs, FilePcs

LEMMA WriteBeginIInv ==
  ASSUME IInv, NEW t \in Threads, WriteBegin(t)
  PROVE  IInv'
<1> USE DEF IInv
<1>1. PICK h \in Headers :
        /\ pc[t] = "idle"
        /\ arg' = [arg EXCEPT ![t] = Extent(0, h)]
        /\ pc' = [pc EXCEPT ![t] = "write_flush"]
        /\ UNCHANGED <<file, wb, wbStart, logicalLen, wbLock, acked, need>>
  BY DEF WriteBegin, Goto
<1>2. /\ pc'[t] = "write_flush" /\ arg'[t] = Extent(0, h) /\ need'[t] = need[t]
      /\ \A u \in Threads \ {t} :
           pc'[u] = pc[u] /\ arg'[u] = arg[u] /\ need'[u] = need[u]
  BY <1>1 DEF TypeOK
<1>3. TypeOK'
  BY <1>1, ConfigAssumption DEF TypeOK, Pcs, FlushPcs, Extent
<1> QED
  BY <1>1, <1>2, <1>3, LocalStepIInv DEF LockedPcs, FilePcs, Extent, NeedInv

LEMMA SyncBeginIInv ==
  ASSUME IInv, NEW t \in Threads, SyncBegin(t)
  PROVE  IInv'
<1> USE DEF IInv
<1>1. PICK label \in {"sync_flush", "close_flush"} :
        /\ pc[t] = "idle"
        /\ need' = [need EXCEPT ![t] = acked]
        /\ pc' = [pc EXCEPT ![t] = label]
        /\ UNCHANGED <<file, wb, wbStart, logicalLen, wbLock, arg, acked>>
  BY DEF SyncBegin, Goto
<1>2. /\ pc'[t] = label /\ need'[t] = acked
      /\ \A u \in Threads \ {t} :
           pc'[u] = pc[u] /\ arg'[u] = arg[u] /\ need'[u] = need[u]
  BY <1>1 DEF TypeOK
<1>3. TypeOK'
  BY <1>1 DEF TypeOK, Pcs, FlushPcs
<1> QED
  BY <1>1, <1>2, <1>3, LocalStepIInv DEF LockedPcs, FilePcs

(* The header is rewritten below every extent, under no mutex: whoever      *)
(* holds the mutex meanwhile keeps what it assumes.                         *)
LEMMA WriteFileIInv ==
  ASSUME IInv, NEW t \in Threads, WriteFile(t)
  PROVE  IInv'
<1> USE DEF IInv
<1> DEFINE hd == arg[t].data
<1>1. /\ pc[t] = "write_file"
      /\ file' = WriteAll(file, arg[t].off, arg[t].data)
      /\ logicalLen' = Larger(logicalLen, ExtentEnd(arg[t]))
      /\ wbStart' = Larger(wbStart, ExtentEnd(arg[t]))
      /\ pc' = [pc EXCEPT ![t] = "idle"]
      /\ arg' = [arg EXCEPT ![t] = NoExtent]
      /\ need' = [need EXCEPT ![t] = {}]
      /\ UNCHANGED <<wb, wbLock, acked>>
  BY DEF WriteFile, Return, Goto
<1>2. /\ arg[t].off = 0 /\ hd \in Headers
      /\ hd \in Seq(Cell) /\ Len(hd) = HeaderLen /\ HeaderLen \in Nat
      /\ file \in Seq(Cell) /\ wb \in Seq(Cell)
      /\ Len(hd) <= Len(file) /\ HeaderLen <= wbStart
      /\ HeaderLen <= logicalLen
  <2>1. arg[t].off = 0 /\ hd \in Headers
    BY <1>1 DEF HeaderArg
  <2>2. hd \in Seq(Cell) /\ Len(hd) = HeaderLen /\ HeaderLen \in Nat
    BY <2>1, ConfigAssumption
  <2>3. file \in Seq(Cell) /\ wb \in Seq(Cell) /\ HeaderLen <= wbStart
        /\ HeaderLen <= Len(file) /\ wbStart \in Nat /\ Len(file) \in Nat
        /\ Len(wb) \in Nat
    BY <2>2 DEF CounterInv, TypeOK
  <2>4. HeaderLen <= logicalLen
    <3>1. CASE wbLock = NoThread
      BY <2>2, <2>3, <3>1 DEF FreeInv, Continuous
    <3>2. CASE wbLock \in Threads
      <4>1. pc[wbLock] \in LockedPcs
        BY <3>2 DEF HolderInv
      <4>2. CASE pc[wbLock] \in {"read_drain", "write_drain", "sync_drain",
                                 "close_drain"}
        BY <2>2, <2>3, <3>2, <4>2 DEF HolderInv, Continuous
      <4>3. CASE pc[wbLock] = "truncate_set_len"
        BY <2>3, <3>2, <4>3 DEF HolderInv
      <4>4. CASE pc[wbLock] \in {"append_small", "append_drain", "append_large"}
        <5>1. /\ logicalLen = arg[wbLock].off + Len(arg[wbLock].data)
              /\ Len(arg[wbLock].data) \in Nat
              /\ Len(file) <= arg[wbLock].off
          BY <2>3, <3>2, <4>4 DEF HolderInv, ExtentEnd, Reserved, TypeOK
        <5> QED
          BY <2>2, <2>3, <5>1, <3>2 DEF TypeOK
      <4> QED
        BY <4>1, <4>2, <4>3, <4>4 DEF LockedPcs
    <3> QED
      BY <3>1, <3>2 DEF TypeOK
  <2> QED
    BY <2>1, <2>2, <2>3, <2>4
<1>3. /\ file' = WriteAll(file, 0, hd)
      /\ file' \in Seq(Cell) /\ Len(file') = Len(file)
  <2>1. file' = WriteAll(file, 0, hd)
    BY <1>1, <1>2
  <2>2. WriteAll(file, 0, hd) \in Seq(Cell) /\ Len(WriteAll(file, 0, hd)) = Len(file)
    BY <1>2, RewriteStart
  <2> QED
    BY <2>1, <2>2
<1>4. wbStart' = wbStart /\ logicalLen' = logicalLen
  BY <1>1, <1>2 DEF ExtentEnd, Larger, TypeOK
<1>5. /\ pc'[t] = "idle" /\ need'[t] = {}
      /\ \A u \in Threads \ {t} :
           pc'[u] = pc[u] /\ arg'[u] = arg[u] /\ need'[u] = need[u]
  BY <1>1 DEF TypeOK
<1>6. TypeOK'
  BY <1>1, <1>3, <1>4 DEF TypeOK, Pcs, NoExtent, Extent
<1>7. HolderInv'
  <2> SUFFICES ASSUME NEW u \in Threads
               PROVE  (HolderInv!(u))'
    BY DEF HolderInv
  <2>1. CASE u = t
    BY <1>1, <1>5, <2>1 DEF HolderInv, LockedPcs
  <2>2. CASE u # t
    BY <1>1, <1>3, <1>4, <1>5, <2>2 DEF HolderInv, LockedPcs, Continuous, Reserved
  <2> QED
    BY <2>1, <2>2
<1>8. FreeInv'
  BY <1>1, <1>3, <1>4 DEF FreeInv, Continuous
<1>9. CounterInv'
  BY <1>3, <1>4 DEF CounterInv
<1>10. HeaderArg'
  BY <1>5 DEF HeaderArg
<1>11. NeedInv'
  BY <1>1, <1>4, <1>5 DEF NeedInv
<1>12. AckedInLog'
  <2> SUFFICES ASSUME NEW e \in acked
               PROVE  HeaderLen <= e.off /\ Holds(file' \o wb', e)
    BY <1>1 DEF AckedInLog, Holds
  <2>1. HeaderLen <= e.off /\ Holds(file \o wb, e) /\ e \in ExtentType
    BY TypeFacts DEF AckedInLog
  <2>2. Holds(WriteAll(file, 0, hd) \o wb, e)
    BY <1>2, <2>1, HoldsAfterRewrite
  <2> QED
    BY <1>1, <1>3, <2>1, <2>2
<1> QED
  BY <1>6, <1>7, <1>8, <1>9, <1>10, <1>11, <1>12

LEMMA TruncateBeginIInv ==
  ASSUME IInv, NEW t \in Threads, TruncateBegin(t)
  PROVE  IInv'
<1> USE DEF IInv
<1>1. PICK n \in HeaderLen .. wbStart :
        /\ pc[t] = "idle"
        /\ wbLock = NoThread /\ wbLock' = t
        /\ wb' = <<>>
        /\ wbStart' = n
        /\ logicalLen' = n
        /\ acked' = {e \in acked : ExtentEnd(e) <= n}
        /\ need' = [u \in Threads |-> {e \in need[u] : ExtentEnd(e) <= n}]
        /\ pc' = [pc EXCEPT ![t] = "truncate_set_len"]
        /\ UNCHANGED <<file, arg>>
  BY DEF TruncateBegin, Lock, Goto
<1>2. /\ n \in Nat /\ HeaderLen <= n /\ n <= wbStart /\ wbStart = Len(file)
      /\ file \in Seq(Cell) /\ wb \in Seq(Cell)
  BY <1>1, ConfigAssumption DEF TypeOK, FreeInv, Continuous
<1>3. /\ pc'[t] = "truncate_set_len"
      /\ \A u \in Threads \ {t} : pc'[u] = pc[u] /\ pc[u] \notin LockedPcs
  BY <1>1, TypeFacts DEF TypeOK, HolderInv
<1>4. TypeOK'
  BY <1>1, <1>2 DEF TypeOK, Pcs, LockedPcs
<1>5. HolderInv'
  <2> SUFFICES ASSUME NEW u \in Threads
               PROVE  (HolderInv!(u))'
    BY DEF HolderInv
  <2>1. CASE u = t
    BY <1>1, <1>3, <2>1 DEF LockedPcs
  <2>2. CASE u # t
    BY <1>1, <1>3, <2>2 DEF LockedPcs
  <2> QED
    BY <2>1, <2>2
<1>6. FreeInv'
  BY <1>1, TypeFacts DEF FreeInv
<1>7. CounterInv'
  BY <1>1, <1>2 DEF CounterInv
<1>8. HeaderArg'
  BY <1>1, <1>3 DEF HeaderArg
<1>9. NeedInv'
  BY <1>1, <1>3 DEF NeedInv, FilePcs
<1>10. AckedInLog'
  <2> SUFFICES ASSUME NEW e \in acked'
               PROVE  HeaderLen <= e.off /\ Holds(file' \o wb', e)
    BY DEF AckedInLog, Holds
  <2>1. /\ e \in acked /\ ExtentEnd(e) <= Len(file) /\ e \in ExtentType
        /\ HeaderLen <= e.off /\ Holds(file \o wb, e)
    BY <1>1, <1>2, TypeFacts DEF AckedInLog, ExtentType, ExtentEnd
  <2>2. Holds(file, e)
    BY <1>2, <2>1, HoldsInFirstPart
  <2>3. file' \o wb' = file
    BY <1>1, <1>2, ConcatEmptySeq
  <2> QED
    BY <2>1, <2>2, <2>3
<1> QED
  BY <1>4, <1>5, <1>6, <1>7, <1>8, <1>9, <1>10

LEMMA TruncateSetLenIInv ==
  ASSUME IInv, NEW t \in Threads, TruncateSetLen(t)
  PROVE  IInv'
<1> USE DEF IInv
<1>1. /\ pc[t] = "truncate_set_len"
      /\ file' = SetLen(file, wbStart)
      /\ wbLock = t /\ wbLock' = NoThread
      /\ pc' = [pc EXCEPT ![t] = "idle"]
      /\ arg' = [arg EXCEPT ![t] = NoExtent]
      /\ need' = [need EXCEPT ![t] = {}]
      /\ UNCHANGED <<wb, wbStart, logicalLen, acked>>
  BY DEF TruncateSetLen, Unlock, Return, Goto
<1>2. /\ wb = <<>> /\ logicalLen = wbStart
      /\ \A e \in acked : ExtentEnd(e) <= wbStart
      /\ file \in Seq(Cell) /\ wbStart \in 0 .. Len(file)
  BY <1>1 DEF HolderInv, CounterInv, TypeOK
<1>3. file' \in Seq(Cell) /\ Len(file') = wbStart
  BY <1>1, <1>2, HoldsAfterCut
<1>4. /\ pc'[t] = "idle" /\ need'[t] = {}
      /\ \A u \in Threads \ {t} : /\ pc'[u] = pc[u] /\ pc[u] \notin LockedPcs
                                  /\ arg'[u] = arg[u] /\ need'[u] = need[u]
  BY <1>1 DEF TypeOK, HolderInv
<1>5. TypeOK'
  BY <1>1, <1>3 DEF TypeOK, Pcs, NoExtent, Extent
<1>6. HolderInv'
  BY <1>1, <1>4, TypeFacts DEF HolderInv, LockedPcs
<1>7. FreeInv'
  <2>1. Len(wb') = 0 /\ 0 < Limit
    BY <1>1, <1>2, ConfigAssumption
  <2> QED
    BY <1>1, <1>2, <1>3, <2>1 DEF FreeInv, Continuous
<1>8. CounterInv'
  BY <1>1, <1>2, <1>3 DEF CounterInv
<1>9. HeaderArg'
  BY <1>4 DEF HeaderArg
<1>10. NeedInv'
  BY <1>1, <1>4 DEF NeedInv
<1>11. AckedInLog'
  <2> SUFFICES ASSUME NEW e \in acked
               PROVE  HeaderLen <= e.off /\ Holds(file' \o wb', e)
    BY <1>1 DEF AckedInLog, Holds
  <2>1. /\ ExtentEnd(e) <= wbStart /\ e \in ExtentType
        /\ HeaderLen <= e.off /\ Holds(file, e)
    <3>1. file \o wb = file
      BY <1>2, ConcatEmptySeq
    <3> QED
      BY <1>2, <3>1, TypeFacts DEF AckedInLog
  <2>2. Holds(SetLen(file, wbStart), e)
    BY <1>2, <2>1, HoldsAfterCut
  <2>3. file' \o wb' = file'
    BY <1>1, <1>2, <1>3, ConcatEmptySeq
  <2> QED
    BY <1>1, <2>1, <2>2, <2>3
<1> QED
  BY <1>5, <1>6, <1>7, <1>8, <1>9, <1>10, <1>11
-----------------------------------------------------------------------------
THEOREM StepPreservesIInv ==
  ASSUME ~IoErrors
  PROVE  IInv /\ [Next]_vars => IInv'
<1> SUFFICES ASSUME IInv, [Next]_vars
             PROVE  IInv'
  OBVIOUS
<1>1. CASE UNCHANGED vars
  BY <1>1 DEF vars, IInv, TypeOK, HolderInv, FreeInv, CounterInv, HeaderArg,
              NeedInv, AckedInLog, Continuous, Reserved, Holds
<1>2. ASSUME NEW t \in Threads, Call(t)
      PROVE  IInv'
  <2>1. CASE AppendBegin(t)
    BY <2>1, AppendBeginIInv
  <2>2. CASE ReadBegin(t)
    BY <2>2, ReadBeginIInv
  <2>3. CASE WriteBegin(t)
    BY <2>3, WriteBeginIInv
  <2>4. CASE SyncBegin(t)
    BY <2>4, SyncBeginIInv
  <2>5. CASE TruncateBegin(t)
    BY <2>5, TruncateBeginIInv
  <2> QED
    BY <1>2, <2>1, <2>2, <2>3, <2>4, <2>5 DEF Call
<1>3. ASSUME NEW t \in Threads, Step(t)
      PROVE  IInv'
  <2>1. CASE AppendDrain(t)
    BY <2>1, AppendDrainIInv
  <2>2. CASE AppendLarge(t)
    BY <2>2, AppendLargeIInv
  <2>3. CASE AppendSmall(t)
    BY <2>3, AppendSmallIInv
  <2>4. CASE FlushEmpty(t)
    BY <2>4, FlushEmptyIInv
  <2>5. CASE FlushLock(t)
    BY <2>5, FlushLockIInv
  <2>6. CASE FlushDrain(t)
    BY <2>6, FlushDrainIInv
  <2>7. CASE ReadCheck(t)
    BY <2>7, ReadCheckIInv
  <2>8. CASE ReadFile(t) \/ SyncData(t)
    BY <2>8, ReturnIInv
  <2>9. CASE WriteFile(t)
    BY <2>9, WriteFileIInv
  <2>10. CASE TruncateSetLen(t)
    BY <2>10, TruncateSetLenIInv
  <2>11. ~WriteError(t)
    BY DEF WriteError, PartlyWritten
  <2> QED
    BY <1>3, <2>1, <2>2, <2>3, <2>4, <2>5, <2>6, <2>7, <2>8, <2>9, <2>10, <2>11
       DEF Step
<1> QED
  BY <1>1, <1>2, <1>3 DEF Next

(* Wherever the buffer is not empty, it continues the file.                 *)
LEMMA DrainedIsLog ==
  ASSUME IInv
  PROVE  Drained = file \o wb
<1>1. /\ file \in Seq(Cell) /\ wb \in Seq(Cell)
      /\ wbStart \in Nat /\ wbStart <= Len(file)
  BY DEF IInv, TypeOK, CounterInv
<1>2. CASE wbStart = Len(file)
  BY <1>2, DrainedLog DEF IInv
<1>3. CASE wb = <<>>
  BY <1>1, <1>3, WriteNothing, ConcatEmptySeq DEF Drained
<1>4. wbStart = Len(file) \/ wb = <<>>
  <2>1. CASE wbLock = NoThread
    BY <2>1 DEF IInv, FreeInv, Continuous
  <2>2. CASE wbLock \in Threads
    BY <2>2 DEF IInv, HolderInv, LockedPcs, Continuous, Reserved
  <2> QED
    BY <2>1, <2>2 DEF IInv, TypeOK
<1> QED
  BY <1>2, <1>3, <1>4

(* The inductive invariant gives the four properties of the runs.           *)
LEMMA IInvImplies ==
  IInv => /\ TypeOK /\ BufferContinuesFile /\ AckedInPlace
          /\ ReadFindsExtent /\ SyncCoversAcked
<1> SUFFICES ASSUME IInv
             PROVE  /\ TypeOK /\ BufferContinuesFile /\ AckedInPlace
                    /\ ReadFindsExtent /\ SyncCoversAcked
  OBVIOUS
<1>1. BufferContinuesFile
  BY DEF IInv, FreeInv, Continuous, BufferContinuesFile
<1>2. ASSUME NEW t \in Threads, pc[t] \in {"read_file", "sync_data"}, NEW e \in need[t]
      PROVE  Holds(file, e)
  <2>1. e \in acked /\ ExtentEnd(e) <= wbStart
    BY <1>2 DEF IInv, NeedInv, FilePcs
  <2>2. e \in ExtentType /\ Holds(file \o wb, e) /\ ExtentEnd(e) <= Len(file)
    BY <2>1, TypeFacts DEF IInv, AckedInLog, CounterInv, TypeOK, ExtentType, ExtentEnd
  <2> QED
    BY <2>2, HoldsInFirstPart DEF IInv, TypeOK
<1>3. ReadFindsExtent /\ SyncCoversAcked
  BY <1>2 DEF ReadFindsExtent, SyncCoversAcked
<1>4. AckedInPlace
  BY DrainedIsLog DEF IInv, AckedInLog, AckedInPlace
<1> QED
  BY <1>1, <1>3, <1>4 DEF IInv

(* Every thread's view of the backend stays consistent, for any number of   *)
(* threads, any buffer limit and any data: types, the buffer continuing the *)
(* file, acknowledged extents in place, reads and syncs finding what they   *)
(* were promised (append, read_at_into, sync and truncate of mmap.rs).      *)
THEOREM BackendSafe ==
  ASSUME ~IoErrors
  PROVE  Spec => [](/\ TypeOK /\ BufferContinuesFile /\ AckedInPlace
                    /\ ReadFindsExtent /\ SyncCoversAcked)
<1>1. Init => IInv
  BY InitIInv
<1>2. IInv /\ [Next]_vars => IInv'
  BY StepPreservesIInv
<1>3. IInv => /\ TypeOK /\ BufferContinuesFile /\ AckedInPlace
              /\ ReadFindsExtent /\ SyncCoversAcked
  BY IInvImplies
<1> QED
  BY <1>1, <1>2, <1>3, PTL DEF Spec

(* What is still in write_buffer goes to the end of the file and nowhere    *)
(* else, whenever nobody is at work under the mutex (append, flush_locked). *)
THEOREM BackendBufferContinuesFile ==
  ASSUME ~IoErrors PROVE Spec => []BufferContinuesFile
BY BackendSafe, PTL

(* A read never looks for acknowledged data where it is not yet, or not any *)
(* more: its flush has brought the extent into the file (read_at_into).     *)
THEOREM BackendReadFindsExtent ==
  ASSUME ~IoErrors PROVE Spec => []ReadFindsExtent
BY BackendSafe, PTL

(* What was acknowledged before a sync began is in the file when its        *)
(* fdatasync runs, whatever other threads append meanwhile (sync).          *)
THEOREM BackendSyncCoversAcked ==
  ASSUME ~IoErrors PROVE Spec => []SyncCoversAcked
BY BackendSafe, PTL
-----------------------------------------------------------------------------
(***************************************************************************)
(* Refinement: the append log is the file and what the buffer adds to it.   *)
(***************************************************************************)
Truncating == \E t \in Threads : pc[t] = "truncate_set_len"

LEMMA LogOperators ==
  ASSUME NEW f, NEW n, NEW d, NEW e
  PROVE  /\ Log!WriteAll(f, n, d) = WriteAll(f, n, d)
         /\ Log!SetLen(f, n) = SetLen(f, n)
         /\ Log!Extent(n, d) = Extent(n, d)
         /\ Log!ExtentEnd(e) = ExtentEnd(e)
BY DEF Log!WriteAll, WriteAll, Log!Larger, Larger, Log!SetLen, SetLen,
       Log!Extent, Extent, Log!ExtentEnd, ExtentEnd

LEMMA LogBarValue ==
  /\ Truncating => logBar = SetLen(file, wbStart)
  /\ ~Truncating => logBar = file \o wb
BY DEF logBar, Truncating

LEMMA LogBarValuePrime ==
  /\ Truncating' => logBar' = SetLen(file', wbStart')
  /\ ~Truncating' => logBar' = file' \o wb'
BY DEF logBar, Truncating

(* Only the holder of the mutex truncates.                                  *)
LEMMA NotTruncating ==
  ASSUME IInv, wbLock = NoThread \/ \E t \in Threads :
                                      wbLock = t /\ pc[t] # "truncate_set_len"
  PROVE  ~Truncating
BY TypeFacts DEF IInv, HolderInv, LockedPcs, Truncating

(* A step that leaves the file and the buffer alone, by a thread that       *)
(* neither starts nor ends a truncation, leaves the log alone.              *)
LEMMA NothingMoves ==
  ASSUME IInv, NEW t \in Threads, NEW label \in Pcs \ {"truncate_set_len"},
         pc[t] # "truncate_set_len", pc' = [pc EXCEPT ![t] = label],
         UNCHANGED <<file, wb, wbStart, acked>>
  PROVE  UNCHANGED <<logBar, acked>>
<1>1. Truncating' <=> Truncating
  BY DEF Truncating, IInv, TypeOK
<1> QED
  BY <1>1, LogBarValue, LogBarValuePrime

(* Moving the buffer to the end of the file leaves the log alone.           *)
LEMMA DrainMovesNothing ==
  ASSUME IInv, NEW t \in Threads, AppendDrain(t) \/ FlushDrain(t)
  PROVE  UNCHANGED <<logBar, acked>>
<1>1. /\ wbLock = t /\ pc[t] \in LockedPcs \ {"truncate_set_len"}
      /\ wbStart = Len(file)
      /\ file' = Drained /\ wb' = <<>> /\ acked' = acked
      /\ pc'[t] # "truncate_set_len"
      /\ \A u \in Threads \ {t} : pc'[u] = pc[u]
  BY DEF AppendDrain, FlushDrain, Goto, Unlock, AfterFlush, IInv, HolderInv,
         Continuous, Reserved, LockedPcs, TypeOK
<1>2. ~Truncating /\ ~Truncating'
  BY <1>1, NotTruncating DEF Truncating, IInv, HolderInv, LockedPcs
<1>3. file' \o wb' = file \o wb
  BY <1>1, DrainedLog DEF IInv
<1> QED
  BY <1>1, <1>2, <1>3, LogBarValue, LogBarValuePrime

(* The step that ends an append is the append of the log.                   *)
LEMMA AppendImplementsLogAppend ==
  ASSUME IInv, NEW t \in Threads, AppendLarge(t) \/ AppendSmall(t)
  PROVE  Log!LogAppend
<1> DEFINE d == arg[t].data
<1>1. /\ wbLock = t /\ pc[t] \in {"append_large", "append_small"}
      /\ acked' = acked \union {arg[t]}
      /\ pc'[t] = "idle"
      /\ \A u \in Threads \ {t} : pc'[u] = pc[u]
  BY DEF AppendLarge, AppendSmall, Unlock, Return, Goto, IInv, TypeOK
<1>2. ~Truncating /\ ~Truncating'
  BY <1>1, NotTruncating DEF Truncating, IInv, HolderInv, LockedPcs
<1>3. /\ d \in Payloads /\ d \in Seq(Cell)
      /\ file \in Seq(Cell) /\ wb \in Seq(Cell)
      /\ arg[t] \in [off : Nat, data : Seq(Cell)]
      /\ Len(file) \in Nat /\ Len(file \o wb) = Len(file) + Len(wb)
  BY <1>1, ConfigAssumption, ConcatProperties DEF IInv, TypeOK, HolderInv
<1>4. arg[t].off = Len(file \o wb) /\ file' \o wb' = (file \o wb) \o d
  <2>1. CASE AppendLarge(t)
    <3>1. /\ wb = <<>> /\ wb' = wb /\ arg[t].off = Len(file)
          /\ file' = WriteAll(file, Len(file), d)
      BY <2>1 DEF AppendLarge, IInv, HolderInv
    <3>2. WriteAll(file, Len(file), d) = file \o d
      BY <1>3, WriteAtEnd
    <3>3. file \o d \in Seq(Cell)
      BY <1>3, ConcatProperties
    <3> HIDE DEF d
    <3>4. file \o wb = file /\ file' \o wb' = file'
      BY <1>3, <3>1, <3>2, <3>3, ConcatEmptySeq
    <3> QED
      BY <3>1, <3>2, <3>4
  <2>2. CASE AppendSmall(t)
    <3>1. /\ wbStart = Len(file) /\ arg[t].off = Len(file) + Len(wb)
          /\ \/ wb' = wb \o d /\ file' = file
             \/ file' = WriteAll(file, wbStart, wb \o d) /\ wb' = <<>>
      BY <2>2 DEF AppendSmall, IInv, HolderInv, Reserved
    <3>2. /\ file \o (wb \o d) = (file \o wb) \o d
          /\ WriteAll(file, Len(file), wb \o d) = (file \o wb) \o d
      BY <1>3, WriteBufferAndData
    <3>3. (file \o wb) \o d \in Seq(Cell)
      BY <1>3, ConcatProperties
    <3>4. ((file \o wb) \o d) \o <<>> = (file \o wb) \o d
      BY <3>3, ConcatEmptySeq
    <3> HIDE DEF d
    <3> QED
      BY <1>3, <3>1, <3>2, <3>4
  <2> QED
    BY <2>1, <2>2
<1>5. logBar = file \o wb /\ logBar' = logBar \o d
  BY <1>2, <1>4, LogBarValue, LogBarValuePrime
<1>6. arg[t] = Extent(Len(logBar), d)
  BY <1>3, <1>4, <1>5 DEF Extent
<1>7. acked' = acked \union {Log!Extent(Len(logBar), d)}
  BY <1>1, <1>6, LogOperators
<1> QED
  BY <1>3, <1>5, <1>7 DEF Log!LogAppend

LEMMA WriteFileImplementsLogRewriteHeader ==
  ASSUME IInv, NEW t \in Threads, WriteFile(t)
  PROVE  Log!LogRewriteHeader
<1> DEFINE h == arg[t].data
<1>1. /\ h \in Headers /\ h \in Seq(Cell) /\ Len(h) = HeaderLen
      /\ file' = WriteAll(file, 0, h)
      /\ file \in Seq(Cell) /\ wb \in Seq(Cell)
      /\ HeaderLen <= wbStart /\ wbStart \in 0 .. Len(file)
      /\ wb' = wb /\ acked' = acked
  BY ConfigAssumption DEF WriteFile, IInv, HeaderArg, CounterInv, TypeOK
<1>2. wbStart' = wbStart
  BY <1>1, ConfigAssumption
     DEF WriteFile, IInv, HeaderArg, ExtentEnd, Larger, TypeOK
<1>3. Truncating' <=> Truncating
  BY DEF WriteFile, Return, Goto, Truncating, IInv, TypeOK
<1>4. logBar' = WriteAll(logBar, 0, h)
  <2>1. CASE Truncating
    <3>1. SetLen(WriteAll(file, 0, h), wbStart) = WriteAll(SetLen(file, wbStart), 0, h)
      BY <1>1, RewriteStartOfCut
    <3> HIDE DEF h
    <3> QED
      BY <1>1, <1>2, <1>3, <2>1, <3>1, LogBarValue, LogBarValuePrime
  <2>2. CASE ~Truncating
    <3>1. Len(h) <= Len(file)
      BY <1>1, ConfigAssumption
    <3>2. WriteAll(file, 0, h) \o wb = WriteAll(file \o wb, 0, h)
      BY <1>1, <3>1, RewriteStartOfLog
    <3> HIDE DEF h
    <3> QED
      BY <1>1, <1>3, <2>2, <3>2, LogBarValue, LogBarValuePrime
  <2> QED
    BY <2>1, <2>2
<1>5. WriteAll(logBar, 0, h) = Log!WriteAll(logBar, 0, h)
  BY LogOperators
<1> QED
  BY <1>1, <1>4, <1>5 DEF Log!LogRewriteHeader

LEMMA TruncateBeginImplementsLogTruncate ==
  ASSUME IInv, NEW t \in Threads, TruncateBegin(t)
  PROVE  Log!LogTruncate
<1>1. PICK n \in HeaderLen .. wbStart :
        /\ wbLock = NoThread
        /\ wbStart' = n /\ file' = file
        /\ acked' = {e \in acked : ExtentEnd(e) <= n}
        /\ pc' = [pc EXCEPT ![t] = "truncate_set_len"]
  BY DEF TruncateBegin, Lock, Goto
<1>2. /\ n \in 0 .. Len(file) /\ HeaderLen <= n
      /\ file \in Seq(Cell) /\ wb \in Seq(Cell)
      /\ Len(file \o wb) = Len(file) + Len(wb)
  BY <1>1, ConfigAssumption, ConcatProperties DEF IInv, TypeOK, CounterInv
<1>3. ~Truncating /\ Truncating'
  BY <1>1, NotTruncating DEF Truncating, IInv, TypeOK
<1>4. logBar = file \o wb /\ logBar' = SetLen(file, n)
  BY <1>1, <1>3, LogBarValue, LogBarValuePrime
<1>5. logBar' = Log!SetLen(logBar, n)
  <2>1. SetLen(file \o wb, n) = SetLen(file, n)
    BY <1>2, CutOfLog
  <2>2. Log!SetLen(file \o wb, n) = SetLen(file \o wb, n)
    BY LogOperators
  <2> QED
    BY <1>4, <2>1, <2>2
<1>6. n \in HeaderLen .. Len(logBar)
  BY <1>2, <1>4, ConfigAssumption DEF IInv, TypeOK
<1>7. acked' = {e \in acked : Log!ExtentEnd(e) <= n}
  BY <1>1, LogOperators
<1> QED
  BY <1>5, <1>6, <1>7 DEF Log!LogTruncate

LEMMA TruncateSetLenMovesNothing ==
  ASSUME IInv, NEW t \in Threads, TruncateSetLen(t)
  PROVE  UNCHANGED <<logBar, acked>>
<1>1. /\ pc[t] = "truncate_set_len" /\ wb = <<>> /\ wb' = wb
      /\ file' = SetLen(file, wbStart) /\ acked' = acked
      /\ file \in Seq(Cell) /\ wbStart \in 0 .. Len(file)
      /\ pc'[t] = "idle" /\ \A u \in Threads \ {t} : pc'[u] = pc[u]
  BY DEF TruncateSetLen, Return, Goto, IInv, HolderInv, CounterInv, TypeOK
<1>2. Truncating /\ ~Truncating'
  BY <1>1 DEF Truncating, IInv, HolderInv, LockedPcs, TruncateSetLen, Unlock
<1>3. file' \o wb' = SetLen(file, wbStart)
  BY <1>1, HoldsAfterCut, ConcatEmptySeq
<1> QED
  BY <1>1, <1>2, <1>3, LogBarValue, LogBarValuePrime

LEMMA StepRefines ==
  ASSUME ~IoErrors
  PROVE  IInv /\ [Next]_vars => [Log!LogNext]_<<logBar, acked>>
<1> SUFFICES ASSUME IInv, [Next]_vars
             PROVE  Log!LogNext \/ UNCHANGED <<logBar, acked>>
  OBVIOUS
<1>1. CASE UNCHANGED vars
  BY <1>1 DEF vars, logBar
<1>2. ASSUME NEW t \in Threads,
             \/ AppendBegin(t) \/ ReadBegin(t) \/ WriteBegin(t) \/ SyncBegin(t)
             \/ FlushEmpty(t) \/ FlushLock(t)
             \/ ReadCheck(t) \/ ReadFile(t) \/ SyncData(t)
      PROVE  UNCHANGED <<logBar, acked>>
  <2>1. /\ UNCHANGED <<file, wb, wbStart, acked>>
        /\ pc[t] # "truncate_set_len"
        /\ \E label \in Pcs \ {"truncate_set_len"} :
             pc' = [pc EXCEPT ![t] = label]
    <3>1. CASE AppendBegin(t)
      BY <3>1 DEF AppendBegin, Goto, Pcs, LockedPcs
    <3>2. CASE ReadBegin(t) \/ ReadCheck(t) \/ ReadFile(t)
      BY <3>2 DEF ReadBegin, ReadCheck, ReadFile, Return, Goto, Pcs, FlushPcs, FilePcs
    <3>3. CASE WriteBegin(t) \/ SyncBegin(t) \/ SyncData(t)
      BY <3>3 DEF WriteBegin, SyncBegin, SyncData, Return, Goto, Pcs, FlushPcs
    <3>4. CASE FlushEmpty(t)
      BY <3>4 DEF FlushEmpty, Goto, AfterFlush, FlushPcs, Pcs, FilePcs
    <3>5. CASE FlushLock(t)
      BY <3>5 DEF FlushLock, Goto, DrainOf, FlushPcs, Pcs, LockedPcs
    <3> QED
      BY <1>2, <3>1, <3>2, <3>3, <3>4, <3>5
  <2> QED
    BY <2>1, NothingMoves
<1>3. ASSUME NEW t \in Threads, Call(t) \/ Step(t)
      PROVE  Log!LogNext \/ UNCHANGED <<logBar, acked>>
  <2>1. CASE AppendDrain(t) \/ FlushDrain(t)
    BY <2>1, DrainMovesNothing
  <2>2. CASE AppendLarge(t) \/ AppendSmall(t)
    BY <2>2, AppendImplementsLogAppend DEF Log!LogNext
  <2>3. CASE WriteFile(t)
    BY <2>3, WriteFileImplementsLogRewriteHeader DEF Log!LogNext
  <2>4. CASE TruncateBegin(t)
    BY <2>4, TruncateBeginImplementsLogTruncate DEF Log!LogNext
  <2>5. CASE TruncateSetLen(t)
    BY <2>5, TruncateSetLenMovesNothing
  <2>6. ~WriteError(t)
    BY DEF WriteError, PartlyWritten
  <2> QED
    BY <1>2, <1>3, <2>1, <2>2, <2>3, <2>4, <2>5, <2>6 DEF Call, Step
<1> QED
  BY <1>1, <1>3 DEF Next

LEMMA InitRefines == Init => Log!LogInit
<1> SUFFICES ASSUME Init PROVE Log!LogInit
  OBVIOUS
<1>1. ~Truncating
  BY DEF Init, Truncating
<1>2. logBar = file
  BY <1>1, LogBarValue, ConfigAssumption, ConcatEmptySeq DEF Init
<1> QED
  BY <1>2 DEF Init, Log!LogInit

(* The buffered, locked, several-step backend is an atomic append log:      *)
(* every append takes effect at one step, at the offset it returns; every   *)
(* flush, read and sync is invisible (impl IoBackend for MmapBackend).      *)
THEOREM BackendImplementsAppendLog ==
  ASSUME ~IoErrors
  PROVE  Spec => ImplementsAppendLog
<1>1. Init => IInv
  BY InitIInv
<1>2. IInv /\ [Next]_vars => IInv'
  BY StepPreservesIInv
<1>3. Init => Log!LogInit
  BY InitRefines
<1>4. IInv /\ [Next]_vars => [Log!LogNext]_<<logBar, acked>>
  BY StepRefines
<1> QED
  BY <1>1, <1>2, <1>3, <1>4, PTL
     DEF Spec, ImplementsAppendLog, Log!LogSpec, Log!logVars
=============================================================================
