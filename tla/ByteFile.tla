------------------------------ MODULE ByteFile ------------------------------
(***************************************************************************)
(* A file as a sequence of cells, and the positioned write the operating    *)
(* system applies to it.  A cell stands for a run of bytes that the code    *)
(* always moves together.  Offsets count cells from 0, as the code's do.    *)
(***************************************************************************)
EXTENDS Integers, Sequences

CONSTANTS Cell,     \* the values a cell can have
          Zero      \* what a hole or a never-written cell reads as

ASSUME ZeroAssumption == Zero \in Cell

Larger(m, n) == IF m >= n THEN m ELSE n

(* seek(off) then write_all(d): replaces, extends, and zero-fills a gap.    *)
WriteAll(f, off, d) ==
  [i \in 1 .. Larger(Len(f), off + Len(d)) |->
     IF off < i /\ i <= off + Len(d) THEN d[i - off]
     ELSE IF i <= Len(f) THEN f[i] ELSE Zero]

(* set_len(n) for n <= Len(f).                                              *)
SetLen(f, n) == SubSeq(f, 1, n)

(* An extent is the pair an append promises: this data at this offset.      *)
Extent(off, d) == [off |-> off, data |-> d]

ExtentEnd(e) == e.off + Len(e.data)

Holds(f, e) == /\ ExtentEnd(e) <= Len(f)
               /\ \A i \in 1 .. Len(e.data) : f[e.off + i] = e.data[i]
=============================================================================
