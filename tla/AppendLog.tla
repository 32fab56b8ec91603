------------------------------ MODULE AppendLog -----------------------------
(***************************************************************************)
(* What the storage engine relies on from the I/O layer (trait IoBackend):  *)
(* one growing sequence of cells.  An append is atomic: it puts its data at *)
(* the end and returns the offset where the data starts; what was appended  *)
(* stays there until a truncation cuts it off.  The first HeaderLen cells   *)
(* hold the file header, which may be rewritten in place.                   *)
(***************************************************************************)
EXTENDS ByteFile

CONSTANTS Payloads,   \* the data of the appends
          Headers,    \* the header images, all HeaderLen cells long
          HeaderLen

VARIABLES log,     \* the cells, buffered or not
          acked    \* the extents whose append returned and that no truncation cut

logVars == <<log, acked>>

Entry == [off : Nat, data : Payloads]

LogTypeOK == /\ log \in Seq(Cell)
             /\ acked \subseteq Entry

LogInit == /\ log \in Headers
           /\ acked = {}

LogAppend == \E d \in Payloads :
  /\ log' = log \o d
  /\ acked' = acked \union {Extent(Len(log), d)}

LogRewriteHeader == \E h \in Headers :
  /\ log' = WriteAll(log, 0, h)
  /\ UNCHANGED acked

LogTruncate == \E n \in HeaderLen .. Len(log) :
  /\ log' = SetLen(log, n)
  /\ acked' = {e \in acked : ExtentEnd(e) <= n}

LogNext == LogAppend \/ LogRewriteHeader \/ LogTruncate

LogSpec == LogInit /\ [][LogNext]_logVars
=============================================================================
