---------------------------- MODULE ArchiveFormat ---------------------------
(***************************************************************************)
(* The bytes of an archive (tpx-core and tpx-index/src/toc.rs): header,     *)
(* chunk, table of contents with its attributes, footer, and the scan that  *)
(* finds the newest footer.  A cell stands for one field, or for one byte   *)
(* of a key, a name or a payload; every length and offset counts cells.     *)
(* Fields that name the length of something keep their width.  Offsets in   *)
(* a cell sequence start at 0, as in the code.                              *)
(***************************************************************************)
EXTENDS Integers, SequencesExt

CONSTANTS U8, U16,     \* how many values the narrow length fields have
          Page,        \* chunk_align, in cells
          MaxValue,    \* MAX_ATTR_VALUE_SIZE
          Word,        \* the length of a 64-bit attribute
          Payloads     \* every compressed chunk, as a sequence: Crc is a position

ASSUME FormatAssumption ==
  /\ U8 \in Nat \ {0} /\ U16 \in Nat \ {0}
  /\ Page \in Nat /\ Page >= 8
  /\ MaxValue < U16 /\ Word <= MaxValue

(* The magic numbers are larger than any length or offset of the model.     *)
Magic == 1000
MagicEndFinal == 1001
MagicEndCheckpoint == 1002

Version == 1
HeaderSize == 4
FooterSize == 3
ChunkHeaderSize == 6

-----------------------------------------------------------------------------
Zeros(n) == [i \in 1 .. n |-> 0]

Gap(n) == (Page - (n % Page)) % Page

PadToAlign(c) == c \o Zeros(Gap(Len(c)))

(* The cell at offset i; where there is none, the parsers below fail because *)
(* what they read ends behind the last cell.                                *)
Cell(c, i) == IF i < Len(c) THEN c[i + 1] ELSE 0

Slice(c, i, n) == SubSeq(c, i + 1, i + n)

(* UTF-8 with one character of two bytes: every other byte is a character.  *)
Lead == 2
Cont == 3

Utf8(s) == \A i \in DOMAIN s :
  /\ s[i] = Lead => i < Len(s) /\ s[i + 1] = Cont
  /\ s[i] = Cont => i > 1 /\ s[i - 1] = Lead

-----------------------------------------------------------------------------
(* header.rs                                                                *)
Header(shards) == PadToAlign(<<Magic, Version, Page, shards>>)

HeaderOk(c) == /\ Len(c) >= HeaderSize
               /\ Cell(c, 0) = Magic
               /\ Cell(c, 1) <= Version

-----------------------------------------------------------------------------
(* chunk.rs and read_tensor_from_entry: one block per chunk.  No two        *)
(* payloads have the same CRC, and the empty payload has 0.                 *)
Crc(payload) ==
  IF payload = <<>> THEN 0
  ELSE IF \E i \in DOMAIN Payloads : Payloads[i] = payload
       THEN CHOOSE i \in DOMAIN Payloads : Payloads[i] = payload
       ELSE Len(Payloads) + 1

CodecIds == 0 .. 3
FilterIds == 0 .. 3

Chunk(codec, filter, payload) ==
  PadToAlign(<<codec, filter, 1, Len(payload), Len(payload), Crc(payload), Len(payload)>>
               \o payload)

Unreadable == <<-1>>

(* The payload of a chunk, or an error: the bytes of all its blocks, when   *)
(* they lie within the chunk and their CRC is the one of the header.        *)
ReadChunk(c, off, len) ==
  LET chunk   == Slice(c, off, len)
      blocks  == Cell(chunk, 2)
      start   == ChunkHeaderSize + blocks
      lens    == Slice(chunk, ChunkHeaderSize, blocks)
      total   == FoldLeft(+, 0, lens)
      payload == Slice(chunk, start, total)
  IN  IF /\ off + len <= Len(c)
         /\ ChunkHeaderSize <= len
         /\ Cell(chunk, 0) \in CodecIds /\ Cell(chunk, 1) \in FilterIds
         /\ start <= len /\ start + total <= len
         /\ Crc(payload) = Cell(chunk, 5)
      THEN payload ELSE Unreadable

(* A tensor's data: its chunks in order, or the error of one of them.       *)
ReadTensor(c, e) ==
  LET parts == [i \in DOMAIN e.refs |-> ReadChunk(c, e.refs[i][2], e.refs[i][3])]
  IN  IF \E i \in DOMAIN parts : parts[i] = Unreadable THEN Unreadable
      ELSE FlattenSeq(parts)

-----------------------------------------------------------------------------
(* attrs.rs: names are cut to the width of their length, in bytes.          *)
AttrTypeIds == 0 .. 4
StringId == 0
WordIds == {1, 2}
BoolId == 3

CutName(name) == SubSeq(name, 1, IF Len(name) < U8 THEN Len(name) ELSE U8 - 1)

(* How a name could be written wrongly: with its length in characters.      *)
AttrCellsCharacters(name, value) ==
  <<Cardinality({i \in DOMAIN CutName(name) : name[i] # Cont})>> \o CutName(name)
    \o <<value.type, Len(value.data) % U16>> \o value.data

AttrCells(name, value) ==
  <<Len(CutName(name))>> \o CutName(name) \o <<value.type, Len(value.data) % U16>>
    \o value.data

AttrsCells(attrs) ==
  LET names == SetToSeq(DOMAIN attrs)
  IN  FlattenSeq([i \in DOMAIN names |-> AttrCells(names[i], attrs[names[i]])])

ValueOk(type, data) ==
  /\ type \in AttrTypeIds
  /\ Len(data) <= MaxValue
  /\ type = StringId => Utf8(data)
  /\ type \in WordIds => Len(data) = Word
  /\ type = BoolId => Len(data) = 1

NoAttrs == [name \in {} |-> 0]

Failed == [ok |-> FALSE, pos |-> 0, read |-> <<>>]

(* One attribute after the other up to the end; a later one of the same     *)
(* name replaces an earlier one.                                            *)
RECURSIVE ReadAttrs(_, _)
ReadAttrs(c, pos) ==
  LET typeAt == pos + 1 + Cell(c, pos)
      end    == typeAt + 2 + Cell(c, typeAt + 1)
      name   == SubSeq(c, pos + 2, typeAt)
      data   == SubSeq(c, typeAt + 3, end)
      rest   == ReadAttrs(c, end)
  IN  IF pos = Len(c) THEN [ok |-> TRUE, pos |-> pos, read |-> NoAttrs]
      ELSE IF end <= Len(c) /\ Utf8(name) /\ ValueOk(Cell(c, typeAt), data) /\ rest.ok
      THEN [rest EXCEPT !.read = @ @@ (name :> [type |-> Cell(c, typeAt), data |-> data])]
      ELSE Failed

-----------------------------------------------------------------------------
(* toc.rs.  A reference is <<shard, offset, length>>.                       *)
DTypeIds == 0 .. 12

(* Distinct keys have distinct hashes.                                      *)
KeyHash(key) == FoldLeft(LAMBDA h, byte : 4 * h + byte + 1, 0, key)

NewEntry(key, dtype, shape, attrs, refs) ==
  [hash |-> KeyHash(key), key |-> key, dtype |-> dtype, shape |-> shape,
   attrs |-> attrs, refs |-> refs, tombstone |-> 0]

(* Attributes pass through set once more, which rejects a value that is too *)
(* large; that error is ignored.                                            *)
Accepted(attrs) ==
  Restrict(attrs, {name \in DOMAIN attrs : Len(attrs[name].data) <= MaxValue})

EntryCells(e) ==
  LET attrs == AttrsCells(Accepted(e.attrs))
  IN  <<e.hash, Len(e.key) % U16>> \o e.key
        \o <<e.dtype, Len(e.shape) % U8>> \o e.shape
        \o <<Len(attrs)>> \o attrs
        \o <<Len(e.refs) % U16>> \o FlattenSeq(e.refs) \o <<e.tombstone>>

TocCells(toc) == <<Len(toc)>> \o FlattenSeq([i \in DOMAIN toc |-> EntryCells(toc[i])])

(* The next n entries.                                                      *)
RECURSIVE ReadEntries(_, _, _)
ReadEntries(c, pos, n) ==
  LET dtypeAt == pos + 2 + Cell(c, pos + 1)
      attrsAt == dtypeAt + 2 + Cell(c, dtypeAt + 1)
      refsAt  == attrsAt + 1 + Cell(c, attrsAt)
      count   == Cell(c, refsAt)
      end     == refsAt + 2 + 3 * count
      key     == SubSeq(c, pos + 3, dtypeAt)
      attrs   == ReadAttrs(SubSeq(c, attrsAt + 2, refsAt), 0)
      entry   == [hash      |-> Cell(c, pos),
                  key       |-> key,
                  dtype     |-> Cell(c, dtypeAt),
                  shape     |-> SubSeq(c, dtypeAt + 3, attrsAt),
                  attrs     |-> attrs.read,
                  refs      |-> [i \in 1 .. count |-> Slice(c, refsAt + 3 * i - 2, 3)],
                  tombstone |-> Cell(c, end - 1)]
      rest    == ReadEntries(c, end, n - 1)
  IN  IF n = 0 THEN [ok |-> TRUE, pos |-> pos, read |-> <<>>]
      ELSE IF /\ end <= Len(c)
              /\ Utf8(key) /\ Cell(c, dtypeAt) \in DTypeIds /\ attrs.ok
              /\ rest.ok
      THEN [rest EXCEPT !.read = <<entry>> \o @]
      ELSE Failed

ReadToc(c) == IF c = <<>> THEN Failed ELSE ReadEntries(c, 1, c[1])

(* What the fields can hold; nothing in the code checks it.                 *)
Fits(e) == /\ Len(e.key) < U16 /\ Len(e.shape) < U8 /\ Len(e.refs) < U16
           /\ \A name \in DOMAIN e.attrs : Len(name) < U8

-----------------------------------------------------------------------------
(* footer.rs and the block that execute_checkpoint builds: table of         *)
(* contents, zeros, footer, a multiple of the page together.                *)
Footer(tocOffset, checksum) == <<tocOffset, checksum, MagicEndCheckpoint>>

Block(toc, off, checksum) ==
  LET bytes == TocCells(toc)
  IN  bytes \o Zeros(Gap(Len(bytes) + FooterSize)) \o Footer(off, checksum)

IsFooter(c, at) == /\ at >= 0 /\ at + FooterSize <= Len(c)
                   /\ Cell(c, at + 2) \in {MagicEndFinal, MagicEndCheckpoint}
                   /\ Cell(c, at) < at

NoFooter == -1

AlignedProbes(c) == {k * Page - FooterSize : k \in 1 .. Len(c) \div Page}

(* How the scan could go wrong: it looks at the end of the file only.       *)
ScanForFooterAtEnd(c) ==
  IF IsFooter(c, Len(c) - FooterSize) THEN Len(c) - FooterSize ELSE NoFooter

(* The end of the file first, then page by page towards its start.          *)
ScanForFooter(c) ==
  LET found == {at \in AlignedProbes(c) : IsFooter(c, at)}
  IN  IF IsFooter(c, Len(c) - FooterSize) THEN Len(c) - FooterSize
      ELSE IF found = {} THEN NoFooter ELSE Max(found)
=============================================================================
