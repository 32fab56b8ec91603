----------------------------- MODULE ChunkCodec -----------------------------
(***************************************************************************)
(* The way of a tensor's bytes: cut at content-defined boundaries           *)
(* (tpx-dedup/src/cdc.rs), deduplicated by content alone, each new segment  *)
(* filtered and compressed for the element type it first came with          *)
(* (tpx-codec), and read back with the element type of the tensor that      *)
(* names it (put_with_retention and read_tensor_from_entry of the engine).  *)
(* One content is put under one element type after another.                 *)
(***************************************************************************)
EXTENDS Filters, Chimp128

CONSTANTS Floor,                   \* the throughput put asks auto_select for: 250
          MinSize, MaxSize,        \* CdcConfig: min_size and max_size
          MaskBits, Gear,          \* boundary_mask = 2^MaskBits - 1; the gear table
          Data                     \* what is put

ASSUME CodecAssumption ==
  /\ DType \subseteq {"Float64", "Float32", "Int64", "Int8"}
  /\ WordBits = ByteBits * ElementSize["Float64"]
  /\ Data \subseteq Seq(Byte)
  /\ Gear \in [Byte -> Nat]
  /\ MinSize \in Nat /\ MaxSize \in Nat /\ MinSize < MaxSize

VARIABLES data,      \* the content
          chunks,    \* what the file holds for every segment written
          entries    \* the element types it was put under

vars == <<data, chunks, entries>>

-----------------------------------------------------------------------------
(* cdc_chunk: the hash is fresh at each chunk and begins MinSize into it.   *)
GearHash(bytes) ==
  FoldLeft(LAMBDA hash, b : (2 * hash + Gear[b]) % 2 ^ MaskBits, 0, bytes)

(* How a cut could go wrong: the limit of a chunk is forgotten.             *)
CutLenUnlimited(bytes, start) ==
  LET remaining == Len(bytes) - start
      cuts == {len \in MinSize + 1 .. remaining :
                 GearHash(SubSeq(bytes, start + MinSize + 1, start + len)) = 0}
  IN  IF remaining <= MinSize \/ cuts = {} THEN remaining ELSE Min(cuts)

CutLen(bytes, start) ==
  LET remaining == Len(bytes) - start
      limit == Min({remaining, MaxSize})
      cuts == {len \in MinSize + 1 .. limit :
                 GearHash(SubSeq(bytes, start + MinSize + 1, start + len)) = 0}
  IN  IF remaining <= MinSize THEN remaining ELSE Min(cuts \union {limit})

Segments(bytes) ==
  LET from[start \in 0 .. Len(bytes)] ==
        IF start = Len(bytes) THEN <<>>
        ELSE LET end == start + CutLen(bytes, start)
             IN  <<SubSeq(bytes, start + 1, end)>> \o from[end]
  IN  from[0]

-----------------------------------------------------------------------------
Codec == {"Raw", "Lz4", "Zstd", "Chimp128"}

Plain(codec) == [codec |-> codec, filter |-> "None"]
Zstd(filter) == [codec |-> "Zstd", filter |-> filter]

Elements(sample, dtype) == Len(sample) \div ElementSize[dtype]

(* How the choice could go wrong: the throughput is not asked for.          *)
AutoSelectIgnoringFloor(sample, dtype, floor) ==
  CASE sample = <<>> -> {Plain("Raw")}
    [] sample # <<>> /\ dtype \in Floats ->
         {Plain("Lz4"), Zstd("ByteShuffle")}
           \union IF Elements(sample, dtype) >= 4 THEN {Plain("Chimp128")} ELSE {}
    [] OTHER ->
         {Plain("Raw"), Zstd("ByteShuffle")}
           \union IF ElementSize[dtype] >= 2 /\ Elements(sample, dtype) >= 8
                  THEN {Zstd("DeltaZigZag")} ELSE {}

(* What auto_select may answer.  The estimates of correlation, trend and    *)
(* entropy are not computed: any answer they may lead to is possible.       *)
AutoSelect(sample, dtype, floor) ==
  CASE sample = <<>> -> {Plain("Raw")}
    [] sample # <<>> /\ floor >= 200 -> {Plain("Lz4")}
    [] sample # <<>> /\ floor < 200 /\ dtype \in Floats ->
         {Plain("Lz4"), Zstd("ByteShuffle")}
           \union IF Elements(sample, dtype) >= 4 THEN {Plain("Chimp128")} ELSE {}
    [] OTHER ->
         {Plain("Raw"), Zstd("ByteShuffle")}
           \union IF ElementSize[dtype] >= 2 /\ Elements(sample, dtype) >= 8
                  THEN {Zstd("DeltaZigZag")} ELSE {}

-----------------------------------------------------------------------------
(* Chimp takes Float64 elements as words and every other type as Float32    *)
(* elements in the upper half of a word; a tail is left out.                *)
ChimpSize(dtype) == ElementSize[IF dtype = "Float64" THEN "Float64" ELSE "Float32"]

ToWord(bytes) ==
  LET bits == FlattenSeq([j \in DOMAIN bytes |->
                            BitsOf(bytes[Len(bytes) + 1 - j], ByteBits)])
  IN  Read(bits, 0, WordBits)

ToBytes(word, size) ==
  [j \in 1 .. size |-> NumberOf(SubSeq(word, (size - j) * ByteBits + 1,
                                       (size - j + 1) * ByteBits))]

ChimpCompress(bytes, dtype) ==
  LET size  == ChimpSize(dtype)
      count == Len(bytes) \div size
  IN  [count |-> count,
       bits  |-> EncodeAll([i \in 1 .. count |->
                              ToWord(SubSeq(bytes, (i - 1) * size + 1, i * size))])]

Error == <<-1>>

(* How a check could go wrong: whatever was decoded is returned.            *)
LengthUnchecked(bytes, len) == bytes

LengthChecked(bytes, len) == IF Len(bytes) = len THEN bytes ELSE Error

ChimpDecompress(payload, len, dtype) ==
  LET words == DecodeAll(payload.bits, payload.count)
      size  == ChimpSize(dtype)
  IN  LengthChecked(FlattenSeq([i \in DOMAIN words |-> ToBytes(words[i], size)]), len)

(* LZ4 and Zstd are libraries: they give back what they were given.         *)
Compress(codec, bytes, dtype) ==
  IF codec = "Chimp128" THEN ChimpCompress(bytes, dtype) ELSE bytes

Decompress(codec, payload, len, dtype) ==
  IF codec = "Chimp128" THEN ChimpDecompress(payload, len, dtype)
  ELSE LengthChecked(payload, len)

-----------------------------------------------------------------------------
(* A chunk as the file holds it: what its header says, and the payload.     *)
ChunkOf(segment, dtype, selection) ==
  [codec   |-> selection.codec, filter |-> selection.filter, len |-> Len(segment),
   payload |-> Compress(selection.codec, Apply(selection.filter, segment, dtype), dtype)]

ReadChunk(chunk, dtype) ==
  LET bytes == Decompress(chunk.codec, chunk.payload, chunk.len, dtype)
  IN  IF bytes = Error THEN Error ELSE Revert(chunk.filter, bytes, dtype)

(* A tensor reads back as its chunks in order, unless one of them fails.    *)
ReadTensor(dtype) ==
  LET parts == [i \in DOMAIN Segments(data) |-> ReadChunk(chunks[Segments(data)[i]], dtype)]
  IN  IF \E i \in DOMAIN parts : parts[i] = Error THEN Error ELSE FlattenSeq(parts)

Missing == {Segments(data)[i] : i \in DOMAIN Segments(data)} \ DOMAIN chunks

Init == /\ data \in Data
        /\ chunks = <<>>
        /\ entries = {}

(* A put: every segment the file does not have yet is filtered, compressed  *)
(* and written; the others are shared, whatever type they were written for. *)
Put(dtype) ==
  /\ \E selection \in [Missing -> UNION {AutoSelect(s, dtype, Floor) : s \in Missing}] :
       /\ \A s \in Missing : selection[s] \in AutoSelect(s, dtype, Floor)
       /\ chunks' = [s \in DOMAIN chunks \union Missing |->
                       IF s \in DOMAIN chunks THEN chunks[s]
                       ELSE ChunkOf(s, dtype, selection[s])]
  /\ entries' = entries \union {dtype}
  /\ UNCHANGED data

Next == \E dtype \in DType : Put(dtype)

Spec == Init /\ [][Next]_vars

-----------------------------------------------------------------------------
(* Only segments within the limit are written, and only whole bytes.        *)
TypeOK == /\ entries \subseteq DType
          /\ \A s \in DOMAIN chunks :
               /\ Len(s) \in 1 .. MaxSize
               /\ chunks[s].codec \in Codec /\ chunks[s].filter \in FilterId
               /\ chunks[s].len = Len(s)

(* Deduplication knows the content of a segment and not its element type:   *)
(* still every tensor reads back as it was put, though its chunks may have  *)
(* been filtered and compressed for another type.  This rests on the        *)
(* throughput that put asks for, which rules out whatever looks at the type *)
SharedChunkReadsBack == \A dtype \in entries : ReadTensor(dtype) = data

(* Every filter reverts what it applied, tails of incomplete elements and   *)
(* overflowing differences included.                                        *)
FiltersRevert ==
  entries = {} => \A filter \in FilterId, dtype \in DType :
    Revert(filter, Apply(filter, data, dtype), dtype) = data

(* Chimp is lossless on whole elements.  A tail it dropped and a word size  *)
(* it was not encoded with come back as an error and never as other data.   *)
ChimpNeverLies ==
  entries = {} => \A written, asked \in DType :
    LET back == ChimpDecompress(ChimpCompress(data, written), Len(data), asked)
    IN  IF \/ data = <<>>
           \/ ChimpSize(written) = ChimpSize(asked) /\ Len(data) % ChimpSize(asked) = 0
        THEN back = data
        ELSE back = Error
=============================================================================
