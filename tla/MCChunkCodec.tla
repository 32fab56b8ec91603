---------------------------- MODULE MCChunkCodec ----------------------------
EXTENDS ChunkCodec

(* All contents of up to MaxLen bytes.                                      *)
CONSTANT MaxLen
MCData == UNION {[1 .. n -> Byte] : n \in 0 .. MaxLen}

(* Half a word, as Float32 is half of Float64.                              *)
MCElementSize == [d \in DType |-> IF d \in {"Float64", "Int64"} THEN 2 ELSE 1]

(* One byte in four ends a chunk, or two bytes together do.                 *)
MCGear == [b \in Byte |-> (b + 1) % 4]
=============================================================================
