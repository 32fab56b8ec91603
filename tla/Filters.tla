------------------------------- MODULE Filters ------------------------------
(***************************************************************************)
(* The filters in front of the codecs (tpx-filter): byte shuffle, bit       *)
(* shuffle and delta-zigzag over little-endian integers, each with its      *)
(* tail of bytes that make no whole element.  A byte has ByteBits bits and  *)
(* sequences start at 1, so position p of the code is p + 1 here.           *)
(***************************************************************************)
EXTENDS Integers, Sequences, FiniteSetsExt

CONSTANTS ByteBits,     \* 8 in the code
          DType,        \* element types
          ElementSize   \* element_size, in bytes

ASSUME FiltersAssumption == /\ ByteBits \in Nat \ {0}
                            /\ ElementSize \in [DType -> Nat \ {0}]

Byte == 0 .. 2 ^ ByteBits - 1

Floats == {"Float64", "Float32", "Float16", "BFloat16"}

Bit(n, i) == (n \div 2 ^ i) % 2

FromBits(bit) == MapThenSumSet(LAMBDA i : bit[i] * 2 ^ i, DOMAIN bit)

(* How many bytes of data belong to whole elements.                         *)
Whole(data, size) == (Len(data) \div size) * size

-----------------------------------------------------------------------------
(* Byte b of element i goes to plane b, place i.                            *)
Shuffle(data, size) ==
  LET count == Len(data) \div size
  IN  [j \in DOMAIN data |->
         IF j > Whole(data, size) THEN data[j]
         ELSE data[((j - 1) % count) * size + ((j - 1) \div count) + 1]]

Unshuffle(data, size) ==
  LET count == Len(data) \div size
  IN  [j \in DOMAIN data |->
         IF j > Whole(data, size) THEN data[j]
         ELSE data[((j - 1) % size) * count + ((j - 1) \div size) + 1]]

(* Bit plane of byte i goes to bit position plane * Len(data) + i.          *)
BitShuffle(data) ==
  [j \in DOMAIN data |->
     FromBits([b \in 0 .. ByteBits - 1 |->
       LET pos == (j - 1) * ByteBits + b
       IN  Bit(data[(pos % Len(data)) + 1], pos \div Len(data))])]

BitUnshuffle(data) ==
  [j \in DOMAIN data |->
     FromBits([plane \in 0 .. ByteBits - 1 |->
       LET pos == plane * Len(data) + j - 1
       IN  Bit(data[(pos \div ByteBits) + 1], pos % ByteBits)])]

-----------------------------------------------------------------------------
(* Integers of size bytes are taken modulo m = Modulus(size); a negative    *)
(* one is its two's complement.                                             *)
Modulus(size) == 2 ^ (ByteBits * size)

Complement(x, m) == m - 1 - x

(* Element i, counted from 1, of the whole ones.                            *)
Word(data, size, i) ==
  MapThenSumSet(LAMBDA b : data[(i - 1) * size + b + 1] * 2 ^ (ByteBits * b), 0 .. size - 1)

(* words as bytes again, followed by the tail of data.                      *)
WithWords(data, size, words) ==
  [j \in DOMAIN data |->
     IF j > Whole(data, size) THEN data[j]
     ELSE (words[((j - 1) \div size) + 1] \div 2 ^ (ByteBits * ((j - 1) % size)))
            % 2 ^ ByteBits]

(* How the sign could go wrong: the shift by 63 fills with zeros.           *)
ZigZagUnsigned(delta, m) == (2 * delta) % m

(* (delta << 1) ^ (delta >> 63), and back.                                  *)
ZigZag(delta, m) ==
  IF 2 * delta < m THEN 2 * delta ELSE Complement((2 * delta) % m, m)

UnZigZag(z, m) == IF z % 2 = 0 THEN z \div 2 ELSE Complement(z \div 2, m)

DeltaEncode(data, size) ==
  LET m == Modulus(size)
      word(i) == IF i = 0 THEN 0 ELSE Word(data, size, i)
  IN  WithWords(data, size, [i \in 1 .. Len(data) \div size |->
                               ZigZag((word(i) - word(i - 1)) % m, m)])

DeltaDecode(data, size) ==
  LET m     == Modulus(size)
      count == Len(data) \div size
      word[i \in 0 .. count] ==
        IF i = 0 THEN 0 ELSE (word[i - 1] + UnZigZag(Word(data, size, i), m)) % m
  IN  WithWords(data, size, [i \in 1 .. count |-> word[i]])

-----------------------------------------------------------------------------
FilterId == {"None", "ByteShuffle", "BitShuffle", "DeltaZigZag"}

Apply(filter, data, dtype) ==
  CASE filter = "ByteShuffle" -> Shuffle(data, ElementSize[dtype])
    [] filter = "BitShuffle"  -> BitShuffle(data)
    [] filter = "DeltaZigZag" /\ dtype \notin Floats -> DeltaEncode(data, ElementSize[dtype])
    [] OTHER -> data

Revert(filter, data, dtype) ==
  CASE filter = "ByteShuffle" -> Unshuffle(data, ElementSize[dtype])
    [] filter = "BitShuffle"  -> BitUnshuffle(data)
    [] filter = "DeltaZigZag" /\ dtype \notin Floats -> DeltaDecode(data, ElementSize[dtype])
    [] OTHER -> data
=============================================================================
