------------------------------ MODULE Chimp128 ------------------------------
(***************************************************************************)
(* The Chimp128 float codec (tpx-codec/src/chimp128.rs): each word is       *)
(* written as its difference from the word before, or from one of the last  *)
(* HistorySize words, with its leading and trailing zeros cut off.  A word  *)
(* and the output are sequences of bits, highest bit first.  Encoder and    *)
(* decoder keep the same fields; what one writes with write_bits the other  *)
(* reads with read_bits, and the byte boundaries of the output do not show. *)
(***************************************************************************)
EXTENDS Integers, Sequences, SequencesExt

CONSTANTS WordBits,     \* 64 in the code
          ZerosBits,    \* 6: what a number of zeros is written in
          HistorySize,  \* 128
          IndexBits     \* 7: what a place in the history is written in

ASSUME ChimpAssumption ==
  /\ WordBits \in Nat \ {0} /\ WordBits = 2 ^ ZerosBits
  /\ HistorySize \in Nat \ {0} /\ HistorySize = 2 ^ IndexBits

Zero == [i \in 1 .. WordBits |-> 0]
NoZeros == <<255, 255>>
History == 0 .. HistorySize - 1

(* first stands for count = 0 and slot for history_idx % 128.               *)
FreshCoder == [first |-> TRUE, prev |-> Zero, history |-> [i \in History |-> Zero],
               slot |-> 0, zeros |-> NoZeros]

Xor(v, w) == [i \in 1 .. WordBits |-> (v[i] + w[i]) % 2]

Ones(w) == {i \in 1 .. WordBits : w[i] = 1}
LeadingZeros(w) == IF w = Zero THEN WordBits ELSE Min(Ones(w)) - 1
TrailingZeros(w) == IF w = Zero THEN WordBits ELSE WordBits - Max(Ones(w))

Significant(zeros) == Max({1, WordBits - zeros[1] - zeros[2]})

BitsOf(n, width) == [i \in 1 .. width |-> (n \div 2 ^ (width - i)) % 2]
NumberOf(bits) == FoldLeft(LAMBDA n, bit : 2 * n + bit, 0, bits)

(* Behind the end read_bit delivers zeros.                                  *)
Read(bits, from, width) ==
  [i \in 1 .. width |-> IF from + i \in DOMAIN bits THEN bits[from + i] ELSE 0]

Next128(coder, word, zeros) ==
  [first   |-> FALSE, prev |-> word,
   history |-> [coder.history EXCEPT ![IF coder.first THEN 0 ELSE coder.slot] = word],
   slot    |-> (IF coder.first THEN 1 ELSE coder.slot + 1) % HistorySize,
   zeros   |-> zeros]

-----------------------------------------------------------------------------
(* The bounds of a difference: encode_xor_payload clamps them to 6 bits.    *)
ZerosOf(xor) == IF xor = Zero THEN <<WordBits - 1, 0>>
                ELSE <<LeadingZeros(xor), TrailingZeros(xor)>>

(* How the bounds could go wrong: the same leading zeros count as the same  *)
(* bounds.                                                                  *)
PayloadByLeading(coder, xor) ==
  LET zeros == ZerosOf(xor)
      significant == SubSeq(xor, zeros[1] + 1, zeros[1] + Significant(zeros))
  IN  IF zeros[1] = coder.zeros[1] THEN <<0>> \o significant
      ELSE <<1>> \o BitsOf(zeros[1], ZerosBits) \o BitsOf(zeros[2], ZerosBits)
             \o significant

Payload(coder, xor) ==
  LET zeros == ZerosOf(xor)
      significant == SubSeq(xor, zeros[1] + 1, zeros[1] + Significant(zeros))
  IN  IF zeros = coder.zeros THEN <<0>> \o significant
      ELSE <<1>> \o BitsOf(zeros[1], ZerosBits) \o BitsOf(zeros[2], ZerosBits)
             \o significant

(* The places in the history whose word shares more leading bits than the   *)
(* previous word does; the code takes the first of the best.                *)
Better(coder, word) ==
  {i \in History : LeadingZeros(Xor(word, coder.history[i]))
                     > LeadingZeros(Xor(word, coder.prev))}

Best(coder, word) ==
  LET lead(i) == LeadingZeros(Xor(word, coder.history[i]))
  IN  Min({i \in Better(coder, word) : \A j \in History : lead(i) >= lead(j)})

(* One call of the encoder: the bits it writes and its next state.          *)
Encoded(coder, word) ==
  LET xor   == Xor(word, coder.prev)
      known == Better(coder, word) # {}
      base  == IF known THEN Xor(word, coder.history[Best(coder, word)]) ELSE xor
  IN  CASE coder.first ->
             [bits |-> word, coder |-> Next128(coder, word, coder.zeros)]
        [] ~coder.first /\ xor = Zero ->
             [bits |-> <<0, 0>>, coder |-> Next128(coder, word, coder.zeros)]
        [] OTHER ->
             [bits  |-> (IF known THEN <<0, 1>> \o BitsOf(Best(coder, word), IndexBits)
                         ELSE <<1>>) \o Payload(coder, base),
              coder |-> Next128(coder, word, ZerosOf(base))]

-----------------------------------------------------------------------------
(* meaningful << zeros[2], in a word.                                       *)
Shifted(meaningful, trailing) ==
  [i \in 1 .. WordBits |->
     LET j == i - (WordBits - trailing - Len(meaningful))
     IN  IF j \in DOMAIN meaningful THEN meaningful[j] ELSE 0]

(* A difference read behind from bits: its value, its bounds, its end.      *)
ReadPayload(coder, bits, from) ==
  LET new   == Read(bits, from, 1) = <<1>>
      start == IF new THEN from + 1 + 2 * ZerosBits ELSE from + 1
      zeros == IF new THEN <<NumberOf(Read(bits, from + 1, ZerosBits)),
                             NumberOf(Read(bits, from + 1 + ZerosBits, ZerosBits))>>
               ELSE coder.zeros
  IN  [xor   |-> Shifted(Read(bits, start, Significant(zeros)), zeros[2]),
       zeros |-> zeros,
       end   |-> start + Significant(zeros)]

(* One call of the decoder, behind from bits: the word, its end, and the    *)
(* next state.                                                              *)
Decoded(coder, bits, from) ==
  LET isNear == Read(bits, from, 1) = <<1>>
      isSame == Read(bits, from, 2) = <<0, 0>>
      index  == NumberOf(Read(bits, from + 2, IndexBits))
      read   == ReadPayload(coder, bits, IF isNear THEN from + 1 ELSE from + 2 + IndexBits)
      base   == IF isNear THEN coder.prev ELSE coder.history[index % HistorySize]
      done(word, end, zeros) ==
        [word |-> word, end |-> end, coder |-> Next128(coder, word, zeros)]
  IN  CASE coder.first -> done(Read(bits, from, WordBits), from + WordBits, coder.zeros)
        [] ~coder.first /\ isSame -> done(coder.prev, from + 2, coder.zeros)
        [] OTHER -> done(Xor(base, read.xor), read.end, read.zeros)

-----------------------------------------------------------------------------
(* All words through one encoder, and count words through one decoder.      *)
EncodeAll(words) ==
  FoldLeft(LAMBDA out, word : LET e == Encoded(out.coder, word)
                              IN  [bits |-> out.bits \o e.bits, coder |-> e.coder],
           [bits |-> <<>>, coder |-> FreshCoder], words).bits

DecodeAll(bits, count) ==
  FoldLeft(LAMBDA out, i : LET d == Decoded(out.coder, bits, out.end)
                           IN  [words |-> Append(out.words, d.word),
                                coder |-> d.coder, end |-> d.end],
           [words |-> <<>>, coder |-> FreshCoder, end |-> 0],
           [i \in 1 .. count |-> i]).words
=============================================================================
