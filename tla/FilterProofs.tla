----------------------------- MODULE FilterProofs ---------------------------
(***************************************************************************)
(* Shuffle and zigzag are inverted, for every content, element size and     *)
(* modulus.  (The bit shuffle and the delta words are sums over sets, whose *)
(* library facts the provers cannot use: those stay with the runs.)         *)
(***************************************************************************)
EXTENDS Filters, TLAPS

LEMMA DivMod ==
  ASSUME NEW c \in Nat \ {0}, NEW a \in Nat, NEW b \in 0 .. c - 1
  PROVE  (a * c + b) \div c = a /\ (a * c + b) % c = b
OBVIOUS

LEMMA ModIsRest ==
  ASSUME NEW x \in Nat, NEW c \in Nat \ {0}
  PROVE  /\ x % c = x - c * (x \div c)
         /\ x % c \in 0 .. c - 1 /\ x \div c \in Nat
<1>1. x % c = x - c * (x \div c)
  OBVIOUS
<1>2. x % c \in 0 .. c - 1
  OBVIOUS
<1>3. x \div c \in Int /\ x \div c >= 0
  OBVIOUS
<1> QED BY <1>1, <1>2, <1>3

LEMMA Larger ==
  ASSUME NEW c \in Nat \ {0}, NEW a \in Nat, NEW q \in Nat, q > a
  PROVE  c * q >= c * a + c
<1> DEFINE d == q - a - 1
<1>1. d \in Nat /\ q = a + 1 + d
  OBVIOUS
<1>2. c * q = c * a + c + c * d /\ c * d >= 0
  BY <1>1
<1> HIDE DEF d
<1> QED BY <1>1, <1>2

(* A position among rows * size cells, by row and column.                   *)
LEMMA RowAndColumn ==
  ASSUME NEW rows \in Nat, NEW size \in Nat \ {0}, NEW x \in 0 .. rows * size - 1
  PROVE  /\ x = (x \div size) * size + (x % size)
         /\ x \div size \in 0 .. rows - 1 /\ x % size \in 0 .. size - 1
<1>1. x \in Nat
  OBVIOUS
<1>2. /\ x % size = x - size * (x \div size)
      /\ x % size \in 0 .. size - 1 /\ x \div size \in Nat
  BY <1>1, ModIsRest
<1> DEFINE q == x \div size
           r == x % size
<1> HIDE DEF q, r
<1>3. r = x - size * q /\ r \in 0 .. size - 1 /\ q \in Nat
  BY <1>2 DEF q, r
<1>4. q < rows
  <2> SUFFICES ASSUME q >= rows PROVE FALSE
    BY <1>3
  <2>1. size * q >= size * rows
    <3>1. CASE q = rows
      BY <3>1
    <3>2. CASE q > rows
      BY <1>3, <3>2, Larger
    <3> QED BY <1>3, <3>1, <3>2
  <2> QED BY <1>3, <2>1
<1>5. x = q * size + r
  BY <1>3
<1> QED BY <1>3, <1>4, <1>5 DEF q, r

LEMMA PlaceInside ==
  ASSUME NEW rows \in Nat, NEW size \in Nat, NEW i \in 0 .. rows - 1, NEW b \in 0 .. size - 1
  PROVE  i * size + b \in 0 .. rows * size - 1
<1>1. i * size >= 0
  OBVIOUS
<1>2. CASE i + 1 = rows
  <2>1. rows * size = i * size + size
    BY <1>2
  <2> QED BY <1>1, <2>1
<1>3. CASE i + 1 < rows
  <2>1. size * rows >= size * (i + 1) + size
    BY <1>3, Larger
  <2> QED BY <1>1, <2>1
<1> QED BY <1>2, <1>3

(* Where a byte goes: within the whole elements of data, or it stays.       *)
LEMMA WholeFits ==
  ASSUME NEW S, NEW data \in Seq(S), NEW size \in Nat \ {0}
  PROVE  Whole(data, size) \in 0 .. Len(data) /\ Len(data) \div size \in Nat
<1>1. Len(data) \in Nat
  OBVIOUS
<1>2. /\ Len(data) % size = Len(data) - size * (Len(data) \div size)
      /\ Len(data) % size \in 0 .. size - 1 /\ Len(data) \div size \in Nat
  BY <1>1, ModIsRest
<1> QED BY <1>1, <1>2 DEF Whole

LEMMA ShuffleMoves ==
  ASSUME NEW S, NEW data \in Seq(S), NEW size \in Nat \ {0}
  PROVE  /\ Shuffle(data, size) \in Seq(S)
         /\ Len(Shuffle(data, size)) = Len(data)
<1> DEFINE count == Len(data) \div size
<1>1. /\ Len(data) \in Nat /\ DOMAIN data = 1 .. Len(data)
      /\ Whole(data, size) \in 0 .. Len(data) /\ count \in Nat
      /\ Whole(data, size) = count * size
  <2>1. Whole(data, size) = count * size
    BY DEF Whole
  <2>2. Len(data) \in Nat /\ DOMAIN data = 1 .. Len(data)
    OBVIOUS
  <2> QED BY <2>1, <2>2, WholeFits
<1> HIDE DEF count
<1>2. ASSUME NEW j \in 1 .. Len(data), ~(j > Whole(data, size))
      PROVE  ((j - 1) % count) * size + ((j - 1) \div count) + 1 \in 1 .. Len(data)
  <2>1. count # 0 /\ j - 1 \in 0 .. size * count - 1
    BY <1>1, <1>2
  <2>2. (j - 1) \div count \in 0 .. size - 1 /\ (j - 1) % count \in 0 .. count - 1
    BY <1>1, <2>1, RowAndColumn
  <2>3. ((j - 1) % count) * size + ((j - 1) \div count) \in 0 .. count * size - 1
    BY <1>1, <2>2, PlaceInside
  <2> QED BY <1>1, <2>3
<1>3. Shuffle(data, size) \in [1 .. Len(data) -> S]
  <2> DEFINE from(j) == ((j - 1) % count) * size + ((j - 1) \div count) + 1
  <2>1. Shuffle(data, size) =
          [j \in 1 .. Len(data) |-> IF j > Whole(data, size) THEN data[j] ELSE data[from(j)]]
    BY <1>1 DEF Shuffle, count
  <2>2. ASSUME NEW j \in 1 .. Len(data), ~(j > Whole(data, size))
        PROVE  from(j) \in 1 .. Len(data)
    BY <1>2, <2>2
  <2> HIDE DEF from
  <2>3. \A i \in 1 .. Len(data) : data[i] \in S
    OBVIOUS
  <2> QED BY <2>1, <2>2, <2>3
<1> QED BY <1>1, <1>3

(* Unshuffle undoes Shuffle, whatever the length of the data and of its     *)
(* elements: no byte is lost, and the tail that makes no whole element      *)
(* stays where it is (byte_shuffle.rs).                                     *)
THEOREM ShuffleReverts ==
  ASSUME NEW S, NEW data \in Seq(S), NEW size \in Nat \ {0}
  PROVE  Unshuffle(Shuffle(data, size), size) = data
<1> DEFINE moved == Shuffle(data, size)
           count == Len(data) \div size
<1>1. /\ Len(data) \in Nat /\ DOMAIN data = 1 .. Len(data)
      /\ Whole(data, size) \in 0 .. Len(data) /\ count \in Nat
      /\ Whole(data, size) = count * size
  <2>1. Whole(data, size) = count * size
    BY DEF Whole
  <2>2. Len(data) \in Nat /\ DOMAIN data = 1 .. Len(data)
    OBVIOUS
  <2> QED BY <2>1, <2>2, WholeFits
<1>2. /\ moved \in Seq(S) /\ Len(moved) = Len(data) /\ DOMAIN moved = 1 .. Len(data)
      /\ Whole(moved, size) = Whole(data, size) /\ Len(moved) \div size = count
  BY ShuffleMoves DEF Whole
<1>3. \A j \in 1 .. Len(data) :
        moved[j] = IF j > Whole(data, size) THEN data[j]
                   ELSE data[((j - 1) % count) * size + ((j - 1) \div count) + 1]
  BY <1>1 DEF Shuffle
<1> HIDE DEF moved, count
<1>4. ASSUME NEW j \in 1 .. Len(data)
      PROVE  Unshuffle(moved, size)[j] = data[j]
  <2>1. CASE j > Whole(data, size)
    BY <1>1, <1>2, <1>3, <2>1 DEF Unshuffle
  <2>2. CASE ~(j > Whole(data, size))
    <3> DEFINE a == (j - 1) % size
               b == (j - 1) \div size
               k == a * count + b + 1
    <3>1. j - 1 \in 0 .. count * size - 1
      BY <1>1, <2>2
    <3>2. j - 1 = b * size + a /\ b \in 0 .. count - 1 /\ a \in 0 .. size - 1
      BY <1>1, <3>1, RowAndColumn
    <3>3. Unshuffle(moved, size)[j] = moved[k]
      BY <1>1, <1>2, <2>2 DEF Unshuffle
    <3> HIDE DEF a, b
    <3>4. k - 1 \in 0 .. size * count - 1 /\ count \in Nat \ {0}
      BY <1>1, <3>2, PlaceInside
    <3>5. (k - 1) % count = b /\ (k - 1) \div count = a
      BY <3>2, <3>4, DivMod
    <3>6. k \in Int
      BY <1>1, <3>2
    <3> HIDE DEF k
    <3>7. k \in 1 .. Len(data) /\ ~(k > Whole(data, size))
      <4>1. size * count = count * size /\ count * size \in Nat
        BY <1>1
      <4> HIDE DEF a
      <4> QED BY <1>1, <3>4, <3>6, <4>1
    <3>8. moved[k] = data[b * size + a + 1]
      BY <1>3, <3>5, <3>7
    <3>9. b * size + a + 1 = j
      BY <1>1, <3>2
    <3> QED BY <3>3, <3>8, <3>9
  <2> QED BY <2>1, <2>2
<1>5. Unshuffle(moved, size) = [j \in 1 .. Len(data) |-> Unshuffle(moved, size)[j]]
  BY <1>2 DEF Unshuffle
<1>6. data = [j \in 1 .. Len(data) |-> data[j]]
  BY <1>1
<1> QED BY <1>4, <1>5, <1>6 DEF moved

(* The zigzag of every difference comes back, where doubling it overflows   *)
(* as well: integers are taken modulo an even number (delta_zigzag.rs).     *)
THEOREM ZigZagReverts ==
  ASSUME NEW h \in Nat \ {0}, NEW d \in 0 .. 2 * h - 1
  PROVE  UnZigZag(ZigZag(d, 2 * h), 2 * h) = d
<1>1. CASE 2 * d < 2 * h
  BY <1>1 DEF ZigZag, UnZigZag
<1>2. CASE 2 * d >= 2 * h
  <2>1. (2 * d) % (2 * h) = 2 * d - 2 * h
    BY <1>2
  <2> QED BY <1>2, <2>1 DEF ZigZag, UnZigZag, Complement
<1> QED BY <1>1, <1>2
=============================================================================
