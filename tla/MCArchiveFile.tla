---------------------------- MODULE MCArchiveFile ---------------------------
EXTENDS ArchiveFile

(* A payload that leaves room in its page, and one that fills it and ends   *)
(* as a footer would.                                                       *)
MCPayloads == << <<1>>, <<1, 1, 1, 1, 1, 1, 0, 0, MagicEndCheckpoint>> >>

(* A reader whose conditions do not hold is not followed any further.       *)
JudgedReaders == reader.fair

MCKeys == {<<0>>}

Text(n) == [i \in 1 .. n |-> i % 2]

(* Keys, shapes, attributes and references at their limits and one beyond,  *)
(* names that a cut at the limit splits inside a character, and a value     *)
(* that is too large beside one that is not.                                *)
KeySamples == {Text(n) : n \in {0, 1, U16 - 1, U16}} \union {<<0, Lead, Cont>>}
ShapeSamples == {[i \in 1 .. n |-> i] : n \in {0, 1, U8 - 1, U8}}
RefSamples == {[i \in 1 .. n |-> <<i, 10 * i, i>>] : n \in {0, 1, U16 - 1, U16}}

ValueSamples == {[type |-> StringId, data |-> <<Lead, Cont>>], [type |-> StringId, data |-> <<>>],
                 [type |-> 1, data |-> Text(Word)], [type |-> 2, data |-> Text(Word)],
                 [type |-> BoolId, data |-> <<1>>], [type |-> 4, data |-> <<Cont, Cont>>],
                 [type |-> 4, data |-> Text(MaxValue)], [type |-> 4, data |-> Text(MaxValue + 1)]}
NameSamples == {<<>>, <<0>>, <<1, Lead, Cont>>, <<0, 1, Lead, Cont>>, <<0, 1, 0, 1>>}

AttrSamples == {[n \in {name} |-> v] : name \in NameSamples, v \in ValueSamples}
                 \union {[n \in names |-> [type |-> BoolId, data |-> <<0>>]] :
                           names \in SUBSET {<<0>>, <<1, Lead, Cont>>, <<0, 1, Lead, Cont>>}}
                 \union {[n \in {<<0>>, <<1>>} |->
                            [type |-> 4, data |-> Text(IF n = <<0>> THEN MaxValue + 1 ELSE 1)]]}

Entry(k, d, s, a, r, dead) == [NewEntry(k, d, s, a, r) EXCEPT !.tombstone = dead]

EntrySamples ==
  {Entry(k, 12, s, NoAttrs, r, 0) : k \in KeySamples, s \in ShapeSamples, r \in RefSamples}
    \union {Entry(k, 0, <<2>>, a, <<>>, 1) : k \in KeySamples, a \in AttrSamples}

MCSamples == {<<>>} \union {<<e>> : e \in EntrySamples}
               \union {<<e, Entry(<<1>>, 4, <<3>>, NoAttrs, <<<<1, 2, 3>>>>, 1)>> : e \in EntrySamples}
=============================================================================
