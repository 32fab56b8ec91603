------------------------------ MODULE RadixTree -----------------------------
(***************************************************************************)
(* The adaptive radix tree (tpx-index/src/art.rs).  A key is a sequence of  *)
(* bytes.  Inner nodes grow with their number of children: Node4 and Node16 *)
(* keep parallel arrays, Node48 an index from bytes to slots, Node256 one   *)
(* child per byte; none of them shrinks.  Arrays are sequences of their     *)
(* num_children used elements, and the capacities are constants.  Every     *)
(* call holds the lock of the root from its beginning to its end.           *)
(***************************************************************************)
EXTENDS Integers, SequencesExt

CONSTANTS Key, Absent,
          Inserts,              \* the pairs insert is called with
          Byte,                 \* 0 .. 255 in the code
          Node4, Node16, Node48, \* the capacities; 4, 16, 48 in the code
          Nil,                  \* no node, no value
          Panic                 \* the outcome of unwrap on an empty slot

ASSUME CapacityAssumption ==
  /\ Byte \subseteq Int
  /\ 2 <= Node4 /\ Node4 < Node16 /\ Node16 < Node48

VARIABLES root,
          call,                 \* the last call: what it inserted, or a key alone
          ret                   \* what it returned

vars == <<root, call, ret>>

Leaf(key, value) == [kind |-> "leaf", key |-> key, value |-> value]

Pair(key, value) == [key |-> key, value |-> value]

\* Node4 and Node16 differ in their capacity only.
Small(kind, keys, children, val) ==
  [kind |-> kind, keys |-> keys, children |-> children, val |-> val]

NoSlot == -1

HasByte(key, depth) == depth < Len(key)
ByteAt(key, depth) == key[depth + 1]

IsSmall(node) == node.kind \in {"node4", "node16"}

Capacity(node) == IF node.kind = "node4" THEN Node4 ELSE Node16

PositionOf(keys, b) == CHOOSE i \in DOMAIN keys : keys[i] = b

-----------------------------------------------------------------------------
(* Whether a node has an entry for a byte, and the child that it leads to.  *)
Leads(node, b) ==
  CASE IsSmall(node)          -> b \in ToSet(node.keys)
    [] node.kind = "node48"   -> node.index[b] # NoSlot
    [] node.kind = "node256"  -> node.children[b] # Nil

ChildAt(node, b) ==
  CASE ~Leads(node, b)        -> Nil
    [] IsSmall(node)          -> node.children[PositionOf(node.keys, b)]
    [] node.kind = "node48"   -> node.children[node.index[b]]
    [] node.kind = "node256"  -> node.children[b]

WithChild(node, b, child) ==
  CASE IsSmall(node)          -> [node EXCEPT !.children[PositionOf(node.keys, b)] = child]
    [] node.kind = "node48"   -> [node EXCEPT !.children[node.index[b]] = child]
    [] node.kind = "node256"  -> [node EXCEPT !.children[b] = child]

(* The children in the order collect_all visits them.                       *)
ChildrenOf(node) ==
  IF IsSmall(node) THEN node.children
  ELSE LET bytes == {b \in Byte : ChildAt(node, b) # Nil}
       IN  [i \in 1 .. Cardinality(bytes) |-> ChildAt(node, SetToSortSeq(bytes, <)[i])]

-----------------------------------------------------------------------------
(* A new leaf under a byte that leads nowhere yet, growing a full node.     *)
GrownTo16(node, b, leaf) ==
  Small("node16", Append(node.keys, b), Append(node.children, leaf), node.val)

GrownTo48(node, b, leaf) ==
  [kind     |-> "node48",
   index    |-> [x \in Byte |-> IF x = b THEN Node16
                                ELSE IF Leads(node, x) THEN PositionOf(node.keys, x) - 1
                                ELSE NoSlot],
   children |-> [s \in 0 .. Node48 - 1 |-> IF s < Node16 THEN node.children[s + 1]
                                           ELSE IF s = Node16 THEN leaf ELSE Nil],
   count    |-> Node16 + 1,
   val      |-> node.val]

(* Each slot's child moves to the first byte that leads to the slot.        *)
GrownTo256(node, b, leaf) ==
  [kind     |-> "node256",
   children |-> [x \in Byte |->
                   IF x = b THEN leaf
                   ELSE IF \E y \in Byte : y < x /\ node.index[y] = node.index[x] THEN Nil
                   ELSE ChildAt(node, x)],
   val      |-> node.val]

(* How growing could go wrong: a full node takes one more child ...         *)
WithLeafOverfull(node, b, leaf) ==
  CASE IsSmall(node) /\ Len(node.keys) <= Capacity(node) ->
         Small(node.kind, Append(node.keys, b), Append(node.children, leaf), node.val)
    [] node.kind = "node4"  -> GrownTo16(node, b, leaf)
    [] node.kind = "node16" -> GrownTo48(node, b, leaf)
    [] node.kind = "node48" ->
         IF node.count < Node48
         THEN [node EXCEPT !.index[b] = node.count, !.children[node.count] = leaf,
                           !.count = @ + 1]
         ELSE GrownTo256(node, b, leaf)
    [] node.kind = "node256" -> [node EXCEPT !.children[b] = leaf]

(* Node48 takes num_children for the first free slot.                       *)
WithLeaf(node, b, leaf) ==
  CASE IsSmall(node) /\ Len(node.keys) < Capacity(node) ->
         Small(node.kind, Append(node.keys, b), Append(node.children, leaf), node.val)
    [] node.kind = "node4" /\ Len(node.keys) = Node4 -> GrownTo16(node, b, leaf)
    [] node.kind = "node16" /\ Len(node.keys) = Node16 -> GrownTo48(node, b, leaf)
    [] node.kind = "node48" /\ node.count < Node48 ->
         [node EXCEPT !.index[b] = node.count, !.children[node.count] = leaf,
                      !.count = @ + 1]
    [] node.kind = "node48" /\ node.count = Node48 -> GrownTo256(node, b, leaf)
    [] node.kind = "node256" -> [node EXCEPT !.children[b] = leaf]

-----------------------------------------------------------------------------
ValueIn(val) == IF val = Nil THEN Absent ELSE val.value

Result(node, old) == [node |-> node, old |-> old]

(* How replacing a node's own value could go wrong: the first one stays.    *)
WithFirstValue(node, key, value) ==
  [node EXCEPT !.val = IF @ = Nil THEN Pair(key, value) ELSE @]

WithValue(node, key, value) == [node EXCEPT !.val = Pair(key, value)]

RECURSIVE InsertRec(_, _, _, _)

(* A leaf with another key becomes a chain of nodes down to the first byte  *)
(* in which the keys differ; a key that ends there stays in the node (the   *)
(* new one, should both end there).                                         *)
SplitLeaf(leaf, key, value, depth) ==
  LET new   == Leaf(key, value)
      under == SelectSeq(<<leaf, new>>, LAMBDA l : HasByte(l.key, depth))
      bytes == [i \in DOMAIN under |-> ByteAt(under[i].key, depth)]
  IN  IF Len(bytes) = 2 /\ bytes[1] = bytes[2]
      THEN Small("node4", <<bytes[1]>>,
                 <<InsertRec(leaf, key, value, depth + 1).node>>, Nil)
      ELSE Small("node4", bytes, under,
                 IF ~HasByte(key, depth) THEN Pair(key, value)
                 ELSE IF ~HasByte(leaf.key, depth) THEN Pair(leaf.key, leaf.value)
                 ELSE Nil)

InsertRec(node, key, value, depth) ==
  CASE node = Nil -> Result(node, Panic)
    [] node # Nil /\ node.kind = "leaf" ->
         IF node.key = key THEN Result(Leaf(key, value), node.value)
         ELSE Result(SplitLeaf(node, key, value, depth), Absent)
    [] node # Nil /\ node.kind # "leaf" /\ ~HasByte(key, depth) ->
         Result(WithValue(node, key, value), ValueIn(node.val))
    [] node # Nil /\ node.kind # "leaf" /\ HasByte(key, depth) ->
         LET b == ByteAt(key, depth)
             r == InsertRec(ChildAt(node, b), key, value, depth + 1)
         IN  IF Leads(node, b) THEN Result(WithChild(node, b, r.node), r.old)
             ELSE Result(WithLeaf(node, b, Leaf(key, value)), Absent)

-----------------------------------------------------------------------------
(* How removing could go wrong: the last child goes instead of the right    *)
(* one.                                                                     *)
WithoutLastChild(node, b) ==
  CASE IsSmall(node) -> [node EXCEPT !.keys = RemoveAt(@, PositionOf(@, b)),
                                     !.children = SubSeq(@, 1, Len(@) - 1)]
    [] node.kind = "node48" -> [node EXCEPT !.children[node.index[b]] = Nil,
                                            !.index[b] = NoSlot, !.count = @ - 1]
    [] node.kind = "node256" -> [node EXCEPT !.children[b] = Nil]

(* The leaf a byte leads to is taken out.  Arrays close the gap; the slot   *)
(* of a Node48 stays empty where it is.                                     *)
WithoutChild(node, b) ==
  CASE IsSmall(node) -> [node EXCEPT !.keys = RemoveAt(@, PositionOf(node.keys, b)),
                                     !.children = RemoveAt(@, PositionOf(node.keys, b))]
    [] node.kind = "node48" -> [node EXCEPT !.children[node.index[b]] = Nil,
                                            !.index[b] = NoSlot, !.count = @ - 1]
    [] node.kind = "node256" -> [node EXCEPT !.children[b] = Nil]

IsLeafOf(node, key) == node # Nil /\ node.kind = "leaf" /\ node.key = key

RECURSIVE RemoveRec(_, _, _)

(* A leaf is removed by the node above it.                                  *)
RemoveRec(node, key, depth) ==
  CASE node = Nil -> Result(node, Absent)
    [] node # Nil /\ node.kind = "leaf" ->
         Result(node, IF node.key = key THEN node.value ELSE Absent)
    [] node # Nil /\ node.kind # "leaf" /\ ~HasByte(key, depth) ->
         Result([node EXCEPT !.val = Nil], ValueIn(node.val))
    [] node # Nil /\ node.kind # "leaf" /\ HasByte(key, depth) ->
         LET b     == ByteAt(key, depth)
             child == ChildAt(node, b)
             r     == RemoveRec(child, key, depth + 1)
         IN  CASE child = Nil          -> Result(node, Absent)
               [] IsLeafOf(child, key) -> Result(WithoutChild(node, b), child.value)
               [] OTHER                -> Result(WithChild(node, b, r.node), r.old)

-----------------------------------------------------------------------------
RECURSIVE GetRec(_, _, _)
GetRec(node, key, depth) ==
  CASE node = Nil -> Absent
    [] node # Nil /\ node.kind = "leaf" -> IF node.key = key THEN node.value ELSE Absent
    [] node # Nil /\ node.kind # "leaf" ->
         IF HasByte(key, depth) THEN GetRec(ChildAt(node, ByteAt(key, depth)), key, depth + 1)
         ELSE ValueIn(node.val)

(* What a node holds by itself: a leaf its pair, another node its val.      *)
OwnPairs(node) ==
  IF node.kind = "leaf" THEN <<Pair(node.key, node.value)>>
  ELSE IF node.val = Nil THEN <<>> ELSE <<node.val>>

RECURSIVE CollectAll(_)
CollectAll(node) ==
  OwnPairs(node) \o
  (IF node.kind = "leaf" THEN <<>>
   ELSE FlattenSeq([i \in DOMAIN ChildrenOf(node) |-> CollectAll(ChildrenOf(node)[i])]))

(* How a scan could go wrong: it passes over the keys that end on the way.  *)
RECURSIVE CollectChildrenOnly(_)
CollectChildrenOnly(node) ==
  IF node.kind = "leaf" THEN <<Pair(node.key, node.value)>>
  ELSE FlattenSeq([i \in DOMAIN ChildrenOf(node) |->
                     CollectChildrenOnly(ChildrenOf(node)[i])])

Collected(node) == CollectAll(node)

RECURSIVE CollectPrefix(_, _, _)
CollectPrefix(node, prefix, depth) ==
  IF depth >= Len(prefix) THEN Collected(node)
  ELSE SelectSeq(OwnPairs(node), LAMBDA p : IsPrefix(prefix, p.key)) \o
       (IF node.kind = "leaf" \/ ChildAt(node, prefix[depth + 1]) = Nil THEN <<>>
        ELSE CollectPrefix(ChildAt(node, prefix[depth + 1]), prefix, depth + 1))

GetPrefix(prefix) == IF root = Nil THEN <<>> ELSE CollectPrefix(root, prefix, 0)

-----------------------------------------------------------------------------
Init == /\ root = Nil
        /\ call = Absent
        /\ ret = Absent

TreeInsert == \E in \in Inserts :
  LET r == InsertRec(root, in.key, in.value, 0)
  IN  /\ call' = in
      /\ IF root = Nil THEN root' = Leaf(in.key, in.value) /\ ret' = Absent
         ELSE root' = r.node /\ ret' = r.old

TreeRemove == \E k \in Key :
  LET r == RemoveRec(root, k, 0)
  IN  /\ call' = Pair(k, Absent)
      /\ IF IsLeafOf(root, k) THEN root' = Nil /\ ret' = root.value
         ELSE root' = r.node /\ ret' = r.old

Next == TreeInsert \/ TreeRemove

Spec == Init /\ [][Next]_vars

-----------------------------------------------------------------------------
RECURSIVE WellFormed(_)
WellFormed(node) ==
  CASE node.kind = "leaf" -> Pair(node.key, node.value) \in Inserts
    [] IsSmall(node) ->
         /\ Len(node.keys) = Len(node.children)
         /\ Len(node.keys) <= Capacity(node)
         /\ \A i, j \in DOMAIN node.keys : node.keys[i] = node.keys[j] => i = j
         /\ \A i \in DOMAIN node.children : WellFormed(node.children[i])
    [] node.kind = "node48" ->
         /\ node.count = Cardinality({b \in Byte : node.index[b] # NoSlot})
         /\ node.count <= Node48
         /\ \A s \in DOMAIN node.children :
              node.children[s] # Nil => WellFormed(node.children[s])
    [] node.kind = "node256" ->
         \A b \in Byte : node.children[b] # Nil => WellFormed(node.children[b])

TypeOK == /\ root # Nil => WellFormed(root)
          /\ call \in Inserts \union {Pair(k, Absent) : k \in Key} \union {Absent}
          /\ ret \in {in.value : in \in Inserts} \union {Absent, Panic}

AsMap == [k \in Key |-> GetRec(root, k, 0)]

Dict == INSTANCE Dictionary WITH map <- AsMap

(* No Node48 ever lost a child to the reuse of a slot, or is about to: its  *)
(* used slots are the first count ones, each reached by one byte, and every *)
(* key lies under the bytes it begins with.                                 *)
RECURSIVE Intact(_, _)
Intact(node, path) ==
  /\ \A i \in DOMAIN OwnPairs(node) : IsPrefix(path, OwnPairs(node)[i].key)
  /\ node.kind = "node48" =>
       /\ \A s \in DOMAIN node.children : node.children[s] # Nil <=> s < node.count
       /\ \A b, c \in Byte : node.index[b] = node.index[c] /\ Leads(node, b) => b = c
  /\ node.kind # "leaf" =>
       \A b \in Byte : ChildAt(node, b) # Nil => Intact(ChildAt(node, b), Append(path, b))

NoHoles == root # Nil => Intact(root, <<>>)

(* "Supports arbitrary keys including keys that are prefixes of other keys, *)
(* empty keys" (art.rs:5): through every split, growth and removal, a call  *)
(* changes its own key only and returns what was there, as long as it does  *)
(* not meet a Node48 with a hole.                                           *)
StepsAgree == [][NoHoles => Dict!DictNext]_vars

(* get_prefix returns every pair under the prefix, each once, whatever the  *)
(* shapes of the nodes between them.                                        *)
PrefixAgrees ==
  NoHoles =>
    \A k \in Key : \A n \in 0 .. Len(k) :
      LET prefix  == SubSeq(k, 1, n)
          matches == {x \in Key : AsMap[x] # Absent /\ IsPrefix(prefix, x)}
      IN  ToBag(GetPrefix(prefix))
            = SetToBag({Pair(x, AsMap[x]) : x \in matches})

(* The tree is a dictionary, whatever is inserted after a removal: it       *)
(* supports overlapping keys "with zero key collisions" (manual 19.7).      *)
ImplementsDictionary == Dict!DictSpec
=============================================================================
