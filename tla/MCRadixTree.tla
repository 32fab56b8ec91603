---------------------------- MODULE MCRadixTree -----------------------------
EXTENDS RadixTree

CONSTANTS v, w

(* Five single bytes, enough for a Node256; below one of them a Node4 whose *)
(* own value and children come and go; and the empty key, which lives in a   *)
(* leaf or in the root of any size: that key and the Node4's change values.  *)
MCByte == 1 .. 5
MCKey == {<<b>> : b \in MCByte} \union {<<>>, <<1, 1>>, <<1, 2>>}
MCInserts == {Pair(k, v) : k \in MCKey} \union {Pair(<<>>, w), Pair(<<1>>, w)}

(* A call reads the tree only, not what the one before it was or returned:  *)
(* states with the same tree have the same steps, and every step is judged. *)
MCView == root
=============================================================================
