--------------------------- MODULE MCShardedEngine --------------------------
EXTENDS ShardedEngine, TLC

CONSTANTS t1, t2, k1, k2, a, b

(* One chunk, and two of which one is shared                                *)
MCTwoValues == {<<a>>, <<b, a>>}
MCOneValue == {<<a>>}
MCOneChunk == {<<a>>, <<b>>}

(* Where no value tells the two hashes apart, nothing else does.             *)
SymmetricHashes == Permutations({a, b})

MCLatest == {KeepLatest}
MCLastTwo == {KeepLatest, KeepLastN(2)}

(* Which calls the threads make.                                            *)
OneThread == (t1 :> {"put", "delete", "checkpoint", "flush", "close"})
TwoWriters == (t1 :> {"put", "flush"} @@ t2 :> {"put", "delete", "get"})
WriterAndFlusher == (t1 :> {"put"} @@ t2 :> {"flush"})
=============================================================================
