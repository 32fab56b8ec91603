------------------------ MODULE MCEngineMaintenance -------------------------
EXTENDS EngineMaintenance, TLC

CONSTANTS t1, k1, k2, a, b

Tensor(k, v) == [key |-> k, value |-> v]

(* No data, a chunk twice, and a chunk shared with another value             *)
MCValues == {<<>>, <<a, a>>, <<b, a>>}

(* Two keys that share a chunk, and one key more than once                  *)
MCBatches == {<<Tensor(k1, <<b, a>>), Tensor(k2, <<a, a>>)>>,
              <<Tensor(k1, <<a, a>>), Tensor(k1, <<>>), Tensor(k1, <<b, a>>)>>}

MCLatest == {KeepLatest}
MCAllPolicies == {KeepLatest, KeepLastN(0), KeepLastN(2), KeepForever}

MCOps == (t1 :> {"put", "delete", "flush", "close"})
MCBulkOps == (t1 :> {"put_batch", "compact"})
=============================================================================
