---------------------------- MODULE MCMmapBackend ---------------------------
EXTENDS MmapBackend

CONSTANTS t1, t2, x, y, h, z

MCThreads == {t1, t2}
MCCell == {x, y, h, z}
(* Below the limit; filling the buffer from a part-full one; at the limit.  *)
MCPayloads == {<<x>>, <<y, x>>, <<y, y, y>>}
(* Nothing reaches the limit alone: append never writes past the buffer.    *)
MCSmallPayloads == {<<x>>, <<y, x>>}
MCHeaders == {<<h>>}
=============================================================================
