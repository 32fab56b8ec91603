---------------------------- MODULE VersionChain ----------------------------
(***************************************************************************)
(* A key's chain of versions and its retention (tpx-version/src/chain.rs).  *)
(* A policy is a tuple: <<"keep_latest">>, <<"keep_last_n", n>> or          *)
(* <<"keep_forever">>.  A chain without versions stands for no chain at     *)
(* all: the code never keeps an empty one.                                  *)
(***************************************************************************)
EXTENDS Integers, Sequences

KeepLatest == <<"keep_latest">>
KeepLastN(n) == <<"keep_last_n", n>>
KeepForever == <<"keep_forever">>

Policies == {KeepLatest, KeepForever} \union ({"keep_last_n"} \X Nat)

VersionType(S) == [id : Nat, hashes : S]

ChainType(S) == [versions : Seq(VersionType(S)), retention : Policies]

NoChain == [versions |-> <<>>, retention |-> KeepLatest]

(* How many of len versions a policy lets stay; n = 0 counts as 1.          *)
Stay(policy, len) ==
  CASE policy = KeepForever       -> len
    [] policy = KeepLatest        -> 1
    [] policy[1] = "keep_last_n"  -> IF policy[2] > 1 THEN policy[2] ELSE 1

(* How versions could go wrong: ids counted from the versions that are left *)
NextVersionIdByLen(chain) == Len(chain.versions)

NextVersionId(chain) ==
  IF chain.versions = <<>> THEN 0
  ELSE chain.versions[Len(chain.versions)].id + 1

Pushed(chain, hashes) ==
  Append(chain.versions, [id |-> NextVersionId(chain), hashes |-> hashes])

(* How many versions at the front the retention drops after a push.         *)
Dropped(chain, hashes) ==
  LET len == Len(chain.versions) + 1
      stay == Stay(chain.retention, len)
  IN  IF len > stay THEN len - stay ELSE 0

ChainAppend(chain, hashes) ==
  [chain EXCEPT !.versions =
     SubSeq(Pushed(chain, hashes), Dropped(chain, hashes) + 1,
            Len(chain.versions) + 1)]

(* The versions ChainAppend drops, whose content hashes the caller releases *)
Evicted(chain, hashes) == SubSeq(Pushed(chain, hashes), 1, Dropped(chain, hashes))

ListVersions(chain) == {chain.versions[i].id : i \in DOMAIN chain.versions}
=============================================================================
