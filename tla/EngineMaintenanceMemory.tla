---------------------- MODULE EngineMaintenanceMemory -----------------------
(***************************************************************************)
(* What memory holds beside the table of contents, with batches and         *)
(* compactions, provided one thread alone changes the engine.               *)
(*                                                                          *)
(* First the radix trees: between calls they index exactly the live keys    *)
(* (IndexAgreesSettled).  A batch writes the trees and the chains tensor by *)
(* tensor, and the table of contents at the end, in one extension: until    *)
(* then each of its keys is in the tree under the first chunk of the last   *)
(* tensor that has come to it (ThreadTrees).  A compaction reads the table, *)
(* empties it and leaves the trees alone, so it has to put every key that   *)
(* is in them again: each is among the tensors it has read, or in the put   *)
(* of the next of them (Coming).  TreesInv sets aside the keys that are     *)
(* touched, that is between the trees and the table, and those that are     *)
(* still to come.                                                           *)
(*                                                                          *)
(* Then the version chains: before a first compaction, the chain of a key   *)
(* without deletions numbers its versions as the table counts its entries   *)
(* (VersionsAgreeUndeleted).  They are written before the table as well:    *)
(* what a thread has in the chains and not yet in the table is Ahead, and   *)
(* VersionsInv says that a chain lists the last entries of the table that   *)
(* Ahead makes.                                                             *)
(***************************************************************************)
EXTENDS EngineMaintenanceMap

(* A thread that may change the trees or the table of contents.             *)
Changer(t) == Ops[t] \intersect Changes # {} \/ BulkOps[t] # {}

OneChanger == \A t, u \in Threads : Changer(t) /\ Changer(u) => t = u

(* How many of its tensors a batch has in the trees while it publishes.     *)
InTrees(t) == IF pc[t] = "batch_chain" THEN work[t].done + 1 ELSE work[t].done

(* Tensor i is the last of the first n under its key.                       *)
LastOfKey(items, n, i) == \A j \in 1 .. n : i < j => items[j].key # items[i].key

(* Between the change of the trees and that of the table of contents.       *)
Touching(t, k) ==
  \/ pc[t] \in Changing /\ arg[t].key = k
  \/ pc[t] \in Publishing /\ \E i \in 1 .. InTrees(t) : work[t].items[i].key = k

(* Compactions leave the trees as they are and put every key again.         *)
Coming(t, k) ==
  /\ Compacts(t)
  /\ \/ pc[t] \in Putting /\ arg[t].key = k
     \/ \E i \in 1 .. Len(work[t].items) : work[t].items[i].key = k

(* What the trees hold of the keys of a call that is on its way.            *)
ThreadTrees(t) ==
  /\ pc[t] \in Putting \union Deleting \/ work[t].call # "none" => Changer(t)
  /\ pc[t] \in Deleting => art[arg[t].key] = NotIndexed
  /\ pc[t] \in {"put_chain", "put_toc"} /\ arg[t].refs # <<>>
       => art[arg[t].key] = Head(arg[t].refs)
  /\ pc[t] \in Gathering => work[t].done = 0
  /\ pc[t] = "batch_toc" => work[t].done = Len(work[t].items)
  /\ pc[t] \in Publishing =>
       \A i \in 1 .. InTrees(t) :
         LastOfKey(work[t].items, InTrees(t), i) /\ work[t].items[i].refs # <<>>
           => art[work[t].items[i].key] = Head(work[t].items[i].refs)
  /\ pc[t] \in {"compact_truncate", "compact_forget"} =>
       \A k \in Key : art[k] # NotIndexed => Coming(t, k)

(* What a tree holds of a key and the table does not is on its way; what    *)
(* the table holds is in the tree unless it is being changed.               *)
KeyTrees(k, touched, coming) ==
  /\ art[k] # NotIndexed => Live(toc, k) \/ touched \/ coming
  /\ Live(toc, k) /\ Latest(toc, k).refs # <<>>
       => touched \/ \E i \in DOMAIN Latest(toc, k).refs : art[k] = Latest(toc, k).refs[i]

TreesInv ==
  /\ art = [k \in Key |-> art[k]]
  /\ \A t \in Threads : ThreadTrees(t)
  /\ \A k \in Key : KeyTrees(k, \E t \in Threads : Touching(t, k),
                                \E t \in Threads : Coming(t, k))

(* A step of thread t is no step of the others.                             *)
Apart(t) ==
  \A u \in Threads \ {t} : pc'[u] = pc[u] /\ arg'[u] = arg[u] /\ work'[u] = work[u]

Compacting == {"compact_truncate", "compact_forget"}

-----------------------------------------------------------------------------
(* Where a thread that changes neither trees nor table cannot be.           *)
LEMMA OthersRest ==
  ASSUME OneChanger, Fits, TreesInv, NEW t \in Threads, Changer(t),
         NEW u \in Threads, u # t
  PROVE  /\ pc[u] \notin Putting \union Deleting \union Gathering \union Publishing
                           \union Compacting
         /\ work[u].call = "none"
         /\ \A k : ~Touching(u, k) /\ ~Coming(u, k)
<1>1. pc[u] \notin Putting \union Deleting /\ work[u].call = "none"
  BY DEF OneChanger, TreesInv, ThreadTrees
<1>2. pc[u] \notin Gathering \union Publishing \union Compacting
  BY <1>1 DEF Fits, PlaceFits, Compacting
<1>3. pc[u] \notin Changing
  BY <1>1 DEF Changing, Putting
<1> QED BY <1>1, <1>2, <1>3 DEF Touching, Coming, Compacts

(* What the one thread that changes them knows of a key.                    *)
LEMMA OwnTrees ==
  ASSUME OneChanger, Fits, TreesInv, NEW t \in Threads, Changer(t), NEW k \in Key
  PROVE  KeyTrees(k, Touching(t, k), Coming(t, k))
<1>1. /\ (\E u \in Threads : Touching(u, k)) <=> Touching(t, k)
      /\ (\E u \in Threads : Coming(u, k)) <=> Coming(t, k)
  BY OthersRest
<1>2. KeyTrees(k, \E u \in Threads : Touching(u, k), \E u \in Threads : Coming(u, k))
  BY DEF TreesInv
<1> QED BY <1>1, <1>2 DEF KeyTrees

(* A step of that thread.                                                   *)
LEMMA ChangerStep ==
  ASSUME OneChanger, Fits, TreesInv, NEW t \in Threads, Changer(t), Apart(t),
         art' = [k \in Key |-> art'[k]], ThreadTrees(t)',
         \A k \in Key : KeyTrees(k, Touching(t, k), Coming(t, k))'
  PROVE  TreesInv'
<1>1. ASSUME NEW u \in Threads, u # t PROVE ThreadTrees(u)'
  <2>1. /\ pc'[u] \notin Putting \union Deleting \union Gathering \union Publishing
                         \union Compacting
        /\ work'[u].call = "none"
    BY <1>1, OthersRest DEF Apart
  <2>2. pc'[u] \notin {"put_chain", "put_toc", "batch_toc"}
    BY <2>1 DEF Putting, Publishing
  <2> QED BY <2>1, <2>2 DEF ThreadTrees, Compacting
<1>2. ASSUME NEW k \in Key
      PROVE  KeyTrees(k, \E u \in Threads : Touching(u, k), \E u \in Threads : Coming(u, k))'
  BY DEF KeyTrees
<1> QED BY <1>1, <1>2 DEF TreesInv

(* A step that leaves trees and table alone, and a thread's part in them.   *)
LEMMA StillTrees ==
  ASSUME TreesInv, NEW t \in Threads, Apart(t), art' = art, toc' = toc, ThreadTrees(t)',
         \A k \in Key : /\ Touching(t, k)' <=> Touching(t, k)
                        /\ Coming(t, k)' <=> Coming(t, k)
  PROVE  TreesInv'
<1>1. ASSUME NEW u \in Threads, u # t
      PROVE  /\ ThreadTrees(u)'
             /\ \A k : /\ Touching(u, k)' <=> Touching(u, k)
                       /\ Coming(u, k)' <=> Coming(u, k)
  <2>1. pc'[u] = pc[u] /\ arg'[u] = arg[u] /\ work'[u] = work[u]
    BY <1>1 DEF Apart
  <2>2. InTrees(u)' = InTrees(u)
    BY <2>1 DEF InTrees
  <2>3. \A k : /\ Touching(u, k)' <=> Touching(u, k)
               /\ Coming(u, k)' <=> Coming(u, k)
    BY <2>1, <2>2 DEF Touching, Coming, Compacts
  <2>4. ThreadTrees(u)
    BY DEF TreesInv
  <2>5. ThreadTrees(u)'
    BY <2>1, <2>2, <2>3, <2>4 DEF ThreadTrees
  <2> QED BY <2>3, <2>5
<1>2. ASSUME NEW k \in Key
      PROVE  KeyTrees(k, \E u \in Threads : Touching(u, k), \E u \in Threads : Coming(u, k))'
  <2>1. KeyTrees(k, \E u \in Threads : Touching(u, k), \E u \in Threads : Coming(u, k))
    BY DEF TreesInv
  <2>2. \A u \in Threads : /\ Touching(u, k)' <=> Touching(u, k)
                           /\ Coming(u, k)' <=> Coming(u, k)
    BY <1>1
  <2> QED BY <2>1, <2>2 DEF KeyTrees
<1> QED BY <1>1, <1>2 DEF TreesInv

(* A step outside of bulk calls that goes neither into nor out of a change. *)
LEMMA PlainTrees ==
  ASSUME TreesInv, NEW t \in Threads, Apart(t), art' = art, toc' = toc,
         work'[t] = work[t],
         {pc[t], pc'[t]} \intersect (Gathering \union Publishing \union Compacting) = {},
         pc[t] \in Changing <=> pc'[t] \in Changing,
         pc[t] \in Deleting <=> pc'[t] \in Deleting,
         pc'[t] \in Changing => arg'[t].key = arg[t].key /\ arg'[t].refs = arg[t].refs,
         Compacts(t) => /\ pc[t] \in Putting <=> pc'[t] \in Putting
                        /\ pc'[t] \in Putting => arg'[t].key = arg[t].key,
         pc'[t] \in Putting \union Deleting => Changer(t)
  PROVE  TreesInv'
<1>1. ThreadTrees(t)
  BY DEF TreesInv
<1>2. pc'[t] # "batch_toc" /\ pc'[t] \notin Gathering \union Publishing \union Compacting
  BY DEF Publishing
<1>3. pc'[t] \in {"put_chain", "put_toc"} => pc[t] \in {"put_chain", "put_toc"}
  BY DEF Changing, Deleting
<1>4. pc'[t] \in {"put_chain", "put_toc"} \union Deleting => pc'[t] \in Changing
  BY DEF Changing
<1>5. ThreadTrees(t)'
  BY <1>1, <1>2, <1>3, <1>4 DEF ThreadTrees, Compacting
<1>6. \A k \in Key : /\ Touching(t, k)' <=> Touching(t, k)
                     /\ Coming(t, k)' <=> Coming(t, k)
  BY <1>2 DEF Touching, Coming, Compacts
<1> QED BY <1>5, <1>6, StillTrees

-----------------------------------------------------------------------------
(* The steps of put, delete, get and flush that leave trees and table alone.*)
LEMMA SinglePlain ==
  ASSUME Shape, TreesInv, NEW t \in Threads, SingleStep(t),
         ~PutIndex(t), ~PutToc(t), ~DeleteBegin(t), ~DeleteToc(t)
  PROVE  TreesInv'
<1>0. /\ pc \in [Threads -> Points] /\ arg \in [Threads -> ArgType] /\ arg[t] \in ArgType
      /\ Apart(t) /\ work'[t] = work[t] /\ ThreadTrees(t)
      /\ pc[t] = "idle" => ~Compacts(t)
  <2>1. pc[t] = "idle" => ~Compacts(t)
    BY DEF SingleStep, Compacts, NoWork
  <2>2. Apart(t) /\ work'[t] = work[t]
    BY SingleBeside DEF Beside, Apart
  <2> QED BY <2>1, <2>2, TypedFile DEF TreesInv
<1>1. Put(t) \/ TakeCheckpoint(t) \/ Delete(t) \/ Get(t)
  BY DEF SingleStep
<1> USE DEF ThreadTrees, Gathering, Publishing, Compacting, Changing, Deleting, Putting, Mid,
            At, Goto, Set, Return, disk, memory, history
<1>2. ASSUME \/ PutBegin(t) \/ PutLookup(t) \/ PutAddRef(t) \/ PutAppend(t)
             \/ PutContains(t) \/ PutInsert(t) \/ PutRecord(t) \/ PutChain(t)
             \/ PutShouldCheckpoint(t)
      PROVE  TreesInv'
  <2>1. CASE PutBegin(t)
    BY <1>0, <2>1, PlainTrees DEF PutBegin, Changer, Changes
  <2>2. CASE PutLookup(t)
    BY <1>0, <2>2, PlainTrees DEF PutLookup, ArgType
  <2>3. CASE PutAddRef(t)
    BY <1>0, <2>3, PlainTrees DEF PutAddRef, NextSegment, WithRef, ArgType
  <2>4. CASE PutAppend(t)
    BY <1>0, <2>4, PlainTrees DEF PutAppend, ArgType
  <2>5. CASE PutContains(t)
    BY <1>0, <2>5, PlainTrees DEF PutContains
  <2>6. CASE PutInsert(t)
    BY <1>0, <2>6, PlainTrees DEF PutInsert
  <2>7. CASE PutRecord(t)
    BY <1>0, <2>7, PlainTrees DEF PutRecord, NextSegment, WithRef, ArgType
  <2>8. CASE PutChain(t)
    BY <1>0, <2>8, PlainTrees DEF PutChain
  <2>9. CASE PutShouldCheckpoint(t)
    BY <1>0, <2>9, PlainTrees DEF PutShouldCheckpoint
  <2> QED BY <1>2, <2>1, <2>2, <2>3, <2>4, <2>5, <2>6, <2>7, <2>8, <2>9
<1>3. ASSUME TakeCheckpoint(t) PROVE TreesInv'
  <2>1. CASE CheckpointBegin(t)
    BY <1>0, <2>1, PlainTrees DEF CheckpointBegin
  <2>2. CASE CheckpointToc(t)
    BY <1>0, <2>2, PlainTrees DEF CheckpointToc
  <2>3. CASE CheckpointLen(t)
    BY <1>0, <2>3, PlainTrees DEF CheckpointLen
  <2>4. CASE CheckpointAppend(t)
    BY <1>0, <2>4, PlainTrees DEF CheckpointAppend
  <2>5. CASE CheckpointSync(t)
    BY <1>0, <2>5, PlainTrees DEF CheckpointSync
  <2>6. CASE CheckpointReset(t)
    BY <1>0, <2>6, PlainTrees DEF CheckpointReset
  <2>7. CASE LastSync(t)
    BY <1>0, <2>7, PlainTrees DEF LastSync
  <2> QED BY <1>3, <2>1, <2>2, <2>3, <2>4, <2>5, <2>6, <2>7 DEF TakeCheckpoint
<1>4. ASSUME DeleteChain(t) PROVE TreesInv'
  BY <1>0, <1>4, PlainTrees DEF DeleteChain
<1>5. ASSUME Get(t) PROVE TreesInv'
  <2>1. CASE GetLookup(t)
    BY <1>0, <2>1, PlainTrees DEF GetLookup
  <2>2. CASE GetRead(t)
    BY <1>0, <2>2, PlainTrees DEF GetRead
  <2> QED BY <1>5, <2>1, <2>2 DEF Get
<1> QED BY <1>1, <1>2, <1>3, <1>4, <1>5 DEF Put, Delete

(* The tree gets a put's first chunk, or keeps what it has.                 *)
LEMMA PutIndexTrees ==
  ASSUME OneChanger, Shape, TreesInv, NEW t \in Threads, SingleStep(t), PutIndex(t)
  PROVE  TreesInv'
<1> DEFINE k == arg[t].key
           r == arg[t].refs
<1>1. /\ pc[t] = "put_index" /\ pc' = [pc EXCEPT ![t] = "put_chain"]
      /\ art' = IF r = <<>> THEN art ELSE [art EXCEPT ![k] = Head(r)]
      /\ toc' = toc /\ arg' = arg
  BY DEF PutIndex, At, Goto, disk
<1>2. /\ pc'[t] = "put_chain" /\ k \in Key /\ Apart(t) /\ work' = work
      /\ ThreadTrees(t) /\ Changer(t) /\ Fits
  <2>1. Apart(t) /\ work' = work /\ ThreadTrees(t)
    BY SingleBeside DEF Beside, Apart, TreesInv
  <2>2. Changer(t)
    BY <1>1, <2>1 DEF ThreadTrees, Putting
  <2> QED BY <1>1, <2>1, <2>2, TypedFile DEF Shape, Complete
<1>3. /\ art' = [j \in Key |-> art'[j]]
      /\ \A j \in Key \ {k} : art'[j] = art[j]
      /\ r # <<>> => art'[k] = Head(r)
  <2>1. art = [j \in Key |-> art[j]]
    BY DEF TreesInv
  <2> HIDE DEF r, k
  <2> QED BY <1>1, <1>2, <2>1
<1>4. ThreadTrees(t)'
  BY <1>1, <1>2, <1>3 DEF ThreadTrees, Deleting, Gathering, Publishing
<1>5. ASSUME NEW j \in Key PROVE KeyTrees(j, Touching(t, j), Coming(t, j))'
  <2>1. KeyTrees(j, Touching(t, j), Coming(t, j))
    BY <1>2, OwnTrees
  <2>2. CASE j = k
    <3>1. Touching(t, j)'
      BY <1>1, <1>2, <2>2 DEF Touching, Changing
    <3> QED BY <3>1 DEF KeyTrees
  <2>3. CASE j # k
    <3>1. /\ Touching(t, j)' <=> Touching(t, j)
          /\ Coming(t, j)' <=> Coming(t, j)
      BY <1>1, <1>2, <2>3
         DEF Touching, Coming, Compacts, Changing, Deleting, Publishing, Putting
    <3>2. art'[j] = art[j]
      BY <1>3, <2>3
    <3> QED BY <1>1, <2>1, <3>1, <3>2 DEF KeyTrees
  <2> QED BY <2>2, <2>3
<1> QED BY <1>2, <1>3, <1>4, <1>5, ChangerStep

(* The table gets the entry, in a put or in a compaction.                   *)
LEMMA EntryTrees ==
  ASSUME OneChanger, Shape, TreesInv, NEW t \in Threads, Apart(t), work'[t] = work[t],
         pc[t] = "put_toc", pc'[t] = "put_should_checkpoint", art' = art,
         toc' = Append(toc, NewEntry(arg[t].key, arg[t].value, arg[t].refs))
  PROVE  TreesInv'
<1> DEFINE k == arg[t].key
           v == arg[t].value
           r == arg[t].refs
<1>1. /\ k \in Key /\ v \in Contents /\ r \in Seq(Nat) /\ toc \in Seq(EntryType)
      /\ ThreadTrees(t) /\ Changer(t) /\ Fits
  <2>1. ThreadTrees(t) /\ Changer(t)
    BY DEF TreesInv, ThreadTrees, Putting
  <2> QED BY <2>1, TypedFile DEF Shape, Complete, ArgType
<1>2. r # <<>> => art[k] = Head(r)
  BY <1>1 DEF ThreadTrees
<1> HIDE DEF k, v, r
<1>3. /\ Live(toc', k) /\ Latest(toc', k) = NewEntry(k, v, r)
      /\ \A j \in Key \ {k} : /\ Live(toc', j) = Live(toc, j)
                              /\ Live(toc, j) => Latest(toc', j) = Latest(toc, j)
  BY <1>1, PutLatest DEF k, v, r
<1>4. ASSUME NEW j \in Key PROVE KeyTrees(j, Touching(t, j), Coming(t, j))'
  <2>1. CASE j = k
    <3>1. Latest(toc', k).refs = r
      BY <1>3 DEF NewEntry
    <3>2. r # <<>> => 1 \in DOMAIN r /\ Head(r) = r[1]
      BY <1>1, EmptySeq
    <3> QED BY <1>2, <1>3, <2>1, <3>1, <3>2 DEF KeyTrees
  <2>2. CASE j # k
    <3>1. KeyTrees(j, Touching(t, j), Coming(t, j))
      BY <1>1, OwnTrees
    <3>2. ~Touching(t, j)
      BY <2>2 DEF Touching, Publishing, k
    <3>3. Coming(t, j) => Coming(t, j)'
      BY <2>2 DEF Coming, Compacts, k
    <3> QED BY <1>3, <2>2, <3>1, <3>2, <3>3 DEF KeyTrees
  <2> QED BY <2>1, <2>2
<1>5. ThreadTrees(t)'
  BY <1>1 DEF ThreadTrees, Putting, Mid, Deleting, Gathering, Publishing
<1>6. art' = [j \in Key |-> art'[j]]
  BY DEF TreesInv
<1> QED BY <1>1, <1>4, <1>5, <1>6, ChangerStep

(* delete takes the key out of the tree first ...                           *)
LEMMA DeleteBeginTrees ==
  ASSUME OneChanger, Shape, TreesInv, NEW t \in Threads, SingleStep(t), DeleteBegin(t)
  PROVE  TreesInv'
<1>1. PICK k \in Key :
        /\ art' = [art EXCEPT ![k] = NotIndexed]
        /\ arg' = [arg EXCEPT ![t] = [IdleArg EXCEPT !.call = "delete", !.key = k]]
        /\ "delete" \in Ops[t] /\ pc[t] = "idle"
        /\ pc' = [pc EXCEPT ![t] = "delete_chain"]
        /\ toc' = toc
  BY DEF DeleteBegin, At, Goto, Set
<1>2. /\ pc'[t] = "delete_chain" /\ arg'[t].key = k /\ Apart(t) /\ work' = work
      /\ Changer(t) /\ Fits /\ ~Compacts(t)
  <2>1. arg'[t] = [IdleArg EXCEPT !.call = "delete", !.key = k]
    BY <1>1, TypedFile
  <2>2. arg'[t].key = k
    BY <2>1 DEF IdleArg
  <2>3. Apart(t) /\ work' = work
    BY SingleBeside DEF Beside, Apart
  <2>4. Changer(t)
    BY <1>1 DEF Changer, Changes
  <2>5. ~Compacts(t)
    BY <1>1 DEF SingleStep, Compacts, NoWork
  <2> QED BY <1>1, <2>2, <2>3, <2>4, <2>5, TypedFile DEF Shape
<1>3. /\ art' = [j \in Key |-> art'[j]] /\ art'[k] = NotIndexed
      /\ \A j \in Key \ {k} : art'[j] = art[j]
  <2>1. art = [j \in Key |-> art[j]]
    BY DEF TreesInv
  <2> QED BY <1>1, <2>1
<1>4. ThreadTrees(t)'
  BY <1>2, <1>3 DEF ThreadTrees, Gathering, Publishing
<1>5. ASSUME NEW j \in Key PROVE KeyTrees(j, Touching(t, j), Coming(t, j))'
  <2>1. CASE j = k
    <3>1. Touching(t, j)'
      BY <1>2, <2>1 DEF Touching, Changing, Deleting
    <3> QED BY <3>1 DEF KeyTrees
  <2>2. CASE j # k
    <3>1. KeyTrees(j, Touching(t, j), Coming(t, j))
      BY <1>2, OwnTrees
    <3>2. ~Touching(t, j) /\ ~Coming(t, j)
      BY <1>1, <1>2 DEF Touching, Coming, Changing, Deleting, Publishing
    <3> QED BY <1>1, <1>3, <2>2, <3>1, <3>2 DEF KeyTrees
  <2> QED BY <2>1, <2>2
<1> QED BY <1>2, <1>3, <1>4, <1>5, ChangerStep

(* ... and out of the table last.                                           *)
LEMMA DeleteTocTrees ==
  ASSUME OneChanger, Shape, MapInvariant(FALSE), TreesInv, NEW t \in Threads, SingleStep(t),
         DeleteToc(t)
  PROVE  TreesInv'
<1> DEFINE k == arg[t].key
<1>1. /\ pc[t] = "delete_toc" /\ pc' = [pc EXCEPT ![t] = "idle"]
      /\ toc' = Tombstoned(toc, k)
      /\ art' = art
  BY DEF DeleteToc, At, Goto, Return
<1>2. /\ k \in Key /\ toc \in Seq(EntryType) /\ art[k] = NotIndexed
      /\ pc'[t] = "idle" /\ Apart(t) /\ work' = work /\ Changer(t) /\ Fits /\ ~Compacts(t)
  <2>1. Apart(t) /\ work' = work
    BY SingleBeside DEF Beside, Apart
  <2>2. Changer(t) /\ art[k] = NotIndexed
    BY <1>1 DEF TreesInv, ThreadTrees, Deleting
  <2>3. k \in Key /\ ~Compacts(t)
    BY <1>1 DEF MapInvariant, Deletes, Deleting
  <2> QED BY <1>1, <2>1, <2>2, <2>3, TypedFile DEF Shape
<1> HIDE DEF k
<1>3. /\ ~Live(toc', k)
      /\ \A j \in Key \ {k} : /\ Live(toc', j) = Live(toc, j)
                              /\ Live(toc, j) => Latest(toc', j) = Latest(toc, j)
  BY <1>1, <1>2, DeleteLatest
<1>4. ASSUME NEW j \in Key PROVE KeyTrees(j, Touching(t, j), Coming(t, j))'
  <2>1. CASE j = k
    BY <1>1, <1>2, <1>3, <2>1 DEF KeyTrees
  <2>2. CASE j # k
    <3>1. KeyTrees(j, Touching(t, j), Coming(t, j))
      BY <1>2, OwnTrees
    <3>2. ~Touching(t, j) /\ ~Coming(t, j)
      BY <1>1, <1>2, <2>2 DEF Touching, Coming, Publishing, k
    <3> QED BY <1>1, <1>3, <2>2, <3>1, <3>2 DEF KeyTrees
  <2> QED BY <2>1, <2>2
<1>5. ThreadTrees(t)'
  <2>1. work'[t].call # "none" => Changer(t)
    BY <1>2
  <2> QED BY <1>2, <2>1 DEF ThreadTrees, Putting, Mid, Deleting, Gathering, Publishing
<1>6. art' = [j \in Key |-> art'[j]]
  BY <1>1 DEF TreesInv
<1> QED BY <1>2, <1>4, <1>5, <1>6, ChangerStep

-----------------------------------------------------------------------------
(* A batch that still gathers its chunks has nothing in the trees.          *)
LEMMA GatherTrees ==
  ASSUME TreesInv, NEW t \in Threads, Apart(t), art' = art, toc' = toc, Changer(t),
         pc[t] \in Gathering \union {"idle"}, pc'[t] \in Gathering \union {"batch_index"},
         work'[t].done = 0, ~Compacts(t), ~Compacts(t)'
  PROVE  TreesInv'
<1>1. /\ pc[t] \notin Changing \union Publishing
      /\ pc'[t] \notin Changing \union Putting \union Deleting
      /\ pc'[t] \notin {"batch_chain", "batch_toc"}
                       \union {"compact_truncate", "compact_forget"}
  BY DEF Gathering, Publishing, Changing, Putting, Mid, Deleting
<1>2. pc'[t] \notin {"put_chain", "put_toc"}
  BY <1>1 DEF Changing
<1>3. InTrees(t)' = 0 /\ \A i \in 1 .. 0 : FALSE
  BY <1>1 DEF InTrees
<1>4. ThreadTrees(t)'
  BY <1>1, <1>2, <1>3 DEF ThreadTrees
<1>5. \A k \in Key : /\ Touching(t, k)' <=> Touching(t, k)
                     /\ Coming(t, k)' <=> Coming(t, k)
  BY <1>1, <1>3 DEF Touching, Coming
<1> QED BY <1>4, <1>5, StillTrees

(* A batch that still gathers has written no tensor to trees and chains.    *)
LEMMA BatchUndone ==
  ASSUME Shape, TreesInv, NEW t \in Threads,
         \/ BatchBegin(t) \/ BatchLookup(t) \/ BatchAddRef(t) \/ BatchAppend(t)
         \/ BatchContains(t) \/ BatchInsert(t) \/ BatchRecord(t)
  PROVE  work'[t].done = 0
<1> DEFINE v == work[t]
           slot == FirstOf(v.slots)
           next == Head(v.pending)
<1> HIDE DEF slot, next
<1>1. /\ work = [u \in Threads |-> work[u]]
      /\ v \in WorkAs(v.call, v.items, v.slots, v.pending, v.done)
      /\ pc[t] \in Gathering => v.done = 0
  BY TypedFile DEF Shape, Fits, WorkFits, TreesInv, ThreadTrees
<1> USE DEF Gathering, At, Work
<1>2. CASE BatchBegin(t)
  <2>1. PICK batch \in Batches :
          work' = [work EXCEPT ![t] = [NoWork EXCEPT
                     !.call = "put_batch", !.slots = Slots(batch),
                     !.items = [i \in DOMAIN batch |-> Unwritten(batch[i])]]]
    BY <1>2 DEF BatchBegin
  <2> DEFINE w == [NoWork EXCEPT
                     !.call = "put_batch", !.slots = Slots(batch),
                     !.items = [i \in DOMAIN batch |-> Unwritten(batch[i])]]
  <2>2. w.done = 0
    BY DEF NoWork
  <2> HIDE DEF w
  <2> QED BY <1>1, <2>1, <2>2 DEF w
<1>3. CASE BatchLookup(t)
  <2> DEFINE w == [v EXCEPT !.slots = @ \ {slot}, !.pending = Append(@, slot)]
  <2>1. (work' = [work EXCEPT ![t] = w] \/ work' = work) /\ v.done = 0
    BY <1>1, <1>3 DEF BatchLookup, slot
  <2>2. w.done = v.done
    BY <1>1 DEF WorkAs
  <2> HIDE DEF w
  <2> QED BY <1>1, <2>1, <2>2
<1>4. CASE BatchAddRef(t)
  <2> DEFINE w == [WithRefAt(t, slot, arg[t].off) EXCEPT !.slots = @ \ {slot}]
  <2>1. work' = [work EXCEPT ![t] = w] /\ v.done = 0
    BY <1>1, <1>4 DEF BatchAddRef, slot
  <2>2. w.done = v.done
    BY <1>1 DEF WorkAs, WithRefAt
  <2> HIDE DEF w
  <2> QED BY <1>1, <2>1, <2>2
<1>5. CASE BatchRecord(t)
  <2> DEFINE w == [WithRefAt(t, next, arg[t].off) EXCEPT !.pending = Tail(v.pending)]
  <2>1. work' = [work EXCEPT ![t] = w] /\ v.done = 0
    BY <1>1, <1>5 DEF BatchRecord, next
  <2>2. w.done = v.done
    BY <1>1 DEF WorkAs, WithRefAt
  <2> HIDE DEF w
  <2> QED BY <1>1, <2>1, <2>2
<1>6. CASE BatchAppend(t) \/ BatchContains(t) \/ BatchInsert(t)
  BY <1>1, <1>6 DEF BatchAppend, BatchContains, BatchInsert
<1> QED BY <1>2, <1>3, <1>4, <1>5, <1>6

(* The lookups, the append and the recording of a batch.                    *)
LEMMA BatchGathers ==
  ASSUME Shape, TreesInv, NEW t \in Threads,
         \/ BatchBegin(t) \/ BatchLookup(t) \/ BatchAddRef(t) \/ BatchAppend(t)
         \/ BatchContains(t) \/ BatchInsert(t) \/ BatchRecord(t)
  PROVE  TreesInv'
<1>1. Apart(t) /\ ~Compacts(t) /\ ~Compacts(t)'
  <2>1. Batch(t)
    BY DEF Batch
  <2> QED BY <2>1, BatchBeside DEF Beside, Apart
<1>2. pc \in [Threads -> Points] /\ PlaceFits(t, pc[t], work[t]) /\ ThreadTrees(t)
  BY TypedFile DEF Shape, Fits, TreesInv
<1>3. /\ art' = art /\ toc' = toc
      /\ pc[t] \in Gathering \union {"idle"} /\ pc'[t] \in Gathering \union {"batch_index"}
      /\ pc[t] = "idle" => BatchBegin(t)
  BY <1>2 DEF BatchBegin, BatchLookup, BatchAddRef, BatchAppend, BatchContains,
              BatchInsert, BatchRecord, At, Goto, Gathering, memory, disk
<1>4. Changer(t)
  BY <1>2, <1>3 DEF ThreadTrees, PlaceFits, BatchBegin, Changer
<1>5. work'[t].done = 0
  BY BatchUndone
<1> QED BY <1>1, <1>3, <1>4, <1>5, GatherTrees

(* The tree gets the first chunk of the batch's next tensor ...             *)
LEMMA BatchIndexTrees ==
  ASSUME OneChanger, Shape, TreesInv, NEW t \in Threads, BatchIndex(t)
  PROVE  TreesInv'
<1> DEFINE items == work[t].items
           d == work[t].done
           k == items[d + 1].key
           r == items[d + 1].refs
<1>0. /\ pc[t] = "batch_index" /\ pc' = [pc EXCEPT ![t] = "batch_chain"]
      /\ art' = IF r = <<>> THEN art ELSE [art EXCEPT ![k] = Head(r)]
      /\ toc' = toc /\ arg' = arg /\ work' = work
  BY DEF BatchIndex, Item, At, Goto, disk
<1>1. /\ pc'[t] = "batch_chain" /\ Apart(t) /\ ~Compacts(t) /\ Fits /\ ThreadTrees(t)
  <2>1. Batch(t)
    BY DEF Batch
  <2> QED BY <1>0, <2>1, BatchBeside, TypedFile DEF Beside, Apart, Shape, TreesInv
<1>2. d \in Nat /\ k \in Key
  <2>1. /\ WorkFits(work[t]) /\ work[t].call = "put_batch" /\ d < Len(items)
        /\ Len(items) \in Nat
    BY <1>0, <1>1 DEF Fits, PlaceFits, Publishing, WorkFits
  <2>2. d \in Nat /\ d + 1 \in 1 .. Len(items)
    BY <2>1 DEF WorkFits
  <2> QED BY <2>1, <2>2 DEF WorkFits, BatchFits, ItemFits
<1>3. Changer(t)
  BY <1>0, <1>1 DEF ThreadTrees, Fits, PlaceFits, Publishing
<1>4. /\ art' = [j \in Key |-> art'[j]]
      /\ \A j : j # k => art'[j] = art[j]
      /\ r # <<>> => art'[k] = Head(r)
  <2>1. art = [j \in Key |-> art[j]]
    BY DEF TreesInv
  <2> HIDE DEF r, k
  <2> QED BY <1>0, <1>2, <2>1
<1>5. InTrees(t) = d /\ InTrees(t)' = d + 1
  BY <1>0, <1>1 DEF InTrees
<1> HIDE DEF d
<1>6. ThreadTrees(t)'
  <2>1. \A i \in 1 .. d : LastOfKey(items, d, i) /\ items[i].refs # <<>>
                            => art[items[i].key] = Head(items[i].refs)
    BY <1>0, <1>1, <1>5 DEF ThreadTrees, Publishing
  <2>2. ASSUME NEW i \in 1 .. d + 1, LastOfKey(items, d + 1, i), items[i].refs # <<>>
        PROVE  art'[items[i].key] = Head(items[i].refs)
    <3>1. CASE i = d + 1
      BY <1>4, <2>2, <3>1
    <3>2. CASE i # d + 1
      <4>1. i \in 1 .. d /\ d + 1 \in 1 .. d + 1 /\ i < d + 1
        BY <1>2, <3>2
      <4>2. items[i].key # k
        BY <2>2, <4>1 DEF LastOfKey
      <4>3. LastOfKey(items, d, i)
        BY <1>2, <2>2 DEF LastOfKey
      <4> QED BY <1>4, <2>1, <2>2, <4>1, <4>2, <4>3
    <3> QED BY <3>1, <3>2
  <2> QED BY <1>0, <1>1, <1>3, <1>5, <2>2 DEF ThreadTrees, Gathering, Putting, Mid, Deleting
<1>7. ASSUME NEW j \in Key PROVE KeyTrees(j, Touching(t, j), Coming(t, j))'
  <2>1. CASE j = k
    <3>1. d + 1 \in 1 .. d + 1
      BY <1>2
    <3>2. Touching(t, j)'
      BY <1>0, <1>1, <1>5, <2>1, <3>1 DEF Touching, Publishing
    <3> QED BY <3>2 DEF KeyTrees
  <2>2. CASE j # k
    <3>1. KeyTrees(j, Touching(t, j), Coming(t, j))
      BY <1>1, <1>3, OwnTrees
    <3>2. 1 .. d \subseteq 1 .. d + 1
      BY <1>2
    <3>3. Touching(t, j) => Touching(t, j)'
      BY <1>0, <1>1, <1>5, <3>2 DEF Touching, Publishing, Changing, Deleting
    <3> QED BY <1>0, <1>1, <1>4, <2>2, <3>1, <3>3 DEF KeyTrees, Coming
  <2> QED BY <2>1, <2>2
<1> QED BY <1>1, <1>3, <1>4, <1>6, <1>7, ChangerStep

(* ... and the chain its version.                                           *)
LEMMA BatchChainTrees ==
  ASSUME Shape, TreesInv, NEW t \in Threads, BatchChain(t)
  PROVE  TreesInv'
<1> DEFINE v == work[t]
           w == [v EXCEPT !.done = @ + 1]
           label == IF w.done = Len(v.items) THEN "batch_toc" ELSE "batch_index"
<1>0. /\ pc[t] = "batch_chain" /\ work' = [work EXCEPT ![t] = w]
      /\ toc' = toc /\ art' = art /\ arg' = arg
  BY DEF BatchChain, At, Work, disk
<1>1. /\ WorkFits(v) /\ v.call = "put_batch" /\ Apart(t) /\ ThreadTrees(t)
      /\ ~Compacts(t) /\ ~Compacts(t)' /\ pc \in [Threads -> Points]
      /\ work = [u \in Threads |-> work[u]]
  <2>1. Batch(t)
    BY DEF Batch
  <2> QED BY <1>0, <2>1, BatchBeside, TypedFile
          DEF Beside, Apart, Shape, Fits, PlaceFits, Publishing, TreesInv
<1>2. w.items = v.items /\ w.done = v.done + 1 /\ v.done \in Nat /\ w.call = "put_batch"
  BY <1>1 DEF WorkFits, WorkAs
<1>3. work'[t] = w
  BY <1>0, <1>1
<1>4. pc'[t] = label
  <2> HIDE DEF w
  <2> QED BY <1>1, <1>3 DEF BatchChain, Goto
<1> HIDE DEF w
<1>5. InTrees(t) = v.done + 1 /\ InTrees(t)' = v.done + 1
  BY <1>0, <1>2, <1>3, <1>4 DEF InTrees
<1>6. pc'[t] \in {"batch_toc", "batch_index"}
      /\ (pc'[t] = "batch_toc" => w.done = Len(w.items))
  BY <1>2, <1>4
<1> HIDE DEF label
<1>7. Changer(t)
  BY <1>1 DEF ThreadTrees
<1>8. ThreadTrees(t)'
  BY <1>0, <1>1, <1>2, <1>3, <1>5, <1>6, <1>7
     DEF ThreadTrees, Publishing, Gathering, Putting, Mid, Deleting
<1>9. \A k \in Key : /\ Touching(t, k)' <=> Touching(t, k)
                     /\ Coming(t, k)' <=> Coming(t, k)
  BY <1>0, <1>1, <1>2, <1>3, <1>5, <1>6 DEF Touching, Coming, Publishing, Changing, Deleting
<1> QED BY <1>0, <1>1, <1>8, <1>9, StillTrees

(* The table gets the entries of the batch.                                 *)
LEMMA BatchTocTrees ==
  ASSUME OneChanger, Shape, Shape', TreesInv, NEW t \in Threads, BatchToc(t)
  PROVE  TreesInv'
<1> DEFINE items == work[t].items
           n == Len(items)
<1>0. /\ pc[t] = "batch_toc" /\ pc' = [pc EXCEPT ![t] = "put_should_checkpoint"]
      /\ art' = art /\ arg' = arg /\ work' = [work EXCEPT ![t] = NoWork]
  BY DEF BatchToc, At, Goto, Work, disk
<1>1. /\ pc'[t] = "put_should_checkpoint" /\ work'[t] = NoWork /\ Apart(t) /\ ~Compacts(t)
      /\ Fits /\ ThreadTrees(t) /\ toc \in Seq(EntryType)
  <2>1. Batch(t)
    BY DEF Batch
  <2> QED BY <1>0, <2>1, BatchBeside, TypedFile DEF Beside, Apart, Shape, TreesInv
<1>2. n \in Nat /\ DOMAIN items = 1 .. n
  BY BatchEntries
<1>3. PICK es \in Seq(EntryType) :
        /\ toc' = toc \o es
        /\ es = [i \in 1 .. n |-> NewEntry(items[i].key, items[i].value, items[i].refs)]
  BY BatchEntries
<1>4. Changer(t) /\ InTrees(t) = n
  BY <1>0, <1>1 DEF ThreadTrees, Fits, PlaceFits, Publishing, InTrees
<1>5. \A i \in 1 .. n : LastOfKey(items, n, i) /\ items[i].refs # <<>>
                          => art[items[i].key] = Head(items[i].refs)
  BY <1>0, <1>1, <1>4 DEF ThreadTrees, Publishing
<1> HIDE DEF n, items
<1>6. /\ Len(es) = n /\ DOMAIN es = 1 .. n
      /\ \A i \in 1 .. n : /\ es[i].key = items[i].key /\ es[i].refs = items[i].refs
                           /\ ~es[i].dead /\ es[i].refs \in Seq(Nat)
  <2>1. \A e \in EntryType : e.refs \in Seq(Nat)
    BY DEF EntryType
  <2> QED BY <1>2, <1>3, <2>1 DEF NewEntry
<1>7. ASSUME NEW j \in Key PROVE KeyTrees(j, Touching(t, j), Coming(t, j))'
  <2> DEFINE Q == Positions(es, j)
             m == Max(Q)
  <2>1. IF Q = {}
        THEN /\ Live(toc', j) = Live(toc, j)
             /\ Live(toc, j) => Latest(toc', j) = Latest(toc, j)
        ELSE Live(toc', j) /\ Latest(toc', j) = es[m]
    BY <1>1, <1>3, <1>6, BatchLatest
  <2>2. CASE Q = {}
    <3>1. KeyTrees(j, Touching(t, j), Coming(t, j))
      BY <1>1, <1>4, OwnTrees
    <3>2. ~Touching(t, j) /\ ~Coming(t, j)
      <4>1. \A i \in 1 .. n : items[i].key # j
        BY <1>6, <2>2 DEF Positions
      <4> QED BY <1>0, <1>1, <1>4, <4>1 DEF Touching, Coming, Changing, Deleting, items
    <3> QED BY <1>0, <2>1, <2>2, <3>1, <3>2 DEF KeyTrees
  <2>3. CASE Q # {}
    <3>1. m \in Q /\ \A i \in Q : i <= m
      BY <2>3, PositionsOf
    <3> HIDE DEF m
    <3>2. m \in 1 .. n /\ items[m].key = j
      BY <1>6, <3>1 DEF Positions
    <3>3. LastOfKey(items, n, m)
      BY <1>2, <1>6, <3>1, <3>2 DEF LastOfKey, Positions
    <3>4. ASSUME es[m].refs # <<>> PROVE \E i \in DOMAIN es[m].refs : art[j] = es[m].refs[i]
      <4>1. art[j] = Head(es[m].refs)
        BY <1>5, <1>6, <3>2, <3>3, <3>4
      <4>2. es[m].refs \in Seq(Nat)
        BY <1>6, <3>2
      <4>3. 1 \in DOMAIN es[m].refs /\ Head(es[m].refs) = es[m].refs[1]
        BY <3>4, <4>2, EmptySeq
      <4> QED BY <4>1, <4>3
    <3> QED BY <1>0, <2>1, <2>3, <3>4 DEF KeyTrees
  <2> QED BY <2>2, <2>3
<1>8. ThreadTrees(t)'
  BY <1>1, <1>4 DEF ThreadTrees, Publishing, Gathering, Putting, Mid, Deleting
<1>9. art' = [j \in Key |-> art'[j]]
  BY <1>0 DEF TreesInv
<1> QED BY <1>1, <1>4, <1>7, <1>8, <1>9, ChangerStep

-----------------------------------------------------------------------------
(* A compaction reads every key that the trees index.                       *)
LEMMA CompactReadTrees ==
  ASSUME OneChanger, Shape, Closed(toc), TreesInv, NEW t \in Threads, CompactRead(t)
  PROVE  TreesInv'
<1>0. /\ pc[t] = "idle" /\ work[t] = NoWork /\ "compact" \in BulkOps[t]
      /\ pc' = [pc EXCEPT ![t] = "compact_truncate"]
      /\ work' = [work EXCEPT
                    ![t] = [NoWork EXCEPT !.call = "compact", !.items = LiveTensors]]
      /\ toc' = toc /\ art' = art /\ arg' = arg
  BY DEF CompactRead, At, Goto, Work, disk, memory
<1>1. /\ pc'[t] = "compact_truncate" /\ Compacts(t)' /\ work'[t].items = LiveTensors
      /\ Apart(t) /\ Changer(t) /\ Fits
      /\ \A k : ~Touching(t, k) /\ ~Touching(t, k)' /\ ~Coming(t, k)
  <2>1. /\ pc'[t] = "compact_truncate" /\ Compacts(t)' /\ work'[t].items = LiveTensors
        /\ Apart(t)
    BY <1>0, TypedFile DEF Compacts, NoWork, Apart
  <2>2. \A k : ~Touching(t, k) /\ ~Touching(t, k)' /\ ~Coming(t, k)
    BY <1>0, <2>1 DEF Touching, Coming, Compacts, NoWork, Changing, Deleting, Publishing
  <2> QED BY <1>0, <2>1, <2>2 DEF Changer, Shape
<1>2. ASSUME NEW k \in Key, Live(toc, k) PROVE Coming(t, k)'
  <2>1. Positions(LiveTensors, k) # {}
    BY <1>2, TensorsRead DEF CompactRead, Shape
  <2>2. LiveTensors \in Seq([key : Key, value : Contents])
    BY TensorsRead DEF CompactRead, Shape
  <2>3. DOMAIN LiveTensors = 1 .. Len(LiveTensors)
    BY <2>2
  <2>4. \E i \in 1 .. Len(LiveTensors) : LiveTensors[i].key = k
    BY <2>1, <2>3 DEF Positions
  <2> QED BY <1>1, <2>4 DEF Coming
<1>3. ASSUME NEW k \in Key PROVE KeyTrees(k, Touching(t, k), Coming(t, k))'
                                 /\ (art'[k] # NotIndexed => Coming(t, k)')
  <2>1. KeyTrees(k, Touching(t, k), Coming(t, k))
    BY <1>1, OwnTrees
  <2> QED BY <1>0, <1>1, <1>2, <2>1 DEF KeyTrees
<1>4. ThreadTrees(t)'
  BY <1>1, <1>3 DEF ThreadTrees, Putting, Mid, Deleting, Gathering, Publishing
<1>5. art' = [k \in Key |-> art'[k]]
  BY <1>0 DEF TreesInv
<1> QED BY <1>1, <1>3, <1>4, <1>5, ChangerStep

(* The file is cut, the trees stay ...                                      *)
LEMMA CompactTruncateTrees ==
  ASSUME Shape, TreesInv, NEW t \in Threads, CompactTruncate(t)
  PROVE  TreesInv'
<1>0. /\ pc[t] = "compact_truncate" /\ pc' = [pc EXCEPT ![t] = "compact_forget"]
      /\ toc' = toc /\ art' = art /\ arg' = arg /\ work' = work
  BY DEF CompactTruncate, At, Goto, memory
<1>1. pc'[t] = "compact_forget" /\ Apart(t) /\ ThreadTrees(t)
  BY <1>0, TypedFile DEF Apart, TreesInv
<1>2. \A k \in Key : /\ Touching(t, k)' <=> Touching(t, k)
                     /\ Coming(t, k)' <=> Coming(t, k)
  BY <1>0, <1>1
     DEF Touching, Coming, Compacts, Changing, Deleting, Publishing, Putting, Mid
<1>3. ThreadTrees(t)'
  BY <1>0, <1>1, <1>2 DEF ThreadTrees, Putting, Mid, Deleting, Gathering, Publishing
<1> QED BY <1>0, <1>1, <1>2, <1>3, StillTrees

(* ... while the table is forgotten: what they index is still to be put.    *)
LEMMA CompactForgetTrees ==
  ASSUME OneChanger, Shape, TreesInv, NEW t \in Threads, CompactForget(t)
  PROVE  TreesInv'
<1>0. /\ pc[t] = "compact_forget" /\ pc' = [pc EXCEPT ![t] = "idle"]
      /\ toc' = <<>> /\ art' = art /\ arg' = arg /\ work' = work
  BY DEF CompactForget, At, Goto
<1>1. pc'[t] = "idle" /\ Apart(t) /\ ThreadTrees(t) /\ Fits /\ Changer(t)
  <2>1. pc'[t] = "idle" /\ Apart(t) /\ ThreadTrees(t) /\ Fits
    BY <1>0, TypedFile DEF Apart, TreesInv, Shape
  <2> QED BY <1>0, <2>1 DEF ThreadTrees, Fits, PlaceFits
<1>2. \A k \in Key : /\ ~Live(toc', k)
                     /\ Coming(t, k)' <=> Coming(t, k)
                     /\ art[k] # NotIndexed => Coming(t, k)
  <2>1. \A k \in Key : ~Live(<<>>, k)
    BY DEF Live, Positions
  <2> QED BY <1>0, <1>1, <2>1 DEF ThreadTrees, Coming, Compacts, Putting, Mid
<1>3. \A k \in Key : KeyTrees(k, Touching(t, k), Coming(t, k))'
  BY <1>0, <1>2 DEF KeyTrees
<1>4. ThreadTrees(t)'
  BY <1>0, <1>1 DEF ThreadTrees, Putting, Mid, Deleting, Gathering, Publishing
<1>5. art' = [k \in Key |-> art'[k]]
  BY <1>0 DEF TreesInv
<1> QED BY <1>1, <1>3, <1>4, <1>5, ChangerStep

(* The next tensor passes from the list into the put.                       *)
LEMMA CompactPutTrees ==
  ASSUME Shape, TreesInv, NEW t \in Threads, CompactPut(t)
  PROVE  TreesInv'
<1> DEFINE items == work[t].items
           item == Head(items)
           new == [IdleArg EXCEPT !.call = "put", !.key = item.key, !.value = item.value]
           label == IF item.value = <<>> THEN "put_index" ELSE "put_lookup"
           w == [work[t] EXCEPT !.items = Tail(@)]
<1>0. /\ pc[t] = "idle" /\ Compacts(t) /\ items # <<>>
      /\ pc' = [pc EXCEPT ![t] = label] /\ arg' = [arg EXCEPT ![t] = new]
      /\ work' = [work EXCEPT ![t] = w] /\ toc' = toc /\ art' = art
  BY DEF CompactPut, At, Goto, Set, Work, Compacts, disk, memory
<1>1. /\ pc \in [Threads -> Points] /\ arg \in [Threads -> ArgType]
      /\ work = [u \in Threads |-> work[u]] /\ WorkFits(work[t]) /\ ThreadTrees(t)
  BY TypedFile DEF Shape, Fits, TreesInv
<1>2. w.call = "compact" /\ w.items = Tail(items) /\ new.key = item.key /\ Changer(t)
  BY <1>0, <1>1 DEF WorkFits, WorkAs, Compacts, IdleArg, ThreadTrees
<1>3. label \in {"put_index", "put_lookup"}
  OBVIOUS
<1> HIDE DEF new, label, w
<1>4. pc'[t] = label /\ arg'[t] = new /\ work'[t] = w /\ Apart(t)
  BY <1>0, <1>1 DEF Apart
<1>5. /\ Len(items) \in Nat /\ Len(items) > 0 /\ Len(Tail(items)) = Len(items) - 1
      /\ item = items[1] /\ \A i \in 1 .. Len(items) - 1 : Tail(items)[i] = items[i + 1]
  <2> DEFINE T == [key : Key, value : Contents]
  <2>1. items \in Seq(T)
    BY <1>0, <1>1 DEF WorkFits, Compacts
  <2> HIDE DEF T, items
  <2> QED BY <1>0, <2>1
<1>6. ASSUME NEW k \in Key PROVE Coming(t, k)' <=> Coming(t, k)
  <2>1. Coming(t, k)' <=> \/ item.key = k
                          \/ \E i \in 1 .. Len(items) - 1 : items[i + 1].key = k
    <3>1. Compacts(t)' /\ pc'[t] \in Putting /\ arg'[t].key = item.key
      BY <1>2, <1>3, <1>4 DEF Compacts, Putting, Mid
    <3>2. work'[t].items = Tail(items)
      BY <1>2, <1>4
    <3> HIDE DEF items
    <3>3. Coming(t, k)' <=> item.key = k \/ \E i \in 1 .. Len(Tail(items)) : Tail(items)[i].key = k
      BY <3>1, <3>2 DEF Coming
    <3> QED BY <1>5, <3>3
  <2>2. Coming(t, k) <=> \E i \in 1 .. Len(items) : items[i].key = k
    BY <1>0 DEF Coming, Putting, Mid
  <2>3. ASSUME NEW i \in 1 .. Len(items), items[i].key = k
        PROVE  item.key = k \/ \E j \in 1 .. Len(items) - 1 : items[j + 1].key = k
    <3>1. CASE i = 1
      BY <1>5, <2>3, <3>1
    <3>2. CASE i # 1
      <4>1. i - 1 \in 1 .. Len(items) - 1 /\ (i - 1) + 1 = i
        BY <1>5, <3>2
      <4> QED BY <2>3, <4>1
    <3> QED BY <3>1, <3>2
  <2>4. 1 \in 1 .. Len(items) /\ \A j \in 1 .. Len(items) - 1 : j + 1 \in 1 .. Len(items)
    BY <1>5
  <2> QED BY <1>5, <2>1, <2>2, <2>3, <2>4
<1>7. ThreadTrees(t)'
  BY <1>2, <1>3, <1>4 DEF ThreadTrees, Putting, Mid, Deleting, Gathering, Publishing
<1>8. \A k \in Key : Touching(t, k)' <=> Touching(t, k)
  BY <1>0, <1>3, <1>4 DEF Touching, Changing, Deleting, Publishing
<1> QED BY <1>0, <1>4, <1>6, <1>7, <1>8, StillTrees

(* Its entry is one as any other.                                           *)
LEMMA CompactTocTrees ==
  ASSUME OneChanger, Shape, TreesInv, NEW t \in Threads, CompactToc(t)
  PROVE  TreesInv'
<1>1. /\ pc[t] = "put_toc" /\ pc' = [pc EXCEPT ![t] = "put_should_checkpoint"]
      /\ arg' = arg /\ work' = work /\ art' = art
      /\ toc' = Append(toc, NewEntry(arg[t].key, arg[t].value, arg[t].refs))
  BY DEF CompactToc, At, Goto, disk
<1>2. pc'[t] = "put_should_checkpoint" /\ Apart(t)
  BY <1>1, TypedFile DEF Apart
<1> QED BY <1>1, <1>2, EntryTrees

(* ... and so is the entry of a put.                                        *)
LEMMA PutTocTrees ==
  ASSUME OneChanger, Shape, TreesInv, NEW t \in Threads, SingleStep(t), PutToc(t)
  PROVE  TreesInv'
<1>1. /\ pc[t] = "put_toc" /\ pc' = [pc EXCEPT ![t] = "put_should_checkpoint"]
      /\ art' = art
      /\ toc' = Append(toc, NewEntry(arg[t].key, arg[t].value, arg[t].refs))
  BY DEF PutToc, At, Goto, disk
<1>2. pc'[t] = "put_should_checkpoint" /\ Apart(t) /\ work' = work
  BY <1>1, SingleBeside, TypedFile DEF Beside, Apart
<1> QED BY <1>1, <1>2, EntryTrees

(* Nothing is left to put when a compaction flushes.                        *)
LEMMA CompactFlushTrees ==
  ASSUME Shape, TreesInv, NEW t \in Threads, CompactFlush(t)
  PROVE  TreesInv'
<1>0. /\ pc[t] = "idle" /\ Compacts(t) /\ work[t].items = <<>>
      /\ pc' = [pc EXCEPT ![t] = "checkpoint_toc"]
      /\ arg' = [arg EXCEPT ![t] = [IdleArg EXCEPT !.call = "flush"]]
      /\ work' = [work EXCEPT ![t] = NoWork] /\ toc' = toc /\ art' = art
  BY DEF CompactFlush, At, Goto, Set, Work, Compacts, disk, memory
<1>1. pc'[t] = "checkpoint_toc" /\ work'[t] = NoWork /\ Apart(t)
  BY <1>0, TypedFile DEF Apart
<1>2. \A k \in Key : ~Coming(t, k) /\ ~Coming(t, k)'
  BY <1>0, <1>1 DEF Coming, Compacts, NoWork, Putting, Mid
<1>3. \A k \in Key : ~Touching(t, k) /\ ~Touching(t, k)'
  BY <1>0, <1>1 DEF Touching, Changing, Deleting, Publishing
<1>4. ThreadTrees(t)'
  BY <1>1 DEF ThreadTrees, Putting, Mid, Deleting, Gathering, Publishing, NoWork
<1> QED BY <1>0, <1>1, <1>2, <1>3, <1>4, StillTrees

-----------------------------------------------------------------------------
(* At rest the trees and the table have to agree on every key.              *)
LEMMA RestingTrees ==
  ASSUME Resting', art' = [k \in Key |-> art'[k]],
         \A k \in Key : Indexed(toc', k, art'[k])
  PROVE  TreesInv'
<1>1. ASSUME NEW t \in Threads PROVE ThreadTrees(t)'
  BY DEF Resting, ThreadTrees, Putting, Mid, Deleting, Gathering, Publishing, NoWork
<1>2. \A k \in Key : KeyTrees(k, \E t \in Threads : Touching(t, k),
                                 \E t \in Threads : Coming(t, k))'
  BY DEF Indexed, KeyTrees
<1> QED BY <1>1, <1>2 DEF TreesInv

(* The invariant reads these variables and no others.                       *)
LEMMA SameTrees ==
  ASSUME TreesInv, UNCHANGED <<pc, arg, work, art, toc>>
  PROVE  TreesInv'
<1>1. ASSUME NEW t \in Threads
      PROVE  /\ ThreadTrees(t)'
             /\ \A k : /\ Touching(t, k)' <=> Touching(t, k)
                       /\ Coming(t, k)' <=> Coming(t, k)
  <2>1. ThreadTrees(t) /\ pc' = pc /\ arg' = arg /\ work' = work /\ art' = art
    BY DEF TreesInv
  <2>2. InTrees(t)' = InTrees(t) /\ (Compacts(t)' <=> Compacts(t))
    BY <2>1 DEF InTrees, Compacts
  <2>3. ASSUME NEW k PROVE Touching(t, k)' <=> Touching(t, k)
    BY <2>1 DEF Touching, InTrees
  <2>4. ASSUME NEW k PROVE Coming(t, k)' <=> Coming(t, k)
    BY <2>1 DEF Coming, Compacts
  <2>5. ThreadTrees(t)'
    BY <2>1, <2>2, <2>4 DEF ThreadTrees
  <2> QED BY <2>3, <2>4, <2>5
<1>2. ASSUME NEW k \in Key
      PROVE  KeyTrees(k, \E t \in Threads : Touching(t, k), \E t \in Threads : Coming(t, k))'
  BY <1>1 DEF TreesInv, KeyTrees
<1> QED BY <1>1, <1>2 DEF TreesInv

(* A stop forgets table and trees; open rebuilds them from one another.     *)
LEMMA RestartTrees ==
  ASSUME Shape, Shape', Closed(toc'), TreesInv, Restart
  PROVE  TreesInv'
<1>1. ASSUME Forget, \A t \in Threads : work'[t] = NoWork PROVE TreesInv'
  <2>1. Resting' /\ toc' = <<>> /\ art' = [k \in Key |-> NotIndexed]
    BY <1>1 DEF Forget, Resting
  <2>2. \A k \in Key : ~Live(<<>>, k)
    BY DEF Live, Positions
  <2>3. art' = [k \in Key |-> art'[k]] /\ \A k \in Key : Indexed(toc', k, art'[k])
    BY <2>1, <2>2 DEF Indexed
  <2> QED BY <2>1, <2>3, RestingTrees
<1>2. CASE Crash /\ work' = [t \in Threads |-> NoWork]
  BY <1>1, <1>2 DEF Crash
<1>3. CASE Drop /\ (\A t \in Threads : work[t] = NoWork) /\ UNCHANGED bulk
  BY <1>1, <1>3 DEF Drop, bulk
<1>4. CASE Open /\ UNCHANGED bulk
  <2>1. UNCHANGED <<pc, arg, work>> /\ ~Up
    BY <1>4 DEF Open, Up, bulk
  <2>2. CASE Recoverable(log)
    <3>1. Resting'
      BY <2>1 DEF Shape, DownIsEmpty, Fits, Resting
    <3>2. art' = [k \in Key |-> RebuiltIndex(toc', k)]
      BY <1>4, <2>2 DEF Open
    <3>3. toc' \in Seq(EntryType) /\ Closed(toc')
      BY DEF Shape, Types
    <3>4. \A k \in Key : Indexed(toc', k, art'[k])
      BY <3>2, <3>3, RebuiltAgrees
    <3> QED BY <3>1, <3>2, <3>4, RestingTrees
  <2>3. CASE ~Recoverable(log)
    BY <1>4, <2>1, <2>3, SameTrees DEF Open
  <2> QED BY <2>2, <2>3
<1> QED BY <1>2, <1>3, <1>4 DEF Restart

-----------------------------------------------------------------------------
(* Every step keeps trees and table of contents together.                   *)
LEMMA TogetherStep ==
  ASSUME CompactsAlone, OneChanger, MaintenanceInv, ShapeInv, FaithfulInv, TreesInv,
         [MaintenanceNext]_allVars
  PROVE  TreesInv'
<1>1. /\ Shape /\ Shape' /\ MapInvariant(FALSE)
      /\ Closed(toc) /\ Closed(toc')
  <2>1. ShapeInv' /\ FaithfulInv'
    BY FaithfulStep
  <2>2. ShapeInv' => Shape'
    BY ShapeFacts, PTL
  <2>3. FaithfulInv => Closed(toc)
    BY DEF FaithfulInv, MapInvariant, TablesClosed
  <2>4. FaithfulInv' => Closed(toc')
    BY DEF FaithfulInv, MapInvariant, TablesClosed
  <2> QED BY <2>1, <2>2, <2>3, <2>4, ShapeFacts DEF FaithfulInv
<1>2. ASSUME NEW t \in Threads, SingleStep(t) PROVE TreesInv'
  BY <1>1, <1>2, SinglePlain, PutIndexTrees, PutTocTrees, DeleteBeginTrees, DeleteTocTrees
<1>3. ASSUME NEW t \in Threads, Batch(t) PROVE TreesInv'
  BY <1>1, <1>3, BatchGathers, BatchIndexTrees, BatchChainTrees, BatchTocTrees DEF Batch
<1>4. ASSUME NEW t \in Threads, CompactRead(t) PROVE TreesInv'
  BY <1>1, <1>4, CompactReadTrees
<1>5. ASSUME NEW t \in Threads, CompactTruncate(t) \/ CompactForget(t) \/ CompactPut(t)
                                \/ CompactToc(t) \/ CompactFlush(t)
      PROVE  TreesInv'
  BY <1>1, <1>5, CompactTruncateTrees, CompactForgetTrees, CompactPutTrees,
     CompactTocTrees, CompactFlushTrees
<1>6. ASSUME Restart PROVE TreesInv'
  BY <1>1, <1>6, RestartTrees
<1>7. CASE UNCHANGED allVars
  BY <1>1, <1>7, SameTrees DEF allVars, bulk, vars, memory
<1> QED BY <1>2, <1>3, <1>4, <1>5, <1>6, <1>7 DEF MaintenanceNext, Compact

(* A new engine indexes nothing.                                            *)
LEMMA TreesInit == MaintenanceInit => TreesInv
<1> SUFFICES ASSUME MaintenanceInit PROVE TreesInv
  OBVIOUS
<1>1. /\ toc = <<>> /\ art = [k \in Key |-> NotIndexed]
      /\ \A t \in Threads : pc[t] = "idle" /\ work[t] = NoWork
  BY DEF MaintenanceInit, Init
<1>2. \A k \in Key : ~Live(<<>>, k)
  BY DEF Live, Positions
<1>3. \A t \in Threads : ThreadTrees(t)
  BY <1>1 DEF ThreadTrees, Putting, Mid, Deleting, Gathering, Publishing, NoWork
<1>4. ASSUME NEW k \in Key
      PROVE  KeyTrees(k, \E t \in Threads : Touching(t, k), \E t \in Threads : Coming(t, k))
  BY <1>1, <1>2 DEF KeyTrees
<1>5. art = [k \in Key |-> art[k]]
  BY <1>1
<1> QED BY <1>3, <1>4, <1>5 DEF TreesInv

-----------------------------------------------------------------------------
(***************************************************************************)
(* Between calls the radix trees index exactly the live keys of the table   *)
(* of contents, through put, put_batch, delete, compact (engine.rs),        *)
(* crashes and reopenings, provided one thread alone changes the engine.    *)
(* Compactions empty the table and leave the trees: each key that they      *)
(* index is put again, whatever the references it was read through lead to. *)
(***************************************************************************)
THEOREM MaintenanceIndexAgrees ==
  ASSUME CompactsAlone, OneChanger
  PROVE  MaintenanceSpec => []IndexAgreesSettled
<1>1. MaintenanceInit => TreesInv
  BY TreesInit
<1>2. BulkInv /\ TreesInv /\ [MaintenanceNext]_allVars => TreesInv'
  BY TogetherStep DEF BulkInv
<1>3. BulkInv /\ TreesInv => IndexAgreesSettled
  <2> SUFFICES ASSUME BulkInv, TreesInv, Settled, NEW k \in Key
               PROVE  Indexed(toc, k, art[k])
    BY DEF IndexAgreesSettled, IndexAgrees, Indexed
  <2>1. Resting
    BY DEF Settled, Quiet, Resting
  <2>2. \A t \in Threads : ~Touching(t, k) /\ ~Coming(t, k)
    BY <2>1 DEF Resting, Touching, Coming, Compacts, NoWork, Changing, Deleting, Publishing
  <2>3. KeyTrees(k, \E t \in Threads : Touching(t, k), \E t \in Threads : Coming(t, k))
    BY DEF TreesInv
  <2> QED BY <2>2, <2>3 DEF KeyTrees, Indexed
<1> QED BY <1>1, <1>2, <1>3, BulkInvHolds, PTL DEF MaintenanceSpec
-----------------------------------------------------------------------------
(***************************************************************************)
(* The chains number the versions of an undeleted key as the table of       *)
(* contents counts its entries (VersionsAgreeUndeleted).                    *)
(***************************************************************************)
(* What a call has in the chains and not yet in the table of contents: the  *)
(* version of a put, or the tensors of a batch that have had their turn.    *)
EntryOf(item) == NewEntry(item.key, item.value, item.refs)

Ahead(t) ==
  IF pc[t] = "put_toc" THEN <<EntryOf(arg[t])>>
  ELSE IF pc[t] \in Publishing
       THEN [i \in 1 .. work[t].done |-> EntryOf(work[t].items[i])]
       ELSE <<>>

(* A chain's versions are the last of a key's entries, numbered as these    *)
(* are; a version lists the chunks' hashes or, reopened, their offsets.     *)
Lists(versions, own) ==
  /\ Len(versions) <= Len(own)
  /\ versions = <<>> => own = <<>>
  /\ \A i \in DOMAIN versions :
       LET n == Len(own) - Len(versions) + i
       IN  /\ versions[i].id + 1 = n
           /\ versions[i].hashes \in {own[n].value, OffsetHashes(own[n].refs)}

Undeleted(entries, k) == \A i \in Positions(entries, k) : ~entries[i].dead

Numbered(versions, entries, k) ==
  Undeleted(entries, k) => Lists(versions, EntriesOf(entries, k))

(* Between the removal of the chain and the tombstones.                     *)
Unchained(t, k) == pc[t] = "delete_toc" /\ arg[t].key = k

ThreadVersions(t) == \A k \in Key :
  IF Unchained(t, k) THEN chains[k].versions = <<>>
  ELSE Numbered(chains[k].versions, toc \o Ahead(t), k)

ChainsFit == /\ chains \in [Key -> ChainType(Hashes)]
             /\ \A k \in Key : Consecutive(chains[k].versions)

VersionsInv ==
  /\ ChainsFit
  /\ compactions = 0 =>
       /\ \A t \in Threads : Changer(t) => ThreadVersions(t)
       /\ (\A t \in Threads : ~Changer(t))
            => \A k \in Key : Numbered(chains[k].versions, toc, k)

-----------------------------------------------------------------------------
(* The picked entries in the order of their positions.                      *)
LEMMA PickedAt ==
  ASSUME NEW s, NEW n \in Nat, NEW P \in SUBSET (1 .. n), NEW i \in P
  PROVE  Picked(s, P)[Rank(P, i)] = s[i]
<1> DEFINE m == Rank(P, i)
           at == CHOOSE j \in P : Rank(P, j) = m
<1>1. m \in 1 .. Cardinality(P)
  BY RankWithin
<1>2. at \in P /\ Rank(P, at) = m
  OBVIOUS
<1>3. at = i
  <2> HIDE DEF at
  <2> QED BY <1>2, RankWithin
<1> QED BY <1>1, <1>3 DEF Picked

(* A table with one entry more.                                             *)
LEMMA EntriesAppend ==
  ASSUME NEW S, NEW s \in Seq(S), NEW e \in S, NEW k
  PROVE  /\ EntriesOf(s, k) \in Seq(S) /\ Len(EntriesOf(s, k)) = Cardinality(Positions(s, k))
         /\ EntriesOf(Append(s, e), k)
              = IF e.key = k THEN Append(EntriesOf(s, k), e) ELSE EntriesOf(s, k)
         /\ Undeleted(Append(s, e), k) => Undeleted(s, k)
<1> DEFINE n == Len(s)
           l == Append(s, e)
           P == Positions(s, k)
           Q == Positions(l, k)
           c == Cardinality(P)
<1>1. /\ n \in Nat /\ DOMAIN s = 1 .. n /\ l \in Seq(S) /\ DOMAIN l = 1 .. n + 1
      /\ l[n + 1] = e /\ \A i \in 1 .. n : l[i] = s[i]
  OBVIOUS
<1>2. P \in SUBSET (1 .. n) /\ P \in SUBSET DOMAIN s /\ Q \in SUBSET DOMAIN l
  BY <1>1 DEF Positions
<1>3. Q = IF e.key = k THEN P \union {n + 1} ELSE P
  BY <1>1 DEF Positions
<1> HIDE DEF n, l, P, Q
<1>4. /\ Picked(s, P) \in Seq(S) /\ c \in Nat /\ Len(Picked(s, P)) = c
      /\ Picked(l, Q) \in Seq(S) /\ Len(Picked(l, Q)) = Cardinality(Q)
  BY <1>1, <1>2, PickedType
<1>5. ASSUME e.key # k PROVE Picked(l, Q) = Picked(s, P)
  <2>1. Picked(l, Q) = Picked(s, P)
    <3>1. Q = P
      BY <1>3, <1>5
    <3>2. ASSUME NEW m \in 1 .. c PROVE Picked(l, P)[m] = Picked(s, P)[m]
      <4>1. PICK i \in P : Rank(P, i) = m
        BY <1>1, <1>2, RankExists
      <4>2. Picked(l, P)[m] = l[i] /\ Picked(s, P)[m] = s[i]
        BY <1>1, <1>2, <4>1, PickedAt
      <4> QED BY <1>1, <1>2, <4>2
    <3> QED BY <1>4, <3>1, <3>2
  <2> QED BY <1>5, <2>1
<1>6. ASSUME e.key = k PROVE Picked(l, Q) = Append(Picked(s, P), e)
  <2>1. n + 1 \notin P /\ IsFiniteSet(P)
    <3>1. n + 1 \notin P
      BY <1>1, <1>2
    <3>2. IsFiniteSet(1 .. n)
      BY <1>1, FS_Interval
    <3> QED BY <1>2, <3>1, <3>2, FS_Subset
  <2>2. Cardinality(Q) = c + 1
    BY <1>3, <1>6, <2>1, FS_AddElement
  <2>3. ASSUME NEW i \in P PROVE Rank(Q, i) = Rank(P, i)
    <3>1. {j \in Q : j <= i} = {j \in P : j <= i}
      BY <1>1, <1>2, <1>3, <1>6, <2>3
    <3> QED BY <3>1 DEF Rank
  <2>4. Rank(Q, n + 1) = c + 1
    <3>1. ASSUME NEW j \in Q PROVE j <= n + 1
      <4>1. j \in P \/ j = n + 1
        BY <1>3, <1>6
      <4> QED BY <1>1, <1>2, <4>1
    <3>2. {j \in Q : j <= n + 1} = Q
      BY <3>1
    <3> QED BY <2>2, <3>2 DEF Rank
  <2>5. Q \in SUBSET (1 .. n + 1) /\ n + 1 \in Q /\ n + 1 \in Nat
    BY <1>1, <1>2, <1>3, <1>6
  <2>6. Picked(l, Q)[c + 1] = e
    <3>1. Picked(l, Q)[Rank(Q, n + 1)] = l[n + 1]
      BY <2>5, PickedAt
    <3> QED BY <1>1, <2>4, <3>1
  <2>7. ASSUME NEW m \in 1 .. c PROVE Picked(l, Q)[m] = Picked(s, P)[m]
    <3>1. PICK i \in P : Rank(P, i) = m
      BY <1>1, <1>2, RankExists
    <3>2. Picked(s, P)[m] = s[i]
      BY <1>1, <1>2, <3>1, PickedAt
    <3>3. i \in Q /\ Rank(Q, i) = m
      BY <1>3, <1>6, <2>3, <3>1
    <3>4. Picked(l, Q)[m] = l[i]
      BY <2>5, <3>3, PickedAt
    <3> QED BY <1>1, <1>2, <3>2, <3>4
  <2>8. Picked(l, Q) = Append(Picked(s, P), e)
    <3> DEFINE new == Picked(l, Q)
               old == Picked(s, P)
    <3>1. new \in Seq(S) /\ Len(new) = c + 1 /\ old \in Seq(S) /\ Len(old) = c
      BY <1>4, <2>2
    <3>2. new[c + 1] = e /\ \A m \in 1 .. c : new[m] = old[m]
      BY <2>6, <2>7
    <3> HIDE DEF new, old
    <3>3. new = Append(old, e)
      BY <1>4, <3>1, <3>2
    <3> QED BY <3>3 DEF new, old
  <2> QED BY <1>6, <2>8
<1>7. Undeleted(l, k) => Undeleted(s, k)
  BY <1>1, <1>2, <1>3 DEF Undeleted, P, Q
<1>8. EntriesOf(s, k) = Picked(s, P) /\ EntriesOf(l, k) = Picked(l, Q)
  BY DEF EntriesOf, P, Q
<1>9. EntriesOf(l, k) = IF e.key = k THEN Append(EntriesOf(s, k), e) ELSE EntriesOf(s, k)
  BY <1>5, <1>6, <1>8
<1> QED BY <1>4, <1>7, <1>8, <1>9 DEF P, l

(* A chain that lists a key's entries lists them with one more.             *)
LEMMA ListsAppend ==
  ASSUME NEW chain \in ChainType(Hashes), Consecutive(chain.versions), NEW h \in Hashes,
         NEW S, NEW own \in Seq(S), NEW e \in S, e.value = h,
         Lists(chain.versions, own)
  PROVE  Lists(ChainAppend(chain, h).versions, Append(own, e))
<1> DEFINE old == chain.versions
           m == Len(old)
           c == Len(own)
           all == Pushed(chain, h)
           d == Dropped(chain, h)
           after == SubSeq(all, d + 1, m + 1)
           more == Append(own, e)
<1>1. /\ old \in Seq(VersionType(Hashes)) /\ chain.retention \in Policies
      /\ m \in Nat /\ m + 1 \in Nat \ {0} /\ DOMAIN old = 1 .. m
  BY DEF ChainType
<1>2. ChainAppend(chain, h).versions = after
  BY DEF ChainAppend, ChainType
<1>3. d \in 0 .. m
  BY <1>1, StaysOne DEF Dropped
<1>4. /\ all \in Seq(VersionType(Hashes)) /\ Len(all) = m + 1
      /\ all[m + 1] = [id |-> NextVersionId(chain), hashes |-> h]
  BY PushedIds
<1>5. \A j \in 1 .. m : all[j] = old[j]
  BY <1>1 DEF Pushed
<1>6. /\ c \in Nat /\ m <= c /\ (m = 0 => c = 0)
      /\ \A j \in 1 .. m : /\ old[j].id + 1 = c - m + j
                           /\ old[j].hashes \in {own[c - m + j].value,
                                                 OffsetHashes(own[c - m + j].refs)}
  <2>1. m = 0 => old = <<>>
    BY <1>1
  <2>2. own = <<>> => c = 0
    OBVIOUS
  <2>3. m <= c /\ (old = <<>> => own = <<>>)
    BY DEF Lists
  <2>4. ASSUME NEW j \in DOMAIN old
        PROVE  /\ old[j].id + 1 = c - m + j
               /\ old[j].hashes \in {own[c - m + j].value,
                                    OffsetHashes(own[c - m + j].refs)}
    BY DEF Lists
  <2> HIDE DEF old, m, c
  <2>5. c \in Nat
    BY DEF c
  <2> QED BY <1>1, <2>1, <2>2, <2>3, <2>4, <2>5
<1>7. NextVersionId(chain) = c
  <2>1. CASE m = 0
    <3>1. old = <<>>
      BY <1>1, <2>1
    <3> QED BY <1>6, <2>1, <3>1 DEF NextVersionId
  <2>2. CASE m # 0
    <3>1. old # <<>> /\ m \in 1 .. m
      BY <1>1, <2>2
    <3>2. old[m].id + 1 = c
      BY <1>1, <1>6, <3>1
    <3> QED BY <3>1, <3>2 DEF NextVersionId
  <2> QED BY <2>1, <2>2
<1>8. /\ Len(more) = c + 1 /\ more[c + 1] = e
      /\ \A j \in 1 .. c : more[j] = own[j]
  BY <1>6
<1> HIDE DEF old, m, c, all, d, more
<1>9. /\ Len(after) = (m + 1) - d /\ DOMAIN after = 1 .. (m + 1) - d
      /\ \A i \in 1 .. (m + 1) - d : after[i] = all[d + i]
  <2>1. d + 1 \in 1 .. Len(all) + 1 /\ m + 1 \in d .. Len(all)
    BY <1>1, <1>3, <1>4
  <2> QED BY <1>1, <1>3, <1>4, <2>1
<1> HIDE DEF after
<1>10. ASSUME NEW i \in DOMAIN after
       PROVE  LET n == Len(more) - Len(after) + i
              IN  /\ after[i].id + 1 = n
                  /\ after[i].hashes \in {more[n].value, OffsetHashes(more[n].refs)}
  <2> DEFINE n == Len(more) - Len(after) + i
             j == d + i
  <2>1. /\ i \in Nat /\ j \in 1 .. m + 1 /\ n = c - m + j /\ after[i] = all[j]
    BY <1>1, <1>3, <1>6, <1>8, <1>9
  <2> HIDE DEF j, n
  <2>2. CASE j = m + 1
    <3>1. n = c + 1
      BY <1>1, <1>6, <2>1, <2>2
    <3>2. after[i].id = c /\ after[i].hashes = h /\ more[n] = e
      BY <1>4, <1>7, <1>8, <2>1, <2>2, <3>1
    <3> QED BY <3>1, <3>2 DEF n
  <2>3. CASE j \in 1 .. m
    <3>1. n \in 1 .. c
      BY <1>1, <1>6, <2>1, <2>3
    <3>2. after[i] = old[j] /\ more[n] = own[n]
      BY <1>5, <1>8, <2>1, <2>3, <3>1
    <3> QED BY <1>6, <2>1, <2>3, <3>2 DEF n
  <2> QED BY <1>1, <2>1, <2>2, <2>3
<1>11. Len(after) <= Len(more) /\ after # <<>>
  <2>1. Len(after) \in Nat \ {0}
    BY <1>1, <1>3, <1>9
  <2> QED BY <1>1, <1>3, <1>6, <1>8, <1>9, <2>1
<1> QED BY <1>2, <1>10, <1>11 DEF Lists, more

(* The key of a version that comes gets it, the others are as they were.    *)
LEMMA NumberedAppend ==
  ASSUME NEW chain \in ChainType(Hashes), Consecutive(chain.versions), NEW h \in Hashes,
         NEW S, NEW s \in Seq(S), NEW e \in S, e.value = h, NEW k, e.key = k,
         Numbered(chain.versions, s, k)
  PROVE  Numbered(ChainAppend(chain, h).versions, Append(s, e), k)
<1> SUFFICES ASSUME Undeleted(Append(s, e), k)
             PROVE  Lists(ChainAppend(chain, h).versions, EntriesOf(Append(s, e), k))
  BY DEF Numbered
<1>1. /\ EntriesOf(s, k) \in Seq(S)
      /\ EntriesOf(Append(s, e), k) = Append(EntriesOf(s, k), e)
      /\ Undeleted(s, k)
  BY EntriesAppend
<1>2. Lists(chain.versions, EntriesOf(s, k))
  BY <1>1 DEF Numbered
<1> QED BY <1>1, <1>2, ListsAppend

LEMMA NumberedOther ==
  ASSUME NEW versions, NEW S, NEW s \in Seq(S), NEW e \in S, NEW k, e.key # k,
         Numbered(versions, s, k)
  PROVE  Numbered(versions, Append(s, e), k)
BY EntriesAppend DEF Numbered

(* Tombstones spare the entries of the other keys.                          *)
LEMMA NumberedTombstoned ==
  ASSUME NEW versions, NEW s, NEW k, NEW j, NEW S, s \in Seq(S),
         IF j = k THEN versions = <<>> ELSE Numbered(versions, s, j)
  PROVE  Numbered(versions, Tombstoned(s, k), j)
<1> DEFINE l == Tombstoned(s, k)
<1>1. /\ DOMAIN l = DOMAIN s
      /\ \A i \in DOMAIN s : /\ l[i].key = s[i].key
                             /\ s[i].key = k => l[i].dead
                             /\ s[i].key # k => l[i] = s[i]
  BY DEF Tombstoned
<1> HIDE DEF l
<1>2. Positions(l, j) = Positions(s, j) /\ Positions(s, j) \in SUBSET DOMAIN s
  BY <1>1 DEF Positions
<1>3. CASE j # k
  <2>1. \A i \in Positions(s, j) : l[i] = s[i]
    BY <1>1, <1>3 DEF Positions
  <2>2. EntriesOf(l, j) = EntriesOf(s, j)
    <3> DEFINE P == Positions(s, j)
               at(m) == CHOOSE i \in P : Rank(P, i) = m
    <3>1. \A m \in 1 .. Cardinality(P) : \E i \in P : Rank(P, i) = m
      <4>1. Len(s) \in Nat /\ P \in SUBSET (1 .. Len(s))
        BY <1>2
      <4> HIDE DEF P
      <4> QED BY <4>1, RankExists
    <3> HIDE DEF P
    <3>2. \A m \in 1 .. Cardinality(P) : at(m) \in P
      BY <3>1
    <3>3. \A m \in 1 .. Cardinality(P) : l[at(m)] = s[at(m)]
      BY <2>1, <3>2 DEF P
    <3>4. Picked(l, P) = Picked(s, P)
      BY ZenonT(60), <3>3 DEF Picked
    <3> QED BY <1>2, <3>4 DEF EntriesOf, P
  <2> QED BY <1>2, <1>3, <2>1, <2>2 DEF Numbered, Undeleted, l
<1>4. CASE j = k
  <2>1. CASE Positions(s, k) = {}
    <3>1. EntriesOf(l, j) = <<>>
      <4>1. Positions(l, j) = {} /\ Cardinality({}) = 0
        BY <1>2, <1>4, <2>1, FS_EmptySet
      <4> QED BY <4>1 DEF EntriesOf, Picked
    <3> QED BY <1>4, <3>1 DEF Numbered, Lists, l
  <2>2. CASE Positions(s, k) # {}
    <3>1. PICK i \in Positions(s, k) : l[i].dead
      BY <1>1, <2>2 DEF Positions
    <3> QED BY <1>2, <1>4, <3>1 DEF Numbered, Undeleted, l
  <2> QED BY <2>1, <2>2
<1> QED BY <1>3, <1>4

(* The chain that open makes of the entries.                                *)
LEMMA NumberedRebuilt ==
  ASSUME NEW entries \in Seq(EntryType), NEW k \in Key
  PROVE  Numbered(RebuiltChain(entries, k).versions, entries, k)
<1> DEFINE own == EntriesOf(entries, k)
           versions == [i \in DOMAIN own |-> [id |-> i - 1, hashes |-> OffsetHashes(own[i].refs)]]
<1> SUFFICES ASSUME Undeleted(entries, k)
             PROVE  Lists(RebuiltChain(entries, k).versions, own)
  BY DEF Numbered
<1>1. LiveEntriesOf(entries, k) = own
  <2>1. {i \in Positions(entries, k) : ~entries[i].dead} = Positions(entries, k)
    BY DEF Undeleted
  <2> QED BY <2>1 DEF LiveEntriesOf, EntriesOf
<1>2. RebuiltChain(entries, k).versions = versions
  BY <1>1 DEF RebuiltChain
<1>3. own \in Seq(EntryType)
  <2>1. Positions(entries, k) \in SUBSET DOMAIN entries
    BY DEF Positions
  <2> QED BY <2>1, PickedType DEF EntriesOf
<1> HIDE DEF own
<1>4. Len(own) \in Nat /\ DOMAIN own = 1 .. Len(own)
  BY <1>3
<1>5. /\ DOMAIN versions = 1 .. Len(own) /\ Len(versions) = Len(own)
      /\ \A i \in 1 .. Len(own) : versions[i].id = i - 1
                                  /\ versions[i].hashes = OffsetHashes(own[i].refs)
  BY <1>4
<1>6. versions = <<>> => own = <<>>
  BY <1>3, <1>5
<1> HIDE DEF versions
<1>7. ASSUME NEW i \in DOMAIN versions PROVE Len(own) - Len(versions) + i = i /\ (i - 1) + 1 = i
  BY <1>4, <1>5
<1>8. Lists(versions, own)
  BY <1>4, <1>5, <1>6, <1>7 DEF Lists
<1> QED BY <1>2, <1>8 DEF own

-----------------------------------------------------------------------------
(* What the one thread that may change the engine knows of the chains, in   *)
(* a process that has not compacted; or all threads, if there is no such.   *)
LEMMA ChangerVersions ==
  ASSUME OneChanger, NEW t \in Threads, Changer(t), ChainsFit',
         compactions' = 0 => ThreadVersions(t)'
  PROVE  VersionsInv'
BY DEF OneChanger, VersionsInv

(* A step that leaves chains and table alone, and what is between them.     *)
LEMMA StillVersions ==
  ASSUME VersionsInv, chains' = chains, toc' = toc,
         compactions' = 0 => /\ compactions = 0
                             /\ \A t \in Threads : Changer(t) =>
                                  /\ Ahead(t)' = Ahead(t)
                                  /\ \A k : Unchained(t, k)' <=> Unchained(t, k)
  PROVE  VersionsInv'
<1>1. ASSUME compactions' = 0, NEW t \in Threads, Changer(t) PROVE ThreadVersions(t)'
  BY <1>1 DEF VersionsInv, ThreadVersions
<1>2. ASSUME compactions' = 0, \A t \in Threads : ~Changer(t), NEW k \in Key
      PROVE  Numbered(chains'[k].versions, toc', k)
  BY <1>2 DEF VersionsInv
<1> QED BY <1>1, <1>2 DEF VersionsInv, ChainsFit

(* What is between a chain and the table of a thread that is at none of the *)
(* points where something may be.                                           *)
Between == Publishing \union {"put_toc", "delete_toc"}

(* A step of one thread that begins and ends elsewhere.                     *)
LEMMA ElsewhereVersions ==
  ASSUME VersionsInv, NEW t \in Threads, Apart(t), chains' = chains, toc' = toc,
         compactions' = 0 => compactions = 0,
         pc[t] \notin Between, pc'[t] \notin Between
  PROVE  VersionsInv'
<1>1. \A u \in Threads : /\ Ahead(u)' = Ahead(u)
                         /\ \A k : Unchained(u, k)' <=> Unchained(u, k)
  <2>1. ASSUME NEW u \in Threads, u # t
        PROVE  /\ Ahead(u)' = Ahead(u)
               /\ \A k : Unchained(u, k)' <=> Unchained(u, k)
    BY <2>1 DEF Apart, Ahead, Unchained
  <2>2. /\ Ahead(t) = <<>> /\ \A k : ~Unchained(t, k)
        /\ Ahead(t)' = <<>> /\ \A k : ~Unchained(t, k)'
    BY DEF Between, Ahead, Unchained
  <2> QED BY <2>1, <2>2
<1> QED BY <1>1, StillVersions

(* A version comes to a chain, and its entry is due in the table.           *)
LEMMA VersionComes ==
  ASSUME OneChanger, VersionsInv, NEW t \in Threads, Changer(t),
         NEW S, toc \in Seq(S), Ahead(t) \in Seq(S), NEW e \in S,
         e.key \in Key, e.value \in Hashes,
         NEW chain \in ChainType(Hashes), chain.versions = chains[e.key].versions,
         chains' = [chains EXCEPT ![e.key] = ChainAppend(chain, e.value)], toc' = toc,
         compactions' = 0 => compactions = 0,
         Ahead(t)' = Append(Ahead(t), e),
         \A k : ~Unchained(t, k) /\ ~Unchained(t, k)'
  PROVE  VersionsInv'
<1> DEFINE key == e.key
           after == ChainAppend(chain, e.value)
           s == toc \o Ahead(t)
<1>1. /\ chains \in [Key -> ChainType(Hashes)]
      /\ \A k \in Key : Consecutive(chains[k].versions)
  BY DEF VersionsInv, ChainsFit
<1>2. after \in ChainType(Hashes) /\ Consecutive(after.versions)
  BY <1>1, ChainAppendType
<1>3. /\ chains'[key] = after
      /\ \A k \in Key : k # key => chains'[k] = chains[k]
      /\ chains' \in [Key -> ChainType(Hashes)]
  <2> HIDE DEF after
  <2> QED BY <1>1, <1>2 DEF after
<1>4. ChainsFit'
  BY <1>1, <1>2, <1>3 DEF ChainsFit
<1>5. s \in Seq(S) /\ (toc \o Ahead(t))' = Append(s, e)
  <2>1. s \in Seq(S)
    OBVIOUS
  <2>2. toc \o Append(Ahead(t), e) = Append(s, e)
    <3> DEFINE a == Ahead(t)
    <3> HIDE DEF a
    <3>1. a \in Seq(S)
      BY DEF a
    <3>2. toc \o Append(a, e) = Append(toc \o a, e)
      BY <3>1
    <3> QED BY <3>2 DEF a
  <2> QED BY <2>1, <2>2
<1> HIDE DEF key, after, s
<1>6. ASSUME compactions' = 0, NEW k \in Key
      PROVE  Numbered(chains'[k].versions, (toc \o Ahead(t))', k)
  <2>1. Numbered(chains[k].versions, s, k)
    BY <1>6 DEF VersionsInv, ThreadVersions, s
  <2>2. CASE k = key
    <3>1. Numbered(chain.versions, s, k) /\ Consecutive(chain.versions)
      BY <1>1, <2>1, <2>2 DEF key
    <3>2. Numbered(after.versions, Append(s, e), k)
      BY <1>5, <2>2, <3>1, NumberedAppend DEF after, key
    <3> QED BY <1>3, <1>5, <2>2, <3>2
  <2>3. CASE k # key
    <3>1. Numbered(chains[k].versions, Append(s, e), k)
      BY <1>5, <2>1, <2>3, NumberedOther DEF key
    <3> QED BY <1>3, <1>5, <2>3, <3>1
  <2> QED BY <2>2, <2>3
<1>7. compactions' = 0 => ThreadVersions(t)'
  BY <1>6 DEF ThreadVersions
<1> QED BY <1>4, <1>7, ChangerVersions

(* The entries that were due come to the table.                             *)
LEMMA EntriesCome ==
  ASSUME OneChanger, VersionsInv, NEW t \in Threads, Changer(t),
         NEW S, toc \in Seq(S), Ahead(t) \in Seq(S),
         chains' = chains, toc' = toc \o Ahead(t), Ahead(t)' = <<>>,
         compactions' = 0 => compactions = 0,
         \A k : ~Unchained(t, k) /\ ~Unchained(t, k)'
  PROVE  VersionsInv'
<1>1. toc' \in Seq(S)
  OBVIOUS
<1>2. (toc \o Ahead(t))' = toc \o Ahead(t)
  BY <1>1
<1>3. compactions' = 0 => ThreadVersions(t)'
  BY <1>2 DEF VersionsInv, ThreadVersions
<1> QED BY <1>3, ChangerVersions DEF VersionsInv, ChainsFit

-----------------------------------------------------------------------------
(* A single put: the chain first, and then the table.                       *)
LEMMA PutVersions ==
  ASSUME OneChanger, Shape, VersionsInv, TreesInv, NEW t \in Threads, SingleStep(t),
         PutChain(t) \/ PutToc(t)
  PROVE  VersionsInv'
<1> DEFINE v == arg[t]
           e == EntryOf(v)
           chain == [chains[v.key] EXCEPT !.retention = v.retention]
<1>1. /\ pc[t] \in {"put_chain", "put_toc"} /\ arg' = arg
      /\ pc'[t] = IF pc[t] = "put_chain" THEN "put_toc" ELSE "put_should_checkpoint"
      /\ compactions' = compactions
  BY TypedFile DEF PutChain, PutToc, At, Goto, SingleStep
<1>2. /\ v \in ArgType /\ v.key \in Key /\ v.value \in Hashes /\ v.retention \in Policies
      /\ e \in EntryType /\ e.key = v.key /\ e.value = v.value /\ toc \in Seq(EntryType)
  <2>1. v \in ArgType /\ v.key \in Key /\ toc \in Seq(EntryType)
    BY <1>1, TypedFile DEF Shape, Complete
  <2>2. v.value \in Hashes /\ v.retention \in Policies
    BY <2>1, ValueHashes, EngineAssumption DEF ArgType, Policies
  <2>3. v.value \in Contents /\ v.refs \in Seq(Nat)
    BY <2>1 DEF ArgType
  <2> QED BY <2>1, <2>2, <2>3 DEF EntryOf, NewEntry, EntryType
<1>3. Changer(t)
  BY <1>1 DEF TreesInv, ThreadTrees, Putting
<1>4. \A k : ~Unchained(t, k) /\ ~Unchained(t, k)'
  BY <1>1 DEF Unchained
<1> HIDE DEF e
<1>5. CASE PutChain(t)
  <2>1. pc[t] = "put_chain" /\ pc'[t] = "put_toc"
    BY <1>1, <1>5 DEF PutChain, At
  <2>2. Ahead(t) = <<>> /\ Ahead(t)' = <<e>>
    BY <1>1, <2>1 DEF Ahead, Publishing, e
  <2>3. Ahead(t)' = Append(Ahead(t), e) /\ Ahead(t) \in Seq(EntryType)
    BY <2>2
  <2>4. chain \in ChainType(Hashes) /\ chain.versions = chains[v.key].versions
    BY <1>2 DEF VersionsInv, ChainsFit, ChainType
  <2>5. /\ chains' = [chains EXCEPT ![e.key] = ChainAppend(chain, e.value)]
        /\ toc' = toc
    BY <1>2, <1>5 DEF PutChain
  <2> HIDE DEF chain
  <2> QED BY <1>1, <1>2, <1>3, <1>4, <2>3, <2>4, <2>5, VersionComes
<1>6. CASE PutToc(t)
  <2>1. pc[t] = "put_toc" /\ pc'[t] = "put_should_checkpoint"
    BY <1>1, <1>6 DEF PutToc, At
  <2>2. Ahead(t) = <<e>> /\ Ahead(t)' = <<>>
    BY <2>1 DEF Ahead, Publishing, e
  <2>3. Ahead(t) \in Seq(EntryType)
    BY <1>2, <2>2
  <2>4. chains' = chains /\ toc' = toc \o Ahead(t)
    <3>1. toc' = Append(toc, e) /\ chains' = chains
      BY <1>6 DEF PutToc, EntryOf, e
    <3> QED BY <1>2, <2>2, <3>1
  <2> QED BY <1>1, <1>2, <1>3, <1>4, <2>2, <2>3, <2>4, EntriesCome
<1> QED BY <1>5, <1>6

(* delete takes the chain away, and then sets the tombstones.               *)
LEMMA DeleteVersions ==
  ASSUME OneChanger, Shape, Shape', VersionsInv, TreesInv, NEW t \in Threads,
         SingleStep(t), DeleteChain(t) \/ DeleteToc(t)
  PROVE  VersionsInv'
<1> DEFINE key == arg[t].key
<1>1. /\ toc \in Seq(EntryType) /\ compactions' = compactions /\ Ahead(t) = <<>>
      /\ pc[t] \in Deleting
  BY TypedFile DEF DeleteChain, DeleteToc, At, SingleStep, Ahead, Publishing, Deleting
<1>2. Changer(t)
  BY <1>1 DEF TreesInv, ThreadTrees
<1>3. toc \o <<>> = toc
  BY <1>1
<1>4. CASE DeleteChain(t)
  <2>1. /\ pc[t] = "delete_chain" /\ pc'[t] = "delete_toc" /\ arg' = arg /\ toc' = toc
        /\ chains' = [chains EXCEPT ![key] = NoChain]
    BY <1>4, TypedFile DEF DeleteChain, At, Goto
  <2>2. ChainsFit'
    BY <2>1, NoChainType DEF VersionsInv, ChainsFit
  <2>3. ASSUME compactions' = 0 PROVE ThreadVersions(t)'
    <3>1. Ahead(t)' = <<>>
      BY <2>1 DEF Ahead, Publishing
    <3>2. \A k \in Key : Numbered(chains[k].versions, toc, k)
      BY <1>1, <1>2, <1>3, <2>1, <2>3 DEF VersionsInv, ThreadVersions, Unchained
    <3>3. \A k \in Key : IF k = key THEN chains'[k].versions = <<>> ELSE chains'[k] = chains[k]
      BY <2>1 DEF VersionsInv, ChainsFit, NoChain
    <3> QED BY <1>3, <2>1, <3>1, <3>2, <3>3 DEF ThreadVersions, Unchained
  <2> QED BY <1>2, <2>2, <2>3, ChangerVersions
<1>5. CASE DeleteToc(t)
  <2>1. /\ pc[t] = "delete_toc" /\ pc'[t] = "idle" /\ chains' = chains
        /\ toc' = Tombstoned(toc, key)
    BY <1>5, TypedFile DEF DeleteToc, At, Goto, Return
  <2>2. Ahead(t)' = <<>> /\ \A k : ~Unchained(t, k)'
    BY <2>1 DEF Ahead, Publishing, Unchained
  <2>3. toc' \o <<>> = toc'
    <3>1. toc' \in Seq(EntryType)
      BY DEF Shape, Types
    <3> QED BY <3>1
  <2>4. ASSUME compactions' = 0 PROVE ThreadVersions(t)'
    <3>1. ASSUME NEW k \in Key PROVE Numbered(chains[k].versions, toc', k)
      <4>1. IF k = key THEN chains[k].versions = <<>> ELSE Numbered(chains[k].versions, toc, k)
        BY <1>1, <1>2, <1>3, <2>1, <2>4 DEF VersionsInv, ThreadVersions, Unchained
      <4> QED BY <1>1, <2>1, <4>1, NumberedTombstoned
    <3> QED BY <2>1, <2>2, <2>3, <3>1 DEF ThreadVersions
  <2> QED BY <1>2, <2>1, <2>4, ChangerVersions DEF VersionsInv, ChainsFit
<1> QED BY <1>4, <1>5

-----------------------------------------------------------------------------
(* The other steps of put, delete, get and flush.                           *)
LEMMA SingleElsewhere ==
  ASSUME Shape, VersionsInv, NEW t \in Threads, SingleStep(t),
         ~PutChain(t), ~PutToc(t), ~DeleteChain(t), ~DeleteToc(t)
  PROVE  VersionsInv'
<1>1. /\ pc \in [Threads -> Points] /\ Apart(t) /\ compactions' = compactions
      /\ Put(t) \/ TakeCheckpoint(t) \/ Delete(t) \/ Get(t)
  BY SingleBeside, TypedFile DEF SingleStep, Beside, Apart
<1>2. chains' = chains /\ toc' = toc /\ pc[t] \notin Between /\ pc'[t] \notin Between
  <2> USE DEF At, Goto, Set, Return, disk, memory, Between, Publishing
  <2>1. CASE Put(t)
    BY <1>1, <2>1 DEF Put, PutBegin, PutLookup, PutAddRef, PutAppend, PutContains, PutInsert,
                      PutRecord, PutIndex, PutShouldCheckpoint, NextSegment
  <2>2. CASE TakeCheckpoint(t)
    BY <1>1, <2>2 DEF TakeCheckpoint, CheckpointBegin, CheckpointToc, CheckpointLen,
                      CheckpointAppend, CheckpointSync, CheckpointReset, LastSync
  <2>3. CASE Delete(t) \/ Get(t)
    BY <1>1, <2>3 DEF Delete, Get, DeleteBegin, GetLookup, GetRead
  <2> QED BY <1>1, <2>1, <2>2, <2>3
<1> QED BY <1>1, <1>2, ElsewhereVersions

-----------------------------------------------------------------------------
(* A batch that still gathers its references, to the point where it takes   *)
(* the lock of the table of contents.                                       *)
LEMMA GatherVersions ==
  ASSUME VersionsInv, NEW t \in Threads, Apart(t), chains' = chains, toc' = toc,
         compactions' = compactions,
         pc[t] \in Gathering \union {"idle"}, pc'[t] \in Gathering \union {"batch_index"},
         work'[t].done = 0
  PROVE  VersionsInv'
<1>1. ASSUME NEW u \in Threads
      PROVE  Ahead(u)' = Ahead(u) /\ \A k : Unchained(u, k)' <=> Unchained(u, k)
  <2>1. CASE u = t
    <3>1. Ahead(t) = <<>> /\ \A k : ~Unchained(t, k) /\ ~Unchained(t, k)'
      BY DEF Gathering, Publishing, Ahead, Unchained
    <3>2. Ahead(t)' = <<>>
      <4>1. CASE pc'[t] \notin Publishing
        BY <4>1 DEF Gathering, Publishing, Ahead
      <4>2. CASE pc'[t] \in Publishing
        <5>1. Ahead(t)' = [i \in 1 .. 0 |-> EntryOf(work[t].items[i])']
          BY <4>2 DEF Publishing, Ahead
        <5> QED BY <5>1
      <4> QED BY <4>1, <4>2
    <3> QED BY <2>1, <3>1, <3>2
  <2>2. CASE u # t
    BY <2>2 DEF Apart, Ahead, Unchained
  <2> QED BY <2>1, <2>2
<1> QED BY <1>1, StillVersions

LEMMA BatchGatherVersions ==
  ASSUME Shape, VersionsInv, TreesInv, NEW t \in Threads,
         \/ BatchBegin(t) \/ BatchLookup(t) \/ BatchAddRef(t) \/ BatchAppend(t)
         \/ BatchContains(t) \/ BatchInsert(t) \/ BatchRecord(t)
  PROVE  VersionsInv'
<1>1. /\ pc \in [Threads -> Points] /\ Apart(t) /\ compactions' = compactions
      /\ chains' = chains /\ toc' = toc
  <2>1. Batch(t)
    BY DEF Batch
  <2>2. Apart(t)
    BY <2>1, BatchBeside DEF Beside, Apart
  <2> QED BY <2>2, TypedFile DEF BatchBegin, BatchLookup, BatchAddRef, BatchAppend,
          BatchContains, BatchInsert, BatchRecord, OnlyWork, memory, disk
<1>2. pc[t] \in Gathering \union {"idle"} /\ pc'[t] \in Gathering \union {"batch_index"}
  BY <1>1 DEF BatchBegin, BatchLookup, BatchAddRef, BatchAppend,
          BatchContains, BatchInsert, BatchRecord, At, Goto, Gathering
<1>3. work'[t].done = 0
  BY BatchUndone
<1> QED BY <1>1, <1>2, <1>3, GatherVersions

(* The tree is of no account here, but the publication begins.              *)
LEMMA BatchIndexVersions ==
  ASSUME Shape, VersionsInv, NEW t \in Threads, BatchIndex(t)
  PROVE  VersionsInv'
<1>1. /\ pc[t] = "batch_index" /\ pc'[t] = "batch_chain" /\ compactions' = compactions
      /\ chains' = chains /\ toc' = toc /\ arg' = arg /\ work' = work
  BY TypedFile DEF BatchIndex, At, Goto, OnlyWork, disk
<1>2. \A u \in Threads \ {t} : pc'[u] = pc[u]
  BY TypedFile DEF BatchIndex, Goto
<1>3. ASSUME NEW u \in Threads
      PROVE  Ahead(u)' = Ahead(u) /\ \A k : Unchained(u, k)' <=> Unchained(u, k)
  BY <1>1, <1>2 DEF Ahead, Unchained, Publishing
<1> QED BY <1>1, <1>3, StillVersions

(* A batch: the chains, tensor by tensor, and then the table.               *)
LEMMA BatchVersions ==
  ASSUME OneChanger, Shape, Shape', VersionsInv, TreesInv, NEW t \in Threads,
         BatchChain(t) \/ BatchToc(t)
  PROVE  VersionsInv'
<1> DEFINE v == work[t]
           items == v.items
           n == Len(items)
           S == EntryType \union {EntryOf(items[i]) : i \in 1 .. n}
<1>1. /\ WorkFits(v) /\ v.call = "put_batch" /\ Apart(t) /\ toc \in Seq(EntryType)
      /\ pc \in [Threads -> Points] /\ work = [u \in Threads |-> work[u]]
      /\ pc[t] \in Publishing /\ compactions' = compactions /\ ThreadTrees(t)
      /\ PlaceFits(t, pc[t], v)
  <2>1. Batch(t)
    BY DEF Batch
  <2>2. pc[t] \in Publishing /\ compactions' = compactions
    BY DEF BatchChain, BatchToc, At, Publishing, OnlyWork
  <2> QED BY <2>1, <2>2, BatchBeside, TypedFile
          DEF Beside, Apart, Shape, Fits, PlaceFits, TreesInv
<1>2. /\ n \in Nat /\ DOMAIN items = 1 .. n /\ v.done \in 0 .. n
      /\ v \in WorkAs(v.call, v.items, v.slots, v.pending, v.done)
      /\ \A i \in 1 .. n : items[i].key \in Key /\ items[i].value \in Hashes
  <2>1. \A i \in 1 .. n : ItemFits(items[i])
    BY <1>1 DEF WorkFits, BatchFits
  <2>2. Value \subseteq Hashes
    BY EngineAssumption, ValueHashes DEF Contents
  <2> QED BY <1>1, <2>1, <2>2 DEF WorkFits, ItemFits
<1>3. Changer(t)
  BY <1>1 DEF ThreadTrees
<1>4. Ahead(t) = [i \in 1 .. v.done |-> EntryOf(items[i])]
  BY <1>1 DEF Ahead, Publishing
<1>5. toc \in Seq(S) /\ Ahead(t) \in Seq(S) /\ Len(Ahead(t)) = v.done
  <2>1. \A i \in 1 .. v.done : i \in 1 .. n
    BY <1>2
  <2>2. Ahead(t) \in [1 .. v.done -> S]
    BY <1>4, <2>1
  <2>3. toc \in Seq(S)
    BY <1>1
  <2> HIDE DEF S, n
  <2> QED BY <1>2, <2>2, <2>3
<1>6. CASE BatchChain(t)
  <2> DEFINE item == items[v.done + 1]
             e == EntryOf(item)
             w == [v EXCEPT !.done = @ + 1]
             chain == chains[item.key]
  <2>1. /\ pc[t] = "batch_chain" /\ work' = [work EXCEPT ![t] = w] /\ toc' = toc
        /\ chains' = [chains EXCEPT ![item.key] = ChainAppend(@, item.value)]
    BY <1>6 DEF BatchChain, At, Work, Item, disk
  <2>2. w.items = items /\ w.done = v.done + 1
    BY <1>2 DEF WorkAs
  <2>3. work'[t] = w
    BY <1>1, <2>1
  <2>4. pc'[t] \in {"batch_toc", "batch_index"}
    BY <1>1, <1>6 DEF BatchChain, Goto
  <2>5. v.done + 1 \in 1 .. n
    <3>1. v.done < n
      BY <1>1, <2>1 DEF PlaceFits
    <3> QED BY <1>2, <3>1
  <2>6. /\ e \in S /\ e.key = item.key /\ e.value = item.value
        /\ item.key \in Key /\ item.value \in Hashes
    BY <1>2, <2>5 DEF EntryOf, NewEntry
  <2>7. Ahead(t)' = Append(Ahead(t), e)
    <3> HIDE DEF w
    <3>1. Ahead(t)' = [i \in 1 .. v.done + 1 |-> EntryOf(items[i])]
      BY <2>2, <2>3, <2>4 DEF Ahead, Publishing, EntryOf
    <3> DEFINE f(i) == EntryOf(items[i])
               short == [i \in 1 .. v.done |-> f(i)]
    <3> HIDE DEF f
    <3>2. short \in Seq({f(i) : i \in 1 .. v.done}) /\ Len(short) = v.done
      BY <1>2
    <3>3. [i \in 1 .. v.done + 1 |-> f(i)] = Append(short, f(v.done + 1))
      BY <1>2, <3>2
    <3> QED BY <1>4, <3>1, <3>3 DEF f
  <2>8. \A k : ~Unchained(t, k) /\ ~Unchained(t, k)'
    BY <2>1, <2>4 DEF Unchained
  <2>9. /\ chain \in ChainType(Hashes)
        /\ chains' = [chains EXCEPT ![e.key] = ChainAppend(chain, e.value)]
    BY <2>1, <2>6 DEF VersionsInv, ChainsFit
  <2> HIDE DEF e, item, S, chain
  <2>10. chain.versions = chains[e.key].versions
    BY <2>6 DEF chain
  <2> QED BY <1>1, <1>3, <1>5, <2>1, <2>6, <2>7, <2>8, <2>9, <2>10, VersionComes
<1>7. CASE BatchToc(t)
  <2>1. /\ pc[t] = "batch_toc" /\ chains' = chains
        /\ toc' = toc \o [i \in DOMAIN items |-> EntryOf(items[i])]
        /\ pc'[t] = "put_should_checkpoint"
    BY <1>1, <1>7 DEF BatchToc, At, Goto, EntryOf, disk
  <2>2. v.done = n
    BY <1>1, <2>1 DEF ThreadTrees
  <2>3. toc' = toc \o Ahead(t)
    BY <1>2, <1>4, <2>1, <2>2
  <2>4. Ahead(t)' = <<>> /\ \A k : ~Unchained(t, k) /\ ~Unchained(t, k)'
    BY <2>1 DEF Ahead, Publishing, Unchained
  <2> HIDE DEF S
  <2> QED BY <1>1, <1>3, <1>5, <2>1, <2>3, <2>4, EntriesCome
<1> QED BY <1>6, <1>7

-----------------------------------------------------------------------------
(* A compaction has to keep nothing of the numbers.                         *)
LEMMA CompactVersions ==
  ASSUME ShapeInv, VersionsInv, NEW t \in Threads, Compact(t)
  PROVE  VersionsInv'
<1>1. chains' = chains /\ compactions' # 0
  <2>1. compactions \in Nat /\ (Compacts(t) => compactions > 0)
    BY DEF ShapeInv, Counted, CountedCompacts
  <2>2. pc[t] \in {"compact_truncate", "compact_forget"} => Compacts(t)
    BY DEF ShapeInv, Fits, PlaceFits, Compacts
  <2> QED BY <2>1, <2>2 DEF Compact, CompactRead, CompactTruncate, CompactForget, CompactPut,
          CompactToc, CompactFlush, OnlyWork, memory, disk, At, Compacts
<1> QED BY <1>1 DEF VersionsInv, ChainsFit

(* The invariant reads these variables and no others.                       *)
LEMMA SameVersions ==
  ASSUME VersionsInv, UNCHANGED <<pc, arg, work, chains, toc, compactions>>
  PROVE  VersionsInv'
BY DEF VersionsInv, ChainsFit, ThreadVersions, Ahead, Unchained

(* Of a key that was never put nothing is listed.                           *)
LEMMA NothingNumbered == \A k : Numbered(<<>>, <<>>, k)
<1>1. \A k : Positions(<<>>, k) = {}
  BY DEF Positions
<1>2. Cardinality({}) = 0
  BY FS_EmptySet
<1>3. Picked(<<>>, {}) = <<>>
  BY <1>2 DEF Picked
<1>4. \A k : EntriesOf(<<>>, k) = <<>>
  BY <1>1, <1>3 DEF EntriesOf
<1> QED BY <1>4 DEF Numbered, Lists

(* At rest the chains have to agree with the table alone.                   *)
LEMMA RestingVersions ==
  ASSUME Resting', ChainsFit', toc' \in Seq(EntryType),
         \A k \in Key : Numbered(chains'[k].versions, toc', k)
  PROVE  VersionsInv'
<1>1. toc' \o <<>> = toc'
  OBVIOUS
<1>2. ASSUME NEW t \in Threads PROVE Ahead(t)' = <<>> /\ \A k : ~Unchained(t, k)'
  BY DEF Resting, Ahead, Unchained, Publishing
<1> QED BY <1>1, <1>2 DEF VersionsInv, ThreadVersions

(* A stop forgets table and chains; open rebuilds the one from the other.   *)
LEMMA RestartVersions ==
  ASSUME Shape, Shape', VersionsInv, Restart
  PROVE  VersionsInv'
<1>0. toc' \in Seq(EntryType)
  BY DEF Shape, Types
<1>1. ASSUME Forget, \A t \in Threads : work'[t] = NoWork PROVE VersionsInv'
  <2>1. Resting' /\ toc' = <<>> /\ chains' = [k \in Key |-> NoChain]
    BY <1>1 DEF Forget, Resting
  <2>2. ASSUME NEW k \in Key PROVE Numbered(<<>>, <<>>, k)
    BY NothingNumbered
  <2>3. ChainsFit' /\ \A k \in Key : chains'[k].versions = <<>>
    BY <2>1, NoChainType DEF ChainsFit, NoChain
  <2> QED BY <1>0, <2>1, <2>2, <2>3, RestingVersions
<1>2. CASE Crash /\ work' = [t \in Threads |-> NoWork]
  BY <1>1, <1>2 DEF Crash
<1>3. CASE Drop /\ (\A t \in Threads : work[t] = NoWork) /\ UNCHANGED bulk
  BY <1>1, <1>3 DEF Drop, bulk
<1>4. CASE Open /\ UNCHANGED bulk
  <2>1. UNCHANGED <<pc, arg, work, compactions>> /\ ~Up
    BY <1>4 DEF Open, Up, bulk
  <2>2. CASE Recoverable(log)
    <3>1. Resting'
      BY <2>1 DEF Shape, DownIsEmpty, Fits, Resting
    <3>2. chains' = [k \in Key |-> RebuiltChain(toc', k)]
      BY <1>4, <2>2 DEF Open
    <3>3. ChainsFit'
      BY <1>0, <3>2, RebuiltType DEF ChainsFit
    <3>4. \A k \in Key : Numbered(chains'[k].versions, toc', k)
      BY <1>0, <3>2, NumberedRebuilt
    <3> QED BY <1>0, <3>1, <3>3, <3>4, RestingVersions
  <2>3. CASE ~Recoverable(log)
    BY <1>4, <2>1, <2>3, SameVersions DEF Open
  <2> QED BY <2>2, <2>3
<1> QED BY <1>2, <1>3, <1>4 DEF Restart

-----------------------------------------------------------------------------
(* Every step keeps the chains and the table of contents in number.         *)
LEMMA VersionsStep ==
  ASSUME CompactsAlone, OneChanger, MaintenanceInv, ShapeInv, FaithfulInv, TreesInv,
         VersionsInv, [MaintenanceNext]_allVars
  PROVE  VersionsInv'
<1>1. Shape /\ Shape'
  <2>1. ShapeInv'
    BY FaithfulStep
  <2>2. ShapeInv' => Shape'
    BY ShapeFacts, PTL
  <2> QED BY <2>1, <2>2, ShapeFacts
<1>2. ASSUME NEW t \in Threads, SingleStep(t) PROVE VersionsInv'
  BY <1>1, <1>2, SingleElsewhere, PutVersions, DeleteVersions
<1>3. ASSUME NEW t \in Threads, Batch(t) PROVE VersionsInv'
  BY <1>1, <1>3, BatchGatherVersions, BatchIndexVersions, BatchVersions DEF Batch
<1>4. ASSUME NEW t \in Threads, Compact(t) PROVE VersionsInv'
  BY <1>4, CompactVersions
<1>5. ASSUME Restart PROVE VersionsInv'
  BY <1>1, <1>5, RestartVersions
<1>6. CASE UNCHANGED allVars
  BY <1>6, SameVersions DEF allVars, bulk, vars, memory
<1> QED BY <1>2, <1>3, <1>4, <1>5, <1>6 DEF MaintenanceNext

(* A new engine lists nothing.                                              *)
LEMMA VersionsInit == MaintenanceInit => VersionsInv
<1> SUFFICES ASSUME MaintenanceInit PROVE VersionsInv
  OBVIOUS
<1>1. /\ toc = <<>> /\ chains = [k \in Key |-> NoChain]
      /\ \A t \in Threads : pc[t] = "idle"
  BY DEF MaintenanceInit, Init
<1>2. ChainsFit /\ \A k \in Key : chains[k].versions = <<>>
  BY <1>1, NoChainType DEF ChainsFit, NoChain
<1>3. \A t \in Threads : Ahead(t) = <<>> /\ \A k : ~Unchained(t, k)
  BY <1>1 DEF Ahead, Unchained, Publishing
<1>4. <<>> \o <<>> = <<>>
  OBVIOUS
<1> QED BY <1>1, <1>2, <1>3, <1>4, NothingNumbered DEF VersionsInv, ThreadVersions

(* What the chain of an undeleted key lists, get_version finds.             *)
LEMMA ListedFound ==
  ASSUME toc \in Seq(EntryType), NEW k \in Key, ChainsFit, Undeleted(toc, k),
         Numbered(chains[k].versions, toc, k)
  PROVE  VersionsOf(k)
<1> DEFINE versions == chains[k].versions
           own == EntriesOf(toc, k)
           P == Positions(toc, k)
           m == Len(versions)
           c == Len(own)
<1>1. /\ P \in SUBSET (1 .. Len(toc)) /\ P \in SUBSET DOMAIN toc /\ Len(toc) \in Nat
      /\ \A i \in P : ~toc[i].dead
  BY DEF Positions, Undeleted
<1>2. /\ own = Picked(toc, P) /\ own \in Seq(EntryType) /\ c = Cardinality(P) /\ c \in Nat
      /\ DOMAIN own = 1 .. c
  <2>1. own = Picked(toc, P)
    BY DEF EntriesOf
  <2> HIDE DEF own, P
  <2>2. own \in Seq(EntryType) /\ Len(own) = Cardinality(P)
    BY <1>1, <2>1, PickedType
  <2> QED BY <2>1, <2>2
<1>3. ASSUME NEW n \in 1 .. c PROVE ~own[n].dead
  <2>1. PICK i \in P : own[n] = toc[i]
    <3> HIDE DEF own, c, P
    <3>1. \A j \in 1 .. Cardinality(P) : \E i \in P : Picked(toc, P)[j] = toc[i]
      BY <1>1, PickedAll
    <3> QED BY <1>2, <3>1
  <2> QED BY <1>1, <2>1
<1>4. ASSUME c # 0 PROVE Live(toc, k)
  <2>1. P # {}
    <3> HIDE DEF P, own
    <3> QED BY <1>2, <1>4, FS_EmptySet
  <2>2. Max(P) \in P
    <3> HIDE DEF P
    <3> QED BY <1>1, <2>1, MaxOf, Zenon
  <2> QED BY <1>1, <2>1, <2>2 DEF Live
<1>5. /\ versions \in Seq(VersionType(Hashes)) /\ m \in Nat /\ DOMAIN versions = 1 .. m
  BY DEF ChainsFit, ChainType
<1>6. Lists(versions, own)
  BY DEF Numbered
<1>7. ASSUME NEW i \in DOMAIN versions
      PROVE  LET version == versions[i]
             IN  /\ VersionFound(k, version.id)
                 /\ LET e == VersionEntry(k, version.id)
                    IN  ~e.dead /\ version.hashes \in {e.value, OffsetHashes(e.refs)}
  <2> DEFINE n == c - m + i
             id == versions[i].id
  <2>1. m <= c /\ id + 1 = n /\ versions[i].hashes \in {own[n].value, OffsetHashes(own[n].refs)}
    BY <1>6 DEF Lists
  <2>2. n \in 1 .. c /\ c # 0
    <3> HIDE DEF c, m, versions
    <3> QED BY <1>2, <1>5, <2>1
  <2>3. VersionFound(k, id)
    <3>1. id \in ListVersions(chains[k])
      BY DEF ListVersions
    <3> QED BY <1>2, <1>4, <2>1, <2>2, <3>1 DEF VersionFound
  <2>4. VersionEntry(k, id) = own[n]
    BY <2>1 DEF VersionEntry
  <2> HIDE DEF own, versions, n, c, m
  <2> QED BY <1>3, <2>1, <2>2, <2>3, <2>4
<1> QED BY <1>7 DEF VersionsOf

(***************************************************************************)
(* As long as nothing was compacted, get_version finds every version that   *)
(* the chain of a key without deletions lists, and it is the tensor that    *)
(* was put as that version: by puts under any policies and by batches       *)
(* (engine.rs), over crashes and reopenings, provided one thread alone      *)
(* changes the engine.                                                      *)
(***************************************************************************)
THEOREM MaintenanceVersionsAgree ==
  ASSUME CompactsAlone, OneChanger
  PROVE  MaintenanceSpec => []VersionsAgreeUndeleted
<1>1. MaintenanceInit => TreesInv /\ VersionsInv
  BY TreesInit, VersionsInit
<1>2. BulkInv /\ TreesInv /\ VersionsInv /\ [MaintenanceNext]_allVars
        => TreesInv' /\ VersionsInv'
  BY TogetherStep, VersionsStep DEF BulkInv
<1>3. BulkInv /\ VersionsInv => VersionsAgreeUndeleted
  <2> SUFFICES ASSUME BulkInv, VersionsInv, Settled, compactions = 0, NEW k \in Key,
                      \A i \in Positions(toc, k) : ~toc[i].dead
               PROVE  VersionsOf(k)
    BY DEF VersionsAgreeUndeleted
  <2>1. toc \in Seq(EntryType)
    BY ShapeFacts, TypedFile DEF BulkInv
  <2>2. \A t \in Threads : pc[t] = "idle"
    BY DEF Settled, Quiet
  <2>3. \A t \in Threads : Ahead(t) = <<>> /\ ~Unchained(t, k)
    BY <2>2 DEF Ahead, Unchained, Publishing
  <2>4. toc \o <<>> = toc
    BY <2>1
  <2>5. Numbered(chains[k].versions, toc, k)
    BY <2>3, <2>4 DEF VersionsInv, ThreadVersions
  <2>6. Undeleted(toc, k) /\ ChainsFit
    BY DEF Undeleted, VersionsInv
  <2> QED BY <2>1, <2>5, <2>6, ListedFound
<1> QED BY <1>1, <1>2, <1>3, BulkInvHolds, PTL DEF MaintenanceSpec
=============================================================================
