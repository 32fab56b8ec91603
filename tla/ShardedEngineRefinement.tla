----------------------- MODULE ShardedEngineRefinement ----------------------
(***************************************************************************)
(* What was committed survives every crash (CommittedSurvives), and the     *)
(* engine implements the atomic map of TensorStore, for any number of       *)
(* threads, keys, chunks and checkpoints, provided no append of another     *)
(* thread gets into a checkpoint (OneAtATime).                              *)
(*                                                                          *)
(* CommittedSurvives speaks of the newest footer a crash leaves.  It is not *)
(* inductive: the table behind that footer was read before the offset, the  *)
(* offset before the append, and the append before the sync that commits    *)
(* it.  DurInv says that every footer names its own block, that the tables  *)
(* of the blocks are ever newer, and how far a thread in the middle of a    *)
(* checkpoint has come with that.                                           *)
(*                                                                          *)
(* A restart must be to one moment of the past: MapInv says that whatever   *)
(* table of contents may come back (the engine's own, the one a checkpoint  *)
(* in the making has read, that of every block) is the map that its history *)
(* ends with, and that its history is the beginning of the engine's.        *)
(*                                                                          *)
(* The radix trees index exactly the live keys (IndexAgrees),               *)
(* provided one thread alone puts and deletes.  A put writes the tree       *)
(* before the table of contents, a delete as well: IndexInv sets the key in *)
(* between aside and says what is in the tree for it.  A reopening rebuilds *)
(* the tree from entries that are not dead, wherever they are, and lookup   *)
(* asks the last one only: the two agree because a tombstone spares no      *)
(* earlier entry of its key, in the engine's table, in the one a checkpoint *)
(* carries, and in every block of the file.                                 *)
(*                                                                          *)
(* Last, the refcounts cover the versions (RefcountsCoverVersions), again   *)
(* for one thread that puts and deletes: see CountInv.                      *)
(***************************************************************************)
EXTENDS ShardedEngineProofs

OneAtATime == Exclusive \/ \A t, u \in Threads : t = u

Taking == {"checkpoint_len", "checkpoint_append"}

(* How many changes the table of contents in block i has seen.              *)
Age(l, i) == Len(l[i].past)

SelfPointing(l) == \A i \in Footers(l) : l[i].tocOffset = i - 1

Ordered(l) == \A i, j \in Footers(l) : i <= j => Age(l, i) <= Age(l, j)

NotAhead(l, n) == \A i \in Footers(l) : Age(l, i) <= n

Committed(l, n, k) == k > 0 => \E i \in Footers(l) : i <= n /\ k <= Age(l, i)

Takes(t) ==
  /\ pc[t] \in Taking => /\ NotAhead(log, Len(arg[t].past))
                         /\ Len(arg[t].past) <= Len(past)
  /\ pc[t] = "checkpoint_append" => arg[t].off = Len(log)
  /\ pc[t] = "checkpoint_sync" => /\ arg[t].off \in Footers(log)
                                  /\ Age(log, arg[t].off) = Len(arg[t].past)

Alone == \A t, u \in Threads : pc[t] \in Taking /\ pc[u] \in Taking => t = u

FileDurable == /\ SelfPointing(log)
               /\ Ordered(log)
               /\ NotAhead(log, Len(past))
               /\ Committed(log, durable, kept)
               /\ durable \in 0 .. Len(log)
               /\ kept \in Nat

DurInv == FileDurable /\ Alone /\ \A t \in Threads : Takes(t)

-----------------------------------------------------------------------------
LEMMA TypeFacts ==
  ASSUME Inductive
  PROVE  /\ log \in Seq(Block) /\ Len(log) \in Nat /\ DOMAIN log = 1 .. Len(log)
         /\ \A i \in 1 .. Len(log) : log[i] \in Block
         /\ pc \in [Threads -> Points] /\ arg \in [Threads -> ArgType]
         /\ past \in Pasts /\ Len(past) \in Nat
         /\ \A i \in Footers(log) : /\ i \in 1 .. Len(log)
                                    /\ Age(log, i) \in Nat
                                    /\ log[i].tocOffset \in Nat
         /\ \A t \in Threads : /\ arg[t].past \in Pasts /\ Len(arg[t].past) \in Nat
                              /\ arg[t].off \in Nat
<1>1. Types
  BY DEF Inductive, Holds, IInv
<1>2. log \in Seq(Block) /\ Len(log) \in Nat /\ DOMAIN log = 1 .. Len(log)
  BY <1>1 DEF Types
<1>3. \A i \in 1 .. Len(log) : log[i] \in Block
  BY <1>2
<1>4. \A p \in Pasts : Len(p) \in Nat
  BY DEF Pasts
<1>5. ASSUME NEW i \in Footers(log)
      PROVE  i \in 1 .. Len(log) /\ Age(log, i) \in Nat /\ log[i].tocOffset \in Nat
  <2>1. i \in 1 .. Len(log) /\ log[i].kind = "checkpoint" /\ log[i] \in Block
    BY <1>2, <1>3 DEF Footers
  <2>2. log[i].past \in Pasts /\ log[i].tocOffset \in Nat
    BY <2>1 DEF Block
  <2> QED BY <1>4, <2>1, <2>2 DEF Age
<1>6. ASSUME NEW t \in Threads PROVE arg[t].past \in Pasts /\ arg[t].off \in Nat
  BY <1>1 DEF Types, ArgType
<1> QED BY <1>1, <1>2, <1>3, <1>4, <1>5, <1>6 DEF Types

(* The guard is what keeps threads apart, or there is only one.             *)
LEMMA GuardHolds ==
  ASSUME OneAtATime, NEW t \in Threads, MayAppend(t)
  PROVE  \A u \in Threads \ {t} : pc[u] \notin Taking
BY DEF OneAtATime, MayAppend, Taking

(* A cut behind position n keeps the footers up to there.                   *)
LEMMA CutFooters ==
  ASSUME NEW S, NEW l \in Seq(S), NEW n \in 0 .. Len(l)
  PROVE  /\ Len(SubSeq(l, 1, n)) = n
         /\ \A i \in 1 .. n : SubSeq(l, 1, n)[i] = l[i]
         /\ Footers(SubSeq(l, 1, n)) = Footers(l) \intersect (1 .. n)
<1> DEFINE left == SubSeq(l, 1, n)
<1>1. left \in Seq(S) /\ Len(left) = n /\ \A i \in 1 .. n : left[i] = l[i]
  <2>1. 1 \in Int /\ n \in Int /\ \A i \in 1 .. n : l[i] \in S
    OBVIOUS
  <2> QED BY <2>1, SubSeqProperties
<1>2. DOMAIN left = 1 .. n /\ DOMAIN l = 1 .. Len(l)
  BY <1>1
<1> HIDE DEF left
<1>3. Footers(left) = Footers(l) \intersect (1 .. n)
  BY <1>1, <1>2 DEF Footers
<1> QED BY <1>1, <1>3 DEF left

(* Of two cuts the shorter one knows less, and both know it in order.       *)
LEMMA CutDurable ==
  ASSUME Inductive, FileDurable, NEW n \in 0 .. Len(log), log' = SubSeq(log, 1, n),
         NEW d \in 0 .. n, \A i \in Footers(log) : i <= durable => i <= d
  PROVE  /\ SelfPointing(log') /\ Ordered(log') /\ NotAhead(log', Len(past))
         /\ Committed(log', d, kept) /\ Len(log') = n
<1>1. /\ Len(log') = n /\ \A i \in 1 .. n : log'[i] = log[i]
      /\ Footers(log') = Footers(log) \intersect (1 .. n)
  BY TypeFacts, CutFooters
<1>2. \A i \in Footers(log') : i \in Footers(log) /\ log'[i] = log[i]
  BY <1>1
<1>3. SelfPointing(log') /\ Ordered(log') /\ NotAhead(log', Len(past))
  BY <1>2 DEF FileDurable, SelfPointing, Ordered, NotAhead, Age
<1>4. Committed(log', d, kept)
  <2> SUFFICES ASSUME kept > 0
               PROVE  \E i \in Footers(log') : i <= d /\ kept <= Age(log', i)
    BY DEF Committed
  <2>1. PICK i \in Footers(log) : i <= durable /\ kept <= Age(log, i)
    BY DEF FileDurable, Committed
  <2>2. i \in 1 .. Len(log) /\ i <= d
    BY <2>1, TypeFacts
  <2>3. i \in Footers(log') /\ log'[i] = log[i]
    BY <1>1, <2>2
  <2> QED BY <2>1, <2>2, <2>3 DEF Age
<1> QED BY <1>1, <1>3, <1>4

-----------------------------------------------------------------------------
(* A step that leaves the file alone and takes its thread to no place where *)
(* a checkpoint is being made.                                              *)
Aside(t) == /\ log' = log /\ durable' = durable /\ kept' = kept
            /\ Len(past') \in Nat /\ Len(past) <= Len(past')
            /\ pc'[t] \notin Taking \union {"checkpoint_sync"}
            /\ \A u \in Threads \ {t} : pc'[u] = pc[u] /\ arg'[u] = arg[u]

LEMMA AsideStep ==
  ASSUME Inductive, DurInv, NEW t \in Threads, Aside(t)
  PROVE  DurInv'
<1>1. FileDurable'
  <2>1. NotAhead(log, Len(past'))
    BY TypeFacts DEF DurInv, FileDurable, NotAhead, Aside
  <2> QED BY <2>1 DEF DurInv, FileDurable, Aside
<1>2. Alone'
  BY DEF DurInv, Alone, Aside
<1>3. ASSUME NEW u \in Threads PROVE Takes(u)'
  <2>1. CASE u = t
    BY <2>1 DEF Aside, Takes, Taking
  <2>2. CASE u # t
    <3>1. Takes(u) /\ Len(arg[u].past) \in Nat /\ Len(past) \in Nat
      BY TypeFacts DEF DurInv
    <3> QED BY <2>2, <3>1 DEF Aside, Takes
  <2> QED BY <2>1, <2>2
<1> QED BY <1>1, <1>2, <1>3 DEF DurInv

LEMMA RememberLonger ==
  ASSUME Inductive, NEW k, NEW v, Remember(k, v)
  PROVE  Len(past') \in Nat /\ Len(past) <= Len(past')
<1>1. past \in Seq(Map)
  BY TypeFacts DEF Pasts
<1>2. Len(past') = Len(past) + 1
  BY <1>1 DEF Remember
<1> QED BY <1>1, <1>2

LEMMA PutAside ==
  ASSUME Inductive, NEW t \in Threads,
         \/ PutBegin(t) \/ PutLookup(t) \/ PutAddRef(t) \/ PutContains(t)
         \/ PutInsert(t) \/ PutRecord(t) \/ PutIndex(t) \/ PutChain(t) \/ PutToc(t)
         \/ PutShouldCheckpoint(t)
  PROVE  Aside(t)
<1>0. /\ pc \in [Threads -> Points] /\ arg \in [Threads -> ArgType]
      /\ Len(past) \in Nat /\ Len(past) <= Len(past)
  BY TypeFacts
<1> USE DEF Aside, Taking, Goto, Set, Return, disk, memory, history
<1>1. CASE PutBegin(t)
  BY <1>0, <1>1 DEF PutBegin
<1>2. CASE PutLookup(t)
  BY <1>0, <1>2 DEF PutLookup
<1>3. CASE PutAddRef(t)
  BY <1>0, <1>3 DEF PutAddRef, NextSegment
<1>4. CASE PutContains(t)
  BY <1>0, <1>4 DEF PutContains
<1>5. CASE PutInsert(t)
  BY <1>0, <1>5 DEF PutInsert
<1>6. CASE PutRecord(t)
  BY <1>0, <1>6 DEF PutRecord, NextSegment
<1>7. CASE PutIndex(t)
  BY <1>0, <1>7 DEF PutIndex
<1>8. CASE PutChain(t)
  BY <1>0, <1>8 DEF PutChain
<1>9. CASE PutToc(t)
  <2>1. Len(past') \in Nat /\ Len(past) <= Len(past')
    BY <1>9, RememberLonger DEF PutToc
  <2> QED BY <1>0, <1>9, <2>1 DEF PutToc
<1>10. CASE PutShouldCheckpoint(t)
  BY <1>0, <1>10 DEF PutShouldCheckpoint
<1> QED BY <1>1, <1>2, <1>3, <1>4, <1>5, <1>6, <1>7, <1>8, <1>9, <1>10

LEMMA OtherAside ==
  ASSUME Inductive, NEW t \in Threads,
         \/ CheckpointBegin(t) \/ CheckpointReset(t) \/ Delete(t) \/ Get(t)
  PROVE  Aside(t)
<1>0. /\ pc \in [Threads -> Points] /\ arg \in [Threads -> ArgType]
      /\ Len(past) \in Nat /\ Len(past) <= Len(past)
  BY TypeFacts
<1> USE DEF Aside, Taking, Goto, Set, Return, disk, memory, history
<1>1. CASE CheckpointBegin(t)
  BY <1>0, <1>1 DEF CheckpointBegin
<1>2. CASE CheckpointReset(t)
  BY <1>0, <1>2 DEF CheckpointReset
<1>3. CASE DeleteBegin(t)
  BY <1>0, <1>3 DEF DeleteBegin
<1>4. CASE DeleteChain(t)
  BY <1>0, <1>4 DEF DeleteChain
<1>5. CASE DeleteToc(t)
  <2>1. Len(past') \in Nat /\ Len(past) <= Len(past')
    BY <1>5, RememberLonger DEF DeleteToc
  <2> QED BY <1>0, <1>5, <2>1 DEF DeleteToc
<1>6. CASE GetLookup(t)
  BY <1>0, <1>6 DEF GetLookup
<1>7. CASE GetRead(t)
  BY <1>0, <1>7 DEF GetRead
<1> QED BY <1>1, <1>2, <1>3, <1>4, <1>5, <1>6, <1>7 DEF Delete, Get

-----------------------------------------------------------------------------
(* The steps that append: no thread is between the two readings of a        *)
(* checkpoint but the one that appends its block.                           *)
LEMMA AppendedFooters ==
  ASSUME Inductive, NEW b \in Block, log' = Append(log, b)
  PROVE  /\ Len(log') = Len(log) + 1 /\ log'[Len(log) + 1] = b
         /\ \A i \in Footers(log) : i \in Footers(log') /\ log'[i] = log[i]
         /\ \A i \in Footers(log') : \/ i \in Footers(log)
                                    \/ (i = Len(log) + 1 /\ b.kind = "checkpoint")
         /\ b.kind = "checkpoint" => Len(log) + 1 \in Footers(log')
<1>1. /\ Len(log') = Len(log) + 1 /\ log'[Len(log) + 1] = b
      /\ DOMAIN log' = 1 .. Len(log) + 1
      /\ \A i \in 1 .. Len(log) : log'[i] = log[i]
  BY TypeFacts
<1>2. DOMAIN log = 1 .. Len(log) /\ Len(log) \in Nat
  BY TypeFacts
<1>3. \A i \in Footers(log) : i \in Footers(log') /\ log'[i] = log[i]
  BY <1>1, <1>2 DEF Footers
<1>4. ASSUME NEW i \in Footers(log')
      PROVE  i \in Footers(log) \/ (i = Len(log) + 1 /\ b.kind = "checkpoint")
  <2>1. i \in 1 .. Len(log) + 1 /\ log'[i].kind = "checkpoint"
    BY <1>1 DEF Footers
  <2>2. CASE i = Len(log) + 1
    BY <1>1, <2>1, <2>2
  <2>3. CASE i \in 1 .. Len(log)
    BY <1>1, <1>2, <2>1, <2>3 DEF Footers
  <2>4. \A n \in Nat : i \in 1 .. n + 1 => i \in 1 .. n \/ i = n + 1
    OBVIOUS
  <2> QED BY <1>2, <2>1, <2>2, <2>3, <2>4
<1>5. b.kind = "checkpoint" => Len(log) + 1 \in Footers(log')
  BY <1>1, <1>2 DEF Footers
<1> QED BY <1>1, <1>3, <1>4, <1>5

LEMMA SegmentBlock ==
  ASSUME Inductive, NEW t \in Threads, pc[t] = "put_append"
  PROVE  Chunk(Segment(t)) \in Block /\ Chunk(Segment(t)).kind = "chunk"
<1>1. /\ arg[t].value \in Contents /\ arg[t].refs \in Seq(Nat)
      /\ Len(arg[t].refs) < Len(arg[t].value)
  BY DEF Inductive, Holds, IInv, Types, ArgType, ThreadLeads, Mid
<1>2. arg[t].value \in Seq(Hash)
  BY <1>1, EngineAssumption DEF Contents
<1>3. Segment(t) \in Hash
  BY <1>1, <1>2 DEF Segment
<1> QED BY <1>3 DEF Chunk, Block

LEMMA PutAppendStep ==
  ASSUME Inductive, DurInv, OneAtATime, NEW t \in Threads, PutAppend(t)
  PROVE  DurInv'
<1>1. /\ pc[t] = "put_append" /\ pc' = [pc EXCEPT ![t] = "put_contains"]
      /\ \A u \in Threads \ {t} : arg'[u] = arg[u]
      /\ log' = Append(log, Chunk(Segment(t)))
      /\ durable' = durable /\ kept' = kept /\ past' = past
  BY TypeFacts DEF PutAppend, At, Goto, Set, memory, history
<1>2. \A u \in Threads : pc[u] \notin Taking /\ pc'[u] \notin Taking
  BY <1>1, GuardHolds, TypeFacts DEF PutAppend, Taking
<1>3. Chunk(Segment(t)) \in Block /\ Chunk(Segment(t)).kind = "chunk"
  BY <1>1, SegmentBlock
<1>4. /\ Len(log') = Len(log) + 1 /\ Len(log) \in Nat
      /\ Footers(log') = Footers(log) /\ \A i \in Footers(log) : log'[i] = log[i]
  BY <1>1, <1>3, AppendedFooters, TypeFacts
<1>5. FileDurable'
  <2>1. SelfPointing(log') /\ Ordered(log') /\ NotAhead(log', Len(past'))
    BY <1>1, <1>4 DEF DurInv, FileDurable, SelfPointing, Ordered, NotAhead, Age
  <2>2. Committed(log', durable', kept')
    BY <1>1, <1>4 DEF DurInv, FileDurable, Committed, Age
  <2> QED BY <1>1, <1>4, <2>1, <2>2 DEF DurInv, FileDurable
<1>6. ASSUME NEW u \in Threads PROVE Takes(u)'
  <2>1. pc'[u] \notin Taking /\ pc'[u] # "checkpoint_append"
    BY <1>2 DEF Taking
  <2>2. ASSUME pc'[u] = "checkpoint_sync"
        PROVE  arg'[u].off \in Footers(log') /\ Age(log', arg'[u].off) = Len(arg'[u].past)
    <3>1. u # t /\ pc[u] = "checkpoint_sync" /\ arg'[u] = arg[u]
      BY <1>1, <2>2, TypeFacts
    <3>2. arg[u].off \in Footers(log) /\ Age(log, arg[u].off) = Len(arg[u].past)
      BY <3>1 DEF DurInv, Takes
    <3> QED BY <1>4, <3>1, <3>2 DEF Age
  <2> QED BY <2>1, <2>2 DEF Takes
<1> QED BY <1>2, <1>5, <1>6 DEF DurInv, Alone

(* The table of contents is read: from now on no other thread appends.      *)
LEMMA TocStep ==
  ASSUME Inductive, DurInv, OneAtATime, NEW t \in Threads, CheckpointToc(t)
  PROVE  DurInv'
<1>1. /\ pc' = [pc EXCEPT ![t] = "checkpoint_len"]
      /\ arg' = [arg EXCEPT ![t] = [arg[t] EXCEPT !.toc = toc, !.past = past]]
      /\ log' = log /\ durable' = durable /\ kept' = kept /\ past' = past
  BY DEF CheckpointToc, Goto, Set, disk, history
<1>2. arg'[t].past = past /\ pc'[t] = "checkpoint_len"
  BY <1>1, TypeFacts DEF ArgType
<1>3. \A u \in Threads \ {t} : pc'[u] = pc[u] /\ arg'[u] = arg[u] /\ pc[u] \notin Taking
  BY <1>1, GuardHolds, TypeFacts DEF CheckpointToc
<1>4. FileDurable'
  BY <1>1 DEF DurInv, FileDurable
<1>5. Alone'
  BY <1>3 DEF Alone
<1>6. ASSUME NEW u \in Threads PROVE Takes(u)'
  <2>1. CASE u = t
    <3>1. NotAhead(log, Len(past)) /\ Len(past) <= Len(past)
      BY TypeFacts DEF DurInv, FileDurable
    <3> QED BY <1>1, <1>2, <2>1, <3>1 DEF Takes
  <2>2. CASE u # t
    <3>1. Takes(u)
      BY DEF DurInv
    <3> QED BY <1>1, <1>3, <2>2, <3>1 DEF Takes
  <2> QED BY <2>1, <2>2
<1> QED BY <1>4, <1>5, <1>6 DEF DurInv

LEMMA LenStep ==
  ASSUME Inductive, DurInv, NEW t \in Threads, CheckpointLen(t)
  PROVE  DurInv'
<1>1. /\ pc[t] = "checkpoint_len" /\ pc' = [pc EXCEPT ![t] = "checkpoint_append"]
      /\ arg' = [arg EXCEPT ![t] = [arg[t] EXCEPT !.off = Len(log)]]
      /\ log' = log /\ durable' = durable /\ kept' = kept /\ past' = past
  BY DEF CheckpointLen, At, Goto, Set, disk, history
<1>2. arg'[t].past = arg[t].past /\ arg'[t].off = Len(log) /\ pc'[t] = "checkpoint_append"
  BY <1>1, TypeFacts DEF ArgType
<1>3. \A u \in Threads \ {t} : pc'[u] = pc[u] /\ arg'[u] = arg[u]
  BY <1>1, TypeFacts
<1>4. FileDurable'
  BY <1>1 DEF DurInv, FileDurable
<1>5. Alone'
  BY <1>1, <1>2, <1>3 DEF DurInv, Alone, Taking
<1>6. ASSUME NEW u \in Threads PROVE Takes(u)'
  <2>0. Takes(u)
    BY DEF DurInv
  <2>1. CASE u = t
    BY <1>1, <1>2, <2>0, <2>1 DEF Takes, Taking
  <2>2. CASE u # t
    BY <1>1, <1>3, <2>0, <2>2 DEF Takes
  <2> QED BY <2>1, <2>2
<1> QED BY <1>4, <1>5, <1>6 DEF DurInv

(* The block that is appended is the newest, and names itself.              *)
LEMMA AppendStep ==
  ASSUME Inductive, DurInv, NEW t \in Threads, CheckpointAppend(t)
  PROVE  DurInv'
<1> DEFINE b == Checkpoint(arg[t].toc, arg[t].off, arg[t].past)
           n == Len(log) + 1
<1>1. /\ pc[t] = "checkpoint_append" /\ pc' = [pc EXCEPT ![t] = "checkpoint_sync"]
      /\ arg' = [arg EXCEPT ![t] = [arg[t] EXCEPT !.off = n]]
      /\ log' = Append(log, b)
      /\ durable' = durable /\ kept' = kept /\ past' = past
  BY DEF CheckpointAppend, At, Goto, Set, memory, history
<1>2. /\ arg'[t].past = arg[t].past /\ arg'[t].off = n /\ pc'[t] = "checkpoint_sync"
      /\ Len(log) \in Nat /\ durable \in 0 .. Len(log)
  BY <1>1, TypeFacts DEF ArgType, DurInv, FileDurable
<1>3. \A u \in Threads \ {t} : pc'[u] = pc[u] /\ arg'[u] = arg[u] /\ pc[u] \notin Taking
  BY <1>1, TypeFacts DEF DurInv, Alone, Taking
<1>4. /\ b \in Block /\ b.kind = "checkpoint" /\ b.past = arg[t].past
      /\ b.tocOffset = Len(log)
  <2>1. arg[t].toc \in Seq(EntryType) /\ arg[t].past \in Pasts /\ arg[t].off \in Nat
    BY TypeFacts DEF ArgType
  <2>2. arg[t].off = Len(log)
    BY <1>1 DEF DurInv, Takes
  <2> QED BY <2>1, <2>2 DEF Checkpoint, Block
<1> HIDE DEF b
<1>5. /\ Len(log') = n /\ log'[n] = b /\ n \in Footers(log')
      /\ \A i \in Footers(log) : /\ i \in Footers(log') /\ log'[i] = log[i]
                                 /\ i \in 1 .. Len(log) /\ Age(log, i) \in Nat
      /\ \A i \in Footers(log') : i \in Footers(log) \/ i = n
  BY <1>1, <1>4, AppendedFooters, TypeFacts
<1>6. /\ NotAhead(log, Len(arg[t].past)) /\ Len(arg[t].past) <= Len(past)
      /\ Age(log', n) = Len(arg[t].past) /\ Len(arg[t].past) \in Nat
      /\ \A i \in Footers(log) : Age(log', i) = Age(log, i)
  BY <1>1, <1>4, <1>5, TypeFacts DEF DurInv, Takes, Taking, Age
<1>7. FileDurable'
  <2>1. SelfPointing(log')
    BY <1>2, <1>4, <1>5 DEF DurInv, FileDurable, SelfPointing
  <2>2. Ordered(log')
    <3> SUFFICES ASSUME NEW i \in Footers(log'), NEW j \in Footers(log'), i <= j
                 PROVE  Age(log', i) <= Age(log', j)
      BY DEF Ordered
    <3>1. CASE i \in Footers(log) /\ j \in Footers(log)
      BY <1>6, <3>1 DEF DurInv, FileDurable, Ordered
    <3>2. CASE i \in Footers(log) /\ j = n
      BY <1>6, <3>2 DEF NotAhead
    <3>3. CASE i = n /\ j \in Footers(log)
      BY <1>2, <1>5, <3>3
    <3>4. CASE i = n /\ j = n
      BY <1>6, <3>4
    <3> QED BY <1>5, <3>1, <3>2, <3>3, <3>4
  <2>3. NotAhead(log', Len(past'))
    BY <1>1, <1>5, <1>6 DEF DurInv, FileDurable, NotAhead
  <2>4. Committed(log', durable', kept')
    BY <1>1, <1>5, <1>6 DEF DurInv, FileDurable, Committed
  <2>5. durable' \in 0 .. Len(log') /\ kept' \in Nat
    BY <1>1, <1>2, <1>5 DEF DurInv, FileDurable
  <2> QED BY <2>1, <2>2, <2>3, <2>4, <2>5 DEF FileDurable
<1>8. Alone'
  BY <1>2, <1>3 DEF Alone, Taking
<1>9. ASSUME NEW u \in Threads PROVE Takes(u)'
  <2>1. CASE u = t
    BY <1>2, <1>5, <1>6, <2>1 DEF Takes, Taking
  <2>2. CASE u # t
    <3>1. pc'[u] \notin Taking /\ pc'[u] # "checkpoint_append"
      BY <1>3, <2>2 DEF Taking
    <3>2. Takes(u)
      BY DEF DurInv
    <3> QED BY <1>3, <1>5, <1>6, <2>2, <3>1, <3>2 DEF Takes
  <2> QED BY <2>1, <2>2
<1> QED BY <1>7, <1>8, <1>9 DEF DurInv

LEMMA SyncStep ==
  ASSUME Inductive, DurInv, NEW t \in Threads, CheckpointSync(t) \/ LastSync(t)
  PROVE  DurInv'
<1>1. /\ log' = log /\ past' = past /\ SyncedFrom(arg[t].off)
      /\ pc'[t] \notin Taking \union {"checkpoint_sync"}
      /\ \A u \in Threads \ {t} : pc'[u] = pc[u] /\ arg'[u] = arg[u]
  BY TypeFacts DEF CheckpointSync, LastSync, Goto, Return, Set, Taking, history
<1>2. /\ durable' \in 0 .. Len(log) /\ durable <= durable' /\ arg[t].off <= durable'
      /\ durable \in 0 .. Len(log) /\ kept \in Nat
  BY <1>1, TypeFacts DEF SyncedFrom, DurInv, FileDurable
<1>3. Committed(log, durable', kept)
  <2> SUFFICES ASSUME kept > 0
               PROVE  \E i \in Footers(log) : i <= durable' /\ kept <= Age(log, i)
    BY DEF Committed
  <2>1. PICK i \in Footers(log) : i <= durable /\ kept <= Age(log, i)
    BY DEF DurInv, FileDurable, Committed
  <2> QED BY <1>2, <2>1, TypeFacts
<1>4. Committed(log, durable', kept') /\ kept' \in Nat
  <2>1. CASE kept' = kept
    BY <1>2, <1>3, <2>1
  <2>2. CASE kept' # kept
    <3>1. pc[t] = "checkpoint_sync" /\ kept' = Len(arg[t].past)
      BY <2>2 DEF CheckpointSync, LastSync, At, history
    <3>2. arg[t].off \in Footers(log) /\ Age(log, arg[t].off) = Len(arg[t].past)
      BY <3>1 DEF DurInv, Takes
    <3>3. kept' <= Age(log, arg[t].off)
      BY <3>1, <3>2, TypeFacts
    <3> QED BY <1>2, <3>1, <3>2, <3>3, TypeFacts DEF Committed
  <2> QED BY <2>1, <2>2
<1>5. FileDurable'
  BY <1>1, <1>2, <1>4 DEF DurInv, FileDurable
<1>6. Alone'
  BY <1>1 DEF DurInv, Alone
<1>7. ASSUME NEW u \in Threads PROVE Takes(u)'
  <2>1. CASE u = t
    BY <1>1, <2>1 DEF Takes, Taking
  <2>2. CASE u # t
    <3>1. Takes(u)
      BY DEF DurInv
    <3> QED BY <1>1, <2>2, <3>1 DEF Takes
  <2> QED BY <2>1, <2>2
<1> QED BY <1>5, <1>6, <1>7 DEF DurInv

-----------------------------------------------------------------------------
(* The process dies, is dropped, or the file is opened again.               *)
LEMMA CrashDropStep ==
  ASSUME Inductive, DurInv, Crash \/ Drop
  PROVE  DurInv'
<1>1. /\ durable' = durable /\ kept' = kept /\ past' = past
      /\ \A t \in Threads : pc'[t] = "idle"
  BY DEF Crash, Drop, Forget, disk, history
<1>2. Alone' /\ \A t \in Threads : Takes(t)'
  BY <1>1 DEF Alone, Takes, Taking
<1>3. CASE Drop
  BY <1>1, <1>2, <1>3 DEF Drop, disk, DurInv, FileDurable
<1>4. CASE Crash
  <2>1. durable \in 0 .. Len(log) /\ kept \in Nat /\ Len(log) \in Nat
    BY TypeFacts DEF DurInv, FileDurable
  <2>2. PICK n \in durable .. Len(log) : log' = SubSeq(log, 1, n)
    BY <1>4 DEF Crash
  <2>3. n \in 0 .. Len(log) /\ durable \in 0 .. n
    BY <2>1, <2>2
  <2>4. /\ SelfPointing(log') /\ Ordered(log') /\ NotAhead(log', Len(past))
        /\ Committed(log', durable, kept) /\ Len(log') = n
    BY <2>2, <2>3, CutDurable DEF DurInv
  <2> QED BY <1>1, <1>2, <2>1, <2>3, <2>4 DEF DurInv, FileDurable
<1> QED BY <1>3, <1>4

(* The footer that a recovery scan finds is the last one, its table the     *)
(* newest of all.                                                           *)
LEMMA LastFooter ==
  ASSUME NEW l, DOMAIN l = 1 .. Len(l), Len(l) \in Nat, Footers(l) # {},
         SelfPointing(l)
  PROVE  /\ Max(Footers(l)) \in Footers(l) /\ \A i \in Footers(l) : i <= Max(Footers(l))
         /\ Recoverable(l) /\ Recovered(l) = l[Max(Footers(l))]
<1> DEFINE m == Max(Footers(l))
<1>1. Footers(l) \in SUBSET (1 .. Len(l))
  BY DEF Footers
<1>2. m \in Footers(l) /\ \A i \in Footers(l) : i <= m
  BY <1>1, MaxOf
<1>3. m \in 1 .. Len(l) /\ l[m].tocOffset = m - 1 /\ l[m].kind = "checkpoint"
  BY <1>1, <1>2 DEF SelfPointing, Footers
<1> HIDE DEF m
<1>4. BlockAt(l, l[m].tocOffset) = l[m]
  BY <1>3 DEF BlockAt
<1> QED BY <1>2, <1>3, <1>4 DEF Recoverable, Recovered, m

LEMMA OpenDurable ==
  ASSUME Inductive, DurInv, Open
  PROVE  DurInv'
<1>1. kept' = kept /\ pc' = pc /\ \A t \in Threads : pc[t] = "idle"
  BY DEF Open, Inductive, Holds, IInv, DownIsEmpty, Up
<1>2. Alone' /\ \A t \in Threads : Takes(t)'
  BY <1>1 DEF Alone, Takes, Taking
<1>3. CASE ~Recoverable(log)
  BY <1>1, <1>2, <1>3 DEF Open, DurInv, FileDurable
<1>4. CASE Recoverable(log)
  <2> DEFINE m == Max(Footers(log))
             d == IF durable < m THEN durable ELSE m
  <2>1. /\ m \in Footers(log) /\ \A i \in Footers(log) : i <= m
        /\ Recovered(log) = log[m]
    BY <1>4, LastFooter, TypeFacts DEF Recoverable, DurInv, FileDurable
  <2>2. log' = SubSeq(log, 1, m) /\ past' = log[m].past
    BY <1>4, <2>1 DEF Open
  <2>3. durable \in 0 .. Len(log) /\ Len(log) \in Nat /\ kept \in Nat
    BY TypeFacts DEF DurInv, FileDurable
  <2>4. m \in 1 .. Len(log) /\ Age(log, m) = Len(past') /\ Len(past') \in Nat
    BY <2>1, <2>2, TypeFacts DEF Age
  <2> HIDE DEF m
  <2>5. m \in 0 .. Len(log) /\ d \in 0 .. m /\ \A i \in Footers(log) : i <= durable => i <= d
    BY <2>1, <2>3, <2>4, TypeFacts
  <2> HIDE DEF d
  <2>6. /\ SelfPointing(log') /\ Ordered(log') /\ Committed(log', d, kept)
        /\ Len(log') = m
    BY <2>2, <2>5, CutDurable DEF DurInv
  <2>7. NotAhead(log', Len(past'))
    <3> SUFFICES ASSUME NEW i \in Footers(log') PROVE Age(log', i) <= Len(past')
      BY DEF NotAhead
    <3>1. i \in Footers(log) /\ i \in 1 .. m /\ log'[i] = log[i]
      BY <2>2, <2>5, CutFooters, TypeFacts
    <3>2. Age(log, i) <= Age(log, m)
      BY <2>1, <3>1 DEF DurInv, FileDurable, Ordered
    <3> QED BY <2>4, <3>1, <3>2 DEF Age
  <2>8. durable' = d
    BY <1>4, <2>6 DEF Open, d
  <2> QED BY <1>1, <1>2, <2>3, <2>5, <2>6, <2>7, <2>8 DEF DurInv, FileDurable
<1> QED BY <1>3, <1>4

-----------------------------------------------------------------------------
LEMMA InitDurable == Init => DurInv
<1> SUFFICES ASSUME Init PROVE DurInv
  OBVIOUS
<1>1. Footers(log) = {} /\ Len(log) = 0
  BY DEF Init, Footers
<1> QED BY <1>1 DEF Init, DurInv, FileDurable, SelfPointing, Ordered, NotAhead, Committed,
                    Alone, Takes, Taking

(* Whichever threads put, delete, read and checkpoint, and whatever a crash *)
(* or a reopening leaves of the file: the footers stay in the order of      *)
(* their tables, and the durable ones cover what was committed.             *)
THEOREM EngineDurableStep ==
  ASSUME OneAtATime, Inductive, DurInv, [Next]_vars
  PROVE  DurInv'
<1>1. ASSUME NEW t \in Threads, Put(t) PROVE DurInv'
  <2>1. CASE PutAppend(t)
    BY <2>1, PutAppendStep
  <2>2. CASE ~PutAppend(t)
    BY <1>1, <2>2, PutAside, AsideStep DEF Put
  <2> QED BY <2>1, <2>2
<1>2. ASSUME NEW t \in Threads, TakeCheckpoint(t) PROVE DurInv'
  <2>1. CASE CheckpointBegin(t) \/ CheckpointReset(t)
    BY <2>1, OtherAside, AsideStep
  <2>2. CASE CheckpointToc(t)
    BY <2>2, TocStep
  <2>3. CASE CheckpointLen(t)
    BY <2>3, LenStep
  <2>4. CASE CheckpointAppend(t)
    BY <2>4, AppendStep
  <2>5. CASE CheckpointSync(t) \/ LastSync(t)
    BY <2>5, SyncStep
  <2> QED BY <1>2, <2>1, <2>2, <2>3, <2>4, <2>5 DEF TakeCheckpoint
<1>3. ASSUME NEW t \in Threads, Delete(t) \/ Get(t) PROVE DurInv'
  BY <1>3, OtherAside, AsideStep
<1>4. CASE Crash \/ Drop
  BY <1>4, CrashDropStep
<1>5. CASE Open
  BY <1>5, OpenDurable
<1>6. CASE UNCHANGED vars
  BY <1>6 DEF vars, DurInv, FileDurable, Alone, Takes
<1> QED BY <1>1, <1>2, <1>3, <1>4, <1>5, <1>6 DEF Next

LEMMA DurableSurvives == Inductive /\ DurInv => CommittedSurvives
<1> SUFFICES ASSUME Inductive, DurInv, kept > 0, NEW n \in durable .. Len(log)
             PROVE  LET left == SubSeq(log, 1, n)
                    IN  Recoverable(left) /\ Len(Recovered(left).past) >= kept
  BY DEF CommittedSurvives
<1> DEFINE left == SubSeq(log, 1, n)
           m == Max(Footers(left))
<1>1. n \in 0 .. Len(log) /\ kept \in Nat /\ durable \in 0 .. Len(log)
  BY TypeFacts DEF DurInv, FileDurable
<1>2. /\ Len(left) = n /\ \A i \in 1 .. n : left[i] = log[i]
      /\ Footers(left) = Footers(log) \intersect (1 .. n) /\ DOMAIN left = 1 .. n
  <2>1. Footers(left) = Footers(log) \intersect (1 .. n) /\ Len(left) = n
        /\ \A i \in 1 .. n : left[i] = log[i]
    BY <1>1, CutFooters, TypeFacts
  <2>2. DOMAIN left = 1 .. Len(left)
    <3>1. 1 \in Int /\ n \in Int /\ \A j \in 1 .. n : log[j] \in Block
      BY <1>1, TypeFacts
    <3>2. left \in Seq(Block)
      BY <3>1, SubSeqProperties
    <3> QED BY <3>2
  <2> QED BY <2>1, <2>2
<1> HIDE DEF left
<1>3. PICK i \in Footers(log) : i <= durable /\ kept <= Age(log, i)
  BY DEF DurInv, FileDurable, Committed
<1>4. i \in Footers(left)
  BY <1>1, <1>2, <1>3, TypeFacts
<1>5. SelfPointing(left)
  BY <1>2 DEF DurInv, FileDurable, SelfPointing
<1>6. /\ m \in Footers(left) /\ i <= m
      /\ Recoverable(left) /\ Recovered(left) = left[m]
  <2>1. n \in Nat /\ Footers(left) # {}
    BY <1>1, <1>4
  <2>2. /\ m \in Footers(left) /\ \A j \in Footers(left) : j <= m
        /\ Recoverable(left) /\ Recovered(left) = left[m]
    BY <1>2, <1>5, <2>1, LastFooter
  <2> QED BY <1>4, <2>2
<1> HIDE DEF m
<1>7. m \in Footers(log) /\ Age(log, i) <= Age(log, m) /\ left[m] = log[m]
  BY <1>2, <1>6 DEF DurInv, FileDurable, Ordered
<1>8. kept <= Age(log, m)
  BY <1>1, <1>3, <1>7, TypeFacts
<1> QED BY <1>1, <1>6, <1>7, <1>8, TypeFacts DEF Age, left

(* "All data committed up to the last checkpoint is 100% intact" (manual    *)
(* 14.3): whatever part of what was not synced a crash leaves, the file can *)
(* be opened and the table it finds is at least as new as that of every     *)
(* checkpoint, flush or close that returned; for every number of threads,   *)
(* keys and chunks, when no thread appends into a checkpoint of another.    *)
THEOREM EngineCommittedSurvives ==
  ASSUME OneAtATime
  PROVE  Spec => []CommittedSurvives
<1>1. Init => Inductive /\ DurInv
  BY InitInductive, InitDurable
<1>2. Inductive /\ DurInv /\ [Next]_vars => (Inductive /\ DurInv)'
  BY EngineStep, EngineDurableStep
<1>3. Inductive /\ DurInv => CommittedSurvives
  BY DurableSurvives
<1> QED BY <1>1, <1>2, <1>3, PTL DEF Spec

-----------------------------------------------------------------------------
(* The map that every table of contents serves.                             *)
Last(p) == p[Len(p)]

Begins(p, q) == Len(p) <= Len(q) /\ \A i \in 1 .. Len(p) : p[i] = q[i]

(* A table of contents that is the map q once was, when its history was p.  *)
Moment(entries, p, q) == View(entries) = Last(p) /\ Begins(p, q)

Putting == Mid \union {"put_index", "put_chain", "put_toc"}

Deleting == {"delete_chain", "delete_toc"}

ThreadKnows(t) == /\ pc[t] \in Taking => Moment(arg[t].toc, arg[t].past, past)
                  /\ pc[t] \in Putting => arg[t].value \in Value
                  /\ pc[t] \in Deleting => arg[t].key \in Key

BlocksKnow == \A i \in Footers(log) : Moment(log[i].toc, log[i].past, past)

TocIsMap == IF Up THEN View(toc) = Last(past) ELSE toc = <<>>

MapInv == TocIsMap /\ BlocksKnow /\ \A t \in Threads : ThreadKnows(t)

-----------------------------------------------------------------------------
(* The map of a table of contents.                                          *)
LEMMA EmptyView == View(<<>>) = [k \in Key |-> Absent]
<1>1. \A k \in Key : Positions(<<>>, k) = {}
  BY DEF Positions
<1> QED BY <1>1 DEF View, Live

LEMMA PositionsOf ==
  ASSUME NEW s \in Seq(EntryType), NEW k, Positions(s, k) # {}
  PROVE  /\ Max(Positions(s, k)) \in Positions(s, k)
         /\ \A i \in Positions(s, k) : i <= Max(Positions(s, k))
<1>1. Positions(s, k) \in SUBSET (1 .. Len(s)) /\ Len(s) \in Nat
  BY DEF Positions
<1> QED BY <1>1, MaxOf

(* A new entry is its key's latest.                                         *)
LEMMA PutLatest ==
  ASSUME NEW s \in Seq(EntryType), NEW k \in Key, NEW v \in Contents, NEW r \in Seq(Nat)
  PROVE  LET s2 == Append(s, NewEntry(k, v, r))
         IN  /\ Live(s2, k) /\ Latest(s2, k) = NewEntry(k, v, r)
             /\ \A j \in Key \ {k} : /\ Live(s2, j) = Live(s, j)
                                     /\ Live(s, j) => Latest(s2, j) = Latest(s, j)
<1> DEFINE e == NewEntry(k, v, r)
           s2 == Append(s, e)
           n == Len(s) + 1
<1>1. e \in EntryType /\ e.key = k /\ e.value = v /\ ~e.dead
  BY DEF NewEntry, EntryType
<1> HIDE DEF e
<1>2. /\ s2 \in Seq(EntryType) /\ Len(s2) = n /\ s2[n] = e /\ Len(s) \in Nat
      /\ DOMAIN s2 = 1 .. n /\ DOMAIN s = 1 .. Len(s)
      /\ \A i \in 1 .. Len(s) : s2[i] = s[i]
  BY <1>1
<1> HIDE DEF s2
<1>3. /\ \A i \in 1 .. n : i \in 1 .. Len(s) \/ i = n
      /\ n \in 1 .. n /\ \A i \in 1 .. Len(s) : i \in 1 .. n
  BY <1>2
<1>4. Live(s2, k) /\ Latest(s2, k) = e
  <2>1. n \in Positions(s2, k) /\ \A i \in Positions(s2, k) : i \in 1 .. n
    BY <1>1, <1>2, <1>3 DEF Positions
  <2>2. Max(Positions(s2, k)) = n
    BY <1>2, <2>1, PositionsOf
  <2> QED BY <1>1, <1>2, <2>1, <2>2 DEF Live, Latest
<1>5. ASSUME NEW j \in Key \ {k}
      PROVE  Positions(s2, j) = Positions(s, j)
  BY <1>1, <1>2, <1>3 DEF Positions
<1>6. ASSUME NEW j \in Key \ {k}
      PROVE  /\ Live(s2, j) = Live(s, j)
             /\ Live(s, j) => Latest(s2, j) = Latest(s, j)
  <2>1. CASE Positions(s, j) = {}
    BY <1>5, <2>1 DEF Live
  <2>2. CASE Positions(s, j) # {}
    <3>1. Max(Positions(s, j)) \in 1 .. Len(s)
      BY <1>2, <2>2, PositionsOf DEF Positions
    <3> QED BY <1>2, <1>5, <2>2, <3>1 DEF Live, Latest
  <2> QED BY <2>1, <2>2
<1> QED BY <1>4, <1>6 DEF s2, e

LEMMA PutView ==
  ASSUME NEW s \in Seq(EntryType), NEW k \in Key, NEW v \in Contents, NEW r \in Seq(Nat)
  PROVE  View(Append(s, NewEntry(k, v, r))) = [View(s) EXCEPT ![k] = v]
<1> DEFINE s2 == Append(s, NewEntry(k, v, r))
<1>1. /\ Live(s2, k) /\ Latest(s2, k).value = v
      /\ \A j \in Key \ {k} : /\ Live(s2, j) = Live(s, j)
                              /\ Live(s, j) => Latest(s2, j) = Latest(s, j)
  <2>1. NewEntry(k, v, r).value = v
    BY DEF NewEntry
  <2>2. /\ Live(s2, k) /\ Latest(s2, k) = NewEntry(k, v, r)
        /\ \A j \in Key \ {k} : /\ Live(s2, j) = Live(s, j)
                                /\ Live(s, j) => Latest(s2, j) = Latest(s, j)
    BY PutLatest
  <2> QED BY <2>1, <2>2, Zenon
<1> HIDE DEF s2
<1>2. View(s2) = [View(s) EXCEPT ![k] = v]
  BY <1>1 DEF View
<1> QED BY <1>2 DEF s2

(* A tombstone hides its key and no other.                                  *)
LEMMA DeleteLatest ==
  ASSUME NEW s \in Seq(EntryType), NEW k \in Key
  PROVE  LET s2 == Tombstoned(s, k)
         IN  /\ ~Live(s2, k)
             /\ \A j \in Key \ {k} : /\ Live(s2, j) = Live(s, j)
                                     /\ Live(s, j) => Latest(s2, j) = Latest(s, j)
<1> DEFINE s2 == Tombstoned(s, k)
<1>1. /\ DOMAIN s2 = DOMAIN s /\ DOMAIN s = 1 .. Len(s)
      /\ \A i \in DOMAIN s : s[i] \in EntryType
      /\ \A i \in DOMAIN s : s2[i] = IF s[i].key = k THEN [s[i] EXCEPT !.dead = TRUE]
                                     ELSE s[i]
  BY DEF Tombstoned
<1>2. \A i \in DOMAIN s : /\ s2[i].key = s[i].key
                          /\ s[i].key = k => s2[i].dead
                          /\ s[i].key # k => s2[i] = s[i]
  BY <1>1 DEF EntryType
<1> HIDE DEF s2
<1>3. \A j \in Key : Positions(s2, j) = Positions(s, j)
  BY <1>1, <1>2 DEF Positions
<1>4. ~Live(s2, k)
  <2>1. CASE Positions(s, k) = {}
    BY <1>3, <2>1 DEF Live
  <2>2. CASE Positions(s, k) # {}
    <3>1. Max(Positions(s, k)) \in Positions(s, k)
      BY <2>2, PositionsOf
    <3> QED BY <1>2, <1>3, <3>1 DEF Live, Positions
  <2> QED BY <2>1, <2>2
<1>5. ASSUME NEW j \in Key \ {k}
      PROVE  /\ Live(s2, j) = Live(s, j)
             /\ Live(s, j) => Latest(s2, j) = Latest(s, j)
  <2>1. CASE Positions(s, j) = {}
    BY <1>3, <2>1 DEF Live
  <2>2. CASE Positions(s, j) # {}
    <3>1. Max(Positions(s, j)) \in Positions(s, j)
      BY <2>2, PositionsOf
    <3>2. s2[Max(Positions(s, j))] = s[Max(Positions(s, j))]
      BY <1>2, <3>1 DEF Positions
    <3> QED BY <1>3, <2>2, <3>2 DEF Live, Latest
  <2> QED BY <2>1, <2>2
<1> QED BY <1>4, <1>5 DEF s2

LEMMA DeleteView ==
  ASSUME NEW s \in Seq(EntryType), NEW k \in Key
  PROVE  View(Tombstoned(s, k)) = [View(s) EXCEPT ![k] = Absent]
<1> DEFINE s2 == Tombstoned(s, k)
<1>1. /\ ~Live(s2, k)
      /\ \A j \in Key \ {k} : /\ Live(s2, j) = Live(s, j)
                              /\ Live(s, j) => Latest(s2, j) = Latest(s, j)
  BY DeleteLatest, Zenon
<1> HIDE DEF s2
<1>2. View(s2) = [View(s) EXCEPT ![k] = Absent]
  BY <1>1 DEF View
<1> QED BY <1>2 DEF s2

-----------------------------------------------------------------------------
(* The history goes on, or stays as it is.                                  *)
Longer == /\ past' \in Pasts /\ Len(past) <= Len(past')
          /\ \A i \in 1 .. Len(past) : past'[i] = past[i]

LEMMA MomentKeeps ==
  ASSUME Inductive, Longer, NEW e, NEW p, Len(p) \in Nat, Moment(e, p, past)
  PROVE  Moment(e, p, past')
<1>1. Len(past) \in Nat /\ Len(past') \in Nat
  BY TypeFacts DEF Longer, Pasts
<1> QED BY <1>1 DEF Longer, Moment, Begins

LEMMA OtherKnows ==
  ASSUME Inductive, MapInv, Longer,
         NEW u \in Threads, pc'[u] = pc[u], arg'[u] = arg[u]
  PROVE  ThreadKnows(u)'
<1>1. ThreadKnows(u) /\ Len(arg[u].past) \in Nat
  BY TypeFacts DEF MapInv
<1>2. Moment(arg[u].toc, arg[u].past, past) => Moment(arg[u].toc, arg[u].past, past')
  BY <1>1, MomentKeeps
<1> QED BY <1>1, <1>2 DEF ThreadKnows

LEMMA SameBlocksKnow ==
  ASSUME Inductive, MapInv, Longer,
         Footers(log') = Footers(log), \A i \in Footers(log) : log'[i] = log[i]
  PROVE  BlocksKnow'
<1> SUFFICES ASSUME NEW i \in Footers(log)
             PROVE  Moment(log[i].toc, log[i].past, past')
  BY DEF BlocksKnow
<1>1. Moment(log[i].toc, log[i].past, past) /\ Len(log[i].past) \in Nat
  BY TypeFacts DEF MapInv, BlocksKnow, Age
<1> QED BY <1>1, MomentKeeps

LEMMA RememberLast ==
  ASSUME Inductive, NEW k \in Key, NEW v \in Contents \union {Absent}, Remember(k, v)
  PROVE  Longer /\ Last(past') = [Last(past) EXCEPT ![k] = v]
<1>1. past \in Seq(Map) /\ past' \in Pasts
  BY TypeFacts, RememberType DEF Pasts
<1> DEFINE x == [past[Len(past)] EXCEPT ![k] = v]
<1>2. past' = Append(past, x)
  BY DEF Remember
<1> HIDE DEF x
<1>3. Len(past') = Len(past) + 1 /\ past'[Len(past) + 1] = x
      /\ \A i \in 1 .. Len(past) : past'[i] = past[i]
  BY <1>1, <1>2
<1> QED BY <1>1, <1>3 DEF Longer, Last, x

-----------------------------------------------------------------------------
(* A step of a thread that changes neither the file, nor the table of       *)
(* contents, nor its history.                                               *)
Silent(t) == /\ log' = log /\ toc' = toc /\ past' = past /\ Up /\ Up'
             /\ \A u \in Threads \ {t} : pc'[u] = pc[u] /\ arg'[u] = arg[u]

LEMMA SilentStep ==
  ASSUME Inductive, MapInv, NEW t \in Threads, Silent(t), ThreadKnows(t)'
  PROVE  MapInv'
<1>1. Longer
  BY TypeFacts DEF Silent, Longer
<1>2. BlocksKnow'
  BY <1>1, SameBlocksKnow DEF Silent
<1>3. TocIsMap'
  BY DEF Silent, MapInv, TocIsMap
<1>4. ASSUME NEW u \in Threads PROVE ThreadKnows(u)'
  BY <1>1, OtherKnows DEF Silent
<1> QED BY <1>2, <1>3, <1>4 DEF MapInv

LEMMA PutSilent ==
  ASSUME Inductive, MapInv, NEW t \in Threads,
         \/ PutBegin(t) \/ PutLookup(t) \/ PutAddRef(t) \/ PutContains(t)
         \/ PutInsert(t) \/ PutRecord(t) \/ PutIndex(t) \/ PutChain(t)
         \/ PutShouldCheckpoint(t)
  PROVE  Silent(t) /\ kept' = kept /\ ThreadKnows(t)'
<1>0. /\ pc \in [Threads -> Points] /\ arg \in [Threads -> ArgType]
      /\ pc[t] \in Putting => arg[t].value \in Value
  BY TypeFacts DEF MapInv, ThreadKnows
<1> USE DEF Silent, ThreadKnows, Taking, Putting, Mid, Deleting, At, Up, Goto, Set, Return,
            disk, memory, history
<1>1. CASE PutBegin(t)
  <2>1. PICK k \in Key, v \in Value, r \in Retentions :
          arg' = [arg EXCEPT ![t] = [IdleArg EXCEPT !.call = "put", !.key = k, !.value = v,
                                                    !.retention = r]]
    BY <1>1 DEF PutBegin
  <2>2. arg'[t].value = v
    BY <1>0, <2>1 DEF IdleArg
  <2>3. pc'[t] \in {"put_index", "put_lookup"}
    BY <1>0, <1>1 DEF PutBegin
  <2>4. Silent(t) /\ kept' = kept
    BY <1>0, <1>1 DEF PutBegin
  <2> QED BY <2>2, <2>3, <2>4
<1>2. CASE PutLookup(t)
  BY <1>0, <1>2 DEF PutLookup, ArgType
<1>3. CASE PutAddRef(t)
  BY <1>0, <1>3 DEF PutAddRef, NextSegment, WithRef, ArgType
<1>4. CASE PutContains(t)
  BY <1>0, <1>4 DEF PutContains
<1>5. CASE PutInsert(t)
  BY <1>0, <1>5 DEF PutInsert
<1>6. CASE PutRecord(t)
  BY <1>0, <1>6 DEF PutRecord, NextSegment, WithRef, ArgType
<1>7. CASE PutIndex(t)
  BY <1>0, <1>7 DEF PutIndex
<1>8. CASE PutChain(t)
  BY <1>0, <1>8 DEF PutChain
<1>9. CASE PutShouldCheckpoint(t)
  BY <1>0, <1>9 DEF PutShouldCheckpoint
<1> QED BY <1>1, <1>2, <1>3, <1>4, <1>5, <1>6, <1>7, <1>8, <1>9

(* A commit covers a moment that the history has seen.                      *)
LEMMA CheckpointSilent ==
  ASSUME Inductive, DurInv, MapInv, NEW t \in Threads,
         \/ CheckpointBegin(t) \/ CheckpointToc(t) \/ CheckpointLen(t)
         \/ CheckpointSync(t) \/ CheckpointReset(t) \/ LastSync(t)
  PROVE  Silent(t) /\ kept' \in kept .. Len(past) \union {kept} /\ ThreadKnows(t)'
<1>0. /\ pc \in [Threads -> Points] /\ arg \in [Threads -> ArgType]
      /\ Len(past) \in Nat /\ kept \in Nat
  BY TypeFacts DEF DurInv, FileDurable
<1> USE DEF Silent, ThreadKnows, Taking, Putting, Mid, Deleting, At, Up, Goto, Set, Return,
            disk, memory, history
<1>1. CASE CheckpointBegin(t)
  BY <1>0, <1>1 DEF CheckpointBegin
<1>2. CASE CheckpointToc(t)
  <2>1. arg'[t].toc = toc /\ arg'[t].past = past /\ pc'[t] = "checkpoint_len"
    BY <1>0, <1>2 DEF CheckpointToc, ArgType
  <2>2. Moment(toc, past, past)
    BY <1>2, TypeFacts DEF CheckpointToc, MapInv, TocIsMap, Moment, Begins
  <2>3. Silent(t) /\ kept' = kept
    BY <1>0, <1>2 DEF CheckpointToc
  <2> QED BY <1>0, <2>1, <2>2, <2>3
<1>3. CASE CheckpointLen(t)
  <2>1. /\ arg'[t].toc = arg[t].toc /\ arg'[t].past = arg[t].past
        /\ pc[t] = "checkpoint_len" /\ pc'[t] = "checkpoint_append"
    BY <1>0, <1>3 DEF CheckpointLen, ArgType
  <2>2. Silent(t) /\ kept' = kept
    BY <1>0, <1>3 DEF CheckpointLen
  <2>3. Moment(arg[t].toc, arg[t].past, past)
    BY <2>1 DEF MapInv
  <2> QED BY <1>0, <2>1, <2>2, <2>3
<1>4. CASE CheckpointSync(t)
  <2>1. Silent(t) /\ pc'[t] = "checkpoint_reset"
    BY <1>0, <1>4 DEF CheckpointSync
  <2>2. Len(arg[t].past) <= Len(past) /\ Len(arg[t].past) \in Nat
    <3>1. arg[t].off \in Footers(log) /\ Age(log, arg[t].off) = Len(arg[t].past)
      BY <1>4 DEF CheckpointSync, DurInv, Takes
    <3> QED BY <3>1, TypeFacts DEF DurInv, FileDurable, NotAhead
  <2>3. kept' \in kept .. Len(past) \union {kept}
    BY <1>0, <1>4, <2>2 DEF CheckpointSync
  <2> QED BY <2>1, <2>3
<1>5. CASE CheckpointReset(t)
  BY <1>0, <1>5 DEF CheckpointReset
<1>6. CASE LastSync(t)
  BY <1>0, <1>6 DEF LastSync
<1> QED BY <1>1, <1>2, <1>3, <1>4, <1>5, <1>6

LEMMA OtherSilent ==
  ASSUME Inductive, MapInv, NEW t \in Threads,
         DeleteBegin(t) \/ DeleteChain(t) \/ Get(t)
  PROVE  Silent(t) /\ kept' = kept /\ ThreadKnows(t)'
<1>0. /\ pc \in [Threads -> Points] /\ arg \in [Threads -> ArgType]
      /\ pc[t] \in Deleting => arg[t].key \in Key
  BY TypeFacts DEF MapInv, ThreadKnows
<1> USE DEF Silent, ThreadKnows, Taking, Putting, Mid, Deleting, At, Up, Goto, Set, Return,
            disk, memory, history
<1>1. CASE DeleteBegin(t)
  <2>1. PICK k \in Key :
          arg' = [arg EXCEPT ![t] = [IdleArg EXCEPT !.call = "delete", !.key = k]]
    BY <1>1 DEF DeleteBegin
  <2>2. arg'[t].key = k
    BY <1>0, <2>1 DEF IdleArg
  <2>3. pc'[t] = "delete_chain" /\ Silent(t) /\ kept' = kept
    BY <1>0, <1>1 DEF DeleteBegin
  <2> QED BY <2>2, <2>3
<1>2. CASE DeleteChain(t)
  BY <1>0, <1>2 DEF DeleteChain
<1>3. CASE GetLookup(t)
  BY <1>0, <1>3 DEF GetLookup
<1>4. CASE GetRead(t)
  BY <1>0, <1>4 DEF GetRead
<1> QED BY <1>1, <1>2, <1>3, <1>4 DEF Get

-----------------------------------------------------------------------------
(* The steps that change the map, the file, or both.                        *)
LEMMA PutAppendKnows ==
  ASSUME Inductive, MapInv, NEW t \in Threads, PutAppend(t)
  PROVE  MapInv' /\ UNCHANGED Store!storeVars
<1>1. /\ pc[t] = "put_append" /\ pc' = [pc EXCEPT ![t] = "put_contains"]
      /\ arg' = [arg EXCEPT ![t] = [arg[t] EXCEPT !.off = Len(log)]]
      /\ log' = Append(log, Chunk(Segment(t)))
      /\ UNCHANGED <<toc, past, kept, status>> /\ Up
  BY DEF PutAppend, At, Goto, Set, memory, history
<1>2. /\ \A u \in Threads \ {t} : pc'[u] = pc[u] /\ arg'[u] = arg[u]
      /\ pc'[t] = "put_contains" /\ arg'[t].value = arg[t].value
  BY <1>1, TypeFacts DEF ArgType
<1>3. Footers(log') = Footers(log) /\ \A i \in Footers(log) : log'[i] = log[i]
  BY <1>1, SegmentBlock, AppendedFooters
<1>4. Longer /\ Up'
  BY <1>1, TypeFacts DEF Longer, Up
<1>5. BlocksKnow'
  BY <1>3, <1>4, SameBlocksKnow
<1>6. TocIsMap'
  BY <1>1, <1>4 DEF MapInv, TocIsMap
<1>7. ASSUME NEW u \in Threads PROVE ThreadKnows(u)'
  <2>1. CASE u = t
    <3>1. arg[t].value \in Value
      BY <1>1 DEF MapInv, ThreadKnows, Putting, Mid
    <3> QED BY <1>2, <2>1, <3>1 DEF ThreadKnows, Taking, Deleting
  <2>2. CASE u # t
    BY <1>2, <1>4, <2>2, OtherKnows
  <2> QED BY <2>1, <2>2
<1>8. UNCHANGED Store!storeVars
  BY <1>1, <1>4 DEF Store!storeVars
<1> QED BY <1>5, <1>6, <1>7, <1>8 DEF MapInv

(* A put and a delete take effect with their change of the table of         *)
(* contents.                                                                *)
LEMMA ChangeKnows ==
  ASSUME Inductive, MapInv, NEW t \in Threads,
         NEW k \in Key, NEW v \in Contents \union {Absent}, Remember(k, v),
         Up, Up', log' = log, View(toc') = [View(toc) EXCEPT ![k] = v],
         \A u \in Threads \ {t} : pc'[u] = pc[u] /\ arg'[u] = arg[u],
         pc'[t] \notin Taking \union Putting \union Deleting
  PROVE  MapInv' /\ past' = Append(past, View(toc'))
<1>1. Longer /\ Last(past') = [Last(past) EXCEPT ![k] = v]
  BY RememberLast
<1>2. View(toc) = Last(past)
  BY DEF MapInv, TocIsMap
<1>3. TocIsMap'
  BY <1>1, <1>2 DEF TocIsMap
<1>4. BlocksKnow'
  BY <1>1, SameBlocksKnow
<1>5. ASSUME NEW u \in Threads PROVE ThreadKnows(u)'
  BY <1>1, OtherKnows DEF ThreadKnows
<1>6. past' = Append(past, View(toc'))
  BY <1>2 DEF Remember, Last
<1> QED BY <1>3, <1>4, <1>5, <1>6 DEF MapInv

LEMMA PutTocKnows ==
  ASSUME Inductive, MapInv, NEW t \in Threads, PutToc(t)
  PROVE  MapInv' /\ Store!StorePut
<1> DEFINE k == arg[t].key
           v == arg[t].value
<1>1. /\ pc[t] = "put_toc" /\ pc' = [pc EXCEPT ![t] = "put_should_checkpoint"]
      /\ toc' = Append(toc, NewEntry(k, v, arg[t].refs)) /\ Remember(k, v)
      /\ UNCHANGED <<log, arg, kept, status>> /\ Up
  BY DEF PutToc, At, Goto, disk
<1>2. k \in Key /\ v \in Value /\ arg[t].refs \in Seq(Nat) /\ toc \in Seq(EntryType)
  BY <1>1, TypeFacts
     DEF Inductive, Holds, IInv, Types, ArgType, ThreadLeads, Complete, MapInv, ThreadKnows, Putting
<1>3. v \in Contents
  BY <1>2, EngineAssumption DEF Contents
<1> HIDE DEF k, v
<1>4. View(toc') = [View(toc) EXCEPT ![k] = v]
  <2>1. View(Append(toc, NewEntry(k, v, arg[t].refs))) = [View(toc) EXCEPT ![k] = v]
    BY <1>2, <1>3, PutView
  <2> QED BY <1>1, <2>1
<1>5. Up' /\ pc'[t] \notin Taking \union Putting \union Deleting
      /\ \A u \in Threads \ {t} : pc'[u] = pc[u] /\ arg'[u] = arg[u]
  BY <1>1, TypeFacts DEF Up, Taking, Putting, Mid, Deleting
<1>6. MapInv' /\ past' = Append(past, View(toc'))
  BY <1>1, <1>2, <1>3, <1>4, <1>5, ChangeKnows
<1>7. Store!Change([View(toc) EXCEPT ![k] = v])
  BY <1>1, <1>4, <1>5, <1>6 DEF Store!Change
<1> QED BY <1>2, <1>6, <1>7 DEF Store!StorePut

LEMMA DeleteTocKnows ==
  ASSUME Inductive, MapInv, NEW t \in Threads, DeleteToc(t)
  PROVE  MapInv' /\ Store!StoreDelete
<1> DEFINE k == arg[t].key
<1>1. /\ pc[t] = "delete_toc" /\ pc' = [pc EXCEPT ![t] = "idle"]
      /\ arg' = [arg EXCEPT ![t] = IdleArg]
      /\ toc' = Tombstoned(toc, k) /\ Remember(k, Absent)
      /\ UNCHANGED <<log, kept, status>> /\ Up
  BY DEF DeleteToc, At, Goto, Set, Return, disk
<1>2. k \in Key /\ toc \in Seq(EntryType)
  BY <1>1 DEF Inductive, Holds, IInv, Types, MapInv, ThreadKnows, Deleting
<1> HIDE DEF k
<1>3. View(toc') = [View(toc) EXCEPT ![k] = Absent]
  BY <1>1, <1>2, DeleteView
<1>4. Up' /\ pc'[t] \notin Taking \union Putting \union Deleting
      /\ \A u \in Threads \ {t} : pc'[u] = pc[u] /\ arg'[u] = arg[u]
  BY <1>1, TypeFacts DEF Up, Taking, Putting, Mid, Deleting
<1>5. MapInv' /\ past' = Append(past, View(toc'))
  BY <1>1, <1>2, <1>3, <1>4, ChangeKnows
<1>6. Store!Change([View(toc) EXCEPT ![k] = Absent])
  BY <1>1, <1>3, <1>4, <1>5 DEF Store!Change
<1> QED BY <1>2, <1>5, <1>6 DEF Store!StoreDelete

(* The block that is appended keeps the moment its table was read at.       *)
LEMMA CheckpointAppendKnows ==
  ASSUME Inductive, MapInv, NEW t \in Threads, CheckpointAppend(t)
  PROVE  MapInv' /\ UNCHANGED Store!storeVars
<1> DEFINE b == Checkpoint(arg[t].toc, arg[t].off, arg[t].past)
<1>1. /\ pc[t] = "checkpoint_append" /\ pc' = [pc EXCEPT ![t] = "checkpoint_sync"]
      /\ arg' = [arg EXCEPT ![t] = [arg[t] EXCEPT !.off = Len(log) + 1]]
      /\ log' = Append(log, b)
      /\ UNCHANGED <<toc, past, kept, status>> /\ Up
  BY DEF CheckpointAppend, At, Goto, Set, memory, history
<1>2. \A u \in Threads \ {t} : pc'[u] = pc[u] /\ arg'[u] = arg[u]
  BY <1>1, TypeFacts
<1>3. /\ b \in Block /\ b.kind = "checkpoint"
      /\ b.toc = arg[t].toc /\ b.past = arg[t].past
  BY TypeFacts DEF ArgType, Checkpoint, Block
<1> HIDE DEF b
<1>4. /\ \A i \in Footers(log) : log'[i] = log[i]
      /\ \A i \in Footers(log') : i \in Footers(log) \/ i = Len(log) + 1
      /\ log'[Len(log) + 1] = b
  BY <1>1, <1>3, AppendedFooters
<1>5. Moment(arg[t].toc, arg[t].past, past)
  BY <1>1 DEF MapInv, ThreadKnows, Taking
<1>6. BlocksKnow'
  BY <1>1, <1>3, <1>4, <1>5 DEF MapInv, BlocksKnow
<1>7. Longer /\ Up'
  BY <1>1, TypeFacts DEF Longer, Up
<1>8. TocIsMap'
  BY <1>1, <1>7 DEF MapInv, TocIsMap
<1>9. ASSUME NEW u \in Threads PROVE ThreadKnows(u)'
  <2>1. CASE u = t
    BY <1>1, <2>1, TypeFacts DEF ThreadKnows, Taking, Putting, Mid, Deleting
  <2>2. CASE u # t
    BY <1>2, <1>7, <2>2, OtherKnows
  <2> QED BY <2>1, <2>2
<1>10. UNCHANGED Store!storeVars
  BY <1>1, <1>7 DEF Store!storeVars
<1> QED BY <1>6, <1>8, <1>9, <1>10 DEF MapInv

LEMMA StopKnows ==
  ASSUME Inductive, DurInv, MapInv, Crash \/ Drop
  PROVE  MapInv' /\ Store!StoreStop
<1>1. /\ toc' = <<>> /\ UNCHANGED <<past, kept>> /\ Up /\ status' = "down"
      /\ \A t \in Threads : pc'[t] = "idle"
  BY DEF Crash, Drop, Forget, Up, history
<1>2. ~Up'
  BY <1>1 DEF Up
<1>3. \A t \in Threads : ThreadKnows(t)'
  BY <1>1 DEF ThreadKnows, Taking, Putting, Mid, Deleting
<1>4. \A i \in Footers(log') : i \in Footers(log) /\ log'[i] = log[i]
  <2>1. CASE Drop
    BY <2>1 DEF Drop, disk
  <2>2. CASE Crash
    <3>1. PICK n \in durable .. Len(log) : log' = SubSeq(log, 1, n)
      BY <2>2 DEF Crash
    <3>2. n \in 0 .. Len(log)
      BY <3>1, TypeFacts DEF DurInv, FileDurable
    <3> QED BY <3>1, <3>2, CutFooters, TypeFacts
  <2> QED BY <2>1, <2>2
<1>5. BlocksKnow'
  BY <1>1, <1>4 DEF MapInv, BlocksKnow
<1>6. TocIsMap'
  BY <1>1, <1>2 DEF TocIsMap
<1>7. Store!StoreStop
  BY <1>1, <1>2, EmptyView DEF Store!StoreStop, Store!Empty
<1> QED BY <1>3, <1>5, <1>6, <1>7 DEF MapInv

(* What a history begins with is the history up to there.                   *)
LEMMA BeginsCut ==
  ASSUME NEW p \in Pasts, NEW q \in Pasts, Begins(p, q)
  PROVE  Len(p) \in 1 .. Len(q) /\ p = SubSeq(q, 1, Len(p)) /\ Last(p) = q[Len(p)]
<1>1. p \in Seq(Map) /\ q \in Seq(Map) /\ p # <<>> /\ Len(p) \in Nat /\ Len(q) \in Nat
  BY DEF Pasts
<1>2. Len(p) \in 1 .. Len(q)
  BY <1>1, EmptySeq DEF Begins
<1>3. /\ SubSeq(q, 1, Len(p)) \in Seq(Map) /\ Len(SubSeq(q, 1, Len(p))) = Len(p)
      /\ \A i \in 1 .. Len(p) : SubSeq(q, 1, Len(p))[i] = q[i]
  <2>1. \A i \in 1 .. Len(p) : q[i] \in Map
    BY <1>1, <1>2
  <2>2. 1 \in Int /\ Len(p) \in Int
    BY <1>1
  <2> QED BY <1>1, <1>2, <2>1, <2>2, SubSeqProperties
<1>4. p = SubSeq(q, 1, Len(p))
  BY <1>1, <1>3, SeqEqual DEF Begins
<1> QED BY <1>2, <1>4 DEF Begins, Last

(* The engine reopens at the moment of the newest footer, which no commit   *)
(* is ahead of.                                                             *)
LEMMA OpenKnows ==
  ASSUME Inductive, DurInv, MapInv, Open, Recoverable(log)
  PROVE  MapInv' /\ Store!StoreRestart
<1> DEFINE m == Max(Footers(log))
           p == log[m].past
           n == Len(p)
<1>1. /\ m \in Footers(log) /\ \A i \in Footers(log) : i <= m
      /\ Recovered(log) = log[m]
  BY LastFooter, TypeFacts DEF Recoverable, DurInv, FileDurable
<1>2. /\ log' = SubSeq(log, 1, m) /\ past' = p /\ toc' = log[m].toc
      /\ kept' = kept /\ pc' = pc /\ ~Up /\ Up' /\ \A t \in Threads : pc[t] = "idle"
  BY <1>1 DEF Open, Up, Inductive, Holds, IInv, DownIsEmpty
<1> HIDE DEF m
<1>3. m \in 1 .. Len(log) /\ log[m] \in Block /\ log[m].kind = "checkpoint"
  BY <1>1, TypeFacts DEF Footers
<1>4. p \in Pasts /\ past \in Pasts /\ Len(past) \in Nat /\ kept \in Nat
  BY <1>3, TypeFacts DEF Block, DurInv, FileDurable
<1>5. View(toc') = Last(p) /\ Begins(p, past)
  BY <1>1, <1>2 DEF MapInv, BlocksKnow, Moment
<1>6. n \in 1 .. Len(past) /\ p = SubSeq(past, 1, n) /\ Last(p) = past[n]
  BY <1>4, <1>5, BeginsCut
<1>7. kept <= n
  <2>1. CASE kept = 0
    BY <1>6, <2>1
  <2>2. CASE kept > 0
    <3>1. PICK i \in Footers(log) : kept <= Age(log, i)
      BY <2>2 DEF DurInv, FileDurable, Committed
    <3>2. Age(log, i) <= n /\ Age(log, i) \in Nat
      BY <1>1, TypeFacts DEF DurInv, FileDurable, Ordered, Age
    <3> QED BY <1>4, <1>6, <3>1, <3>2
  <2> QED BY <1>4, <2>1, <2>2
<1>8. BlocksKnow'
  <2> SUFFICES ASSUME NEW i \in Footers(log')
               PROVE  Moment(log'[i].toc, log'[i].past, past')
    BY DEF BlocksKnow
  <2>1. m \in 0 .. Len(log)
    BY <1>3, TypeFacts
  <2>2. i \in Footers(log) /\ log'[i] = log[i] /\ i <= m
    BY <1>1, <1>2, <2>1, CutFooters, TypeFacts
  <2>3. Moment(log[i].toc, log[i].past, past) /\ Len(log[i].past) <= n
        /\ Len(log[i].past) \in Nat
    BY <1>1, <2>2, TypeFacts DEF MapInv, BlocksKnow, DurInv, FileDurable, Ordered, Age
  <2>4. \A j \in 1 .. n : p[j] = past[j]
    BY <1>5 DEF Begins
  <2>5. \A j \in 1 .. Len(log[i].past) : j \in 1 .. n
    BY <1>6, <2>3
  <2> QED BY <1>2, <2>2, <2>3, <2>4, <2>5 DEF Moment, Begins
<1>9. TocIsMap' /\ \A t \in Threads : ThreadKnows(t)'
  BY <1>2, <1>5 DEF TocIsMap, ThreadKnows, Taking, Putting, Mid, Deleting
<1>10. Store!StoreRestart
  <2>1. View(toc') = past[n] /\ past' = SubSeq(past, 1, n)
    BY <1>2, <1>5, <1>6
  <2> HIDE DEF p, n
  <2> QED BY <1>2, <1>6, <1>7, <2>1 DEF Store!StoreRestart
<1> QED BY <1>8, <1>9, <1>10 DEF MapInv

-----------------------------------------------------------------------------
LEMMA InitMap == Init => MapInv /\ Store!StoreInit
<1> SUFFICES ASSUME Init PROVE MapInv /\ Store!StoreInit
  OBVIOUS
<1>1. View(toc) = [k \in Key |-> Absent] /\ Up
  BY EmptyView DEF Init, Up
<1>2. Footers(log) = {} /\ Last(past) = [k \in Key |-> Absent]
  BY DEF Init, Footers, Last, NoChanges
<1>3. MapInv
  BY <1>1, <1>2 DEF Init, MapInv, TocIsMap, BlocksKnow, ThreadKnows, Taking, Putting, Mid,
                    Deleting
<1> QED BY <1>1, <1>3 DEF Init, Store!StoreInit, Store!Empty, NoChanges

(* Each step of a thread, each crash and each reopening is a step of the    *)
(* map, or is invisible to it.                                              *)
LEMMA StepMaps ==
  ASSUME Inductive, DurInv, MapInv, [Next]_vars
  PROVE  MapInv' /\ [Store!StoreNext]_Store!storeVars
<1>1. ASSUME NEW t \in Threads, Silent(t), kept' = kept, ThreadKnows(t)'
      PROVE  MapInv' /\ UNCHANGED Store!storeVars
  <2>1. MapInv'
    BY <1>1, SilentStep
  <2> QED BY <1>1, <2>1 DEF Silent, Store!storeVars
<1>2. ASSUME NEW t \in Threads, Put(t)
      PROVE  MapInv' /\ [Store!StoreNext]_Store!storeVars
  <2>1. CASE PutAppend(t)
    BY <2>1, PutAppendKnows
  <2>2. CASE PutToc(t)
    BY <2>2, PutTocKnows DEF Store!StoreNext
  <2>3. CASE ~PutAppend(t) /\ ~PutToc(t)
    BY <1>1, <1>2, <2>3, PutSilent DEF Put
  <2> QED BY <2>1, <2>2, <2>3
<1>3. ASSUME NEW t \in Threads, TakeCheckpoint(t)
      PROVE  MapInv' /\ [Store!StoreNext]_Store!storeVars
  <2>1. CASE CheckpointAppend(t)
    BY <2>1, CheckpointAppendKnows
  <2>2. CASE ~CheckpointAppend(t)
    <3>1. Silent(t) /\ kept' \in kept .. Len(past) \union {kept} /\ ThreadKnows(t)'
      BY <1>3, <2>2, CheckpointSilent DEF TakeCheckpoint
    <3>2. CASE kept' = kept
      BY <1>1, <3>1, <3>2
    <3>3. CASE kept' \in kept .. Len(past)
      <4>1. MapInv'
        BY <3>1, SilentStep
      <4>2. Store!StoreCommit
        BY <3>1, <3>3 DEF Silent, Store!StoreCommit
      <4> QED BY <4>1, <4>2 DEF Store!StoreNext
    <3> QED BY <3>1, <3>2, <3>3
  <2> QED BY <2>1, <2>2
<1>4. ASSUME NEW t \in Threads, Delete(t)
      PROVE  MapInv' /\ [Store!StoreNext]_Store!storeVars
  <2>1. CASE DeleteToc(t)
    BY <2>1, DeleteTocKnows DEF Store!StoreNext
  <2>2. CASE DeleteBegin(t) \/ DeleteChain(t)
    BY <1>1, <2>2, OtherSilent
  <2> QED BY <1>4, <2>1, <2>2 DEF Delete
<1>5. ASSUME NEW t \in Threads, Get(t)
      PROVE  MapInv' /\ [Store!StoreNext]_Store!storeVars
  BY <1>1, <1>5, OtherSilent
<1>6. CASE Crash \/ Drop
  BY <1>6, StopKnows DEF Store!StoreNext
<1>7. CASE Open /\ Recoverable(log)
  BY <1>7, OpenKnows DEF Store!StoreNext
<1>8. CASE UNCHANGED vars \/ (Open /\ ~Recoverable(log))
  <2>1. UNCHANGED <<log, toc, past, kept, pc, arg>> /\ (Up' <=> Up)
    BY <1>8 DEF vars, Open, Up
  <2>2. MapInv'
    BY <2>1 DEF MapInv, TocIsMap, BlocksKnow, ThreadKnows
  <2> QED BY <2>1, <2>2 DEF Store!storeVars
<1> QED BY <1>2, <1>3, <1>4, <1>5, <1>6, <1>7, <1>8 DEF Next

(* To its callers the engine is one atomic map: whatever the interleaving   *)
(* of puts, deletes, reads and checkpoints, and however often it crashes,   *)
(* it comes back with the map of one moment, not before the last commit;    *)
(* for every number of threads, keys and chunks, when no thread appends     *)
(* into a checkpoint of another (engine.rs, checkpoint.rs).                 *)
THEOREM EngineImplementsTensorStore ==
  ASSUME OneAtATime
  PROVE  Spec => ImplementsTensorStore
<1>1. Init => Inductive /\ DurInv /\ MapInv /\ Store!StoreInit
  BY InitInductive, InitDurable, InitMap
<1>2. Inductive /\ DurInv /\ MapInv /\ [Next]_vars
        => /\ (Inductive /\ DurInv /\ MapInv)'
           /\ [Store!StoreNext]_Store!storeVars
  BY EngineStep, EngineDurableStep, StepMaps
<1> QED BY <1>1, <1>2, PTL DEF Spec, ImplementsTensorStore, Store!StoreSpec

-----------------------------------------------------------------------------
Changes == {"put", "delete"}

OneMutator ==
  \A t, u \in Threads :
    Ops[t] \intersect Changes # {} /\ Ops[u] \intersect Changes # {} => t = u

(* Between the change of the tree and that of the table of contents.        *)
Changing == {"put_chain", "put_toc"} \union Deleting

Changed == {arg[t].key : t \in {u \in Threads : pc[u] \in Changing}}

Closed(entries) ==
  \A i, j \in DOMAIN entries :
    entries[i].key = entries[j].key /\ i < j /\ entries[j].dead => entries[i].dead

(* What the tree may say of a key.                                          *)
Indexed(entries, k, at) ==
  /\ at # NotIndexed => Live(entries, k)
  /\ Live(entries, k) /\ Latest(entries, k).refs # <<>>
       => \E i \in DOMAIN Latest(entries, k).refs : at = Latest(entries, k).refs[i]

ThreadIndexes(t) ==
  /\ pc[t] \in Putting \union Deleting => Ops[t] \intersect Changes # {}
  /\ pc[t] \in Deleting => arg[t].key \in Key /\ art[arg[t].key] = NotIndexed
  /\ pc[t] \in {"put_chain", "put_toc"} =>
       /\ arg[t].refs # <<>> => art[arg[t].key] = Head(arg[t].refs)
       /\ arg[t].refs = <<>> /\ art[arg[t].key] # NotIndexed => Live(toc, arg[t].key)
  /\ pc[t] \in Taking => Closed(arg[t].toc)

BlocksClosed == \A i \in Footers(log) : Closed(log[i].toc)

IndexInv == /\ art = [k \in Key |-> art[k]]
            /\ Closed(toc)
            /\ BlocksClosed
            /\ \A t \in Threads : ThreadIndexes(t)
            /\ \A k \in Key : k \in Changed \/ Indexed(toc, k, art[k])

-----------------------------------------------------------------------------
LEMMA ClosedPut ==
  ASSUME NEW s \in Seq(EntryType), Closed(s), NEW k, NEW v, NEW r
  PROVE  Closed(Append(s, NewEntry(k, v, r)))
<1> DEFINE e == NewEntry(k, v, r)
           s2 == Append(s, e)
           n == Len(s) + 1
<1>1. ~e.dead
  BY DEF NewEntry
<1> HIDE DEF e
<1>2. /\ DOMAIN s2 = 1 .. n /\ DOMAIN s = 1 .. Len(s) /\ Len(s) \in Nat /\ s2[n] = e
      /\ \A i \in 1 .. Len(s) : s2[i] = s[i]
  OBVIOUS
<1> HIDE DEF s2
<1>3. ASSUME NEW i \in DOMAIN s2, NEW j \in DOMAIN s2, s2[i].key = s2[j].key, i < j,
             s2[j].dead
      PROVE  s2[i].dead
  <2>1. j \in 1 .. Len(s) /\ i \in 1 .. Len(s)
    BY <1>1, <1>2, <1>3
  <2> QED BY <1>2, <1>3, <2>1 DEF Closed
<1>4. Closed(s2)
  BY <1>3 DEF Closed
<1> QED BY <1>4 DEF s2, e

LEMMA ClosedDelete ==
  ASSUME NEW s \in Seq(EntryType), Closed(s), NEW k
  PROVE  Closed(Tombstoned(s, k))
<1> DEFINE s2 == Tombstoned(s, k)
<1>1. DOMAIN s2 = DOMAIN s /\ \A i \in DOMAIN s : s[i] \in EntryType
  BY DEF Tombstoned
<1>2. \A i \in DOMAIN s : /\ s2[i].key = s[i].key
                          /\ s[i].key = k => s2[i].dead
                          /\ s[i].key # k => s2[i] = s[i]
  BY <1>1 DEF Tombstoned, EntryType
<1> HIDE DEF s2
<1>3. Closed(s2)
  BY <1>1, <1>2 DEF Closed
<1> QED BY <1>3 DEF s2

(* What open puts into the tree is what lookup will agree with.             *)
LEMMA RebuiltAgrees ==
  ASSUME NEW s \in Seq(EntryType), Closed(s), NEW k \in Key
  PROVE  Indexed(s, k, RebuiltIndex(s, k))
<1> DEFINE all == Positions(s, k)
           own == {i \in all : ~s[i].dead /\ s[i].refs # <<>>}
           last == Max(all)
<1>1. /\ all \in SUBSET (1 .. Len(s)) /\ Len(s) \in Nat
      /\ \A i \in all : s[i].key = k /\ s[i].refs \in Seq(Nat)
  <2>1. \A i \in DOMAIN s : s[i] \in EntryType
    OBVIOUS
  <2>2. \A e \in EntryType : e.refs \in Seq(Nat)
    BY DEF EntryType
  <2> QED BY <2>1, <2>2 DEF Positions
<1>2. all # {} => last \in all /\ \A i \in all : i <= last
  BY PositionsOf
<1>3. own # {} => Max(own) \in own /\ \A i \in own : i <= Max(own)
  <2>1. own \in SUBSET (1 .. Len(s))
    BY <1>1
  <2> QED BY <1>1, <2>1, MaxOf
<1>4. RebuiltIndex(s, k) = IF own = {} THEN NotIndexed
                           ELSE s[Max(own)].refs[Len(s[Max(own)].refs)]
  BY DEF RebuiltIndex
<1>5. own # {} => Live(s, k)
  <2> SUFFICES ASSUME own # {} PROVE ~s[last].dead /\ all # {}
    BY DEF Live
  <2>1. Max(own) \in all /\ ~s[Max(own)].dead /\ last \in all
    BY <1>2, <1>3
  <2>2. CASE Max(own) = last
    BY <2>1, <2>2
  <2>3. CASE Max(own) # last
    <3>1. Max(own) < last /\ s[Max(own)].key = s[last].key
          /\ Max(own) \in DOMAIN s /\ last \in DOMAIN s
      BY <1>1, <1>2, <2>1, <2>3
    <3> QED BY <2>1, <3>1 DEF Closed
  <2> QED BY <2>2, <2>3
<1>6. ASSUME Live(s, k), Latest(s, k).refs # <<>>
      PROVE  \E i \in DOMAIN Latest(s, k).refs : RebuiltIndex(s, k) = Latest(s, k).refs[i]
  <2>1. all # {} /\ last \in own
    BY <1>2, <1>6 DEF Live, Latest
  <2>2. Max(own) = last
    <3>1. Max(own) \in all /\ last <= Max(own)
      BY <1>3, <2>1
    <3>2. Max(own) <= last /\ Max(own) \in Nat /\ last \in Nat
      BY <1>1, <1>2, <2>1, <3>1
    <3> HIDE DEF own, last
    <3> QED BY <3>1, <3>2
  <2>3. Latest(s, k).refs = s[last].refs /\ s[last].refs \in Seq(Nat)
    BY <1>1, <2>1 DEF Latest
  <2>4. \A r \in Seq(Nat) : r # <<>> => Len(r) \in DOMAIN r
    BY EmptySeq
  <2>5. RebuiltIndex(s, k) = s[last].refs[Len(s[last].refs)]
    BY <1>4, <2>1, <2>2
  <2>6. s[last].refs # <<>>
    BY <1>6, <2>3
  <2> HIDE DEF last
  <2> QED BY <2>3, <2>4, <2>5, <2>6
<1> HIDE DEF all, own, last
<1> QED BY <1>4, <1>5, <1>6 DEF Indexed

-----------------------------------------------------------------------------
Others(t) == \A u \in Threads \ {t} : pc'[u] = pc[u] /\ arg'[u] = arg[u]

(* A step that changes neither the tree nor the table of contents.          *)
Still(t) == /\ art' = art /\ toc' = toc /\ Others(t)
            /\ pc[t] \in Changing \/ pc'[t] \in Changing =>
                 /\ pc[t] \in Changing /\ pc'[t] \in Changing
                 /\ arg'[t].key = arg[t].key

LEMMA StillStep ==
  ASSUME IndexInv, NEW t \in Threads, Still(t), BlocksClosed', ThreadIndexes(t)'
  PROVE  IndexInv'
<1>1. ASSUME NEW u \in Threads PROVE ThreadIndexes(u)'
  <2>1. CASE u = t
    BY <2>1
  <2>2. CASE u # t
    BY <2>2 DEF IndexInv, ThreadIndexes, Still, Others
  <2> QED BY <2>1, <2>2
<1>2. Changed' = Changed
  <2>1. \A u \in Threads : /\ pc'[u] \in Changing <=> pc[u] \in Changing
                           /\ pc[u] \in Changing => arg'[u].key = arg[u].key
    BY DEF Still, Others
  <2> QED BY <2>1 DEF Changed
<1> QED BY <1>1, <1>2 DEF IndexInv, Still

(* A step of the thread that puts and deletes.                              *)
LEMMA MutatorStep ==
  ASSUME OneMutator, IndexInv, NEW t \in Threads, Ops[t] \intersect Changes # {},
         Others(t), log' = log, art' = [k \in Key |-> art'[k]], Closed(toc'),
         ThreadIndexes(t)',
         \A k \in Key : \/ pc'[t] \in Changing /\ k = arg'[t].key
                        \/ Indexed(toc', k, art'[k])
  PROVE  IndexInv'
<1>1. \A u \in Threads \ {t} : pc[u] \notin Putting \union Deleting
  BY DEF OneMutator, IndexInv, ThreadIndexes
<1>2. ASSUME NEW u \in Threads PROVE ThreadIndexes(u)'
  <2>1. CASE u = t
    BY <2>1
  <2>2. CASE u # t
    <3>1. /\ pc'[u] \notin Putting \union Deleting
          /\ pc'[u] \in Taking => Closed(arg'[u].toc)
      BY <1>1, <2>2 DEF Others, IndexInv, ThreadIndexes
    <3> QED BY <3>1 DEF ThreadIndexes, Putting
  <2> QED BY <2>1, <2>2
<1>3. \A k \in Key : k \in Changed' \/ Indexed(toc', k, art'[k])
  BY DEF Changed
<1>4. BlocksClosed'
  BY DEF IndexInv, BlocksClosed
<1> QED BY <1>2, <1>3, <1>4 DEF IndexInv

(* What a key's state outside of t's change is.                             *)
LEMMA OtherKeys ==
  ASSUME OneMutator, IndexInv, NEW t \in Threads, Ops[t] \intersect Changes # {},
         NEW k \in Key, pc[t] \in Changing => k # arg[t].key
  PROVE  Indexed(toc, k, art[k])
<1>1. \A u \in Threads \ {t} : pc[u] \notin Putting \union Deleting
  BY DEF OneMutator, IndexInv, ThreadIndexes
<1>2. k \notin Changed
  BY <1>1 DEF Changed, Changing, Putting
<1> QED BY <1>2 DEF IndexInv

-----------------------------------------------------------------------------
LEMMA PutStill ==
  ASSUME Inductive, IndexInv, NEW t \in Threads,
         \/ PutBegin(t) \/ PutLookup(t) \/ PutAddRef(t) \/ PutContains(t)
         \/ PutInsert(t) \/ PutRecord(t) \/ PutChain(t) \/ PutShouldCheckpoint(t)
  PROVE  Still(t) /\ log' = log /\ ThreadIndexes(t)'
<1>0. /\ pc \in [Threads -> Points] /\ arg \in [Threads -> ArgType] /\ ThreadIndexes(t)
  BY TypeFacts DEF IndexInv
<1> USE DEF Still, Others, ThreadIndexes, Taking, Putting, Mid, Deleting, Changing, At, Goto,
            Set, Return, disk, memory, history
<1>1. CASE PutBegin(t)
  <2>1. /\ "put" \in Ops[t] /\ pc[t] = "idle" /\ UNCHANGED <<art, toc, log>>
        /\ \A u \in Threads \ {t} : pc'[u] = pc[u] /\ arg'[u] = arg[u]
        /\ pc'[t] \in {"put_index", "put_lookup"}
    BY <1>0, <1>1 DEF PutBegin
  <2> QED BY <2>1 DEF Changes
<1>2. CASE PutLookup(t)
  BY <1>0, <1>2 DEF PutLookup
<1>3. CASE PutAddRef(t)
  BY <1>0, <1>3 DEF PutAddRef, NextSegment
<1>4. CASE PutContains(t)
  BY <1>0, <1>4 DEF PutContains
<1>5. CASE PutInsert(t)
  BY <1>0, <1>5 DEF PutInsert
<1>6. CASE PutRecord(t)
  BY <1>0, <1>6 DEF PutRecord, NextSegment
<1>7. CASE PutChain(t)
  BY <1>0, <1>7 DEF PutChain
<1>8. CASE PutShouldCheckpoint(t)
  BY <1>0, <1>8 DEF PutShouldCheckpoint
<1> QED BY <1>1, <1>2, <1>3, <1>4, <1>5, <1>6, <1>7, <1>8

LEMMA CheckpointStill ==
  ASSUME Inductive, IndexInv, NEW t \in Threads,
         \/ CheckpointBegin(t) \/ CheckpointToc(t) \/ CheckpointLen(t)
         \/ CheckpointSync(t) \/ CheckpointReset(t) \/ LastSync(t)
         \/ DeleteChain(t) \/ Get(t)
  PROVE  Still(t) /\ log' = log /\ ThreadIndexes(t)'
<1>0. /\ pc \in [Threads -> Points] /\ arg \in [Threads -> ArgType] /\ ThreadIndexes(t)
      /\ Closed(toc)
  BY TypeFacts DEF IndexInv
<1> USE DEF Still, Others, ThreadIndexes, Taking, Putting, Mid, Deleting, Changing, At, Goto,
            Set, Return, disk, memory, history
<1>1. CASE CheckpointBegin(t)
  BY <1>0, <1>1 DEF CheckpointBegin
<1>2. CASE CheckpointToc(t)
  <2>1. arg'[t].toc = toc /\ pc'[t] = "checkpoint_len" /\ pc[t] = "checkpoint_toc"
    BY <1>0, <1>2 DEF CheckpointToc, ArgType
  <2>2. Still(t) /\ log' = log
    BY <1>0, <1>2, <2>1 DEF CheckpointToc
  <2> QED BY <1>0, <2>1, <2>2
<1>3. CASE CheckpointLen(t)
  <2>1. /\ arg'[t].toc = arg[t].toc
        /\ pc[t] = "checkpoint_len" /\ pc'[t] = "checkpoint_append"
    BY <1>0, <1>3 DEF CheckpointLen, ArgType
  <2>2. Still(t) /\ log' = log
    BY <1>0, <1>3, <2>1 DEF CheckpointLen
  <2> QED BY <1>0, <2>1, <2>2
<1>4. CASE CheckpointSync(t)
  BY <1>0, <1>4 DEF CheckpointSync
<1>5. CASE CheckpointReset(t)
  BY <1>0, <1>5 DEF CheckpointReset
<1>6. CASE LastSync(t)
  BY <1>0, <1>6 DEF LastSync
<1>7. CASE DeleteChain(t)
  BY <1>0, <1>7 DEF DeleteChain
<1>8. CASE GetLookup(t)
  BY <1>0, <1>8 DEF GetLookup
<1>9. CASE GetRead(t)
  BY <1>0, <1>9 DEF GetRead
<1> QED BY <1>1, <1>2, <1>3, <1>4, <1>5, <1>6, <1>7, <1>8, <1>9 DEF Get

(* The steps that append to the file.                                       *)
LEMMA PutAppendIndex ==
  ASSUME Inductive, IndexInv, NEW t \in Threads, PutAppend(t)
  PROVE  IndexInv'
<1>0. /\ pc \in [Threads -> Points] /\ arg \in [Threads -> ArgType] /\ ThreadIndexes(t)
  BY TypeFacts DEF IndexInv
<1>1. /\ pc[t] = "put_append" /\ pc' = [pc EXCEPT ![t] = "put_contains"]
      /\ arg' = [arg EXCEPT ![t] = [arg[t] EXCEPT !.off = Len(log)]]
      /\ log' = Append(log, Chunk(Segment(t)))
      /\ UNCHANGED <<toc, art>>
  BY DEF PutAppend, At, Goto, Set, memory
<1>2. Footers(log') = Footers(log) /\ \A i \in Footers(log) : log'[i] = log[i]
  BY <1>1, SegmentBlock, AppendedFooters
<1>3. BlocksClosed'
  BY <1>2 DEF IndexInv, BlocksClosed
<1>4. Still(t) /\ ThreadIndexes(t)'
  BY <1>0, <1>1 DEF Still, Others, ThreadIndexes, Taking, Putting, Mid, Deleting, Changing
<1> QED BY <1>3, <1>4, StillStep

LEMMA CheckpointAppendIndex ==
  ASSUME Inductive, IndexInv, NEW t \in Threads, CheckpointAppend(t)
  PROVE  IndexInv'
<1> DEFINE b == Checkpoint(arg[t].toc, arg[t].off, arg[t].past)
<1>0. /\ pc \in [Threads -> Points] /\ arg \in [Threads -> ArgType] /\ ThreadIndexes(t)
  BY TypeFacts DEF IndexInv
<1>1. /\ pc[t] = "checkpoint_append" /\ pc' = [pc EXCEPT ![t] = "checkpoint_sync"]
      /\ arg' = [arg EXCEPT ![t] = [arg[t] EXCEPT !.off = Len(log) + 1]]
      /\ log' = Append(log, b)
      /\ UNCHANGED <<toc, art>>
  BY DEF CheckpointAppend, At, Goto, Set, memory
<1>2. b \in Block /\ b.kind = "checkpoint" /\ b.toc = arg[t].toc
  BY TypeFacts DEF ArgType, Checkpoint, Block
<1> HIDE DEF b
<1>3. /\ \A i \in Footers(log) : log'[i] = log[i]
      /\ \A i \in Footers(log') : i \in Footers(log) \/ i = Len(log) + 1
      /\ log'[Len(log) + 1] = b
  BY <1>1, <1>2, AppendedFooters
<1>4. Closed(arg[t].toc)
  BY <1>0, <1>1 DEF ThreadIndexes, Taking
<1>5. BlocksClosed'
  BY <1>2, <1>3, <1>4 DEF IndexInv, BlocksClosed
<1>6. Still(t) /\ ThreadIndexes(t)'
  BY <1>0, <1>1 DEF Still, Others, ThreadIndexes, Taking, Putting, Mid, Deleting, Changing
<1> QED BY <1>5, <1>6, StillStep

-----------------------------------------------------------------------------
(* The four steps of a put or a delete that change the tree or the table.   *)
LEMMA PutIndexIndex ==
  ASSUME OneMutator, Inductive, IndexInv, NEW t \in Threads, PutIndex(t)
  PROVE  IndexInv'
<1> DEFINE k == arg[t].key
           r == arg[t].refs
<1>1. /\ pc[t] = "put_index" /\ pc' = [pc EXCEPT ![t] = "put_chain"]
      /\ art' = IF r = <<>> THEN art ELSE [art EXCEPT ![k] = Head(r)]
      /\ UNCHANGED <<log, toc, arg>>
  BY DEF PutIndex, At, Goto, disk
<1>2. /\ k \in Key /\ pc'[t] = "put_chain"
      /\ \A u \in Threads \ {t} : pc'[u] = pc[u]
      /\ Ops[t] \intersect Changes # {}
  BY <1>1, TypeFacts
     DEF Inductive, Holds, IInv, ThreadLeads, Complete, IndexInv, ThreadIndexes, Putting
<1>3. \A j \in Key : Indexed(toc, j, art[j])
  BY <1>1, <1>2, OtherKeys DEF Changing, Deleting
<1>4. /\ art' = [j \in Key |-> art'[j]]
      /\ \A j \in Key \ {k} : art'[j] = art[j]
      /\ r # <<>> => art'[k] = Head(r)
      /\ r = <<>> => art'[k] = art[k]
  <2>1. art = [j \in Key |-> art[j]]
    BY DEF IndexInv
  <2> HIDE DEF r, k
  <2> QED BY <1>1, <1>2, <2>1
<1>5. ThreadIndexes(t)'
  <2>1. art[k] # NotIndexed => Live(toc, k)
    BY <1>2, <1>3 DEF Indexed
  <2> QED BY <1>1, <1>2, <1>4, <2>1 DEF ThreadIndexes, Taking, Deleting
<1> HIDE DEF r
<1>6. \A j \in Key : \/ pc'[t] \in Changing /\ j = arg'[t].key
                     \/ Indexed(toc', j, art'[j])
  BY <1>1, <1>2, <1>3, <1>4 DEF Changing
<1>7. Others(t) /\ Closed(toc')
  BY <1>1, <1>2 DEF Others, IndexInv
<1> QED BY <1>1, <1>2, <1>4, <1>5, <1>6, <1>7, MutatorStep

LEMMA PutTocIndex ==
  ASSUME OneMutator, Inductive, IndexInv, NEW t \in Threads, PutToc(t)
  PROVE  IndexInv'
<1> DEFINE k == arg[t].key
           v == arg[t].value
           r == arg[t].refs
<1>1. /\ pc[t] = "put_toc" /\ pc' = [pc EXCEPT ![t] = "put_should_checkpoint"]
      /\ toc' = Append(toc, NewEntry(k, v, r))
      /\ UNCHANGED <<log, art, arg>>
  BY DEF PutToc, At, Goto, disk
<1>2. /\ k \in Key /\ v \in Contents /\ r \in Seq(Nat) /\ toc \in Seq(EntryType)
      /\ pc'[t] = "put_should_checkpoint"
      /\ \A u \in Threads \ {t} : pc'[u] = pc[u]
      /\ ThreadIndexes(t) /\ Ops[t] \intersect Changes # {}
  BY <1>1, TypeFacts
     DEF Inductive, Holds, IInv, Types, ArgType, ThreadLeads, Complete, IndexInv, ThreadIndexes,
         Putting
<1>3. r # <<>> => art[k] = Head(r)
  BY <1>1, <1>2 DEF ThreadIndexes
<1>4. \A j \in Key \ {k} : Indexed(toc, j, art[j])
  BY <1>2, OtherKeys
<1> HIDE DEF k, v, r
<1>5. /\ Live(toc', k) /\ Latest(toc', k) = NewEntry(k, v, r)
      /\ \A j \in Key \ {k} : /\ Live(toc', j) = Live(toc, j)
                              /\ Live(toc, j) => Latest(toc', j) = Latest(toc, j)
  BY <1>1, <1>2, PutLatest
<1>6. Indexed(toc', k, art'[k])
  <2>1. Latest(toc', k).refs = r
    BY <1>5 DEF NewEntry
  <2>2. r # <<>> => 1 \in DOMAIN r /\ Head(r) = r[1]
    BY <1>2, EmptySeq
  <2> QED BY <1>1, <1>3, <1>5, <2>1, <2>2 DEF Indexed
<1>7. \A j \in Key \ {k} : Indexed(toc', j, art'[j])
  BY <1>1, <1>4, <1>5 DEF Indexed
<1>8. ThreadIndexes(t)'
  BY <1>2 DEF ThreadIndexes, Taking, Putting, Mid, Deleting
<1>9. Others(t) /\ art' = [j \in Key |-> art'[j]]
  BY <1>1, <1>2 DEF Others, IndexInv
<1>10. Closed(toc')
  BY <1>1, <1>2, ClosedPut DEF IndexInv
<1> QED BY <1>1, <1>2, <1>6, <1>7, <1>8, <1>9, <1>10, MutatorStep

LEMMA DeleteBeginIndex ==
  ASSUME OneMutator, Inductive, IndexInv, NEW t \in Threads, DeleteBegin(t)
  PROVE  IndexInv'
<1>1. PICK k \in Key :
        /\ art' = [art EXCEPT ![k] = NotIndexed]
        /\ arg' = [arg EXCEPT ![t] = [IdleArg EXCEPT !.call = "delete", !.key = k]]
        /\ "delete" \in Ops[t] /\ pc[t] = "idle"
        /\ pc' = [pc EXCEPT ![t] = "delete_chain"]
        /\ UNCHANGED <<log, toc>>
  BY DEF DeleteBegin, At, Goto, Set, disk
<1>2. /\ pc'[t] = "delete_chain" /\ arg'[t].key = k /\ Others(t)
      /\ Ops[t] \intersect Changes # {}
  <2>1. arg'[t] = [IdleArg EXCEPT !.call = "delete", !.key = k]
    BY <1>1, TypeFacts
  <2>2. arg'[t].key = k
    BY <2>1 DEF IdleArg
  <2> QED BY <1>1, <2>2, TypeFacts DEF Others, Changes
<1>3. \A j \in Key : Indexed(toc, j, art[j])
  BY <1>1, <1>2, OtherKeys DEF Changing, Deleting
<1>4. /\ art' = [j \in Key |-> art'[j]] /\ art'[k] = NotIndexed
      /\ \A j \in Key \ {k} : art'[j] = art[j]
  <2>1. art = [j \in Key |-> art[j]]
    BY DEF IndexInv
  <2> QED BY <1>1, <2>1
<1>5. ThreadIndexes(t)'
  BY <1>2, <1>4 DEF ThreadIndexes, Taking
<1>6. \A j \in Key : \/ pc'[t] \in Changing /\ j = arg'[t].key
                     \/ Indexed(toc', j, art'[j])
  BY <1>1, <1>2, <1>3, <1>4 DEF Changing, Deleting
<1>7. Closed(toc')
  BY <1>1 DEF IndexInv
<1> QED BY <1>1, <1>2, <1>4, <1>5, <1>6, <1>7, MutatorStep

LEMMA DeleteTocIndex ==
  ASSUME OneMutator, Inductive, IndexInv, NEW t \in Threads, DeleteToc(t)
  PROVE  IndexInv'
<1> DEFINE k == arg[t].key
<1>1. /\ pc[t] = "delete_toc" /\ pc' = [pc EXCEPT ![t] = "idle"]
      /\ arg' = [arg EXCEPT ![t] = IdleArg]
      /\ toc' = Tombstoned(toc, k)
      /\ UNCHANGED <<log, art>>
  BY DEF DeleteToc, At, Goto, Set, Return, disk
<1>2. /\ k \in Key /\ toc \in Seq(EntryType) /\ art[k] = NotIndexed
      /\ pc'[t] = "idle" /\ Others(t) /\ Ops[t] \intersect Changes # {}
  BY <1>1, TypeFacts
     DEF Inductive, Holds, IInv, Types, IndexInv, ThreadIndexes, Deleting, Others
<1>3. \A j \in Key \ {k} : Indexed(toc, j, art[j])
  BY <1>2, OtherKeys
<1> HIDE DEF k
<1>4. /\ ~Live(toc', k)
      /\ \A j \in Key \ {k} : /\ Live(toc', j) = Live(toc, j)
                              /\ Live(toc, j) => Latest(toc', j) = Latest(toc, j)
  BY <1>1, <1>2, DeleteLatest
<1>5. \A j \in Key : Indexed(toc', j, art'[j])
  BY <1>1, <1>2, <1>3, <1>4 DEF Indexed
<1>6. ThreadIndexes(t)'
  BY <1>2 DEF ThreadIndexes, Taking, Putting, Mid, Deleting
<1>7. art' = [j \in Key |-> art'[j]]
  BY <1>1 DEF IndexInv
<1>8. Closed(toc')
  BY <1>1, <1>2, ClosedDelete DEF IndexInv
<1> QED BY <1>1, <1>2, <1>5, <1>6, <1>7, <1>8, MutatorStep

-----------------------------------------------------------------------------
Nothing == /\ toc = <<>> /\ art = [k \in Key |-> NotIndexed] /\ BlocksClosed
           /\ \A t \in Threads : pc[t] = "idle"

LEMMA NothingIndexed == Nothing => IndexInv
<1> SUFFICES ASSUME Nothing PROVE IndexInv
  OBVIOUS
<1>1. \A k \in Key : Positions(toc, k) = {} /\ ~Live(toc, k)
  BY DEF Nothing, Positions, Live
<1>2. \A k \in Key : Indexed(toc, k, art[k])
  BY <1>1 DEF Nothing, Indexed
<1>3. Closed(toc)
  BY DEF Nothing, Closed
<1> QED BY <1>2, <1>3 DEF Nothing, IndexInv, ThreadIndexes, Taking, Putting, Mid, Deleting

LEMMA StopIndex ==
  ASSUME Inductive, IndexInv, Crash \/ Drop
  PROVE  IndexInv'
<1>1. /\ toc' = <<>> /\ art' = [k \in Key |-> NotIndexed]
      /\ \A t \in Threads : pc'[t] = "idle"
  BY DEF Crash, Drop, Forget
<1>2. \A i \in Footers(log') : i \in Footers(log) /\ log'[i] = log[i]
  <2>1. CASE Drop
    BY <2>1 DEF Drop, disk
  <2>2. CASE Crash
    <3>1. PICK n \in durable .. Len(log) : log' = SubSeq(log, 1, n)
      BY <2>2 DEF Crash
    <3>2. n \in 0 .. Len(log)
      BY <3>1, TypeFacts DEF Inductive, Holds
    <3> QED BY <3>1, <3>2, CutFooters, TypeFacts
  <2> QED BY <2>1, <2>2
<1>3. BlocksClosed'
  BY <1>2 DEF IndexInv, BlocksClosed
<1>4. Nothing'
  BY <1>1, <1>3 DEF Nothing
<1> QED BY <1>4, NothingIndexed, PTL

LEMMA OpenIndex ==
  ASSUME Inductive, IndexInv, Open
  PROVE  IndexInv'
<1> DEFINE m == Max(Footers(log))
           at == log[m].tocOffset + 1
<1>0. pc' = pc /\ arg' = arg /\ \A t \in Threads : pc[t] = "idle"
  BY DEF Open, Inductive, Holds, IInv, DownIsEmpty, Up
<1>1. CASE Recoverable(log)
  <2>1. m \in Footers(log) /\ \A i \in Footers(log) : i <= m
    <3>1. Footers(log) \in SUBSET (1 .. Len(log)) /\ Footers(log) # {}
      BY <1>1, TypeFacts DEF Recoverable
    <3> QED BY <3>1, MaxOf, TypeFacts
  <2>2. /\ log' = SubSeq(log, 1, m) /\ toc' = log[at].toc
        /\ art' = [k \in Key |-> RebuiltIndex(toc', k)]
        /\ log[at].kind = "checkpoint"
    BY <1>1 DEF Open, Recoverable, Recovered, BlockAt
  <2> HIDE DEF m
  <2>3. /\ m \in 1 .. Len(log) /\ log[m].tocOffset \in Nat
        /\ log[m].kind = "checkpoint"
    BY <2>1, TypeFacts DEF Footers
  <2>4. log[m].tocOffset < m
    BY <2>3 DEF Inductive, Holds, IInv, BlocksLead, BlockLeads
  <2>5. at \in Footers(log) /\ log[at] \in Block
    BY <2>2, <2>3, <2>4, TypeFacts DEF Footers
  <2> HIDE DEF at
  <2>6. toc' \in Seq(EntryType) /\ Closed(toc')
    BY <2>2, <2>5 DEF IndexInv, BlocksClosed, Block
  <2>7. \A k \in Key : Indexed(toc', k, art'[k])
    BY <2>2, <2>6, RebuiltAgrees
  <2>8. \A i \in Footers(log') : i \in Footers(log) /\ log'[i] = log[i]
    <3>1. m \in 0 .. Len(log)
      BY <2>3, TypeFacts
    <3> QED BY <2>2, <3>1, CutFooters, TypeFacts
  <2>9. BlocksClosed'
    BY <2>8 DEF IndexInv, BlocksClosed
  <2>10. art' = [k \in Key |-> art'[k]]
    BY <2>2
  <2> QED BY <1>0, <2>6, <2>7, <2>9, <2>10
          DEF IndexInv, ThreadIndexes, Taking, Putting, Mid, Deleting
<1>2. CASE ~Recoverable(log)
  <2>1. UNCHANGED <<log, toc, art>>
    BY <1>2 DEF Open
  <2> QED BY <1>0, <2>1 DEF IndexInv, BlocksClosed, ThreadIndexes, Changed
<1> QED BY <1>1, <1>2

LEMMA IndexStep ==
  ASSUME OneMutator, Inductive, IndexInv, [Next]_vars
  PROVE  IndexInv'
<1>0. ASSUME NEW t \in Threads, Still(t), log' = log, ThreadIndexes(t)'
      PROVE  IndexInv'
  <2>1. BlocksClosed'
    BY <1>0 DEF IndexInv, BlocksClosed
  <2> QED BY <1>0, <2>1, StillStep
<1>1. ASSUME NEW t \in Threads, Put(t) PROVE IndexInv'
  <2>1. CASE PutAppend(t) \/ PutIndex(t) \/ PutToc(t)
    BY <2>1, PutAppendIndex, PutIndexIndex, PutTocIndex
  <2>2. CASE ~(PutAppend(t) \/ PutIndex(t) \/ PutToc(t))
    BY <1>0, <1>1, <2>2, PutStill DEF Put
  <2> QED BY <2>1, <2>2
<1>2. ASSUME NEW t \in Threads, TakeCheckpoint(t) PROVE IndexInv'
  <2>1. CASE CheckpointAppend(t)
    BY <2>1, CheckpointAppendIndex
  <2>2. CASE ~CheckpointAppend(t)
    BY <1>0, <1>2, <2>2, CheckpointStill DEF TakeCheckpoint
  <2> QED BY <2>1, <2>2
<1>3. ASSUME NEW t \in Threads, Delete(t) PROVE IndexInv'
  <2>1. CASE DeleteBegin(t) \/ DeleteToc(t)
    BY <2>1, DeleteBeginIndex, DeleteTocIndex
  <2>2. CASE DeleteChain(t)
    BY <1>0, <2>2, CheckpointStill
  <2> QED BY <1>3, <2>1, <2>2 DEF Delete
<1>4. ASSUME NEW t \in Threads, Get(t) PROVE IndexInv'
  BY <1>0, <1>4, CheckpointStill
<1>5. CASE Crash \/ Drop
  BY <1>5, StopIndex
<1>6. CASE Open
  BY <1>6, OpenIndex
<1>7. CASE UNCHANGED vars
  BY <1>7 DEF vars, IndexInv, BlocksClosed, ThreadIndexes, Changed
<1> QED BY <1>1, <1>2, <1>3, <1>4, <1>5, <1>6, <1>7 DEF Next

(* Whatever threads take checkpoints or read next to it, and however often  *)
(* the engine crashes and reopens: as long as one thread alone puts and     *)
(* deletes, the radix trees index exactly the live keys between calls, each *)
(* under a chunk of its latest tensor (engine.rs: put, delete, open).       *)
THEOREM EngineIndexAgrees ==
  ASSUME OneMutator
  PROVE  Spec => []IndexAgrees
<1>1. Init => Inductive /\ IndexInv
  <2> SUFFICES ASSUME Init PROVE Inductive /\ IndexInv
    OBVIOUS
  <2>1. BlocksClosed
    BY DEF Init, BlocksClosed, Footers
  <2> QED BY <2>1, InitInductive, NothingIndexed DEF Init, Nothing
<1>2. Inductive /\ IndexInv /\ [Next]_vars => (Inductive /\ IndexInv)'
  BY EngineStep, IndexStep
<1>3. IndexInv => IndexAgrees
  <2> SUFFICES ASSUME IndexInv, Quiet PROVE \A k \in Key : Indexed(toc, k, art[k])
    BY DEF IndexAgrees, Indexed
  <2>1. Changed = {}
    BY DEF Changed, Changing, Deleting, Quiet
  <2> QED BY <2>1 DEF IndexInv
<1> QED BY <1>1, <1>2, <1>3, PTL DEF Spec
-----------------------------------------------------------------------------
(***************************************************************************)
(* The refcounts.  A put has counted some of its tensor's chunks before its *)
(* chain names any of them, so between its steps the places in versions are *)
(* not enough: CountInv adds to them the chunks the thread in the middle of *)
(* a put has counted so far.  A count that never wraps needs a bound, which *)
(* follows from how many chunks the puts so far can have counted; and a     *)
(* count that is made with 1 (insert) needs the chunk to be unknown, which  *)
(* holds from lookup to insert when nobody else puts.                       *)
(***************************************************************************)
OffsetsAreNoHashes == Hash \intersect [at : Nat] = {}

(* A chain that open rebuilds names offsets, so no chunk.                   *)
LEMMA RebuiltNamesNone ==
  ASSUME OffsetsAreNoHashes, NEW entries \in Seq(EntryType), NEW k \in Key, NEW h \in Hash
  PROVE  PlacesIn(RebuiltChain(entries, k).versions, h) = {}
<1> DEFINE own == LiveEntriesOf(entries, k)
           s == RebuiltChain(entries, k).versions
<1>1. own \in Seq(EntryType)
  <2>1. {i \in Positions(entries, k) : ~entries[i].dead} \in SUBSET DOMAIN entries
    BY DEF Positions
  <2> QED BY <2>1, PickedType DEF LiveEntriesOf
<1>2. /\ DOMAIN s = DOMAIN own
      /\ \A i \in DOMAIN own : s[i].hashes = OffsetHashes(own[i].refs)
  BY DEF RebuiltChain
<1> HIDE DEF own, s
<1> SUFFICES ASSUME NEW p \in PlacesIn(s, h) PROVE FALSE
  BY DEF s
<1>3. PICK i \in DOMAIN own : \E j \in DOMAIN s[i].hashes : s[i].hashes[j] = h
  BY <1>2, InPlaces
<1>4. own[i].refs \in Seq(Nat)
  <2>1. own[i] \in EntryType
    BY <1>1
  <2> QED BY <2>1 DEF EntryType
<1> DEFINE refs == own[i].refs
<1>5. s[i].hashes = OffsetHashes(refs)
  BY <1>2
<1> HIDE DEF refs
<1>6. refs \in Seq(Nat)
  BY <1>4 DEF refs
<1>7. PICK j \in DOMAIN refs : [at |-> refs[j]] = h
  BY <1>3, <1>5 DEF OffsetHashes
<1>8. refs[j] \in Nat
  BY <1>6, <1>7
<1> QED BY <1>7, <1>8 DEF OffsetsAreNoHashes

-----------------------------------------------------------------------------
(* The chunks among the first n of a tensor that have a hash.               *)
Uses(v, n, h) == {j \in 1 .. n : v[j] = h}

LEMMA UsesCount ==
  ASSUME NEW v, NEW n \in Nat, NEW h
  PROVE  /\ Cardinality(Uses(v, n, h)) \in Nat
         /\ Cardinality(Uses(v, 0, h)) = 0
         /\ Cardinality(Uses(v, n + 1, h))
              = Cardinality(Uses(v, n, h)) + (IF v[n + 1] = h THEN 1 ELSE 0)
<1>1. IsFiniteSet(Uses(v, n, h))
  <2>1. IsFiniteSet(1 .. n)
    BY FS_Interval
  <2>2. Uses(v, n, h) \in SUBSET (1 .. n)
    BY DEF Uses
  <2> QED BY <2>1, <2>2, FS_Subset
<1>2. Cardinality(Uses(v, 0, h)) = 0
  <2>1. Uses(v, 0, h) = {}
    BY DEF Uses
  <2> QED BY <2>1, FS_EmptySet
<1>3. n + 1 \notin Uses(v, n, h)
  BY DEF Uses
<1>4. Cardinality(Uses(v, n, h)) \in Nat
  BY <1>1, FS_CardinalityType
<1>5. Cardinality(Uses(v, n + 1, h))
        = Cardinality(Uses(v, n, h)) + (IF v[n + 1] = h THEN 1 ELSE 0)
  <2>1. CASE v[n + 1] = h
    <3>1. Uses(v, n + 1, h) = Uses(v, n, h) \union {n + 1}
      BY <2>1 DEF Uses
    <3>2. Cardinality(Uses(v, n, h) \union {n + 1}) = Cardinality(Uses(v, n, h)) + 1
      BY <1>1, <1>3, FS_AddElement
    <3> QED BY <2>1, <3>1, <3>2
  <2>2. CASE v[n + 1] # h
    <3>1. Uses(v, n + 1, h) = Uses(v, n, h)
      BY <2>2 DEF Uses
    <3> QED BY <1>4, <2>2, <3>1
  <2> QED BY <2>1, <2>2
<1> QED BY <1>2, <1>4, <1>5

(* How many chunks of t's tensor the content store has counted so far.      *)
Gone(t) == Len(arg[t].refs) + (IF pc[t] = "put_record" THEN 1 ELSE 0)

Counting == Mid \union {"put_index", "put_chain"}

Tallied(t, h) ==
  IF pc[t] \in Counting THEN Cardinality(Uses(arg[t].value, Gone(t), h)) ELSE 0

Refs(h) == IF Known(store, h) THEN store[h].refcount ELSE 0

Named(h) == Cardinality(NamedIn(chains, h))

ThreadCounts(n, t) ==
  /\ \A h \in Hash : Named(h) + Tallied(t, h) <= Refs(h)
  /\ pc[t] = "put_add_ref" => Known(store, Segment(t))
  /\ pc[t] \in {"put_append", "put_contains", "put_insert"} => ~Known(store, Segment(t))
  /\ pc[t] \in Putting =>
       /\ Len(arg[t].value) <= n /\ Len(past) <= MaxChanges
       /\ \A h \in Hash : Refs(h) <= (Len(past) - 1) * n + Gone(t)

CountInv(n) ==
  /\ \A h \in Hash : IsFiniteSet(NamedIn(chains, h)) /\ Named(h) <= Refs(h)
  /\ \A t \in Threads : ThreadCounts(n, t)
  /\ (\A t \in Threads : pc[t] \notin Putting)
       => \A h \in Hash : Refs(h) <= (Len(past) - 1) * n

(* No tensor has more than n chunks, and a u32 can count every reference    *)
(* that the bounded number of puts makes.                                   *)
FewReferences(n) == /\ n \in Nat /\ MaxChanges \in Nat
                    /\ \A v \in Value : Len(v) <= n
                    /\ MaxChanges * n < U32

LEMMA CountFacts ==
  ASSUME Whole, NEW t \in Threads
  PROVE  /\ arg[t] \in ArgType /\ arg[t].value \in Seq(Hash) /\ arg[t].refs \in Seq(Nat)
         /\ Len(arg[t].value) \in Nat /\ Len(arg[t].refs) \in Nat /\ Gone(t) \in Nat
         /\ pc \in [Threads -> Points] /\ arg \in [Threads -> ArgType]
         /\ Len(past) \in Nat \ {0}
         /\ pc[t] \in Mid => Len(arg[t].refs) < Len(arg[t].value) /\ Segment(t) \in Hash
         /\ pc[t] \in {"put_index", "put_chain", "put_toc"} =>
              Len(arg[t].refs) = Len(arg[t].value) /\ arg[t].key \in Key
         /\ \A h : Tallied(t, h) \in Nat
<1>1. /\ arg[t] \in ArgType /\ ThreadLeads(TRUE, t)
      /\ arg[t].value \in Seq(Hash) /\ arg[t].refs \in Seq(Nat) /\ past \in Pasts
  BY ThreadFacts DEF Whole, Inductive, Holds
<1>2. Len(arg[t].value) \in Nat /\ Len(arg[t].refs) \in Nat
  BY <1>1
<1>3. pc \in [Threads -> Points] /\ arg \in [Threads -> ArgType]
  BY TypeFacts DEF Whole
<1>4. Len(past) \in Nat \ {0}
  BY <1>1, EmptySeq DEF Pasts
<1>5. pc[t] \in Mid => Len(arg[t].refs) < Len(arg[t].value) /\ Segment(t) \in Hash
  <2> SUFFICES ASSUME pc[t] \in Mid
               PROVE  Len(arg[t].refs) < Len(arg[t].value) /\ Segment(t) \in Hash
    OBVIOUS
  <2>1. Len(arg[t].refs) < Len(arg[t].value)
    BY <1>1 DEF ThreadLeads
  <2>2. Len(arg[t].refs) + 1 \in 1 .. Len(arg[t].value)
    BY <1>2, <2>1
  <2> QED BY <1>1, <2>1, <2>2 DEF Segment
<1>6. pc[t] \in {"put_index", "put_chain", "put_toc"} =>
        Len(arg[t].refs) = Len(arg[t].value) /\ arg[t].key \in Key
  BY <1>1 DEF ThreadLeads, Complete, AllLead
<1>7. Gone(t) \in Nat
  <2>1. Gone(t) = Len(arg[t].refs) + 1 \/ Gone(t) = Len(arg[t].refs) + 0
    BY DEF Gone
  <2> QED BY <1>2, <2>1
<1>8. \A h : Tallied(t, h) \in Nat
  BY <1>7, UsesCount DEF Tallied
<1> QED BY <1>1, <1>2, <1>3, <1>4, <1>5, <1>6, <1>7, <1>8

Countable == \A h \in Hash : /\ Refs(h) \in 0 .. U32 - 1 /\ Refs(h) \in Nat
                            /\ \A t \in Threads : Tallied(t, h) \in Nat

LEMMA CountTypes == Whole => Countable
<1> SUFFICES ASSUME Whole, NEW h \in Hash
             PROVE  /\ Refs(h) \in 0 .. U32 - 1 /\ Refs(h) \in Nat
                    /\ \A t \in Threads : Tallied(t, h) \in Nat
  BY DEF Countable
<1>1. Known(store, h) => store[h].refcount \in 0 .. U32 - 1
  <2>1. Known(store, h) => store[h] \in [off : Nat, refcount : 0 .. U32 - 1]
    BY DEF Whole, Remembered, StoreType, Known
  <2> QED BY <2>1
<1>2. Refs(h) \in 0 .. U32 - 1 /\ Refs(h) \in Nat
  BY <1>1, StoreAssumption DEF Refs
<1> QED BY <1>2, CountFacts

LEMMA NamedType ==
  ASSUME NEW n, CountInv(n), NEW h \in Hash
  PROVE  Named(h) \in Nat
BY FS_CardinalityType DEF CountInv, Named

(* Nobody but t is in a put or a delete.                                    *)
LEMMA LonePut ==
  ASSUME OneMutator, IndexInv, NEW t \in Threads, Ops[t] \intersect Changes # {}
  PROVE  \A u \in Threads \ {t} : pc[u] \notin Putting \union Deleting
BY DEF OneMutator, IndexInv, ThreadIndexes

LEMMA NotCounting == Counting \subseteq Putting /\ "put_record" \in Counting
                     /\ {"put_add_ref", "put_append", "put_contains", "put_insert"} \subseteq Putting
BY DEF Counting, Putting, Mid

(* A step of a thread that is not putting, before or after.                 *)
LEMMA AsideCounts ==
  ASSUME Whole, NEW n, CountInv(n), NEW t \in Threads, Others(t),
         store' = store, chains' = chains, past' = past,
         pc[t] \notin Putting, pc'[t] \notin Putting
  PROVE  CountInv(n)'
<1>1. \A h \in Hash : /\ Refs(h)' = Refs(h) /\ Named(h)' = Named(h)
                      /\ NamedIn(chains', h) = NamedIn(chains, h)
  BY DEF Refs, Named
<1>2. ASSUME NEW u \in Threads PROVE ThreadCounts(n, u)'
  <2>1. CASE u = t
    <3>1. \A h \in Hash : Tallied(t, h)' = 0
      BY NotCounting DEF Tallied
    <3>2. \A h \in Hash : Named(h) + 0 <= Refs(h)
      <4> SUFFICES ASSUME NEW h \in Hash PROVE Named(h) + 0 <= Refs(h)
        OBVIOUS
      <4>1. Named(h) \in Nat /\ Named(h) <= Refs(h)
        BY NamedType DEF CountInv
      <4> QED BY <4>1
    <3> QED BY <1>1, <2>1, <3>1, <3>2, NotCounting DEF ThreadCounts
  <2>2. CASE u # t
    <3>1. pc'[u] = pc[u] /\ arg'[u] = arg[u]
      BY <2>2 DEF Others
    <3>2. Gone(u)' = Gone(u) /\ Segment(u)' = Segment(u)
      BY <3>1 DEF Gone, Segment
    <3>3. \A h \in Hash : Tallied(u, h)' = Tallied(u, h)
      BY <3>1, <3>2 DEF Tallied
    <3>4. ThreadCounts(n, u)
      BY DEF CountInv
    <3> QED BY <1>1, <3>1, <3>2, <3>3, <3>4 DEF ThreadCounts
  <2> QED BY <2>1, <2>2
<1>3. (\A u \in Threads : pc'[u] \notin Putting) => \A u \in Threads : pc[u] \notin Putting
  BY DEF Others
<1> QED BY <1>1, <1>2, <1>3 DEF CountInv

(* A step of the thread that puts and deletes.                              *)
LEMMA LoneCounts ==
  ASSUME OneMutator, IndexInv, Whole', NEW n, NEW t \in Threads,
         Ops[t] \intersect Changes # {}, Others(t),
         \A h \in Hash : IsFiniteSet(NamedIn(chains', h)), ThreadCounts(n, t)',
         pc'[t] \notin Putting => \A h \in Hash : Refs(h)' <= (Len(past') - 1) * n
  PROVE  CountInv(n)'
<1>0. Countable'
  BY CountTypes, PTL
<1>1. \A h \in Hash : Named(h)' \in Nat /\ Named(h)' <= Refs(h)' /\ Refs(h)' \in Nat
  <2> SUFFICES ASSUME NEW h \in Hash
               PROVE  Named(h)' \in Nat /\ Named(h)' <= Refs(h)' /\ Refs(h)' \in Nat
    OBVIOUS
  <2>1. Named(h)' \in Nat
    BY FS_CardinalityType DEF Named
  <2>2. Tallied(t, h)' \in Nat
    BY <1>0 DEF Countable
  <2>3. Refs(h)' \in Nat
    BY <1>0 DEF Countable
  <2>4. Named(h)' + Tallied(t, h)' <= Refs(h)'
    BY DEF ThreadCounts
  <2> QED BY <2>1, <2>2, <2>3, <2>4
<1>2. ASSUME NEW u \in Threads PROVE ThreadCounts(n, u)'
  <2>1. CASE u = t
    BY <2>1
  <2>2. CASE u # t
    <3>1. pc'[u] \notin Putting
      BY <2>2, LonePut DEF Others
    <3>2. \A h \in Hash : Tallied(u, h)' = 0
      BY <3>1, NotCounting DEF Tallied
    <3>3. \A h \in Hash : Named(h)' + 0 <= Refs(h)'
      BY <1>1
    <3> QED BY <3>1, <3>2, <3>3, NotCounting DEF ThreadCounts
  <2> QED BY <2>1, <2>2
<1>3. \A h \in Hash : IsFiniteSet(NamedIn(chains, h))'
  OBVIOUS
<1> QED BY <1>1, <1>2, <1>3 DEF CountInv

(* A step of a put that counts nothing.                                     *)
LEMMA SameCounts ==
  ASSUME OneMutator, IndexInv, Whole, Whole', NEW n, CountInv(n), NEW t \in Threads,
         Ops[t] \intersect Changes # {}, Others(t),
         pc[t] \in Counting, pc'[t] \in Counting,
         arg'[t].value = arg[t].value, Gone(t)' = Gone(t),
         store' = store, chains' = chains, past' = past,
         pc'[t] = "put_add_ref" => Known(store, Segment(t)'),
         pc'[t] \in {"put_append", "put_contains", "put_insert"} => ~Known(store, Segment(t)')
  PROVE  CountInv(n)'
<1>1. \A h \in Hash : /\ Refs(h)' = Refs(h) /\ Named(h)' = Named(h)
                      /\ NamedIn(chains', h) = NamedIn(chains, h)
                      /\ Tallied(t, h)' = Tallied(t, h)
  BY DEF Refs, Named, Tallied
<1>2. ThreadCounts(n, t)
  BY DEF CountInv
<1>3. pc[t] \in Putting /\ pc'[t] \in Putting
  BY NotCounting
<1>4. ThreadCounts(n, t)'
  BY <1>1, <1>2, <1>3 DEF ThreadCounts
<1>5. \A h \in Hash : IsFiniteSet(NamedIn(chains', h))
  BY <1>1 DEF CountInv
<1> QED BY <1>3, <1>4, <1>5, LoneCounts

(* A step of a put that counts its tensor's next chunk.                     *)
LEMMA MoreCounts ==
  ASSUME OneMutator, IndexInv, Whole, Whole', NEW n \in Nat, CountInv(n), NEW t \in Threads,
         Ops[t] \intersect Changes # {}, Others(t),
         pc[t] \in Counting, pc'[t] \in {"put_lookup", "put_index", "put_record"},
         arg'[t].value = arg[t].value, Gone(t)' = Gone(t) + 1,
         \A h \in Hash : Refs(h)' = Refs(h) + (IF arg[t].value[Gone(t) + 1] = h THEN 1 ELSE 0),
         chains' = chains, past' = past
  PROVE  CountInv(n)'
<1>0. Gone(t) \in Nat /\ Len(past) \in Nat
  BY CountFacts
<1>1. pc[t] \in Putting /\ pc'[t] \in Putting /\ pc'[t] \in Counting
  BY NotCounting DEF Counting, Mid
<1>2. ThreadCounts(n, t)
  BY DEF CountInv
<1>3. Countable /\ Countable'
  BY CountTypes, PTL
<1>4. ASSUME NEW h \in Hash
      PROVE  /\ Named(h)' + Tallied(t, h)' <= Refs(h)'
             /\ Refs(h)' <= (Len(past') - 1) * n + Gone(t)'
  <2> DEFINE one == IF arg[t].value[Gone(t) + 1] = h THEN 1 ELSE 0
             most == (Len(past) - 1) * n
  <2>1. Named(h)' = Named(h) /\ Named(h) \in Nat
    BY NamedType DEF Named
  <2>2. Tallied(t, h)' = Tallied(t, h) + one
    <3>1. Tallied(t, h)' = Cardinality(Uses(arg[t].value, Gone(t) + 1, h))
      BY <1>1 DEF Tallied
    <3>2. Tallied(t, h) = Cardinality(Uses(arg[t].value, Gone(t), h))
      BY DEF Tallied
    <3>3. Cardinality(Uses(arg[t].value, Gone(t) + 1, h))
            = Cardinality(Uses(arg[t].value, Gone(t), h)) + one
      <4> DEFINE g == Gone(t)
                 v == arg[t].value
      <4>1. g \in Nat
        BY <1>0
      <4> HIDE DEF g, v
      <4>2. Cardinality(Uses(v, g + 1, h))
              = Cardinality(Uses(v, g, h)) + (IF v[g + 1] = h THEN 1 ELSE 0)
        BY <4>1, UsesCount
      <4> QED BY <4>2 DEF g, v
    <3> QED BY <3>1, <3>2, <3>3
  <2>3. Refs(h)' = Refs(h) + one
    OBVIOUS
  <2>4. /\ Refs(h) \in Nat /\ Tallied(t, h) \in Nat /\ one \in {0, 1}
        /\ Named(h) + Tallied(t, h) <= Refs(h)
    BY <1>2, <1>3 DEF Countable, ThreadCounts
  <2>5. Refs(h) <= most + Gone(t)
    BY <1>1, <1>2 DEF ThreadCounts
  <2>6. most \in Int
    BY <1>0
  <2>7. (Len(past') - 1) * n = most
    OBVIOUS
  <2> HIDE DEF one, most
  <2>8. Named(h)' + Tallied(t, h)' <= Refs(h)'
    BY <2>1, <2>2, <2>3, <2>4
  <2>9. Refs(h)' <= most + Gone(t)'
    BY <1>0, <2>3, <2>4, <2>5, <2>6
  <2> QED BY <2>7, <2>8, <2>9
<1>5. ThreadCounts(n, t)'
  BY <1>1, <1>2, <1>4 DEF ThreadCounts
<1>6. \A h \in Hash : IsFiniteSet(NamedIn(chains', h))
  BY DEF CountInv
<1> QED BY <1>1, <1>5, <1>6, LoneCounts

LEMMA Product ==
  ASSUME NEW p \in Nat \ {0}, NEW m \in Nat, NEW n \in Nat, p <= m
  PROVE  (p - 1) * n + n <= m * n
<1>1. (p - 1) * n + n = p * n
  OBVIOUS
<1>2. p * n <= m * n
  <2>1. PICK d \in Nat : m = p + d
    <3>1. m - p \in Nat /\ m = p + (m - p)
      OBVIOUS
    <3> QED BY <3>1
  <2>2. (p + d) * n = p * n + d * n
    OBVIOUS
  <2>3. d * n \in Nat /\ p * n \in Nat
    OBVIOUS
  <2> QED BY <2>1, <2>2, <2>3
<1> QED BY <1>1, <1>2

LEMMA AddRefCounts ==
  ASSUME Whole, NEW g \in Hash, Known(store, g), Refs(g) + 1 < U32,
         store' = AddRef(store, g)
  PROVE  \A h \in Hash : Refs(h)' = Refs(h) + (IF g = h THEN 1 ELSE 0)
<1>0. Countable /\ store \in StoreType
  BY CountTypes DEF Whole, Remembered
<1> DEFINE e == [store[g] EXCEPT !.refcount = (@ + 1) % U32]
<1>1. store' = [store EXCEPT ![g] = e]
  BY DEF AddRef
<1>2. store[g] \in [off : Nat, refcount : 0 .. U32 - 1]
  BY <1>0 DEF StoreType, Known
<1>a. 1 \in Int
  OBVIOUS
<1>3. e \in [off : Nat, refcount : 0 .. U32 - 1]
  BY <1>0, <1>a, CountType, Zenon
<1>4. e.refcount = (store[g].refcount + 1) % U32
  BY <1>2
<1>5. store[g].refcount = Refs(g) /\ Refs(g) \in Nat
  BY <1>0 DEF Refs, Countable
<1>6. (Refs(g) + 1) % U32 = Refs(g) + 1
  BY <1>5, StoreAssumption
<1>7. e # NoEntry
  <2>1. 0 .. U32 - 1 \subseteq Nat
    BY StoreAssumption
  <2> HIDE DEF e
  <2>2. e \in [off : Nat, refcount : Nat]
    BY <1>3, <2>1
  <2> QED BY <2>2, EngineAssumption
<1> HIDE DEF e
<1>8. store'[g] = e /\ \A h \in Hash \ {g} : store'[h] = store[h]
  BY <1>0, <1>1 DEF StoreType
<1>9. Refs(g)' = Refs(g) + 1
  BY <1>4, <1>5, <1>6, <1>7, <1>8 DEF Refs, Known
<1>10. ASSUME NEW h \in Hash \ {g} PROVE Refs(h)' = Refs(h) + 0
  BY <1>0, <1>8 DEF Refs, Known, Countable
<1> QED BY <1>9, <1>10

LEMMA InsertCounts ==
  ASSUME Whole, NEW g \in Hash, ~Known(store, g), NEW off \in Nat,
         store' = StoreInsert(store, g, off)
  PROVE  \A h \in Hash : Refs(h)' = Refs(h) + (IF g = h THEN 1 ELSE 0)
<1>0. Countable /\ store \in StoreType
  BY CountTypes DEF Whole, Remembered
<1> DEFINE e == [off |-> off, refcount |-> 1]
<1>1. e # NoEntry /\ e.refcount = 1
  <2>1. e \in [off : Nat, refcount : Nat]
    OBVIOUS
  <2> QED BY <2>1, EngineAssumption
<1> HIDE DEF e
<1>2. store'[g] = e /\ \A h \in Hash \ {g} : store'[h] = store[h]
  BY <1>0 DEF StoreType, StoreInsert, e
<1>3. Refs(g)' = Refs(g) + 1
  BY <1>1, <1>2 DEF Refs, Known
<1>4. ASSUME NEW h \in Hash \ {g} PROVE Refs(h)' = Refs(h) + 0
  BY <1>0, <1>2 DEF Refs, Known, Countable
<1> QED BY <1>3, <1>4

(* The steps of a put that take the content store's count from one chunk to *)
(* the next, or leave it alone.                                             *)
LEMMA SegmentCounts ==
  ASSUME OneMutator, IndexInv, Whole, Whole', NEW n \in Nat, FewReferences(n), CountInv(n),
         NEW t \in Threads,
         \/ PutLookup(t) \/ PutAddRef(t) \/ PutAppend(t) \/ PutContains(t)
         \/ PutInsert(t) \/ PutRecord(t) \/ PutIndex(t)
  PROVE  CountInv(n)'
<1> DEFINE seg == Segment(t)
           r == arg[t].refs
           v == arg[t].value
<1>0. /\ pc \in [Threads -> Points] /\ arg \in [Threads -> ArgType] /\ arg[t] \in ArgType
      /\ v \in Seq(Hash) /\ r \in Seq(Nat) /\ Len(v) \in Nat /\ Len(r) \in Nat
      /\ Gone(t) \in Nat /\ Len(past) \in Nat \ {0}
      /\ pc[t] \in Mid => Len(r) < Len(v) /\ seg \in Hash
  BY CountFacts
<1>1. /\ pc[t] \in Mid \union {"put_index"} /\ pc[t] \in Putting /\ pc[t] \in Counting
      /\ chains' = chains /\ past' = past
      /\ Others(t)
  BY <1>0 DEF PutLookup, PutAddRef, PutAppend, PutContains, PutInsert, PutRecord, PutIndex,
       At, Goto, Set, Mid, Putting, Counting, Others, memory, history, disk
<1>2. Ops[t] \intersect Changes # {}
  BY <1>1 DEF IndexInv, ThreadIndexes
<1>3. ThreadCounts(n, t)
  BY DEF CountInv
<1>4. \A off : arg' = [arg EXCEPT ![t] = [arg[t] EXCEPT !.off = off]]
        => arg'[t].value = v /\ arg'[t].refs = r /\ Segment(t)' = seg
  BY <1>0 DEF ArgType, Segment
<1>5. \A off : arg' = [arg EXCEPT ![t] = WithRef(t, off)]
        => arg'[t].value = v /\ Len(arg'[t].refs) = Len(r) + 1
  BY <1>0 DEF ArgType, WithRef
<1>6. arg' = arg => arg'[t].value = v /\ arg'[t].refs = r /\ Segment(t)' = seg
  BY DEF Segment
<1>c. CASE PutLookup(t)
  <2>1. pc[t] = "put_lookup" /\ store' = store
    BY <1>c DEF PutLookup, At, memory
  <2>2. CASE Known(store, seg)
    <3>1. pc'[t] = "put_add_ref" /\ arg' = [arg EXCEPT ![t] = [arg[t] EXCEPT !.off = store[seg].off]]
      BY <1>0, <1>c, <2>2 DEF PutLookup, Goto, Set
    <3>2. arg'[t].value = v /\ arg'[t].refs = r /\ Segment(t)' = seg
      BY <1>4, <3>1
    <3>3. Gone(t)' = Gone(t)
      BY <2>1, <3>1, <3>2 DEF Gone
    <3> QED BY <1>1, <1>2, <2>1, <2>2, <3>1, <3>2, <3>3, SameCounts DEF Counting, Mid
  <2>3. CASE ~Known(store, seg)
    <3>1. pc'[t] = "put_append" /\ arg' = arg
      BY <1>0, <1>c, <2>3 DEF PutLookup, Goto, Set
    <3>3. Gone(t)' = Gone(t)
      BY <1>6, <2>1, <3>1 DEF Gone
    <3> QED BY <1>1, <1>2, <1>6, <2>1, <2>3, <3>1, <3>3, SameCounts DEF Counting, Mid
  <2> QED BY <2>2, <2>3
<1>d. CASE PutAppend(t)
  <2>1. /\ pc[t] = "put_append" /\ store' = store /\ pc'[t] = "put_contains"
        /\ arg' = [arg EXCEPT ![t] = [arg[t] EXCEPT !.off = Len(log)]]
    BY <1>0, <1>d DEF PutAppend, At, Goto, Set, memory
  <2>2. arg'[t].value = v /\ arg'[t].refs = r /\ Segment(t)' = seg
    BY <1>4, <2>1
  <2>3. Gone(t)' = Gone(t)
    BY <2>1, <2>2 DEF Gone
  <2>4. ~Known(store, seg)
    BY <1>3, <2>1 DEF ThreadCounts
  <2> QED BY <1>1, <1>2, <2>1, <2>2, <2>3, <2>4, SameCounts DEF Counting, Mid
<1>e. CASE PutContains(t)
  <2>1. pc[t] = "put_contains" /\ store' = store /\ arg' = arg
    BY <1>e DEF PutContains, At, memory
  <2>2. ~Known(store, seg)
    BY <1>3, <2>1 DEF ThreadCounts
  <2>3. pc'[t] = "put_insert"
    BY <1>0, <1>e, <2>2 DEF PutContains, Goto
  <2>4. Gone(t)' = Gone(t)
    BY <1>6, <2>1, <2>3 DEF Gone
  <2> QED BY <1>1, <1>2, <1>6, <2>1, <2>2, <2>3, <2>4, SameCounts DEF Counting, Mid
<1>f. CASE PutRecord(t)
  <2>1. /\ pc[t] = "put_record" /\ store' = store
        /\ pc'[t] \in {"put_lookup", "put_index"}
        /\ arg' = [arg EXCEPT ![t] = WithRef(t, arg[t].off)]
    BY <1>0, <1>f DEF PutRecord, At, Goto, Set, NextSegment
  <2>2. arg'[t].value = v /\ Len(arg'[t].refs) = Len(r) + 1
    BY <1>5, <2>1
  <2>3. Gone(t)' = Gone(t)
    <3>1. Gone(t)' = Len(arg'[t].refs) + 0 /\ Gone(t) = Len(r) + 1
      BY <2>1 DEF Gone
    <3> QED BY <1>0, <2>2, <3>1
  <2> QED BY <1>1, <1>2, <2>1, <2>2, <2>3, SameCounts DEF Counting, Mid
<1>g. CASE PutIndex(t)
  <2>1. pc[t] = "put_index" /\ store' = store /\ arg' = arg /\ pc'[t] = "put_chain"
    BY <1>0, <1>g DEF PutIndex, At, Goto
  <2>2. Gone(t)' = Gone(t)
    BY <1>6, <2>1 DEF Gone
  <2> QED BY <1>1, <1>2, <1>6, <2>1, <2>2, SameCounts DEF Counting, Mid
<1>h. CASE PutAddRef(t)
  <2>1. /\ pc[t] = "put_add_ref" /\ store' = AddRef(store, seg)
        /\ pc'[t] \in {"put_lookup", "put_index"}
        /\ arg' = [arg EXCEPT ![t] = WithRef(t, arg[t].off)]
    BY <1>0, <1>h DEF PutAddRef, At, Goto, Set, NextSegment
  <2>2. arg'[t].value = v /\ Len(arg'[t].refs) = Len(r) + 1
    BY <1>5, <2>1
  <2>3. Gone(t) = Len(r) /\ Gone(t)' = Gone(t) + 1
    <3>1. Gone(t)' = Len(arg'[t].refs) + 0 /\ Gone(t) = Len(r) + 0
      BY <2>1 DEF Gone
    <3> QED BY <1>0, <2>2, <3>1
  <2>4. v[Gone(t) + 1] = seg /\ seg \in Hash /\ Len(r) < Len(v)
    BY <1>0, <2>1, <2>3 DEF Segment, Mid
  <2>5. Known(store, seg)
    BY <1>3, <2>1 DEF ThreadCounts
  <2>6. Refs(seg) + 1 < U32
    <3>1. /\ Refs(seg) <= (Len(past) - 1) * n + Gone(t)
          /\ Len(v) <= n /\ Len(past) <= MaxChanges
      BY <1>1, <1>3, <2>4 DEF ThreadCounts
    <3>2. Gone(t) + 1 <= n
      BY <1>0, <2>3, <2>4, <3>1
    <3>3. (Len(past) - 1) * n + n <= MaxChanges * n
      BY <1>0, <3>1, Product DEF FewReferences
    <3>4. Refs(seg) \in Nat /\ (Len(past) - 1) * n \in Int /\ MaxChanges * n \in Int
          /\ MaxChanges * n < U32
      BY <1>0, <2>4, CountTypes DEF Countable, FewReferences
    <3> DEFINE most == (Len(past) - 1) * n
               all == MaxChanges * n
    <3> HIDE DEF most, all
    <3>5. Refs(seg) <= most + Gone(t) /\ most + n <= all /\ most \in Int /\ all \in Int
          /\ all < U32
      BY <3>1, <3>3, <3>4 DEF most, all
    <3> QED BY <1>0, <3>2, <3>4, <3>5, StoreAssumption
  <2>7. \A h \in Hash : Refs(h)' = Refs(h) + (IF v[Gone(t) + 1] = h THEN 1 ELSE 0)
    BY <2>1, <2>4, <2>5, <2>6, AddRefCounts
  <2> QED BY <1>1, <1>2, <2>1, <2>2, <2>3, <2>7, MoreCounts
<1>i. CASE PutInsert(t)
  <2>1. /\ pc[t] = "put_insert" /\ store' = StoreInsert(store, seg, arg[t].off)
        /\ pc'[t] = "put_record" /\ arg' = arg
    BY <1>0, <1>i DEF PutInsert, At, Goto
  <2>3. Gone(t) = Len(r) /\ Gone(t)' = Gone(t) + 1
    <3>1. Gone(t)' = Len(arg'[t].refs) + 1 /\ Gone(t) = Len(r) + 0
      BY <2>1 DEF Gone
    <3> QED BY <1>0, <1>6, <2>1, <3>1
  <2>4. v[Gone(t) + 1] = seg /\ seg \in Hash
    BY <1>0, <2>1, <2>3 DEF Segment, Mid
  <2>5. ~Known(store, seg)
    BY <1>3, <2>1 DEF ThreadCounts
  <2>7. \A h \in Hash : Refs(h)' = Refs(h) + (IF v[Gone(t) + 1] = h THEN 1 ELSE 0)
    <3>1. arg[t].off \in Nat
      BY <1>0 DEF ArgType
    <3> QED BY <2>1, <2>4, <2>5, <3>1, InsertCounts
  <2> QED BY <1>1, <1>2, <1>6, <2>1, <2>3, <2>7, MoreCounts
<1> QED BY <1>c, <1>d, <1>e, <1>f, <1>g, <1>h, <1>i

LEMMA PutBeginCounts ==
  ASSUME OneMutator, IndexInv, Whole, Whole', NEW n \in Nat, FewReferences(n), CountInv(n),
         NEW t \in Threads, PutBegin(t)
  PROVE  CountInv(n)'
<1>1. PICK k \in Key, w \in Value, p \in Retentions :
        /\ arg' = [arg EXCEPT ![t] = [IdleArg EXCEPT !.call = "put", !.key = k,
                                                     !.value = w, !.retention = p]]
        /\ pc' = [pc EXCEPT ![t] = IF w = <<>> THEN "put_index" ELSE "put_lookup"]
        /\ pc[t] = "idle" /\ "put" \in Ops[t] /\ Len(past) <= MaxChanges
  BY DEF PutBegin, At, Set, Goto
<1>2. store' = store /\ chains' = chains /\ past' = past
  BY DEF PutBegin, memory, history
<1>3. /\ pc \in [Threads -> Points] /\ arg \in [Threads -> ArgType]
      /\ Len(past) \in Nat \ {0}
  BY CountFacts
<1>4. /\ Ops[t] \intersect Changes # {} /\ Others(t)
      /\ pc'[t] \in {"put_index", "put_lookup"}
      /\ arg'[t].value = w /\ arg'[t].refs = <<>>
  BY <1>1, <1>3 DEF Others, Changes, IdleArg
<1>5. Gone(t)' = 0
  <2>1. Gone(t)' = Len(arg'[t].refs) + 0
    BY <1>4 DEF Gone
  <2> QED BY <1>4, <2>1
<1>6. \A h \in Hash : Refs(h)' = Refs(h) /\ Named(h)' = Named(h)
                      /\ NamedIn(chains', h) = NamedIn(chains, h)
  BY <1>2 DEF Refs, Named
<1>7. ASSUME NEW h \in Hash
      PROVE  /\ Named(h)' + Tallied(t, h)' <= Refs(h)'
             /\ Refs(h)' <= (Len(past') - 1) * n + Gone(t)'
  <2>1. Tallied(t, h)' = 0
    <3>1. pc'[t] \in Counting
      BY <1>4 DEF Counting, Mid
    <3>2. Tallied(t, h)' = Cardinality(Uses(arg'[t].value, Gone(t)', h))
      BY <3>1 DEF Tallied
    <3>3. Cardinality(Uses(arg'[t].value, 0, h)) = 0
      <4> DEFINE v == arg'[t].value
      <4>1. 0 \in Nat
        OBVIOUS
      <4> HIDE DEF v
      <4>2. Cardinality(Uses(v, 0, h)) = 0
        BY <4>1, UsesCount
      <4> QED BY <4>2 DEF v
    <3> QED BY <1>5, <3>2, <3>3
  <2>2. Named(h) \in Nat /\ Named(h) <= Refs(h)
    BY NamedType DEF CountInv
  <2>3. Refs(h) <= (Len(past) - 1) * n
    <3>1. \A u \in Threads : pc[u] \notin Putting
      BY <1>1, <1>4, LonePut DEF Putting, Mid
    <3> QED BY <3>1 DEF CountInv
  <2>4. Refs(h) \in Nat /\ (Len(past) - 1) * n \in Int
    BY <1>3, CountTypes DEF Countable
  <2> QED BY <1>2, <1>5, <1>6, <2>1, <2>2, <2>3, <2>4
<1>8. Len(w) <= n
  BY DEF FewReferences
<1>9. ThreadCounts(n, t)'
  BY <1>1, <1>2, <1>4, <1>7, <1>8 DEF ThreadCounts
<1>10. \A h \in Hash : IsFiniteSet(NamedIn(chains', h))
  BY <1>6 DEF CountInv
<1>11. pc'[t] \in Putting
  BY <1>4 DEF Putting, Mid
<1> QED BY <1>4, <1>9, <1>10, <1>11, LoneCounts

(* What releasing the references of some versions leaves.                   *)
LEMMA ReleaseCounts ==
  ASSUME Whole, NEW dropped \in Seq(VersionType(Hashes)), NEW h \in Hash,
         store' = ReleaseAll(store, dropped), OccurrencesIn(dropped, h) <= Refs(h)
  PROVE  Refs(h)' = Refs(h) - OccurrencesIn(dropped, h)
<1> DEFINE n == OccurrencesIn(dropped, h)
<1>1. n \in Nat /\ Refs(h) \in 0 .. U32 - 1 /\ Refs(h) \in Nat
  BY OccurrencesType, CountTypes DEF Countable
<1>2. CASE ~Known(store, h)
  <2>1. store'[h] = NoEntry /\ Refs(h) = 0
    BY <1>2 DEF ReleaseAll, Refs
  <2>2. Refs(h)' = 0 /\ n = 0
    BY <1>1, <2>1 DEF Refs, Known
  <2> QED BY <2>1, <2>2
<1>3. CASE Known(store, h)
  <2> DEFINE d == (store[h].refcount - n) % U32
  <2>1. store'[h] = [store[h] EXCEPT !.refcount = d]
    BY <1>3 DEF ReleaseAll
  <2>2. store[h] \in [off : Nat, refcount : 0 .. U32 - 1]
    BY <1>3 DEF Whole, Remembered, StoreType, Known
  <2>3. store[h].refcount = Refs(h)
    BY <1>3 DEF Refs
  <2>4. d = Refs(h) - n /\ d \in Nat
    <3> DEFINE r == Refs(h)
    <3>1. d = (r - n) % U32
      BY <2>3
    <3>2. n \in Nat /\ r \in 0 .. U32 - 1 /\ n <= r
      BY <1>1
    <3> HIDE DEF d, n, r
    <3>3. r - n \in 0 .. U32 - 1 /\ r - n \in Nat
      BY <3>2, StoreAssumption
    <3>4. (r - n) % U32 = r - n
      BY <3>3, StoreAssumption
    <3> QED BY <3>1, <3>3, <3>4 DEF r
  <2> HIDE DEF d
  <2>5. store'[h] \in [off : Nat, refcount : Nat] /\ store'[h].refcount = d
    <3>1. store[h] = [off |-> store[h].off, refcount |-> store[h].refcount]
          /\ store[h].off \in Nat
      BY <2>2
    <3>2. store'[h] = [off |-> store[h].off, refcount |-> d]
      BY <2>1, <3>1
    <3> QED BY <2>4, <3>1, <3>2
  <2>6. Known(store', h)
    BY <2>5, EngineAssumption DEF Known
  <2> QED BY <2>4, <2>5, <2>6 DEF Refs
<1> QED BY <1>2, <1>3

LEMMA PutChainCounts ==
  ASSUME OneMutator, IndexInv, Whole, Whole', NEW n \in Nat, CountInv(n),
         NEW t \in Threads, PutChain(t)
  PROVE  CountInv(n)'
<1> DEFINE key == arg[t].key
           v == arg[t].value
           chain == [chains[key] EXCEPT !.retention = arg[t].retention]
           after == ChainAppend(chain, v)
           dropped == Evicted(chain, v)
<1>0. /\ pc \in [Threads -> Points] /\ arg \in [Threads -> ArgType] /\ arg[t] \in ArgType
      /\ v \in Seq(Hash) /\ Len(arg[t].refs) \in Nat /\ Len(v) \in Nat
      /\ Gone(t) \in Nat /\ Len(past) \in Nat \ {0}
      /\ pc[t] = "put_chain" => Len(arg[t].refs) = Len(v) /\ key \in Key
  BY CountFacts
<1>1. /\ pc[t] = "put_chain" /\ pc' = [pc EXCEPT ![t] = "put_toc"] /\ arg' = arg
      /\ past' = past /\ store' = ReleaseAll(store, dropped)
      /\ chains' = [chains EXCEPT ![key] = after]
  BY DEF PutChain, At, Goto, history
<1>2. pc'[t] = "put_toc" /\ Others(t) /\ Ops[t] \intersect Changes # {}
  BY <1>0, <1>1 DEF Others, IndexInv, ThreadIndexes, Putting
<1>3. v \in Hashes /\ arg[t].retention \in Policies
  BY <1>0, ValueHashes, EngineAssumption DEF ArgType, Policies
<1>4. chains[key] \in ChainType(Hashes) /\ Consecutive(chains[key].versions) /\ key \in Key
  BY <1>0, <1>1 DEF Whole, Remembered
<1>5. chain \in ChainType(Hashes) /\ chain.versions = chains[key].versions
  BY <1>3, <1>4 DEF ChainType
<1> HIDE DEF chain
<1>6. after \in ChainType(Hashes) /\ dropped \in Seq(VersionType(Hashes))
  BY <1>3, <1>4, <1>5, ChainAppendType
<1>7. \A h : OccurrencesIn(after.versions, h) + OccurrencesIn(dropped, h)
               = OccurrencesIn(chains[key].versions, h)
                   + Cardinality({j \in DOMAIN v : v[j] = h})
  BY <1>3, <1>4, <1>5, ChainCount
<1> HIDE DEF after, dropped
<1>8. /\ chains'[key] = after /\ \A k \in Key \ {key} : chains'[k] = chains[k]
      /\ after.versions \in Seq(VersionType(Hashes))
      /\ chains[key].versions \in Seq(VersionType(Hashes))
  <2>1. chains \in [Key -> ChainType(Hashes)]
    BY DEF Whole, Remembered
  <2>2. chains'[key] = after /\ \A k \in Key \ {key} : chains'[k] = chains[k]
    <3> HIDE DEF key
    <3> QED BY <1>1, <1>4, <2>1
  <2>3. \A c \in ChainType(Hashes) : c.versions \in Seq(VersionType(Hashes))
    BY DEF ChainType
  <2> QED BY <1>4, <1>6, <2>2, <2>3
<1>9. ThreadCounts(n, t) /\ pc[t] \in Putting
  BY <1>1 DEF CountInv, Putting
<1>10. Gone(t)' = Gone(t) /\ Gone(t) = Len(v)
  <2>1. Gone(t) = Len(arg[t].refs) + 0 /\ Gone(t)' = Len(arg[t].refs) + 0
    BY <1>1, <1>2 DEF Gone
  <2> QED BY <1>0, <1>1, <2>1
<1>11. ASSUME NEW h \in Hash
       PROVE  /\ IsFiniteSet(NamedIn(chains', h))
              /\ Named(h)' + Tallied(t, h)' <= Refs(h)'
              /\ Refs(h)' <= (Len(past') - 1) * n + Gone(t)'
  <2> DEFINE was == OccurrencesIn(chains[key].versions, h)
             is == OccurrencesIn(after.versions, h)
             gone == OccurrencesIn(dropped, h)
             most == (Len(past) - 1) * n
  <2>1. was \in Nat /\ is \in Nat /\ gone \in Nat
    BY <1>6, <1>8, OccurrencesType
  <2>2. is + gone = was + Tallied(t, h)
    <3>1. Tallied(t, h) = Cardinality(Uses(v, Len(v), h))
      BY <1>1, <1>10 DEF Tallied, Counting
    <3>2. Uses(v, Len(v), h) = {j \in DOMAIN v : v[j] = h}
      BY <1>0 DEF Uses
    <3> QED BY <1>7, <3>1, <3>2
  <2>3. /\ IsFiniteSet(NamedIn(chains', h))
        /\ Cardinality(NamedIn(chains', h)) + was = Cardinality(NamedIn(chains, h)) + is
        /\ was <= Cardinality(NamedIn(chains, h))
    <3>1. IsFiniteSet(NamedIn(chains, h))
      BY DEF CountInv
    <3>2. /\ IsFiniteSet(PlacesIn(chains[key].versions, h))
          /\ IsFiniteSet(PlacesIn(chains'[key].versions, h))
      BY <1>8, PlacesFinite
    <3>3. /\ IsFiniteSet(NamedIn(chains', h))
          /\ Cardinality(NamedIn(chains', h)) + OccurrencesIn(chains[key].versions, h)
               = Cardinality(NamedIn(chains, h)) + OccurrencesIn(chains'[key].versions, h)
          /\ OccurrencesIn(chains[key].versions, h) <= Cardinality(NamedIn(chains, h))
      <4> HIDE DEF key
      <4> QED BY <1>4, <1>8, <3>1, <3>2, RekeyCount
    <3> QED BY <1>8, <3>3
  <2>4. Named(h) \in Nat /\ Named(h)' \in Nat /\ Tallied(t, h) \in Nat /\ Refs(h) \in Nat
    BY <2>3, NamedType, FS_CardinalityType, CountTypes DEF Named, Countable
  <2>5. Named(h)' + was = Named(h) + is /\ was <= Named(h)
    BY <2>3 DEF Named
  <2>6. Named(h) + Tallied(t, h) <= Refs(h) /\ Refs(h) <= most + Gone(t)
    BY <1>9 DEF ThreadCounts
  <2>7. Tallied(t, h)' = 0
    BY <1>2 DEF Tallied, Counting, Mid
  <2> HIDE DEF was, is, gone
  <2>8. gone <= Refs(h)
    BY <2>1, <2>2, <2>4, <2>5, <2>6
  <2>9. Refs(h)' = Refs(h) - gone
    BY <1>1, <1>6, <2>8, ReleaseCounts DEF gone
  <2>10. most \in Int /\ most = (Len(past') - 1) * n
    BY <1>0, <1>1
  <2> HIDE DEF most
  <2>11. Named(h)' + Tallied(t, h)' <= Refs(h)'
    BY <2>1, <2>2, <2>4, <2>5, <2>6, <2>7, <2>9
  <2>12. Refs(h)' <= most + Gone(t)'
    <3>1. Gone(t)' = Gone(t)
      BY <1>10
    <3> QED BY <1>0, <2>1, <2>4, <2>6, <2>9, <2>10, <3>1
  <2> QED BY <2>3, <2>10, <2>11, <2>12
<1>12. ThreadCounts(n, t)'
  BY <1>1, <1>2, <1>9, <1>11 DEF ThreadCounts
<1>13. pc'[t] \in Putting
  BY <1>2 DEF Putting
<1> QED BY <1>2, <1>11, <1>12, <1>13, LoneCounts

LEMMA PutTocCounts ==
  ASSUME OneMutator, IndexInv, Whole, Whole', NEW n \in Nat, CountInv(n),
         NEW t \in Threads, PutToc(t)
  PROVE  CountInv(n)'
<1>0. /\ pc \in [Threads -> Points] /\ arg[t].value \in Seq(Hash)
      /\ Len(arg[t].value) \in Nat /\ Gone(t) \in Nat /\ Len(past) \in Nat \ {0}
      /\ Len(arg[t].refs) \in Nat
      /\ pc[t] = "put_toc" => Len(arg[t].refs) = Len(arg[t].value)
  BY CountFacts
<1>1. /\ pc[t] = "put_toc" /\ pc' = [pc EXCEPT ![t] = "put_should_checkpoint"]
      /\ arg' = arg /\ store' = store /\ chains' = chains
      /\ Remember(arg[t].key, arg[t].value)
  BY DEF PutToc, At, Goto
<1>2. Len(past') = Len(past) + 1
  <2>1. past \in Pasts
    BY TypeFacts DEF Whole
  <2> QED BY <1>1, <2>1 DEF Remember, Pasts
<1>3. /\ pc'[t] = "put_should_checkpoint" /\ Others(t) /\ Ops[t] \intersect Changes # {}
      /\ pc[t] \in Putting /\ pc'[t] \notin Putting /\ pc'[t] \notin Mid
  BY <1>0, <1>1 DEF Others, IndexInv, ThreadIndexes, Putting, Mid
<1>4. \A h \in Hash : Refs(h)' = Refs(h) /\ Named(h)' = Named(h)
                      /\ NamedIn(chains', h) = NamedIn(chains, h)
  BY <1>1 DEF Refs, Named
<1>5. ThreadCounts(n, t)
  BY DEF CountInv
<1>6. ASSUME NEW h \in Hash PROVE Refs(h)' <= (Len(past') - 1) * n
  <2> DEFINE most == (Len(past) - 1) * n
  <2>1. Refs(h) <= most + Gone(t) /\ Len(arg[t].value) <= n
    BY <1>3, <1>5 DEF ThreadCounts
  <2>2. Gone(t) <= n
    <3>1. Gone(t) = Len(arg[t].refs) + 0
      BY <1>1 DEF Gone
    <3> QED BY <1>0, <1>1, <2>1, <3>1
  <2>3. (Len(past') - 1) * n = most + n /\ most \in Int
    BY <1>0, <1>2
  <2>4. Refs(h) \in Nat
    BY CountTypes DEF Countable
  <2> HIDE DEF most
  <2> QED BY <1>0, <1>4, <2>1, <2>2, <2>3, <2>4
<1>7. ThreadCounts(n, t)'
  <2>1. \A h \in Hash : Tallied(t, h)' = 0
    BY <1>3, NotCounting DEF Tallied
  <2>2. \A h \in Hash : Named(h)' + 0 <= Refs(h)'
    <3> SUFFICES ASSUME NEW h \in Hash PROVE Named(h)' + 0 <= Refs(h)'
      OBVIOUS
    <3>1. Named(h) \in Nat /\ Named(h) <= Refs(h)
      BY NamedType DEF CountInv
    <3> QED BY <1>4, <3>1
  <2> QED BY <1>3, <2>1, <2>2, NotCounting DEF ThreadCounts
<1>8. \A h \in Hash : IsFiniteSet(NamedIn(chains', h))
  BY <1>4 DEF CountInv
<1> QED BY <1>3, <1>6, <1>7, <1>8, LoneCounts

LEMMA DeleteCounts ==
  ASSUME OneMutator, IndexInv, Whole, Whole', NEW n \in Nat, CountInv(n),
         NEW t \in Threads, DeleteChain(t) \/ DeleteToc(t)
  PROVE  CountInv(n)'
<1>0. pc \in [Threads -> Points] /\ arg \in [Threads -> ArgType] /\ Len(past) \in Nat \ {0}
  BY CountFacts
<1>1. /\ pc[t] \in Deleting /\ pc'[t] \in {"delete_toc", "idle"} /\ Others(t)
      /\ store' = store
  BY <1>0 DEF DeleteChain, DeleteToc, At, Goto, Set, Return, Deleting, Others
<1>2. Ops[t] \intersect Changes # {} /\ pc[t] \notin Putting /\ pc'[t] \notin Putting
  BY <1>1 DEF IndexInv, ThreadIndexes, Deleting, Putting, Mid
<1>3. Len(past') = Len(past) \/ Len(past') = Len(past) + 1
  <2>1. CASE DeleteChain(t)
    BY <2>1 DEF DeleteChain, history
  <2>2. CASE DeleteToc(t)
    <3>1. past \in Pasts
      BY TypeFacts DEF Whole
    <3> QED BY <2>2, <3>1 DEF DeleteToc, Remember, Pasts
  <2> QED BY <2>1, <2>2
<1>4. ASSUME NEW h \in Hash
      PROVE  IsFiniteSet(NamedIn(chains', h)) /\ Named(h)' <= Named(h) /\ Named(h)' \in Nat
  <2>1. IsFiniteSet(NamedIn(chains, h)) /\ Named(h) \in Nat
    BY NamedType DEF CountInv
  <2>2. CASE chains' = chains
    BY <2>1, <2>2 DEF Named
  <2>3. CASE DeleteChain(t)
    <3> DEFINE key == arg[t].key
               was == OccurrencesIn(chains[key].versions, h)
    <3>1. key \in Key /\ chains' = [chains EXCEPT ![key] = NoChain]
      BY <2>3 DEF DeleteChain, At, IndexInv, ThreadIndexes, Deleting
    <3>2. chains \in [Key -> ChainType(Hashes)]
      BY DEF Whole, Remembered
    <3> HIDE DEF key
    <3>3. /\ chains'[key] = NoChain /\ \A k \in Key \ {key} : chains'[k] = chains[k]
          /\ chains[key].versions \in Seq(VersionType(Hashes))
          /\ NoChain.versions \in Seq(VersionType(Hashes))
      BY <3>1, <3>2, NoChainType DEF ChainType
    <3>4. /\ IsFiniteSet(PlacesIn(chains[key].versions, h))
          /\ IsFiniteSet(PlacesIn(chains'[key].versions, h))
      BY <3>3, PlacesFinite
    <3>a. key \in Key /\ \A k \in Key \ {key} : chains'[k] = chains[k]
      BY <3>1, <3>3
    <3>5. /\ IsFiniteSet(NamedIn(chains', h))
          /\ Cardinality(NamedIn(chains', h)) + OccurrencesIn(chains[key].versions, h)
               = Cardinality(NamedIn(chains, h)) + OccurrencesIn(chains'[key].versions, h)
      BY <2>1, <3>a, <3>4, RekeyCount
    <3>6. OccurrencesIn(chains'[key].versions, h) = 0
      <4>1. chains'[key].versions = <<>>
        BY <3>3 DEF NoChain
      <4>2. PlacesIn(<<>>, h) = {}
        BY DEF PlacesIn
      <4> QED BY <4>1, <4>2, FS_EmptySet DEF OccurrencesIn
    <3>7. was \in Nat
      BY <3>3, OccurrencesType
    <3>8. Cardinality(NamedIn(chains', h)) \in Nat
      BY <3>5, FS_CardinalityType
    <3>9. Cardinality(NamedIn(chains', h)) + was = Cardinality(NamedIn(chains, h))
      BY <2>1, <3>5, <3>6 DEF Named
    <3> HIDE DEF was
    <3> QED BY <2>1, <3>5, <3>7, <3>8, <3>9 DEF Named
  <2>4. DeleteToc(t) => chains' = chains
    BY DEF DeleteToc
  <2> QED BY <2>2, <2>3, <2>4
<1>5. \A h \in Hash : Refs(h)' = Refs(h)
  BY <1>1 DEF Refs
<1>6. ASSUME NEW h \in Hash PROVE Refs(h)' <= (Len(past') - 1) * n
  <2> DEFINE most == (Len(past) - 1) * n
  <2>1. \A u \in Threads : pc[u] \notin Putting
    BY <1>2, LonePut
  <2>2. Refs(h) <= most
    BY <2>1 DEF CountInv
  <2>3. (Len(past') - 1) * n = most \/ (Len(past') - 1) * n = most + n
    BY <1>0, <1>3
  <2>4. most \in Int /\ Refs(h) \in Nat
    BY <1>0, CountTypes DEF Countable
  <2> HIDE DEF most
  <2> QED BY <1>5, <2>2, <2>3, <2>4
<1>7. ThreadCounts(n, t)'
  <2>1. \A h \in Hash : Tallied(t, h)' = 0
    BY <1>2, NotCounting DEF Tallied
  <2>2. \A h \in Hash : Named(h)' + 0 <= Refs(h)'
    <3> SUFFICES ASSUME NEW h \in Hash PROVE Named(h)' + 0 <= Refs(h)'
      OBVIOUS
    <3>1. Named(h) \in Nat /\ Named(h) <= Refs(h) /\ Refs(h) \in Nat
      BY NamedType, CountTypes DEF CountInv, Countable
    <3> QED BY <1>4, <1>5, <3>1
  <2> QED BY <1>2, <2>1, <2>2, NotCounting DEF ThreadCounts
<1> QED BY <1>1, <1>2, <1>4, <1>6, <1>7, LoneCounts

(* Everything else a thread does.                                           *)
LEMMA OtherCounts ==
  ASSUME Whole, NEW n, CountInv(n), NEW t \in Threads,
         PutShouldCheckpoint(t) \/ TakeCheckpoint(t) \/ DeleteBegin(t) \/ Get(t)
  PROVE  CountInv(n)'
<1>0. pc \in [Threads -> Points] /\ arg \in [Threads -> ArgType]
  BY CountFacts
<1> USE DEF At, Goto, Set, Return, memory, history, disk, Others, Putting, Mid
<1>1. CASE PutShouldCheckpoint(t)
  BY <1>0, <1>1, AsideCounts DEF PutShouldCheckpoint
<1>2. CASE CheckpointBegin(t)
  BY <1>0, <1>2, AsideCounts DEF CheckpointBegin
<1>3. CASE CheckpointToc(t)
  BY <1>0, <1>3, AsideCounts DEF CheckpointToc
<1>4. CASE CheckpointLen(t)
  BY <1>0, <1>4, AsideCounts DEF CheckpointLen
<1>5. CASE CheckpointAppend(t)
  BY <1>0, <1>5, AsideCounts DEF CheckpointAppend
<1>6. CASE CheckpointSync(t)
  BY <1>0, <1>6, AsideCounts DEF CheckpointSync
<1>7. CASE CheckpointReset(t)
  BY <1>0, <1>7, AsideCounts DEF CheckpointReset
<1>8. CASE LastSync(t)
  BY <1>0, <1>8, AsideCounts DEF LastSync
<1>9. CASE DeleteBegin(t)
  BY <1>0, <1>9, AsideCounts DEF DeleteBegin
<1>10. CASE GetLookup(t)
  BY <1>0, <1>10, AsideCounts DEF GetLookup
<1>11. CASE GetRead(t)
  BY <1>0, <1>11, AsideCounts DEF GetRead
<1> QED BY <1>1, <1>2, <1>3, <1>4, <1>5, <1>6, <1>7, <1>8, <1>9, <1>10, <1>11
        DEF TakeCheckpoint, Get

LEMMA StutterCounts ==
  ASSUME NEW n, CountInv(n), UNCHANGED <<store, chains, past, pc, arg>>
  PROVE  CountInv(n)'
<1>1. \A h \in Hash : /\ Refs(h)' = Refs(h) /\ Named(h)' = Named(h)
                      /\ NamedIn(chains', h) = NamedIn(chains, h)
  BY DEF Refs, Named
<1>2. \A t \in Threads : Gone(t)' = Gone(t) /\ Segment(t)' = Segment(t)
  BY DEF Gone, Segment
<1>3. \A t \in Threads, h \in Hash : Tallied(t, h)' = Tallied(t, h)
  BY <1>2 DEF Tallied
<1>4. ASSUME NEW t \in Threads PROVE ThreadCounts(n, t)'
  BY <1>1, <1>2, <1>3 DEF CountInv, ThreadCounts
<1> QED BY <1>1, <1>4 DEF CountInv

(* Nothing is counted, and no chain names a chunk.                          *)
NothingCounted == /\ store = EmptyStore
                  /\ \A t \in Threads : pc[t] = "idle"
                  /\ Len(past) \in Nat \ {0}
                  /\ \A h \in Hash : \A k \in Key : PlacesIn(chains[k].versions, h) = {}

AnyCounts == \A n \in Nat : CountInv(n)

LEMMA NothingCounts == NothingCounted => AnyCounts
<1> SUFFICES ASSUME NothingCounted, NEW n \in Nat PROVE CountInv(n)
  BY DEF AnyCounts
<1>1. ASSUME NEW h \in Hash
      PROVE  /\ IsFiniteSet(NamedIn(chains, h)) /\ Named(h) = 0 /\ Refs(h) = 0
             /\ \A t \in Threads : Tallied(t, h) = 0
             /\ Refs(h) <= (Len(past) - 1) * n
  <2>1. IsFiniteSet(NamedIn(chains, h)) /\ Named(h) = 0
    BY NoneNamed DEF NothingCounted, Named
  <2>2. Refs(h) = 0
    BY DEF NothingCounted, Refs, Known, EmptyStore
  <2>3. \A t \in Threads : Tallied(t, h) = 0
    BY DEF NothingCounted, Tallied, Counting, Mid
  <2>4. (Len(past) - 1) * n \in Nat
    BY DEF NothingCounted
  <2> QED BY <2>1, <2>2, <2>3, <2>4
<1>2. \A t \in Threads : pc[t] = "idle" /\ pc[t] \notin Putting
  BY DEF NothingCounted, Putting, Mid
<1>3. \A h \in Hash : Named(h) <= Refs(h) /\ \A t \in Threads : Named(h) + Tallied(t, h) <= Refs(h)
  BY <1>1
<1>4. \A t \in Threads : ThreadCounts(n, t)
  BY <1>2, <1>3 DEF ThreadCounts
<1> QED BY <1>1, <1>3, <1>4 DEF CountInv

LEMMA NoChainsNameNone ==
  ASSUME NEW c, c = [k \in Key |-> NoChain], NEW h
  PROVE  \A k \in Key : PlacesIn(c[k].versions, h) = {}
<1>1. \A k \in Key : c[k].versions = <<>>
  BY DEF NoChain
<1>2. PlacesIn(<<>>, h) = {}
  BY DEF PlacesIn
<1> QED BY <1>1, <1>2

LEMMA StopCounts ==
  ASSUME Whole', NEW n \in Nat, Crash \/ Drop
  PROVE  CountInv(n)'
<1>1. /\ store' = EmptyStore /\ chains' = [k \in Key |-> NoChain]
      /\ \A t \in Threads : pc'[t] = "idle"
  BY DEF Crash, Drop, Forget
<1>2. Len(past') \in Nat \ {0}
  BY EmptySeq DEF Whole, Inductive, Holds, IInv, Types, Pasts
<1>3. \A h \in Hash : \A k \in Key : PlacesIn(chains'[k].versions, h) = {}
  BY <1>1, NoChainsNameNone
<1>4. NothingCounted'
  BY <1>1, <1>2, <1>3 DEF NothingCounted
<1>5. AnyCounts'
  BY <1>4, NothingCounts, PTL
<1> QED BY <1>5 DEF AnyCounts

LEMMA OpenCounts ==
  ASSUME OffsetsAreNoHashes, Whole, Whole', NEW n \in Nat, CountInv(n), Open
  PROVE  CountInv(n)'
<1>1. /\ store' = EmptyStore /\ \A t \in Threads : pc'[t] = "idle"
      /\ pc' = pc /\ arg' = arg /\ store' = store /\ \A t \in Threads : pc[t] = "idle"
  BY DEF Open, Whole, Inductive, Holds, IInv, DownIsEmpty, Up
<1>2. Len(past') \in Nat \ {0} /\ toc' \in Seq(EntryType)
  BY EmptySeq DEF Whole, Inductive, Holds, IInv, Types, Pasts
<1>3. CASE Recoverable(log)
  <2>1. chains' = [k \in Key |-> RebuiltChain(toc', k)]
    BY <1>3 DEF Open
  <2>2. \A h \in Hash : \A k \in Key : PlacesIn(chains'[k].versions, h) = {}
    <3> SUFFICES ASSUME NEW h \in Hash, NEW k \in Key
                 PROVE  PlacesIn(chains'[k].versions, h) = {}
      OBVIOUS
    <3>1. chains'[k] = RebuiltChain(toc', k)
      BY <2>1
    <3> QED BY <1>2, <3>1, RebuiltNamesNone
  <2>3. NothingCounted'
    BY <1>1, <1>2, <2>2 DEF NothingCounted
  <2>4. AnyCounts'
    BY <2>3, NothingCounts, PTL
  <2> QED BY <2>4 DEF AnyCounts
<1>4. CASE ~Recoverable(log)
  <2>1. UNCHANGED <<chains, past>>
    BY <1>4 DEF Open
  <2> QED BY <1>1, <2>1, StutterCounts
<1> QED BY <1>3, <1>4

LEMMA CountStep ==
  ASSUME OneMutator, OffsetsAreNoHashes, NEW n \in Nat, FewReferences(n),
         IndexInv, Whole, CountInv(n), [Next]_vars
  PROVE  CountInv(n)'
<1>0. Whole'
  BY WholeStep
<1>1. ASSUME NEW t \in Threads, Put(t) PROVE CountInv(n)'
  BY <1>0, <1>1, PutBeginCounts, SegmentCounts, PutChainCounts, PutTocCounts, OtherCounts DEF Put
<1>2. ASSUME NEW t \in Threads, TakeCheckpoint(t) \/ Delete(t) \/ Get(t) PROVE CountInv(n)'
  BY <1>0, <1>2, DeleteCounts, OtherCounts DEF Delete
<1>3. CASE Crash \/ Drop
  BY <1>0, <1>3, StopCounts
<1>4. CASE Open
  BY <1>0, <1>4, OpenCounts
<1>5. CASE UNCHANGED vars
  BY <1>5, StutterCounts DEF vars
<1> QED BY <1>1, <1>2, <1>3, <1>4, <1>5 DEF Next

(* Whatever is deduplicated, evicted or deleted, and however often the      *)
(* engine crashes and reopens: as long as one thread alone puts and         *)
(* deletes, the refcount of every chunk the content store knows covers all  *)
(* places in the versions of all keys that name it (engine.rs:              *)
(* put_with_retention, ContentStore::add_ref and release), so a chunk is    *)
(* given up only when no version needs it.  It takes a hash to be no        *)
(* offset, and fewer references in one run of the process than a u32 counts.*)
THEOREM EngineRefcountsCover ==
  ASSUME OneMutator, OffsetsAreNoHashes, NEW n \in Nat, FewReferences(n)
  PROVE  Spec => []RefcountsCoverVersions
<1>1. Init => Whole /\ IndexInv /\ CountInv(n)
  <2> SUFFICES ASSUME Init PROVE Whole /\ IndexInv /\ CountInv(n)
    OBVIOUS
  <2>1. BlocksClosed
    BY DEF Init, BlocksClosed, Footers
  <2>2. Whole
    BY InitInductive, RememberedInit DEF Whole
  <2>3. Len(past) \in Nat \ {0}
    BY EmptySeq, <2>2 DEF Whole, Inductive, Holds, IInv, Types, Pasts
  <2>4. NothingCounted
    BY <2>3, NoChainsNameNone DEF Init, NothingCounted
  <2> QED BY <2>1, <2>2, <2>4, NothingIndexed, NothingCounts DEF Init, Nothing, AnyCounts
<1>2. Whole /\ IndexInv /\ CountInv(n) /\ [Next]_vars => (Whole /\ IndexInv /\ CountInv(n))'
  BY WholeStep, IndexStep, CountStep DEF Whole
<1>3. CountInv(n) => RefcountsCoverVersions
  BY DEF CountInv, RefcountsCoverVersions, Named, Refs
<1> QED BY <1>1, <1>2, <1>3, PTL DEF Spec
=============================================================================
