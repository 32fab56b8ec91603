----------------------- MODULE EngineMaintenanceProofs ----------------------
(***************************************************************************)
(* Batches and compactions keep every reference right (RefsResolveFresh),   *)
(* for any number of threads and any batches.                               *)
(*                                                                          *)
(* The inductive invariant adds to the engine's what a bulk call holds in   *)
(* its local variables: of the places of a batch each one is still to be    *)
(* looked up, or lies in the buffer, or has its reference already; and once *)
(* the buffer is in the file, its n-th chunk lies n places behind the       *)
(* offset that the append returned.  Between the truncation of a compaction *)
(* and the new table of contents the engine's invariant does not hold; what *)
(* holds there is that the file and the content store are empty.            *)
(*                                                                          *)
(* With intact FALSE the same invariant says of no reference that it leads  *)
(* to its chunk: what remains, types and places, also holds once references *)
(* dangle, and EngineMaintenanceMap goes on from there.                     *)
(***************************************************************************)
EXTENDS EngineMaintenance, ShardedEngineProofs

Gathering == {"batch_lookup", "batch_add_ref", "batch_contains", "batch_insert",
              "batch_record"}

Recording == {"batch_contains", "batch_insert", "batch_record"}

ItemFits(item) ==
  /\ item = [key |-> item.key, value |-> item.value, refs |-> item.refs]
  /\ item.key \in Key /\ item.value \in Value
  /\ item.refs = [j \in 1 .. Len(item.value) |-> item.refs[j]]

(* The shape of a bulk call's variables, whatever the file holds.           *)
BatchFits(w) == /\ \A i \in 1 .. Len(w.items) : ItemFits(w.items[i])
                /\ w.slots \subseteq Slots(w.items)
                /\ w.pending \in Seq(Slots(w.items))

(* A bulk call's variables, field by field.                                 *)
WorkAs(call, items, slots, pending, done) ==
  [call : {call}, items : {items}, slots : {slots}, pending : {pending}, done : {done}]

WorkFits(w) ==
  /\ w \in WorkAs(w.call, w.items, w.slots, w.pending, w.done)
  /\ w.call \in {"none", "put_batch", "compact"}
  /\ Len(w.items) \in Nat /\ w.items = [i \in 1 .. Len(w.items) |-> w.items[i]]
  /\ w.done \in 0 .. Len(w.items)
  /\ w.call = "put_batch" => BatchFits(w)
  /\ w.call = "compact" => w.items \in Seq([key : Key, value : Contents]) /\ w.done = 0

PlaceFits(t, label, w) ==
  /\ label \in Gathering \union Publishing => w.call = "put_batch"
  /\ label \in Gathering \union {"batch_index", "batch_chain"} => w.done < Len(w.items)
  /\ label = "batch_add_ref" => w.slots # {}
  /\ label \in Recording => w.pending # <<>>
  /\ label \in {"compact_truncate", "compact_forget"} =>
       w.call = "compact" /\ "compact" \in BulkOps[t]

Fits == /\ work = [t \in Threads |-> work[t]]
        /\ \A t \in Threads : WorkFits(work[t]) /\ PlaceFits(t, pc[t], work[t])
        /\ ~Up => \A t \in Threads : work[t] = NoWork

(* What a bulk call knows of the file l: off is where its last lookup or    *)
(* its append said.                                                         *)
HashOf(items, s) == items[s[1]].value[s[2]]

RefOf(items, s) == items[s[1]].refs[s[2]]

Placed(intact, l, items, s) ==
  /\ RefOf(items, s) \in Nat
  /\ Leads(intact, l, Len(l), HashOf(items, s), RefOf(items, s))

Gathered(intact, l, w) == \A s \in Slots(w.items) :
  \/ s \in w.slots
  \/ \E m \in 1 .. Len(w.pending) : w.pending[m] = s
  \/ Placed(intact, l, w.items, s)

WorkLeads(intact, l, label, w, off) ==
  /\ w.call = "put_batch" => Gathered(intact, l, w)
  /\ label = "batch_add_ref" =>
       Leads(intact, l, Len(l), HashOf(w.items, FirstOf(w.slots)), off)
  /\ label \in Recording =>
       \A m \in 1 .. Len(w.pending) :
         Leads(intact, l, Len(l), HashOf(w.items, w.pending[m]), off + (m - 1))
  /\ label \in Recording \union Publishing => w.slots = {}
  /\ label \in Publishing => w.pending = <<>>

Sound(intact) ==
  Holds(intact) /\ \A t \in Threads : WorkLeads(intact, log, pc[t], work[t], arg[t].off)

Truncated == \E t \in Threads : pc[t] = "compact_forget"

Emptied == Types /\ log = <<>> /\ durable = 0 /\ store = EmptyStore /\ Up

MaintenanceInv == ~stale => Fits /\ IF Truncated THEN Emptied ELSE Sound(TRUE)

-----------------------------------------------------------------------------
(* A tuple is a sequence.                                                   *)
LEMMA TupleLen ==
  ASSUME NEW n \in Nat, NEW f, f = [i \in 1 .. n |-> f[i]]
  PROVE  Len(f) = n /\ DOMAIN f = 1 .. n
<1> DEFINE S == {f[i] : i \in 1 .. n}
<1>1. f \in [1 .. n -> S]
  OBVIOUS
<1> HIDE DEF S
<1>2. f \in Seq(S)
  BY <1>1
<1> QED BY <1>1, <1>2

(* Of some places one is the first.                                         *)
LEMMA FirstOfIn ==
  ASSUME NEW slots \in SUBSET (Nat \X Nat), slots # {}
  PROVE  FirstOf(slots) \in slots
<1> DEFINE I == {p[1] : p \in slots}
<1>1. I \in SUBSET Nat /\ I # {}
  OBVIOUS
<1>2. PICK i \in I : \A x \in I : <<x, i>> \notin OpToRel(<, Nat)
  BY <1>1, NatLessThanWellFounded, WFMin
<1> DEFINE J == {p[2] : p \in {q \in slots : q[1] = i}}
<1>3. J \in SUBSET Nat /\ J # {}
  OBVIOUS
<1>4. PICK j \in J : \A x \in J : <<x, j>> \notin OpToRel(<, Nat)
  BY <1>3, NatLessThanWellFounded, WFMin
<1>5. PICK p \in slots : p[1] = i /\ p[2] = j
  OBVIOUS
<1>6. ASSUME NEW q \in slots PROVE Before(p, q)
  <2>1. q[1] \in I /\ q[1] \in Nat /\ q[2] \in Nat /\ i \in Nat /\ j \in Nat
    BY <1>1, <1>3
  <2>2. ~(q[1] < i)
    BY <1>2, <2>1 DEF OpToRel
  <2>3. q[1] = i => ~(q[2] < j)
    <3> SUFFICES ASSUME q[1] = i PROVE ~(q[2] < j)
      OBVIOUS
    <3>1. q[2] \in J
      OBVIOUS
    <3> QED BY <1>4, <2>1, <3>1 DEF OpToRel
  <2> QED BY <1>5, <2>1, <2>2, <2>3 DEF Before
<1> QED BY <1>5, <1>6 DEF FirstOf

LEMMA ValueLen ==
  ASSUME NEW v \in Value
  PROVE  v \in Contents /\ v \in Seq(Hash) /\ Len(v) \in Nat /\ DOMAIN v = 1 .. Len(v)
BY EngineAssumption DEF Contents

LEMMA SlotPlace ==
  ASSUME NEW items, Len(items) \in Nat, items = [i \in 1 .. Len(items) |-> items[i]],
         \A i \in 1 .. Len(items) : ItemFits(items[i]),
         NEW s \in Slots(items)
  PROVE  /\ s \in Nat \X Nat /\ s = <<s[1], s[2]>>
         /\ s[1] \in 1 .. Len(items) /\ s[2] \in 1 .. Len(items[s[1]].value)
         /\ ItemFits(items[s[1]])
         /\ items[s[1]].value \in Seq(Hash) /\ items[s[1]].value[s[2]] \in Hash
<1>1. PICK i \in DOMAIN items : s \in {i} \X DOMAIN items[i].value
  BY DEF Slots
<1>2. i \in 1 .. Len(items)
  BY <1>1
<1>3. ItemFits(items[i])
  BY <1>2
<1>4. items[i].value \in Seq(Hash) /\ DOMAIN items[i].value = 1 .. Len(items[i].value)
  BY <1>3, ValueLen DEF ItemFits
<1>5. s = <<s[1], s[2]>> /\ s[1] = i /\ s[2] \in 1 .. Len(items[i].value)
  BY <1>1, <1>4
<1>6. s[1] \in Nat /\ s[2] \in Nat
  BY <1>2, <1>4, <1>5
<1>7. items[s[1]].value[s[2]] \in Hash
  BY <1>4, <1>5
<1>8. s \in Nat \X Nat
  BY <1>5, <1>6
<1> QED BY <1>2, <1>3, <1>4, <1>5, <1>7, <1>8

(* Putting a reference in its place changes nothing else.                   *)
PutRef(items, s, off) == [items EXCEPT ![s[1]].refs[s[2]] = off]

LEMMA PutRefFits ==
  ASSUME NEW items, Len(items) \in Nat, items = [i \in 1 .. Len(items) |-> items[i]],
         \A i \in 1 .. Len(items) : ItemFits(items[i]),
         NEW s \in Slots(items), NEW off
  PROVE  LET new == PutRef(items, s, off)
         IN  /\ Len(new) = Len(items) /\ new = [i \in 1 .. Len(items) |-> new[i]]
             /\ \A i \in 1 .. Len(items) : /\ ItemFits(new[i])
                                           /\ new[i].value = items[i].value
             /\ Slots(new) = Slots(items)
             /\ \A p \in Slots(items) :
                  new[p[1]].refs[p[2]] = IF p = s THEN off ELSE items[p[1]].refs[p[2]]
<1> DEFINE new == PutRef(items, s, off)
           i0 == s[1]
           j0 == s[2]
<1>0. DOMAIN items = 1 .. Len(items)
  OBVIOUS
<1>1. /\ s = <<i0, j0>> /\ i0 \in 1 .. Len(items) /\ j0 \in 1 .. Len(items[i0].value)
      /\ ItemFits(items[i0])
  BY SlotPlace
<1>2. /\ DOMAIN new = 1 .. Len(items)
      /\ \A i \in 1 .. Len(items) : i # i0 => new[i] = items[i]
      /\ new[i0] = [items[i0] EXCEPT !.refs[j0] = off]
  BY <1>0, <1>1 DEF PutRef
<1>3. new = [i \in 1 .. Len(items) |-> new[i]]
  BY <1>0, <1>2 DEF PutRef
<1> HIDE DEF new, i0, j0
<1>4. Len(new) = Len(items)
  BY <1>3, TupleLen
<1>5. /\ new[i0] = [key |-> items[i0].key, value |-> items[i0].value,
                    refs |-> [items[i0].refs EXCEPT ![j0] = off]]
  BY <1>1, <1>2 DEF ItemFits
<1>6. /\ new[i0].key = items[i0].key /\ new[i0].value = items[i0].value
      /\ new[i0].refs = [items[i0].refs EXCEPT ![j0] = off]
  BY <1>5
<1>7. new[i0].refs = [j \in 1 .. Len(new[i0].value) |-> new[i0].refs[j]]
  <2>1. items[i0].refs = [j \in 1 .. Len(items[i0].value) |-> items[i0].refs[j]]
    BY <1>1 DEF ItemFits
  <2> QED BY <1>6, <2>1
<1>8. ItemFits(new[i0])
  BY <1>1, <1>5, <1>6, <1>7 DEF ItemFits
<1>9. \A i \in 1 .. Len(items) : ItemFits(new[i]) /\ new[i].value = items[i].value
  BY <1>2, <1>6, <1>8
<1>10. Slots(new) = Slots(items)
  <2>1. DOMAIN new = DOMAIN items
    BY <1>0, <1>2
  <2> QED BY <1>0, <1>9, <2>1 DEF Slots
<1>11. ASSUME NEW p \in Slots(items)
       PROVE  new[p[1]].refs[p[2]] = IF p = s THEN off ELSE items[p[1]].refs[p[2]]
  <2>1. /\ p = <<p[1], p[2]>> /\ p[1] \in 1 .. Len(items)
        /\ p[2] \in 1 .. Len(items[p[1]].value)
    BY SlotPlace
  <2>2. CASE p[1] # i0
    BY <1>1, <1>2, <2>1, <2>2
  <2>3. CASE p[1] = i0
    <3>1. items[i0].refs = [j \in 1 .. Len(items[i0].value) |-> items[i0].refs[j]]
      BY <1>1 DEF ItemFits
    <3>2. new[i0].refs[p[2]] = IF p[2] = j0 THEN off ELSE items[i0].refs[p[2]]
      BY <1>6, <2>1, <2>3, <3>1
    <3>3. p = s <=> p[2] = j0
      BY <1>1, <2>1, <2>3
    <3> QED BY <2>3, <3>2, <3>3
  <2> QED BY <2>2, <2>3
<1> QED BY <1>3, <1>4, <1>9, <1>10, <1>11 DEF new

-----------------------------------------------------------------------------
(* What a bulk call knows of the file still holds when the file grows.      *)
LEMMA WorkGrows ==
  ASSUME NEW intact \in BOOLEAN, NEW l \in Seq(Block), NEW l2 \in Seq(Block),
         Len(l) <= Len(l2),
         \A i \in 1 .. Len(l) : l2[i] = l[i],
         NEW label, NEW w, WorkFits(w), NEW t, PlaceFits(t, label, w),
         NEW off \in Nat, WorkLeads(intact, l, label, w, off)
  PROVE  WorkLeads(intact, l2, label, w, off)
<1>1. Len(l) \in Nat /\ Len(l2) \in Nat
  OBVIOUS
<1>2. ASSUME NEW h, NEW x \in Nat, Leads(intact, l, Len(l), h, x)
      PROVE  Leads(intact, l2, Len(l2), h, x)
  BY <1>1, <1>2, LeadsGrows
<1>3. ASSUME w.call = "put_batch" PROVE Gathered(intact, l2, w)
  <2> SUFFICES ASSUME NEW s \in Slots(w.items), Placed(intact, l, w.items, s)
               PROVE  Placed(intact, l2, w.items, s)
    BY <1>3 DEF WorkLeads, Gathered
  <2> QED BY <1>2 DEF Placed
<1>4. ASSUME label = "batch_add_ref"
      PROVE  Leads(intact, l2, Len(l2), HashOf(w.items, FirstOf(w.slots)), off)
  BY <1>2, <1>4 DEF WorkLeads
<1>5. ASSUME label \in Recording, NEW m \in 1 .. Len(w.pending)
      PROVE  Leads(intact, l2, Len(l2), HashOf(w.items, w.pending[m]), off + (m - 1))
  <2>1. Len(w.pending) \in Nat
    BY <1>5 DEF PlaceFits, WorkFits, BatchFits, Gathering, Recording
  <2>2. off + (m - 1) \in Nat
    BY <2>1
  <2> QED BY <1>2, <1>5, <2>2 DEF WorkLeads
<1> QED BY <1>3, <1>4, <1>5 DEF WorkLeads

(* A thread's step keeps the invariant if it keeps the engine's, and if the *)
(* thread's own variables are right afterwards.                             *)
LEMMA BulkStep ==
  ASSUME NEW intact \in BOOLEAN, Fits, Sound(intact), Holds(intact)', Grows, Up',
         NEW t \in Threads,
         NEW new \in ArgType, arg' = [arg EXCEPT ![t] = new],
         NEW label, pc' = [pc EXCEPT ![t] = label],
         NEW w, work' = [work EXCEPT ![t] = w],
         WorkFits(w), PlaceFits(t, label, w), WorkLeads(intact, log', label, w, new.off)
  PROVE  Fits' /\ Sound(intact)'
<1>1. /\ pc \in [Threads -> Points] /\ arg \in [Threads -> ArgType]
      /\ log \in Seq(Block) /\ log' \in Seq(Block) /\ work = [u \in Threads |-> work[u]]
  BY DEF Sound, Holds, IInv, Types, Fits
<1>2. /\ pc'[t] = label /\ arg'[t] = new /\ work'[t] = w /\ work' = [u \in Threads |-> work'[u]]
      /\ \A u \in Threads \ {t} : /\ pc'[u] = pc[u] /\ arg'[u] = arg[u]
                                  /\ work'[u] = work[u]
  BY <1>1
<1>3. ASSUME NEW u \in Threads
      PROVE  /\ WorkFits(work'[u]) /\ PlaceFits(u, pc'[u], work'[u])
             /\ WorkLeads(intact, log', pc'[u], work'[u], arg'[u].off)
  <2>1. CASE u = t
    BY <1>2, <2>1
  <2>2. CASE u # t
    <3>1. arg[u].off \in Nat
      BY <1>1 DEF ArgType
    <3>2. /\ WorkFits(work[u]) /\ PlaceFits(u, pc[u], work[u])
          /\ WorkLeads(intact, log, pc[u], work[u], arg[u].off)
      BY DEF Fits, Sound
    <3>3. WorkLeads(intact, log', pc[u], work[u], arg[u].off)
      BY <1>1, <3>1, <3>2, WorkGrows DEF Grows
    <3> QED BY <1>2, <2>2, <3>2, <3>3
  <2> QED BY <2>1, <2>2
<1>4. Fits'
  BY <1>2, <1>3 DEF Fits
<1>5. Sound(intact)'
  BY <1>3 DEF Sound
<1> QED BY <1>4, <1>5

(* A point of a single call asks nothing of a bulk call's variables but     *)
(* that the places of the batch are accounted for.                          *)
LEMMA PlainPlace ==
  ASSUME NEW intact \in BOOLEAN, NEW t, NEW label \in Labels, NEW w, NEW l, NEW off,
         w.call = "put_batch" => Gathered(intact, l, w)
  PROVE  PlaceFits(t, label, w) /\ WorkLeads(intact, l, label, w, off)
BY DEF PlaceFits, WorkLeads, Labels, Gathering, Recording, Publishing

-----------------------------------------------------------------------------
(* A step of a single call appends at most, and touches no other thread's   *)
(* variables.                                                               *)
LEMMA SingleAppends ==
  ASSUME NEW t \in Threads, Put(t) \/ TakeCheckpoint(t) \/ Delete(t) \/ Get(t)
  PROVE  /\ Up /\ Up'
         /\ log' = log \/ \E b : log' = Append(log, b)
         /\ arg' = arg \/ \E new : arg' = [arg EXCEPT ![t] = new]
<1>1. ASSUME Put(t)
      PROVE  /\ Up /\ Up'
             /\ log' = log \/ \E b : log' = Append(log, b)
             /\ arg' = arg \/ \E new : arg' = [arg EXCEPT ![t] = new]
  BY <1>1 DEF Put, PutBegin, PutLookup, PutAddRef, PutAppend, PutContains, PutInsert,
              PutRecord, PutIndex, PutChain, PutToc, PutShouldCheckpoint, Return, Set, At,
              Up, disk, memory
<1>2. ASSUME TakeCheckpoint(t)
      PROVE  /\ Up /\ Up'
             /\ log' = log \/ \E b : log' = Append(log, b)
             /\ arg' = arg \/ \E new : arg' = [arg EXCEPT ![t] = new]
  BY <1>2 DEF TakeCheckpoint, CheckpointBegin, CheckpointToc, CheckpointLen,
              CheckpointAppend, CheckpointSync, CheckpointReset, LastSync, Return, Set, At,
              Up, disk, memory
<1>3. ASSUME Delete(t) \/ Get(t)
      PROVE  /\ Up /\ Up'
             /\ log' = log \/ \E b : log' = Append(log, b)
             /\ arg' = arg \/ \E new : arg' = [arg EXCEPT ![t] = new]
  BY <1>3 DEF Delete, Get, DeleteBegin, DeleteChain, DeleteToc, GetLookup, GetRead,
              Return, Set, At, Up, disk, memory
<1> QED BY <1>1, <1>2, <1>3

LEMMA SingleKeeps ==
  ASSUME NEW intact \in BOOLEAN, Fits, Sound(intact), NEW t \in Threads, SingleStep(t)
  PROVE  Fits' /\ Sound(intact)'
<1>0. /\ pc \in [Threads -> Points] /\ arg \in [Threads -> ArgType]
      /\ log \in Seq(Block) /\ Holds(intact) /\ work = [u \in Threads |-> work[u]]
  BY DEF Sound, Holds, IInv, Types, Fits
<1>1. Put(t) \/ TakeCheckpoint(t) \/ Delete(t) \/ Get(t)
  BY DEF SingleStep
<1>2. Holds(intact)'
  BY <1>0, <1>1, HoldsStep DEF Next
<1>3. log' \in Seq(Block) /\ arg' \in [Threads -> ArgType]
  BY <1>2 DEF Holds, IInv, Types
<1>4. Up /\ Up' /\ Grows
  <2>1. Up /\ Up' /\ (log' = log \/ \E b : log' = Append(log, b))
    BY <1>1, SingleAppends
  <2> QED BY <1>0, <1>3, <2>1 DEF Grows
<1>5. arg' = [arg EXCEPT ![t] = arg'[t]] /\ arg'[t] \in ArgType
  <2>1. arg' = arg \/ \E new : arg' = [arg EXCEPT ![t] = new]
    BY <1>1, SingleAppends
  <2> QED BY <1>0, <1>3, <2>1
<1>6. PICK label \in Labels : pc' = [pc EXCEPT ![t] = label]
  BY <1>1, SingleMoves
<1>7. work' = [work EXCEPT ![t] = work[t]]
  BY <1>0 DEF SingleStep
<1>8. /\ WorkFits(work[t]) /\ PlaceFits(t, pc[t], work[t])
      /\ WorkLeads(intact, log, pc[t], work[t], arg[t].off) /\ arg[t].off \in Nat
  BY <1>0 DEF Fits, Sound, ArgType
<1>9. WorkLeads(intact, log', pc[t], work[t], arg[t].off)
  BY <1>0, <1>3, <1>4, <1>8, WorkGrows DEF Grows
<1>10. work[t].call = "put_batch" => Gathered(intact, log', work[t])
  BY <1>9 DEF WorkLeads
<1>11. PlaceFits(t, label, work[t]) /\ WorkLeads(intact, log', label, work[t], arg'[t].off)
  BY <1>6, <1>10, PlainPlace
<1> QED BY <1>2, <1>4, <1>5, <1>6, <1>7, <1>8, <1>11, BulkStep

(* A crash, a drop and a reopening find or leave no bulk call under way.    *)
LEMMA NoWorkFits ==
  /\ WorkFits(NoWork)
  /\ \A intact \in BOOLEAN : \A t \in Threads : \A l, off :
       PlaceFits(t, "idle", NoWork) /\ WorkLeads(intact, l, "idle", NoWork, off)
<1>1. WorkFits(NoWork)
  BY DEF WorkFits, WorkAs, NoWork
<1>2. "idle" \in Labels /\ NoWork.call # "put_batch"
  BY DEF Labels, NoWork
<1> QED BY <1>1, <1>2, PlainPlace

LEMMA IdleKeeps ==
  ASSUME NEW intact \in BOOLEAN, Holds(intact)', work' = [t \in Threads |-> NoWork],
         \A t \in Threads : pc'[t] = "idle"
  PROVE  Fits' /\ Sound(intact)'
<1>1. Fits'
  BY NoWorkFits DEF Fits
<1>2. Sound(intact)'
  BY NoWorkFits DEF Sound
<1> QED BY <1>1, <1>2

LEMMA RestartKeeps ==
  ASSUME NEW intact \in BOOLEAN, Fits, Sound(intact), Restart
  PROVE  Fits' /\ Sound(intact)'
<1>0. Holds(intact) /\ work = [u \in Threads |-> work[u]]
  BY DEF Sound, Fits
<1>1. Holds(intact)'
  BY <1>0, HoldsStep DEF Restart, Next
<1>2. CASE Crash /\ work' = [t \in Threads |-> NoWork]
  <2>1. work' = [t \in Threads |-> NoWork] /\ \A t \in Threads : pc'[t] = "idle"
    BY <1>2 DEF Crash, Forget
  <2> QED BY <1>1, <2>1, IdleKeeps
<1>3. CASE Drop /\ (\A t \in Threads : work[t] = NoWork) /\ UNCHANGED bulk
  <2>1. work' = [t \in Threads |-> NoWork] /\ \A t \in Threads : pc'[t] = "idle"
    BY <1>0, <1>3 DEF Drop, Forget, bulk
  <2> QED BY <1>1, <2>1, IdleKeeps
<1>4. CASE Open /\ UNCHANGED bulk
  <2>1. ~Up /\ work' = work /\ pc' = pc
    BY <1>4 DEF Open, Up, bulk
  <2>2. \A t \in Threads : pc[t] = "idle" /\ work[t] = NoWork
    BY <1>0, <2>1 DEF Holds, IInv, DownIsEmpty, Fits
  <2> QED BY <1>0, <1>1, <2>1, <2>2, IdleKeeps
<1> QED BY <1>2, <1>3, <1>4 DEF Restart

-----------------------------------------------------------------------------
(* The points at which the engine's invariant asks nothing of a thread.     *)
Free == BulkLabels \union {"put_should_checkpoint", "checkpoint_toc", "idle"}

LEMMA BulkFacts ==
  ASSUME NEW intact \in BOOLEAN, Fits, Sound(intact), NEW t \in Threads
  PROVE  /\ IInv(intact) /\ durable \in Nat
         /\ arg[t] \in ArgType /\ arg[t].off \in Nat /\ arg = [arg EXCEPT ![t] = arg[t]]
         /\ log \in Seq(Block) /\ Len(log) \in Nat
         /\ toc \in Seq(EntryType) /\ past \in Pasts
         /\ pc \in [Threads -> Points] /\ arg \in [Threads -> ArgType]
         /\ pc = [pc EXCEPT ![t] = pc[t]]
         /\ work = [u \in Threads |-> work[u]] /\ work = [work EXCEPT ![t] = work[t]]
         /\ WorkFits(work[t]) /\ PlaceFits(t, pc[t], work[t])
         /\ WorkLeads(intact, log, pc[t], work[t], arg[t].off)
<1>1. IInv(intact) /\ durable \in Nat
  BY DEF Sound, Holds
<1>2. /\ WorkFits(work[t]) /\ PlaceFits(t, pc[t], work[t])
      /\ WorkLeads(intact, log, pc[t], work[t], arg[t].off)
      /\ work = [u \in Threads |-> work[u]]
  BY DEF Fits, Sound
<1>3. work = [work EXCEPT ![t] = work[t]]
  BY <1>2
<1>4. pc \in [Threads -> Points] /\ arg \in [Threads -> ArgType]
  BY <1>1 DEF IInv, Types
<1> QED BY <1>1, <1>2, <1>3, <1>4, ThreadFacts

LEMMA FreePoint ==
  ASSUME NEW intact \in BOOLEAN, Fits, Sound(intact), NEW t \in Threads,
         NEW label \in Free,
         pc' = [pc EXCEPT ![t] = label]
  PROVE  ThreadLeads(intact, t)' /\ label \in Points
<1>1. pc'[t] = label
  BY BulkFacts
<1>2. label \in Points
  BY DEF Free, Points, Labels
<1>3. label \notin Mid \union Complete \union Holding
                     \union {"checkpoint_len", "checkpoint_append"}
  BY DEF Free, BulkLabels, Mid, Complete, Holding
<1> QED BY <1>1, <1>2, <1>3 DEF ThreadLeads

(* A step of a bulk call that leaves the file alone.                        *)
LEMMA BulkMemoryStep ==
  ASSUME NEW intact \in BOOLEAN, Fits, Sound(intact), Up, Up', NEW t \in Threads,
         NEW new \in ArgType, arg' = [arg EXCEPT ![t] = new],
         NEW label \in Free, pc' = [pc EXCEPT ![t] = label],
         NEW w, work' = [work EXCEPT ![t] = w],
         WorkFits(w), PlaceFits(t, label, w), WorkLeads(intact, log, label, w, new.off),
         log' = log, durable' = durable,
         toc' \in Seq(EntryType), TocLeads(intact, log', Len(log'), toc'),
         past' \in Pasts, StoreLeads(intact)'
  PROVE  Fits' /\ Sound(intact)'
<1>1. IInv(intact) /\ durable \in Nat
  BY BulkFacts
<1>2. ThreadLeads(intact, t)' /\ label \in Points
  BY FreePoint
<1>3. IInv(intact)'
  BY <1>1, <1>2, ThreadStep
<1>4. Holds(intact)' /\ Grows
  BY <1>1, <1>3, SameFile DEF Holds
<1> QED BY <1>4, BulkStep

(* ... and everything that the threads share.                               *)
LEMMA BulkLocalStep ==
  ASSUME NEW intact \in BOOLEAN, Fits, Sound(intact), Up, NEW t \in Threads,
         UNCHANGED <<disk, toc, store, status, past>>,
         NEW new \in ArgType, arg' = [arg EXCEPT ![t] = new],
         NEW label \in Free, pc' = [pc EXCEPT ![t] = label],
         NEW w, work' = [work EXCEPT ![t] = w],
         WorkFits(w), PlaceFits(t, label, w), WorkLeads(intact, log, label, w, new.off)
  PROVE  Fits' /\ Sound(intact)'
<1>1. IInv(intact) /\ past \in Pasts
  BY BulkFacts
<1>2. /\ log' = log /\ durable' = durable /\ toc' = toc /\ store' = store
      /\ past' = past /\ Up'
  BY DEF disk, Up
<1>3. /\ toc' \in Seq(EntryType) /\ TocLeads(intact, log', Len(log'), toc')
      /\ StoreLeads(intact)'
  BY <1>1, <1>2, SameFile
<1> QED BY <1>1, <1>2, <1>3, BulkMemoryStep

-----------------------------------------------------------------------------
(* put_batch, step by step.                                                 *)
LEMMA BatchBeginKeeps ==
  ASSUME NEW intact \in BOOLEAN, Fits, Sound(intact), NEW t \in Threads, BatchBegin(t)
  PROVE  Fits' /\ Sound(intact)'
<1>1. PICK batch \in Batches :
        Work(t, [NoWork EXCEPT !.call = "put_batch", !.slots = Slots(batch),
                               !.items = [i \in DOMAIN batch |-> Unwritten(batch[i])]])
  BY DEF BatchBegin
<1> DEFINE n == Len(batch)
           items == [i \in 1 .. n |-> Unwritten(batch[i])]
           w == [NoWork EXCEPT !.call = "put_batch", !.slots = Slots(batch),
                               !.items = items]
<1>2. /\ batch \in Seq([key : Key, value : Value]) /\ batch # <<>>
      /\ n \in Nat /\ n > 0 /\ DOMAIN batch = 1 .. n
  <2>1. batch \in Seq([key : Key, value : Value]) /\ batch # <<>>
    BY BulkAssumption
  <2> QED BY <2>1, EmptySeq
<1>3. work' = [work EXCEPT ![t] = w]
  BY <1>1, <1>2 DEF Work
<1>4. ASSUME NEW i \in 1 .. n
      PROVE  ItemFits(items[i]) /\ DOMAIN items[i].value = DOMAIN batch[i].value
  <2>1. batch[i] \in [key : Key, value : Value]
    BY <1>2, ElementOfSeq
  <2>2. DOMAIN batch[i].value = 1 .. Len(batch[i].value)
    BY <2>1, ValueLen
  <2>3. items[i] = [key |-> batch[i].key, value |-> batch[i].value,
                    refs |-> [j \in 1 .. Len(batch[i].value) |-> NotIndexed]]
    BY <2>2 DEF Unwritten
  <2> HIDE DEF items
  <2> QED BY <2>1, <2>3 DEF ItemFits
<1>5. items = [i \in 1 .. n |-> items[i]] /\ DOMAIN items = 1 .. n
  OBVIOUS
<1>6. Len(items) = n
  <2> HIDE DEF items, n
  <2> QED BY <1>2, <1>5, TupleLen
<1>7. Slots(items) = Slots(batch)
  BY <1>2, <1>4, <1>5 DEF Slots
<1> HIDE DEF items, n
<1>f. /\ w.call = "put_batch" /\ w.items = items /\ w.slots = Slots(batch)
      /\ w.pending = <<>> /\ w.done = 0
      /\ w \in WorkAs("put_batch", items, Slots(batch), <<>>, 0)
  BY DEF NoWork, WorkAs
<1>8. WorkFits(w)
  <2>1. <<>> \in Seq(Slots(items))
    OBVIOUS
  <2>2. BatchFits(w)
    BY <1>4, <1>6, <1>7, <1>f, <2>1 DEF BatchFits
  <2>3. w.done \in 0 .. Len(w.items)
    BY <1>2, <1>6, <1>f
  <2>4. w \in WorkAs(w.call, w.items, w.slots, w.pending, w.done)
    BY <1>f
  <2> HIDE DEF w
  <2> QED BY <1>2, <1>5, <1>6, <1>f, <2>2, <2>3, <2>4 DEF WorkFits
<1>9. PlaceFits(t, "batch_lookup", w)
  BY <1>2, <1>6, <1>f DEF PlaceFits, Gathering, Publishing, Recording
<1>10. WorkLeads(intact, log, "batch_lookup", w, arg[t].off)
  BY <1>7, <1>f DEF WorkLeads, Gathered, Recording, Publishing
<1>11. "batch_lookup" \in Free
  BY DEF Free, BulkLabels
<1> HIDE DEF w
<1>12. /\ Up /\ UNCHANGED <<disk, toc, store, status, past>>
       /\ arg' = [arg EXCEPT ![t] = arg[t]] /\ pc' = [pc EXCEPT ![t] = "batch_lookup"]
       /\ arg[t] \in ArgType
  BY BulkFacts DEF BatchBegin, At, Goto, memory, history
<1> QED BY <1>3, <1>8, <1>9, <1>10, <1>11, <1>12, BulkLocalStep

(* The next place to look up is one of the batch's.                         *)
LEMMA NextSlot ==
  ASSUME NEW w, WorkFits(w), w.call = "put_batch", w.slots # {}
  PROVE  /\ FirstOf(w.slots) \in w.slots /\ FirstOf(w.slots) \in Slots(w.items)
         /\ HashOf(w.items, FirstOf(w.slots)) \in Hash
<1>1. /\ w.slots \subseteq Slots(w.items) /\ \A i \in 1 .. Len(w.items) : ItemFits(w.items[i])
      /\ Len(w.items) \in Nat /\ w.items = [i \in 1 .. Len(w.items) |-> w.items[i]]
  BY DEF WorkFits, BatchFits
<1>2. \A s \in Slots(w.items) : s \in Nat \X Nat /\ w.items[s[1]].value[s[2]] \in Hash
  BY <1>1, SlotPlace
<1>3. FirstOf(w.slots) \in w.slots
  <2>1. w.slots \in SUBSET (Nat \X Nat)
    BY <1>1, <1>2
  <2> QED BY <2>1, FirstOfIn
<1> QED BY <1>1, <1>2, <1>3 DEF HashOf

LEMMA BatchLookupKeeps ==
  ASSUME NEW intact \in BOOLEAN, Fits, Sound(intact), NEW t \in Threads, BatchLookup(t)
  PROVE  Fits' /\ Sound(intact)'
<1> DEFINE w == work[t]
           s == FirstOf(w.slots)
           h == HashOf(w.items, s)
<1>0. /\ Up /\ pc[t] = "batch_lookup" /\ w.slots # {}
      /\ UNCHANGED <<disk, toc, store, status, past>> /\ HashAt(t, s) = h
  BY DEF BatchLookup, At, memory, history, HashAt, HashOf
<1>1. /\ WorkFits(w) /\ PlaceFits(t, "batch_lookup", w) /\ w.call = "put_batch"
      /\ Gathered(intact, log, w) /\ arg[t].off \in Nat
  BY <1>0, BulkFacts DEF PlaceFits, Gathering, WorkLeads
<1>2. s \in w.slots /\ s \in Slots(w.items) /\ h \in Hash
  BY <1>0, <1>1, NextSlot
<1>3. {"batch_lookup", "batch_add_ref"} \subseteq Free
  BY DEF Free, BulkLabels
<1>4. CASE Known(store, h)
  <2>1. PICK off \in Nat : /\ \E c : store[h] = [off |-> off, refcount |-> c]
                           /\ Leads(intact, log, Len(log), h, off)
    BY <1>2, <1>4, BulkFacts DEF IInv, StoreLeads, EntryLeads
  <2>2. store[h].off = off
    BY <2>1
  <2> DEFINE new == [arg[t] EXCEPT !.off = off]
  <2>3. /\ arg' = [arg EXCEPT ![t] = new] /\ pc' = [pc EXCEPT ![t] = "batch_add_ref"]
        /\ work' = [work EXCEPT ![t] = w]
    BY <1>0, <1>4, <2>2, BulkFacts DEF BatchLookup, Set, Goto
  <2>4. new \in ArgType /\ new.off = off
    BY ZenonT(60), BulkFacts DEF ArgType
  <2>5. PlaceFits(t, "batch_add_ref", w)
    BY <1>0, <1>1 DEF PlaceFits, Gathering, Publishing, Recording
  <2>6. WorkLeads(intact, log, "batch_add_ref", w, off)
    BY <1>1, <2>1 DEF WorkLeads, Recording, Publishing
  <2> HIDE DEF new, w
  <2> QED BY <1>0, <1>1, <1>3, <2>3, <2>4, <2>5, <2>6, BulkLocalStep
<1>5. CASE ~Known(store, h)
  <2> DEFINE w2 == [w EXCEPT !.slots = @ \ {s}, !.pending = Append(@, s)]
  <2>1. /\ arg' = [arg EXCEPT ![t] = arg[t]] /\ pc' = [pc EXCEPT ![t] = "batch_lookup"]
        /\ work' = [work EXCEPT ![t] = w2] /\ arg[t] \in ArgType
    BY <1>0, <1>5, BulkFacts DEF BatchLookup, Work
  <2>2. /\ w2.call = w.call /\ w2.items = w.items /\ w2.slots = w.slots \ {s}
        /\ w2.pending = Append(w.pending, s) /\ w2.done = w.done
        /\ w2 \in WorkAs(w2.call, w2.items, w2.slots, w2.pending, w2.done)
    <3> HIDE DEF s, w
    <3> QED BY <1>1 DEF WorkFits, WorkAs
  <2> HIDE DEF s, w2, w
  <2>4. w.pending \in Seq(Slots(w.items)) /\ w2.pending \in Seq(Slots(w.items))
    BY <1>1, <1>2, <2>2 DEF WorkFits, BatchFits
  <2>5. WorkFits(w2)
    BY <1>1, <2>2, <2>4 DEF WorkFits, BatchFits
  <2>6. PlaceFits(t, "batch_lookup", w2)
    BY <1>1, <2>2 DEF PlaceFits, Gathering, Publishing, Recording
  <2>7. Gathered(intact, log, w2)
    <3> SUFFICES ASSUME NEW p \in Slots(w.items)
                 PROVE  \/ p \in w2.slots
                        \/ \E m \in 1 .. Len(w2.pending) : w2.pending[m] = p
                        \/ Placed(intact, log, w.items, p)
      BY <2>2 DEF Gathered
    <3>1. CASE p = s
      <4>1. Len(w2.pending) \in 1 .. Len(w2.pending) /\ w2.pending[Len(w2.pending)] = s
        BY <2>2, <2>4
      <4> QED BY <3>1, <4>1
    <3>2. CASE p # s /\ p \in w.slots
      BY <2>2, <3>2
    <3>3. ASSUME NEW m \in 1 .. Len(w.pending), w.pending[m] = p
          PROVE  \E m_1 \in 1 .. Len(w2.pending) : w2.pending[m_1] = p
      <4>1. m \in 1 .. Len(w2.pending) /\ w2.pending[m] = p
        BY <2>2, <2>4, <3>3
      <4> QED BY <4>1
    <3> QED BY <1>1, <3>1, <3>2, <3>3 DEF Gathered
  <2>8. WorkLeads(intact, log, "batch_lookup", w2, arg[t].off)
    BY <2>7 DEF WorkLeads, Recording, Publishing
  <2> QED BY <1>0, <1>3, <2>1, <2>5, <2>6, <2>8, BulkLocalStep
<1> QED BY <1>4, <1>5

(* A reference that leads to its chunk is put in its place; the other       *)
(* places of the batch stay where they were.                                *)
OthersStay(w, w2, s) == \A p \in Slots(w.items) : p # s =>
  /\ p \in w.slots => p \in w2.slots
  /\ \A m \in 1 .. Len(w.pending) :
       w.pending[m] = p => \E m_1 \in 1 .. Len(w2.pending) : w2.pending[m_1] = p

OnlyRef(w, w2, s, off) ==
  /\ Slots(w2.items) = Slots(w.items)
  /\ \A p \in Slots(w.items) :
       /\ HashOf(w2.items, p) = HashOf(w.items, p)
       /\ RefOf(w2.items, p) = IF p = s THEN off ELSE RefOf(w.items, p)

LEMMA RefPut ==
  ASSUME NEW w, WorkFits(w), w.call = "put_batch", NEW s \in Slots(w.items), NEW off,
         NEW w2,
         w2 \in WorkAs(w.call, PutRef(w.items, s, off), w2.slots, w2.pending, w.done),
         w2.slots \subseteq Slots(w.items), w2.pending \in Seq(Slots(w.items))
  PROVE  /\ WorkFits(w2) /\ OnlyRef(w, w2, s, off) /\ w2.call = w.call
         /\ w.done < Len(w.items) => w2.done < Len(w2.items)
<1> DEFINE items == w.items
           new == PutRef(items, s, off)
<1>1. /\ Len(items) \in Nat /\ items = [i \in 1 .. Len(items) |-> items[i]]
      /\ \A i \in 1 .. Len(items) : ItemFits(items[i])
      /\ s \in Slots(items)
  BY DEF WorkFits, BatchFits
<1> HIDE DEF items
<1>2. /\ Len(new) = Len(items) /\ new = [i \in 1 .. Len(items) |-> new[i]]
      /\ \A i \in 1 .. Len(items) : ItemFits(new[i]) /\ new[i].value = items[i].value
      /\ Slots(new) = Slots(items)
      /\ \A p \in Slots(items) :
           new[p[1]].refs[p[2]] = IF p = s THEN off ELSE items[p[1]].refs[p[2]]
  BY <1>1, PutRefFits
<1> HIDE DEF new
<1>3. /\ w2.call = w.call /\ w2.items = new /\ w2.done = w.done
      /\ w2 \in WorkAs(w2.call, w2.items, w2.slots, w2.pending, w2.done)
  BY DEF WorkAs, new, items
<1>4. WorkFits(w2)
  BY <1>1, <1>2, <1>3 DEF WorkFits, BatchFits, items
<1>5. \A p \in Slots(items) : /\ HashOf(new, p) = HashOf(items, p)
                              /\ RefOf(new, p) = IF p = s THEN off ELSE RefOf(items, p)
  <2> TAKE p \in Slots(items)
  <2>1. p[1] \in 1 .. Len(items)
    BY <1>1, SlotPlace
  <2> QED BY <1>2, <2>1 DEF HashOf, RefOf
<1> QED BY <1>2, <1>3, <1>4, <1>5 DEF items, OnlyRef

LEMMA RefPlaced ==
  ASSUME NEW intact \in BOOLEAN, NEW l, NEW w, NEW w2, Gathered(intact, l, w),
         NEW s \in Slots(w.items), NEW off \in Nat,
         Leads(intact, l, Len(l), HashOf(w.items, s), off),
         OnlyRef(w, w2, s, off), OthersStay(w, w2, s)
  PROVE  Gathered(intact, l, w2)
<1> SUFFICES ASSUME NEW p \in Slots(w.items)
             PROVE  \/ p \in w2.slots
                    \/ \E m \in 1 .. Len(w2.pending) : w2.pending[m] = p
                    \/ Placed(intact, l, w2.items, p)
  BY DEF Gathered, OnlyRef
<1>1. CASE p = s
  BY <1>1 DEF Placed, OnlyRef
<1>2. CASE p # s
  <2>1. Placed(intact, l, w.items, p) => Placed(intact, l, w2.items, p)
    BY <1>2 DEF Placed, OnlyRef
  <2> QED BY <1>2, <2>1 DEF Gathered, OthersStay
<1> QED BY <1>1, <1>2

LEMMA BatchAddRefKeeps ==
  ASSUME NEW intact \in BOOLEAN, Fits, Sound(intact), NEW t \in Threads, BatchAddRef(t)
  PROVE  Fits' /\ Sound(intact)'
<1> DEFINE w == work[t]
           s == FirstOf(w.slots)
           off == arg[t].off
           w2 == [WithRefAt(t, s, off) EXCEPT !.slots = @ \ {s}]
<1>0. /\ Up /\ Up' /\ pc[t] = "batch_add_ref" /\ log' = log /\ durable' = durable
      /\ toc' = toc /\ past' = past /\ pc' = [pc EXCEPT ![t] = "batch_lookup"]
      /\ store' = AddRef(store, HashOf(w.items, s)) /\ arg' = [arg EXCEPT ![t] = arg[t]]
      /\ work' = [work EXCEPT ![t] = w2] /\ arg[t] \in ArgType
  BY BulkFacts DEF BatchAddRef, At, Up, Goto, Work, disk, history, HashAt, HashOf
<1>1. /\ WorkFits(w) /\ PlaceFits(t, "batch_add_ref", w) /\ w.call = "put_batch"
      /\ w.slots # {} /\ Gathered(intact, log, w) /\ off \in Nat
      /\ Leads(intact, log, Len(log), HashOf(w.items, s), off)
  BY <1>0, BulkFacts DEF PlaceFits, Gathering, WorkLeads
<1>2. s \in w.slots /\ s \in Slots(w.items) /\ HashOf(w.items, s) \in Hash
  BY <1>1, NextSlot
<1>3. w2 \in WorkAs(w.call, PutRef(w.items, s, off), w.slots \ {s}, w.pending, w.done)
  <2>1. w \in WorkAs(w.call, w.items, w.slots, w.pending, w.done)
    BY <1>1 DEF WorkFits
  <2>2. w2 = [[w EXCEPT !.items[s[1]].refs[s[2]] = off] EXCEPT !.slots = @ \ {s}]
    BY DEF WithRefAt
  <2> HIDE DEF w, w2, s, off
  <2> QED BY <2>1, <2>2 DEF WorkAs, PutRef
<1> HIDE DEF w, w2, s, off
<1>4. /\ w2.slots = w.slots \ {s} /\ w2.pending = w.pending
      /\ w2 \in WorkAs(w.call, PutRef(w.items, s, off), w2.slots, w2.pending, w.done)
  BY <1>3 DEF WorkAs
<1>5. /\ WorkFits(w2) /\ Gathered(intact, log, w2)
      /\ w2.call = w.call /\ (w.done < Len(w.items) => w2.done < Len(w2.items))
  <2>1. w2.slots \subseteq Slots(w.items) /\ w2.pending \in Seq(Slots(w.items))
    BY <1>1, <1>4 DEF WorkFits, BatchFits
  <2>2. OthersStay(w, w2, s)
    BY <1>4 DEF OthersStay
  <2>3. /\ WorkFits(w2) /\ OnlyRef(w, w2, s, off) /\ w2.call = w.call
        /\ w.done < Len(w.items) => w2.done < Len(w2.items)
    BY <1>1, <1>2, <1>4, <2>1, RefPut
  <2>4. Gathered(intact, log, w2)
    BY <1>1, <1>2, <2>2, <2>3, RefPlaced
  <2> QED BY <2>3, <2>4
<1>6. PlaceFits(t, "batch_lookup", w2)
  BY <1>1, <1>5 DEF PlaceFits, Gathering, Publishing, Recording
<1>7. WorkLeads(intact, log, "batch_lookup", w2, arg[t].off)
  BY <1>5 DEF WorkLeads, Recording, Publishing
<1>8. /\ toc' \in Seq(EntryType) /\ TocLeads(intact, log', Len(log'), toc')
      /\ past' \in Pasts /\ StoreLeads(intact)'
  BY <1>0, <1>2, BulkFacts, SameFile, AddRefLeads
<1>9. "batch_lookup" \in Free
  BY DEF Free, BulkLabels
<1> QED BY <1>0, <1>5, <1>6, <1>7, <1>8, <1>9, BulkMemoryStep

(* The chunk that the batch records next.                                   *)
LEMMA NextPending ==
  ASSUME NEW intact \in BOOLEAN, Fits, Sound(intact), NEW t \in Threads,
         pc[t] \in Recording
  PROVE  LET w == work[t]
             s == Head(w.pending)
         IN  /\ WorkFits(w) /\ w.call = "put_batch" /\ w.slots = {}
             /\ w.pending \in Seq(Slots(w.items)) /\ w.pending # <<>>
             /\ Gathered(intact, log, w) /\ w.done < Len(w.items)
             /\ s \in Slots(w.items) /\ HashOf(w.items, s) \in Hash
             /\ arg[t].off \in Nat
             /\ Leads(intact, log, Len(log), HashOf(w.items, s), arg[t].off)
             /\ \A m \in 1 .. Len(w.pending) :
                  Leads(intact, log, Len(log), HashOf(w.items, w.pending[m]),
                        arg[t].off + (m - 1))
<1> DEFINE w == work[t]
           s == Head(w.pending)
<1>1. pc[t] \in Gathering
  BY DEF Recording, Gathering
<1>2. /\ WorkFits(w) /\ w.call = "put_batch" /\ w.slots = {} /\ w.pending # <<>>
      /\ Gathered(intact, log, w) /\ w.done < Len(w.items) /\ arg[t].off \in Nat
      /\ \A m \in 1 .. Len(w.pending) :
           Leads(intact, log, Len(log), HashOf(w.items, w.pending[m]), arg[t].off + (m - 1))
  BY <1>1, BulkFacts DEF PlaceFits, WorkLeads
<1>3. /\ w.pending \in Seq(Slots(w.items)) /\ Len(w.items) \in Nat
      /\ w.items = [i \in 1 .. Len(w.items) |-> w.items[i]]
      /\ \A i \in 1 .. Len(w.items) : ItemFits(w.items[i])
  BY <1>2 DEF WorkFits, BatchFits
<1> HIDE DEF w
<1>4. s \in Slots(w.items) /\ s = w.pending[1] /\ 1 \in 1 .. Len(w.pending)
  BY <1>2, <1>3
<1>5. HashOf(w.items, s) \in Hash
  BY <1>3, <1>4, SlotPlace DEF HashOf
<1>6. Leads(intact, log, Len(log), HashOf(w.items, s), arg[t].off)
  BY <1>2, <1>4
<1> QED BY <1>2, <1>3, <1>4, <1>5, <1>6 DEF w

LEMMA BatchContainsKeeps ==
  ASSUME NEW intact \in BOOLEAN, Fits, Sound(intact), NEW t \in Threads,
         BatchContains(t)
  PROVE  Fits' /\ Sound(intact)'
<1>1. PICK label \in {"batch_record", "batch_insert"} : pc' = [pc EXCEPT ![t] = label]
  BY DEF BatchContains, Goto
<1>2. /\ Up /\ pc[t] = "batch_contains" /\ UNCHANGED <<disk, toc, store, status, past>>
      /\ arg' = [arg EXCEPT ![t] = arg[t]] /\ work' = [work EXCEPT ![t] = work[t]]
      /\ arg[t] \in ArgType /\ label \in Free
  BY BulkFacts DEF BatchContains, At, memory, history, Free, BulkLabels
<1>3. /\ WorkFits(work[t]) /\ PlaceFits(t, "batch_contains", work[t])
      /\ WorkLeads(intact, log, "batch_contains", work[t], arg[t].off)
  BY <1>2, BulkFacts
<1>4. /\ PlaceFits(t, label, work[t]) /\ WorkLeads(intact, log, label, work[t], arg[t].off)
  BY <1>3 DEF PlaceFits, WorkLeads, Gathering, Recording, Publishing
<1> QED BY <1>1, <1>2, <1>3, <1>4, BulkLocalStep

LEMMA BatchInsertKeeps ==
  ASSUME NEW intact \in BOOLEAN, Fits, Sound(intact), NEW t \in Threads, BatchInsert(t)
  PROVE  Fits' /\ Sound(intact)'
<1> DEFINE h == HashOf(work[t].items, Head(work[t].pending))
<1>1. /\ Up /\ Up' /\ pc[t] = "batch_insert" /\ pc' = [pc EXCEPT ![t] = "batch_record"]
      /\ log' = log /\ durable' = durable /\ toc' = toc /\ past' = past
      /\ store' = StoreInsert(store, h, arg[t].off)
      /\ arg' = [arg EXCEPT ![t] = arg[t]] /\ work' = [work EXCEPT ![t] = work[t]]
      /\ arg[t] \in ArgType /\ "batch_record" \in Free
  BY BulkFacts DEF BatchInsert, At, Up, Goto, disk, history, HashAt, HashOf, Free, BulkLabels
<1>2. /\ WorkFits(work[t]) /\ PlaceFits(t, "batch_insert", work[t])
      /\ WorkLeads(intact, log, "batch_insert", work[t], arg[t].off)
  BY <1>1, BulkFacts
<1>3. /\ PlaceFits(t, "batch_record", work[t])
      /\ WorkLeads(intact, log, "batch_record", work[t], arg[t].off)
  BY <1>2 DEF PlaceFits, WorkLeads, Gathering, Recording, Publishing
<1>4. h \in Hash /\ arg[t].off \in Nat /\ Leads(intact, log, Len(log), h, arg[t].off)
  BY <1>1, NextPending DEF Recording
<1> HIDE DEF h
<1>5. StoreLeads(intact)'
  BY <1>1, <1>4, BulkFacts, InsertLeads
<1>6. toc' \in Seq(EntryType) /\ TocLeads(intact, log', Len(log'), toc') /\ past' \in Pasts
  BY <1>1, BulkFacts, SameFile
<1> QED BY <1>1, <1>2, <1>3, <1>5, <1>6, BulkMemoryStep

LEMMA BatchRecordKeeps ==
  ASSUME NEW intact \in BOOLEAN, Fits, Sound(intact), NEW t \in Threads, BatchRecord(t)
  PROVE  Fits' /\ Sound(intact)'
<1> DEFINE w == work[t]
           s == Head(w.pending)
           off == arg[t].off
           left == Tail(w.pending)
           w2 == [WithRefAt(t, s, off) EXCEPT !.pending = left]
           new == [arg[t] EXCEPT !.off = @ + 1]
           label == IF left = <<>> THEN "batch_index" ELSE "batch_contains"
<1>0. /\ Up /\ pc[t] = "batch_record" /\ UNCHANGED <<disk, toc, store, status, past>>
      /\ pc' = [pc EXCEPT ![t] = label] /\ arg' = [arg EXCEPT ![t] = new]
      /\ work' = [work EXCEPT ![t] = w2] /\ label \in Free
  BY DEF BatchRecord, At, Up, Goto, Work, Set, history, Free, BulkLabels
<1>1. /\ WorkFits(w) /\ w.call = "put_batch" /\ w.slots = {}
      /\ w.pending \in Seq(Slots(w.items)) /\ w.pending # <<>>
      /\ Gathered(intact, log, w) /\ w.done < Len(w.items)
      /\ s \in Slots(w.items) /\ off \in Nat
      /\ Leads(intact, log, Len(log), HashOf(w.items, s), off)
      /\ \A m \in 1 .. Len(w.pending) :
           Leads(intact, log, Len(log), HashOf(w.items, w.pending[m]), off + (m - 1))
  BY <1>0, NextPending DEF Recording
<1>2. new \in ArgType /\ new.off = off + 1
  <2>1. arg[t] \in ArgType /\ off + 1 \in Nat
    BY <1>1, BulkFacts
  <2> QED BY <2>1 DEF ArgType
<1>3. w2 \in WorkAs(w.call, PutRef(w.items, s, off), w.slots, left, w.done)
  <2>1. w \in WorkAs(w.call, w.items, w.slots, w.pending, w.done)
    BY <1>1 DEF WorkFits
  <2>2. w2 = [[w EXCEPT !.items[s[1]].refs[s[2]] = off] EXCEPT !.pending = left]
    BY DEF WithRefAt
  <2> HIDE DEF w, w2, s, off, left
  <2> QED BY <2>1, <2>2 DEF WorkAs, PutRef
<1> HIDE DEF w, w2, off, new
<1>4. /\ w2.slots = w.slots /\ w2.pending = left
      /\ w2 \in WorkAs(w.call, PutRef(w.items, s, off), w2.slots, w2.pending, w.done)
  BY <1>3 DEF WorkAs
<1>5. /\ left \in Seq(Slots(w.items)) /\ Len(w.pending) \in Nat
      /\ Len(left) = Len(w.pending) - 1 /\ s = w.pending[1]
      /\ \A m \in 1 .. Len(left) : left[m] = w.pending[m + 1]
  <2>1. w.pending \in Seq(Slots(w.items)) /\ w.pending # <<>>
    BY <1>1
  <2> DEFINE S == Slots(w.items)
             q == w.pending
  <2> HIDE DEF S, q
  <2>2. q \in Seq(S) /\ q # <<>>
    BY <2>1 DEF S, q
  <2>3. /\ Tail(q) \in Seq(S) /\ Len(Tail(q)) = Len(q) - 1
        /\ \A m \in 1 .. Len(Tail(q)) : Tail(q)[m] = q[m + 1]
    BY <2>2, HeadTailProperties
  <2>4. Len(q) \in Nat /\ Head(q) = q[1]
    BY <2>2
  <2> QED BY <2>3, <2>4 DEF S, q
<1> HIDE DEF s, left
<1>6. /\ WorkFits(w2) /\ Gathered(intact, log, w2)
      /\ w2.call = w.call /\ (w.done < Len(w.items) => w2.done < Len(w2.items))
      /\ \A p \in Slots(w.items) : HashOf(w2.items, p) = HashOf(w.items, p)
  <2>1. w2.slots \subseteq Slots(w.items) /\ w2.pending \in Seq(Slots(w.items))
    BY <1>1, <1>4, <1>5
  <2>2. OthersStay(w, w2, s)
    <3> SUFFICES ASSUME NEW p \in Slots(w.items), p # s,
                        NEW m \in 1 .. Len(w.pending), w.pending[m] = p
                 PROVE  \E m_1 \in 1 .. Len(w2.pending) : w2.pending[m_1] = p
      BY <1>1 DEF OthersStay
    <3>1. m - 1 \in 1 .. Len(left) /\ left[m - 1] = w.pending[(m - 1) + 1]
      BY <1>5
    <3>2. left[m - 1] = p
      BY <1>5, <3>1
    <3> QED BY <1>4, <3>1, <3>2
  <2>3. /\ WorkFits(w2) /\ OnlyRef(w, w2, s, off) /\ w2.call = w.call
        /\ w.done < Len(w.items) => w2.done < Len(w2.items)
    BY <1>1, <1>4, <2>1, RefPut
  <2>4. Gathered(intact, log, w2)
    BY <1>1, <2>2, <2>3, RefPlaced
  <2> QED BY <2>3, <2>4 DEF OnlyRef
<1>7. CASE left = <<>>
  <2>1. PlaceFits(t, label, w2)
    BY <1>1, <1>6, <1>7 DEF PlaceFits, Gathering, Publishing, Recording
  <2>2. WorkLeads(intact, log, label, w2, new.off)
    BY <1>1, <1>4, <1>6, <1>7 DEF WorkLeads, Recording, Publishing
  <2> QED BY <1>0, <1>2, <1>6, <2>1, <2>2, BulkLocalStep
<1>8. CASE left # <<>>
  <2>1. PlaceFits(t, label, w2)
    BY <1>1, <1>4, <1>6, <1>8 DEF PlaceFits, Gathering, Publishing, Recording
  <2>2. ASSUME NEW m \in 1 .. Len(w2.pending)
        PROVE  Leads(intact, log, Len(log), HashOf(w2.items, w2.pending[m]),
                     new.off + (m - 1))
    <3>1. m \in 1 .. Len(left) /\ m + 1 \in 1 .. Len(w.pending)
      BY <1>4, <1>5, <2>2
    <3>2. w2.pending[m] = w.pending[m + 1] /\ left[m] \in Slots(w.items)
      BY <1>4, <1>5, <3>1
    <3>3. HashOf(w2.items, w2.pending[m]) = HashOf(w.items, w.pending[m + 1])
      BY <1>4, <1>6, <3>2
    <3>4. new.off + (m - 1) = off + ((m + 1) - 1)
      BY <1>1, <1>2, <3>1
    <3>5. Leads(intact, log, Len(log), HashOf(w.items, w.pending[m + 1]),
                off + ((m + 1) - 1))
      BY <1>1, <3>1
    <3> QED BY <3>3, <3>4, <3>5
  <2>3. WorkLeads(intact, log, label, w2, new.off)
    BY <1>1, <1>4, <1>6, <1>8, <2>2 DEF WorkLeads, Recording, Publishing
  <2> QED BY <1>0, <1>2, <1>6, <2>1, <2>3, BulkLocalStep
<1> QED BY <1>7, <1>8

(* Chunks that are appended in one write.                                   *)
LEMMA ChunksAppended ==
  ASSUME NEW intact \in BOOLEAN, IInv(intact), NEW n \in Nat,
         NEW hashes \in [1 .. n -> Hash],
         log' = log \o [i \in 1 .. n |-> Chunk(hashes[i])]
  PROVE  /\ log' \in Seq(Block) /\ Grows /\ BlocksLead(intact)' /\ Len(log') = Len(log) + n
         /\ \A m \in 1 .. n : Leads(intact, log', Len(log'), hashes[m], Len(log) + (m - 1))
<1> DEFINE chunks == [i \in 1 .. n |-> Chunk(hashes[i])]
<1>0. log \in Seq(Block) /\ Len(log) \in Nat
  BY DEF IInv, Types
<1>1. chunks \in [1 .. n -> Block]
  BY DEF Chunk, Block
<1>2. \A m \in 1 .. n : chunks[m] = Chunk(hashes[m])
  OBVIOUS
<1> HIDE DEF chunks
<1>3. chunks \in Seq(Block) /\ Len(chunks) = n
  BY <1>1
<1>4. /\ log' \in Seq(Block) /\ Len(log') = Len(log) + n
      /\ \A i \in 1 .. Len(log) : log'[i] = log[i]
      /\ \A m \in 1 .. n : log'[Len(log) + m] = chunks[m]
  <2>1. log' = log \o chunks
    BY DEF chunks
  <2>2. /\ log' \in Seq(Block) /\ Len(log') = Len(log) + n
    BY <1>0, <1>3, <2>1, ConcatProperties
  <2>3. \A i \in 1 .. Len(log) : log'[i] = log[i]
    BY <1>0, <1>3, <2>1
  <2>4. ASSUME NEW m \in 1 .. n PROVE log'[Len(log) + m] = chunks[m]
    <3>1. /\ Len(log) + m \in 1 .. Len(log) + n /\ ~(Len(log) + m <= Len(log))
          /\ (Len(log) + m) - Len(log) = m
      BY <1>0
    <3>2. (log \o chunks)[Len(log) + m] = chunks[(Len(log) + m) - Len(log)]
      BY <1>0, <1>3, <3>1, ConcatProperties
    <3> QED BY <2>1, <3>1, <3>2
  <2> QED BY <2>2, <2>3, <2>4
<1>5. Grows
  BY <1>0, <1>4 DEF Grows
<1>6. BlocksLead(intact)'
  <2> SUFFICES ASSUME NEW i \in 1 .. Len(log'), log'[i].kind = "checkpoint"
               PROVE  BlockLeads(intact, i)'
    BY DEF BlocksLead
  <2>1. i \in 1 .. Len(log)
    <3> SUFFICES ASSUME i \notin 1 .. Len(log) PROVE FALSE
      OBVIOUS
    <3>1. i - Len(log) \in 1 .. n /\ i = Len(log) + (i - Len(log))
      BY <1>0, <1>4
    <3>2. log'[i] = Chunk(hashes[i - Len(log)])
      BY <1>2, <1>4, <3>1
    <3> QED BY <3>2 DEF Chunk
  <2>2. /\ log'[i] = log[i] /\ log[i] \in Block /\ i \in Nat /\ i <= i
        /\ \A j \in 1 .. i : log'[j] = log[j]
    BY <1>0, <1>4, <2>1
  <2>3. BlockLeads(intact, i) /\ log[i].toc \in Seq(EntryType)
    BY <2>1, <2>2 DEF IInv, BlocksLead, Block
  <2>4. TocLeads(intact, log', i, log[i].toc)
    <3>1. TocLeads(intact, log, i, log[i].toc)
      BY <2>3 DEF BlockLeads
    <3> DEFINE entries == log[i].toc
    <3> HIDE DEF entries
    <3>2. TocLeads(intact, log, i, entries) /\ entries \in Seq(EntryType)
      BY <2>3, <3>1 DEF entries
    <3>3. TocLeads(intact, log', i, entries)
      BY <2>2, <3>2, TocGrows
    <3> QED BY <3>3 DEF entries
  <2> QED BY <2>2, <2>3, <2>4 DEF BlockLeads
<1>7. ASSUME NEW m \in 1 .. n
      PROVE  Leads(intact, log', Len(log'), hashes[m], Len(log) + (m - 1))
  <2>1. (Len(log) + (m - 1)) + 1 = Len(log) + m /\ Len(log) + (m - 1) < Len(log')
    BY <1>0, <1>4
  <2> QED BY <1>2, <1>4, <2>1 DEF Leads
<1> QED BY <1>4, <1>5, <1>6, <1>7

LEMMA BatchAppendKeeps ==
  ASSUME NEW intact \in BOOLEAN, Fits, Sound(intact), NEW t \in Threads, BatchAppend(t)
  PROVE  Fits' /\ Sound(intact)'
<1> DEFINE w == work[t]
           n == Len(w.pending)
           hashes == [m \in 1 .. n |-> HashOf(w.items, w.pending[m])]
           new == [arg[t] EXCEPT !.off = Len(log)]
           label == IF w.pending = <<>> THEN "batch_index" ELSE "batch_contains"
<1>0. /\ Up /\ Up' /\ pc[t] = "batch_lookup" /\ w.slots = {}
      /\ log' = log \o [m \in DOMAIN w.pending |-> Chunk(HashOf(w.items, w.pending[m]))]
      /\ toc' = toc /\ store' = store /\ past' = past /\ durable' = durable
      /\ pc' = [pc EXCEPT ![t] = label] /\ arg' = [arg EXCEPT ![t] = new]
      /\ work' = [work EXCEPT ![t] = w] /\ label \in Free
  BY BulkFacts DEF BatchAppend, At, Up, Goto, Set, memory, history, HashAt, HashOf, Free,
                   BulkLabels
<1>1. /\ WorkFits(w) /\ w.call = "put_batch" /\ Gathered(intact, log, w)
      /\ w.done < Len(w.items) /\ w.pending \in Seq(Slots(w.items))
      /\ Len(w.items) \in Nat /\ w.items = [i \in 1 .. Len(w.items) |-> w.items[i]]
      /\ \A i \in 1 .. Len(w.items) : ItemFits(w.items[i])
  BY <1>0, BulkFacts DEF PlaceFits, Gathering, WorkLeads, WorkFits, BatchFits
<1>2. /\ new \in ArgType /\ new.off = Len(log) /\ Len(log) \in Nat
      /\ IInv(intact) /\ log \in Seq(Block) /\ durable \in Nat
  BY ZenonT(60), BulkFacts DEF ArgType
<1> HIDE DEF w, new
<1>3. n \in Nat /\ DOMAIN w.pending = 1 .. n
  BY <1>1
<1>4. hashes \in [1 .. n -> Hash]
  <2> SUFFICES ASSUME NEW m \in 1 .. n PROVE HashOf(w.items, w.pending[m]) \in Hash
    OBVIOUS
  <2>1. w.pending[m] \in Slots(w.items)
    BY <1>1
  <2> QED BY <1>1, <2>1, SlotPlace DEF HashOf
<1>5. log' = log \o [m \in 1 .. n |-> Chunk(hashes[m])]
  BY <1>0, <1>3
<1>6. \A m \in 1 .. n : hashes[m] = HashOf(w.items, w.pending[m])
  OBVIOUS
<1> HIDE DEF hashes, n
<1>7. /\ log' \in Seq(Block) /\ Grows /\ BlocksLead(intact)'
      /\ \A m \in 1 .. n : Leads(intact, log', Len(log'), hashes[m], Len(log) + (m - 1))
  BY <1>2, <1>3, <1>4, <1>5, ChunksAppended
<1>8. Holds(intact)'
  <2>1. /\ toc' \in Seq(EntryType) /\ TocLeads(intact, log', Len(log'), toc') /\ past' \in Pasts
        /\ StoreLeads(intact)'
    BY <1>0, <1>2, <1>7, TocKeeps, StoreKeeps DEF IInv, Types
  <2>2. ThreadLeads(intact, t)' /\ label \in Points
    BY <1>0, FreePoint
  <2>3. IInv(intact)'
    BY <1>0, <1>2, <1>7, <2>1, <2>2, GrowStep
  <2> QED BY <1>0, <1>2, <2>3 DEF Holds
<1>9. PlaceFits(t, label, w)
  BY <1>1 DEF PlaceFits, Gathering, Publishing, Recording
<1>10. Gathered(intact, log', w)
  <2>1. WorkLeads(intact, log, "batch_lookup", w, Len(log)) /\ PlaceFits(t, "batch_lookup", w)
    BY <1>1 DEF WorkLeads, PlaceFits, Gathering, Publishing, Recording
  <2>2. WorkLeads(intact, log', "batch_lookup", w, Len(log))
    BY <1>1, <1>2, <1>7, <2>1, WorkGrows DEF Grows
  <2> QED BY <1>1, <2>2 DEF WorkLeads
<1>11. WorkLeads(intact, log', label, w, new.off)
  BY <1>0, <1>2, <1>6, <1>7, <1>10 DEF WorkLeads, Recording, Publishing, n
<1> QED BY <1>0, <1>1, <1>2, <1>7, <1>8, <1>9, <1>11, BulkStep

LEMMA BatchIndexKeeps ==
  ASSUME NEW intact \in BOOLEAN, Fits, Sound(intact), NEW t \in Threads, BatchIndex(t)
  PROVE  Fits' /\ Sound(intact)'
<1>1. /\ Up /\ pc[t] = "batch_index" /\ UNCHANGED <<disk, toc, store, status, past>>
      /\ arg' = [arg EXCEPT ![t] = arg[t]] /\ work' = [work EXCEPT ![t] = work[t]]
      /\ pc' = [pc EXCEPT ![t] = "batch_chain"]
      /\ arg[t] \in ArgType /\ "batch_chain" \in Free
  BY BulkFacts DEF BatchIndex, At, Goto, history, Free, BulkLabels
<1>2. /\ WorkFits(work[t]) /\ PlaceFits(t, "batch_index", work[t])
      /\ WorkLeads(intact, log, "batch_index", work[t], arg[t].off)
  BY <1>1, BulkFacts
<1>3. /\ PlaceFits(t, "batch_chain", work[t])
      /\ WorkLeads(intact, log, "batch_chain", work[t], arg[t].off)
  BY <1>2 DEF PlaceFits, WorkLeads, Gathering, Recording, Publishing
<1> QED BY <1>1, <1>2, <1>3, BulkLocalStep

LEMMA BatchChainKeeps ==
  ASSUME NEW intact \in BOOLEAN, Fits, Sound(intact), NEW t \in Threads, BatchChain(t)
  PROVE  Fits' /\ Sound(intact)'
<1> DEFINE w == work[t]
           w2 == [w EXCEPT !.done = @ + 1]
           label == IF w2.done = Len(w.items) THEN "batch_toc" ELSE "batch_index"
<1>0. /\ Up /\ Up' /\ pc[t] = "batch_chain"
      /\ log' = log /\ durable' = durable /\ toc' = toc /\ past' = past
      /\ \E dropped : store' = ReleaseAll(store, dropped)
      /\ arg' = [arg EXCEPT ![t] = arg[t]] /\ work' = [work EXCEPT ![t] = w2]
      /\ arg[t] \in ArgType /\ label \in Free
  BY BulkFacts DEF BatchChain, At, Up, Work, disk, history, Free, BulkLabels
<1>1. pc' = [pc EXCEPT ![t] = label]
  <2>1. work'[t] = w2
    BY <1>0, BulkFacts
  <2> HIDE DEF w2
  <2> QED BY <2>1 DEF BatchChain, Goto
<1>2. /\ WorkFits(w) /\ w.call = "put_batch" /\ w.done < Len(w.items)
      /\ WorkLeads(intact, log, "batch_chain", w, arg[t].off)
  BY <1>0, BulkFacts DEF PlaceFits, Gathering, Publishing
<1> HIDE DEF w
<1>3. /\ w2 \in WorkAs(w2.call, w2.items, w2.slots, w2.pending, w2.done)
      /\ w2.call = w.call /\ w2.items = w.items /\ w2.slots = w.slots
      /\ w2.pending = w.pending /\ w2.done = w.done + 1
  BY <1>2 DEF WorkFits, WorkAs
<1> HIDE DEF w2
<1>4. Len(w.items) \in Nat /\ w.done \in 0 .. Len(w.items)
  BY <1>2 DEF WorkFits
<1>5. WorkFits(w2)
  <2>1. w2.done \in 0 .. Len(w2.items)
    BY <1>2, <1>3, <1>4
  <2> QED BY <1>2, <1>3, <2>1 DEF WorkFits, BatchFits
<1>6. PlaceFits(t, label, w2)
  <2>1. label = "batch_index" => w2.done < Len(w2.items)
    BY <1>2, <1>3, <1>4
  <2>2. label \in {"batch_index", "batch_toc"}
    OBVIOUS
  <2> HIDE DEF label
  <2> QED BY <1>2, <1>3, <2>1, <2>2 DEF PlaceFits, Gathering, Publishing, Recording
<1>7. WorkLeads(intact, log, label, w2, arg[t].off)
  BY <1>2, <1>3 DEF WorkLeads, Gathered, Recording, Publishing
<1>8. /\ toc' \in Seq(EntryType) /\ TocLeads(intact, log', Len(log'), toc') /\ past' \in Pasts
      /\ StoreLeads(intact)'
  BY <1>0, BulkFacts, SameFile, ReleaseLeads
<1> HIDE DEF label
<1> QED BY <1>0, <1>1, <1>5, <1>6, <1>7, <1>8, BulkMemoryStep

(* What a batch makes of the map that the calls asked for.                  *)
LEMMA OverwrittenType ==
  ASSUME NEW map \in Map, NEW items, Len(items) \in Nat,
         items = [i \in 1 .. Len(items) |-> items[i]],
         \A i \in 1 .. Len(items) : items[i].value \in Contents
  PROVE  Overwritten(map, items) \in Map
<1> SUFFICES ASSUME NEW k \in Key, Positions(items, k) # {}
             PROVE  items[Max(Positions(items, k))].value \in Contents
  BY DEF Overwritten, Map
<1>1. Positions(items, k) \in SUBSET (1 .. Len(items))
  BY DEF Positions
<1>2. Max(Positions(items, k)) \in Positions(items, k)
  BY <1>1, MaxOf, Zenon
<1> QED BY <1>1, <1>2

(* A complete batch's entry leads to its chunks.                            *)
LEMMA EntryPlaced ==
  ASSUME NEW intact \in BOOLEAN, NEW w, WorkFits(w), w.call = "put_batch",
         Gathered(intact, log, w),
         w.slots = {}, w.pending = <<>>, NEW i \in 1 .. Len(w.items)
  PROVE  LET e == NewEntry(w.items[i].key, w.items[i].value, w.items[i].refs)
         IN  e \in EntryType /\ AllLead(intact, log, Len(log), e)
<1> DEFINE item == w.items[i]
           e == NewEntry(item.key, item.value, item.refs)
           n == Len(item.value)
<1>1. /\ ItemFits(item) /\ Len(w.items) \in Nat
      /\ w.items = [j \in 1 .. Len(w.items) |-> w.items[j]]
  BY DEF WorkFits, BatchFits
<1>2. /\ item.key \in Key /\ item.value \in Contents /\ n \in Nat
      /\ DOMAIN item.value = 1 .. n /\ item.refs = [j \in 1 .. n |-> item.refs[j]]
  BY <1>1, ValueLen DEF ItemFits
<1>3. ASSUME NEW j \in 1 .. n
      PROVE  item.refs[j] \in Nat /\ Leads(intact, log, Len(log), item.value[j], item.refs[j])
  <2>1. <<i, j>> \in Slots(w.items)
    <3>1. i \in DOMAIN w.items /\ j \in DOMAIN w.items[i].value
      BY <1>1, <1>2
    <3>2. <<i, j>> \in {i} \X DOMAIN w.items[i].value
      BY <3>1
    <3> QED BY <3>1, <3>2 DEF Slots
  <2>2. Placed(intact, log, w.items, <<i, j>>)
    <3>1. ~\E m \in 1 .. Len(w.pending) : w.pending[m] = <<i, j>>
      BY EmptySeq
    <3> QED BY <2>1, <3>1 DEF Gathered
  <2> QED BY <2>2 DEF Placed, HashOf, RefOf
<1> DEFINE r == item.refs
           v == item.value
<1>4. e.refs = r /\ e.value = v /\ e = [key |-> item.key, value |-> v, refs |-> r, dead |-> FALSE]
  BY DEF NewEntry
<1>5. r \in Seq(Nat) /\ Len(r) = n
  <2> HIDE DEF r, n
  <2>1. r \in [1 .. n -> Nat]
    BY <1>2, <1>3 DEF r
  <2> QED BY <1>2, <2>1
<1>6. PartLeads(intact, log, Len(log), v, r) /\ Len(r) = Len(v)
  <2>1. Len(r) = Len(v) /\ Len(v) \in Nat
    BY <1>2, <1>5
  <2> QED BY <1>3, <1>5, <2>1 DEF PartLeads
<1> HIDE DEF item, r, v, e
<1>7. e \in EntryType
  BY <1>2, <1>4, <1>5 DEF EntryType, v
<1>8. AllLead(intact, log, Len(log), e)
  BY <1>4, <1>6 DEF AllLead
<1> QED BY <1>7, <1>8 DEF e, item

LEMMA BatchTocKeeps ==
  ASSUME NEW intact \in BOOLEAN, Fits, Sound(intact), NEW t \in Threads, BatchToc(t)
  PROVE  Fits' /\ Sound(intact)'
<1> DEFINE w == work[t]
           items == w.items
           n == Len(items)
           es == [i \in 1 .. n |-> NewEntry(items[i].key, items[i].value, items[i].refs)]
<1>0. /\ Up /\ Up' /\ pc[t] = "batch_toc"
      /\ log' = log /\ durable' = durable /\ store' = store
      /\ toc' = toc \o [i \in DOMAIN items |->
                          NewEntry(items[i].key, items[i].value, items[i].refs)]
      /\ past' = Append(past, Overwritten(past[Len(past)], items))
      /\ arg' = [arg EXCEPT ![t] = arg[t]] /\ work' = [work EXCEPT ![t] = NoWork]
      /\ pc' = [pc EXCEPT ![t] = "put_should_checkpoint"]
      /\ arg[t] \in ArgType
  BY BulkFacts DEF BatchToc, At, Up, Goto, Work, disk
<1>1. /\ WorkFits(w) /\ w.call = "put_batch" /\ Gathered(intact, log, w) /\ w.slots = {}
      /\ w.pending = <<>>
  BY <1>0, BulkFacts DEF PlaceFits, WorkLeads, Publishing
<1>2. /\ n \in Nat /\ items = [i \in 1 .. n |-> items[i]] /\ DOMAIN items = 1 .. n
      /\ \A i \in 1 .. n : ItemFits(items[i])
  BY <1>1 DEF WorkFits, BatchFits
<1>3. \A i \in 1 .. n : es[i] \in EntryType /\ AllLead(intact, log, Len(log), es[i])
  <2> TAKE i \in 1 .. n
  <2>1. es[i] = NewEntry(items[i].key, items[i].value, items[i].refs)
    OBVIOUS
  <2> HIDE DEF es, w
  <2> QED BY <1>1, <2>1, EntryPlaced
<1>4. toc \in Seq(EntryType) /\ past \in Pasts /\ IInv(intact)
  BY BulkFacts
<1>5. toc' = toc \o es
  BY <1>0, <1>2
<1>6. es = [i \in 1 .. n |-> es[i]]
  OBVIOUS
<1> HIDE DEF items, es, n
<1>7. es \in Seq(EntryType) /\ Len(es) = n
  <2>1. es \in [1 .. n -> EntryType]
    BY <1>3, <1>6
  <2> QED BY <1>2, <2>1
<1>8. toc' \in Seq(EntryType) /\ TocLeads(intact, log', Len(log'), toc')
  <2>1. /\ toc' \in Seq(EntryType) /\ Len(toc') = Len(toc) + n /\ Len(toc) \in Nat
        /\ \A i \in 1 .. Len(toc) + n :
             toc'[i] = IF i <= Len(toc) THEN toc[i] ELSE es[i - Len(toc)]
    BY <1>4, <1>5, <1>7, ConcatProperties, LenProperties
  <2>2. ASSUME NEW i \in 1 .. Len(toc') PROVE AllLead(intact, log, Len(log), toc'[i])
    <3>1. CASE i <= Len(toc)
      BY <1>4, <2>1, <3>1 DEF IInv, TocLeads
    <3>2. CASE ~(i <= Len(toc))
      <4>1. i - Len(toc) \in 1 .. n
        BY <1>2, <2>1, <3>2
      <4> QED BY <1>3, <2>1, <3>2, <4>1
    <3> QED BY <3>1, <3>2
  <2> QED BY <1>0, <2>1, <2>2 DEF TocLeads
<1>9. past' \in Pasts
  <2>1. past \in Seq(Map) /\ past # <<>>
    BY <1>4 DEF Pasts
  <2>2. past[Len(past)] \in Map
    BY <2>1, EmptySeq, ElementOfSeq
  <2>3. \A i \in 1 .. n : items[i].value \in Contents
    BY <1>2, ValueLen DEF ItemFits
  <2> DEFINE map == Overwritten(past[Len(past)], items)
  <2>4. map \in Map
    BY <1>2, <2>2, <2>3, OverwrittenType DEF n
  <2> HIDE DEF map
  <2>5. Append(past, map) \in Seq(Map) /\ Len(Append(past, map)) # 0
    BY <2>1, <2>4
  <2>6. Append(past, map) # <<>>
    <3>1. Len(<<>>) = 0
      OBVIOUS
    <3> QED BY <2>5, <3>1, Zenon
  <2> QED BY <1>0, <2>5, <2>6 DEF Pasts, map
<1>10. StoreLeads(intact)'
  BY <1>0, <1>4, SameFile
<1>11. /\ WorkFits(NoWork) /\ PlaceFits(t, "put_should_checkpoint", NoWork)
       /\ WorkLeads(intact, log, "put_should_checkpoint", NoWork, arg[t].off)
       /\ "put_should_checkpoint" \in Free
  <2>1. "put_should_checkpoint" \in Labels /\ NoWork.call # "put_batch"
    BY DEF Labels, NoWork
  <2> QED BY <2>1, NoWorkFits, PlainPlace DEF Free
<1> QED BY <1>0, <1>8, <1>9, <1>10, <1>11, BulkMemoryStep

LEMMA BatchKeeps ==
  ASSUME NEW intact \in BOOLEAN, Fits, Sound(intact), NEW t \in Threads, Batch(t)
  PROVE  Fits' /\ Sound(intact)'
BY BatchBeginKeeps, BatchLookupKeeps, BatchAddRefKeeps, BatchAppendKeeps, BatchContainsKeeps,
   BatchInsertKeeps, BatchRecordKeeps, BatchIndexKeeps, BatchChainKeeps, BatchTocKeeps
   DEF Batch

-----------------------------------------------------------------------------
(* compact, step by step.  What the table's references lead to is what was  *)
(* put, so what a compaction reads is tensors.                              *)
LEMMA TensorRead ==
  ASSUME NEW intact \in BOOLEAN, intact, log \in Seq(Block), NEW e \in EntryType,
         AllLead(intact, log, Len(log), e)
  PROVE  /\ ReadTensor(e) \in [key : Key, value : Contents]
         /\ ReadTensor(e) = [key |-> e.key, value |-> e.value]
<1> DEFINE v == e.value
           r == e.refs
<1>1. e.key \in Key /\ v \in Contents /\ r \in Seq(Nat)
  BY DEF EntryType
<1>2. v \in Seq(Hash)
  <2>1. <<>> \in Seq(Hash)
    OBVIOUS
  <2> QED BY <1>1, <2>1, EngineAssumption DEF Contents
<1>3. Len(r) = Len(v) /\ \A i \in 1 .. Len(r) : log[r[i] + 1] = Chunk(v[i])
  BY DEF AllLead, PartLeads, Leads
<1> HIDE DEF v, r
<1>4. DOMAIN r = 1 .. Len(v) /\ DOMAIN v = 1 .. Len(v)
  BY <1>1, <1>2, <1>3
<1>5. \A i \in 1 .. Len(v) : BlockAt(log, r[i]).hash = v[i]
  <2> TAKE i \in 1 .. Len(v)
  <2>1. log[r[i] + 1] = Chunk(v[i])
    BY <1>3
  <2> QED BY <2>1 DEF BlockAt, Chunk
<1>6. [i \in DOMAIN r |-> BlockAt(log, r[i]).hash] = v
  <2>1. [i \in DOMAIN r |-> BlockAt(log, r[i]).hash] = [i \in 1 .. Len(v) |-> v[i]]
    BY <1>4, <1>5
  <2> QED BY <1>2, <2>1
<1>7. ReadTensor(e) = [key |-> e.key, value |-> v]
  BY <1>6 DEF ReadTensor, r
<1> QED BY <1>1, <1>7 DEF v

LEMMA LiveTensorsType ==
  ASSUME NEW intact \in BOOLEAN, intact, IInv(intact)
  PROVE  LiveTensors \in Seq([key : Key, value : Contents])
<1> DEFINE S == {toc[i] : i \in DOMAIN toc}
           P == {i \in DOMAIN toc : ~toc[i].dead}
           live == Picked(toc, P)
           c == Cardinality(P)
           T == [key : Key, value : Contents]
<1>1. log \in Seq(Block) /\ toc \in Seq(EntryType) /\ TocLeads(intact, log, Len(log), toc)
  BY DEF IInv, Types
<1>2. Len(toc) \in Nat /\ DOMAIN toc = 1 .. Len(toc)
  BY <1>1
<1>3. toc \in Seq(S)
  <2>1. toc \in [1 .. Len(toc) -> S]
    BY <1>1, <1>2
  <2> HIDE DEF S
  <2> QED BY <1>2, <2>1
<1>4. P \in SUBSET DOMAIN toc
  OBVIOUS
<1>5. live \in Seq(S) /\ c \in Nat /\ Len(live) = c
  <2> HIDE DEF S, P
  <2> QED BY <1>3, <1>4, PickedType
<1> HIDE DEF c, live, P
<1>6. DOMAIN live = 1 .. c /\ \A i \in 1 .. c : live[i] \in S
  <2> HIDE DEF S
  <2> QED BY <1>5
<1>7. ASSUME NEW i \in 1 .. c
      PROVE  ReadTensor(Latest(toc, live[i].key)) \in T
  <2>1. PICK j \in 1 .. Len(toc) : live[i] = toc[j]
    BY <1>2, <1>6
  <2> DEFINE Q == Positions(toc, live[i].key)
  <2>2. Q \in SUBSET (1 .. Len(toc)) /\ Q # {}
    BY <1>2, <2>1 DEF Positions
  <2>3. Max(Q) \in Q
    BY <1>2, <2>2, MaxOf, Zenon
  <2> DEFINE m == Max(Q)
  <2>4. m \in 1 .. Len(toc) /\ Latest(toc, live[i].key) = toc[m]
    BY <2>2, <2>3 DEF Latest
  <2> HIDE DEF m, Q
  <2>5. toc[m] \in EntryType
    BY <1>1, <2>4
  <2>6. AllLead(intact, log, Len(log), toc[m])
    BY <1>1, <2>4 DEF TocLeads
  <2> QED BY <1>1, <2>4, <2>5, <2>6, TensorRead
<1> DEFINE items == [i \in 1 .. c |-> ReadTensor(Latest(toc, live[i].key))]
<1>8. LiveTensors = items
  BY <1>6 DEF LiveTensors, live, P
<1>9. items \in [1 .. c -> T]
  BY <1>7
<1> HIDE DEF items, T
<1>10. items \in Seq(T)
  BY <1>5, <1>9
<1> QED BY <1>8, <1>10 DEF T

LEMMA CompactReadKeeps ==
  ASSUME NEW intact \in BOOLEAN, Fits, Sound(intact), NEW t \in Threads, CompactRead(t),
         LiveTensors \in Seq([key : Key, value : Contents])
  PROVE  Fits' /\ Sound(intact)'
<1> DEFINE items == LiveTensors
           w == [NoWork EXCEPT !.call = "compact", !.items = items]
<1>0. /\ Up /\ pc[t] = "idle" /\ UNCHANGED <<disk, toc, store, status, past>>
      /\ arg' = [arg EXCEPT ![t] = arg[t]] /\ pc' = [pc EXCEPT ![t] = "compact_truncate"]
      /\ work' = [work EXCEPT ![t] = w]
      /\ arg[t] \in ArgType /\ "compact_truncate" \in Free /\ "compact" \in BulkOps[t]
  BY BulkFacts DEF CompactRead, At, Goto, Work, memory, history, Free, BulkLabels
<1>1. items \in Seq([key : Key, value : Contents])
  OBVIOUS
<1> HIDE DEF items
<1>2. /\ w.call = "compact" /\ w.items = items /\ w.slots = {} /\ w.pending = <<>>
      /\ w.done = 0 /\ w \in WorkAs("compact", items, {}, <<>>, 0)
  BY DEF NoWork, WorkAs
<1> HIDE DEF w
<1>3. Len(items) \in Nat /\ items = [i \in 1 .. Len(items) |-> items[i]]
  BY <1>1
<1>4. WorkFits(w)
  BY <1>1, <1>2, <1>3 DEF WorkFits
<1>5. /\ PlaceFits(t, "compact_truncate", w)
      /\ WorkLeads(intact, log, "compact_truncate", w, arg[t].off)
  BY <1>0, <1>2 DEF PlaceFits, WorkLeads, Gathering, Recording, Publishing
<1> QED BY <1>0, <1>4, <1>5, BulkLocalStep

(* The next tensor is put: the point of the thread is that of a put that    *)
(* has just begun.                                                          *)
LEMMA CompactPutKeeps ==
  ASSUME NEW intact \in BOOLEAN, Fits, Sound(intact), NEW t \in Threads, CompactPut(t)
  PROVE  Fits' /\ Sound(intact)'
<1> DEFINE w == work[t]
           items == w.items
           item == Head(items)
           left == Tail(items)
           w2 == [w EXCEPT !.items = left]
           new == [IdleArg EXCEPT !.call = "put", !.key = item.key, !.value = item.value]
           label == IF item.value = <<>> THEN "put_index" ELSE "put_lookup"
<1>0. /\ Up /\ Up' /\ w.call = "compact" /\ items # <<>>
      /\ arg' = [arg EXCEPT ![t] = new] /\ pc' = [pc EXCEPT ![t] = label]
      /\ work' = [work EXCEPT ![t] = w2]
      /\ log' = log /\ durable' = durable /\ toc' = toc /\ store' = store /\ past' = past
  BY DEF CompactPut, At, Up, Set, Goto, Work, disk, memory, history
<1>1. /\ WorkFits(w) /\ IInv(intact) /\ durable \in Nat
      /\ pc \in [Threads -> Points] /\ arg \in [Threads -> ArgType]
  BY BulkFacts
<1>2. items \in Seq([key : Key, value : Contents]) /\ w.done = 0
  BY <1>0, <1>1 DEF WorkFits
<1>3. w2 \in WorkAs(w2.call, w2.items, w2.slots, w2.pending, w2.done)
      /\ w2.call = "compact" /\ w2.items = left /\ w2.done = 0
  <2> HIDE DEF left, w
  <2>1. w \in WorkAs(w.call, w.items, w.slots, w.pending, w.done)
    BY <1>1 DEF WorkFits
  <2> QED BY <1>0, <1>2, <2>1 DEF WorkAs
<1> HIDE DEF w2
<1>4. item \in [key : Key, value : Contents] /\ left \in Seq([key : Key, value : Contents])
  <2> DEFINE T == [key : Key, value : Contents]
  <2> HIDE DEF T, items
  <2>1. items \in Seq(T)
    BY <1>2 DEF T
  <2>2. Head(items) \in T /\ Tail(items) \in Seq(T)
    BY <1>0, <2>1, HeadTailProperties
  <2> QED BY <2>2 DEF T
<1> HIDE DEF items, item, left
<1>5. WorkFits(w2)
  <2>1. Len(left) \in Nat /\ left = [i \in 1 .. Len(left) |-> left[i]]
    BY <1>4
  <2> QED BY <1>3, <1>4, <2>1 DEF WorkFits
<1>6. item.key \in Key /\ item.value \in Contents /\ item.value \in Seq(Hash)
  <2>1. <<>> \in Seq(Hash)
    OBVIOUS
  <2> QED BY <1>4, <2>1, EngineAssumption DEF Contents
<1>7. /\ new \in ArgType /\ new.refs = <<>> /\ new.value = item.value
      /\ new.key = item.key
  BY <1>6, IdleArgType DEF ArgType, IdleArg, Calls
<1>8. arg'[t] = new /\ pc'[t] = label /\ label \in Points /\ label \in Labels
  BY <1>0, <1>1 DEF Points, Labels
<1>9. PartLeads(intact, log, Len(log), item.value, <<>>)
  BY <1>6 DEF PartLeads
<1> HIDE DEF new
<1>10. ThreadLeads(intact, t)'
  <2>1. CASE item.value = <<>>
    <3>1. AllLead(intact, log', Len(log'), arg'[t])
      BY <1>0, <1>7, <1>8, <1>9, <2>1 DEF AllLead
    <3>2. pc'[t] = "put_index"
      BY <1>8, <2>1
    <3> QED BY <1>6, <1>7, <1>8, <3>1, <3>2 DEF ThreadLeads, Mid, Holding, Complete
  <2>2. CASE item.value # <<>>
    <3>1. pc'[t] = "put_lookup" /\ Len(<<>>) < Len(item.value)
      BY <1>6, <1>8, <2>2
    <3> QED BY <1>0, <1>6, <1>7, <1>8, <1>9, <3>1 DEF ThreadLeads, Mid, Holding, Complete
  <2> QED BY <2>1, <2>2
<1> HIDE DEF label
<1>11. Holds(intact)' /\ Grows
  <2>1. IInv(intact)'
    BY <1>0, <1>1, <1>7, <1>8, <1>10, LocalStep
  <2> QED BY <1>0, <1>1, <2>1, SameFile DEF Holds
<1>12. PlaceFits(t, label, w2) /\ WorkLeads(intact, log', label, w2, new.off)
  <2>1. w2.call # "put_batch"
    BY <1>3
  <2> QED BY <1>8, <2>1, PlainPlace
<1> QED BY <1>0, <1>5, <1>7, <1>11, <1>12, BulkStep

LEMMA CompactTocKeeps ==
  ASSUME NEW intact \in BOOLEAN, Fits, Sound(intact), NEW t \in Threads, CompactToc(t)
  PROVE  Fits' /\ Sound(intact)'
<1> DEFINE e == NewEntry(arg[t].key, arg[t].value, arg[t].refs)
           w == work[t]
<1>0. /\ Up /\ Up' /\ pc[t] = "put_toc" /\ w.call = "compact"
      /\ log' = log /\ durable' = durable /\ store' = store /\ past' = past
      /\ toc' = Append(toc, e)
      /\ arg' = [arg EXCEPT ![t] = arg[t]] /\ work' = [work EXCEPT ![t] = w]
      /\ pc' = [pc EXCEPT ![t] = "put_should_checkpoint"]
      /\ arg[t] \in ArgType /\ "put_should_checkpoint" \in Free
  BY BulkFacts DEF CompactToc, At, Up, Goto, disk, history, Free
<1>1. IInv(intact) /\ past \in Pasts /\ WorkFits(w)
  BY BulkFacts
<1>2. /\ arg[t].key \in Key /\ AllLead(intact, log, Len(log), arg[t])
  BY <1>0, <1>1 DEF IInv, ThreadLeads, Complete
<1>3. e \in EntryType /\ AllLead(intact, log, Len(log), e)
  BY <1>0, <1>2 DEF NewEntry, EntryType, ArgType, AllLead
<1> HIDE DEF e, w
<1>4. toc' \in Seq(EntryType) /\ TocLeads(intact, log', Len(log'), toc') /\ StoreLeads(intact)'
  BY <1>0, <1>1, <1>3, TocAppends, SameFile
<1>5. /\ PlaceFits(t, "put_should_checkpoint", w)
      /\ WorkLeads(intact, log, "put_should_checkpoint", w, arg[t].off)
  <2>1. "put_should_checkpoint" \in Labels /\ w.call # "put_batch"
    BY <1>0 DEF Labels
  <2> QED BY <2>1, PlainPlace
<1> QED BY <1>0, <1>1, <1>4, <1>5, BulkMemoryStep

LEMMA CompactFlushKeeps ==
  ASSUME NEW intact \in BOOLEAN, Fits, Sound(intact), NEW t \in Threads, CompactFlush(t)
  PROVE  Fits' /\ Sound(intact)'
<1> DEFINE new == [IdleArg EXCEPT !.call = "flush"]
<1>0. /\ Up /\ UNCHANGED <<disk, toc, store, status, past>>
      /\ arg' = [arg EXCEPT ![t] = new] /\ pc' = [pc EXCEPT ![t] = "checkpoint_toc"]
      /\ work' = [work EXCEPT ![t] = NoWork] /\ "checkpoint_toc" \in Free
  BY DEF CompactFlush, At, Set, Goto, Work, memory, history, Free
<1>1. new \in ArgType
  BY IdleArgType DEF ArgType, IdleArg, Calls
<1> HIDE DEF new
<1>2. /\ WorkFits(NoWork) /\ PlaceFits(t, "checkpoint_toc", NoWork)
      /\ WorkLeads(intact, log, "checkpoint_toc", NoWork, new.off)
  <2>1. "checkpoint_toc" \in Labels /\ NoWork.call # "put_batch"
    BY DEF Labels, NoWork
  <2> QED BY <2>1, NoWorkFits, PlainPlace
<1> QED BY <1>0, <1>1, <1>2, BulkLocalStep

-----------------------------------------------------------------------------
(* A process that compacts has no other thread: what else it does in the    *)
(* middle of a compaction is known to dangle (TensorsIntact fails).         *)
CompactsAlone == \A t, u \in Threads : "compact" \in BulkOps[t] => u = t

LEMMA TruncateKeeps ==
  ASSUME NEW intact \in BOOLEAN, Fits, Sound(intact), NEW t \in Threads,
         CompactTruncate(t), ~stale'
  PROVE  Fits' /\ Truncated' /\ Emptied'
<1>0. /\ Up /\ Up' /\ pc[t] = "compact_truncate" /\ log' = <<>> /\ durable' = 0
      /\ store' = store /\ store = EmptyStore
      /\ UNCHANGED <<toc, past, arg, work>> /\ pc' = [pc EXCEPT ![t] = "compact_forget"]
  BY DEF CompactTruncate, At, Up, Goto, memory, history
<1>1. Types /\ pc \in [Threads -> Points] /\ PlaceFits(t, "compact_truncate", work[t])
  BY <1>0, BulkFacts DEF IInv
<1>2. pc'[t] = "compact_forget" /\ \A u \in Threads \ {t} : pc'[u] = pc[u]
  BY <1>0, <1>1
<1>3. Types'
  <2>1. <<>> \in Seq(Block) /\ "compact_forget" \in Points
    BY DEF Points, BulkLabels
  <2>2. pc' \in [Threads -> Points]
    BY <1>0, <1>1, <2>1
  <2> QED BY <1>0, <1>1, <2>1, <2>2 DEF Types
<1>4. Emptied' /\ Truncated'
  BY <1>0, <1>2, <1>3 DEF Emptied, Truncated
<1>5. PlaceFits(t, "compact_forget", work[t])
  BY <1>1 DEF PlaceFits, Gathering, Publishing, Recording
<1>6. Fits'
  <2> SUFFICES ASSUME NEW u \in Threads PROVE PlaceFits(u, pc'[u], work[u])
    BY <1>0 DEF Fits
  <2>1. CASE u = t
    BY <1>2, <1>5, <2>1
  <2>2. CASE u # t
    BY <1>2, <2>2 DEF Fits
  <2> QED BY <2>1, <2>2
<1> QED BY <1>4, <1>6

(* The table of contents has forgotten what the file has lost.              *)
LEMMA ForgetKeeps ==
  ASSUME NEW intact \in BOOLEAN, Fits, Emptied, NEW t \in Threads, CompactForget(t),
         \A u \in Threads : u = t
  PROVE  Fits' /\ Sound(intact)' /\ ~Truncated'
<1>0. /\ Up /\ Up' /\ pc[t] = "compact_forget" /\ toc' = <<>>
      /\ log' = <<>> /\ durable' = 0 /\ store' = EmptyStore
      /\ UNCHANGED <<past, arg, work>> /\ pc' = [pc EXCEPT ![t] = "idle"]
  BY DEF CompactForget, At, Up, Goto, disk, history, Emptied
<1>1. Types /\ pc \in [Threads -> Points] /\ PlaceFits(t, "compact_forget", work[t])
  BY <1>0 DEF Emptied, Types, Fits
<1>2. \A u \in Threads : pc'[u] = "idle"
  BY <1>0, <1>1
<1>3. Types'
  <2>1. <<>> \in Seq(Block) /\ <<>> \in Seq(EntryType) /\ "idle" \in Points
    BY DEF Points, Labels
  <2>2. pc' \in [Threads -> Points]
    BY <1>0, <1>1, <2>1
  <2> QED BY <1>0, <1>1, <2>1, <2>2 DEF Types
<1>4. TocLeads(intact, log', Len(log'), toc') /\ BlocksLead(intact)'
  BY <1>0 DEF TocLeads, BlocksLead
<1>5. StoreLeads(intact)'
  BY <1>0 DEF StoreLeads, EmptyStore, Known
<1>6. \A u \in Threads : ThreadLeads(intact, u)'
  BY <1>2 DEF ThreadLeads, Mid, Holding, Complete
<1>7. Holds(intact)'
  BY <1>0, <1>3, <1>4, <1>5, <1>6 DEF Holds, IInv, DownIsEmpty
<1>8. ASSUME NEW u \in Threads
      PROVE  /\ PlaceFits(u, pc'[u], work'[u])
             /\ WorkLeads(intact, log', pc'[u], work'[u], arg'[u].off)
  <2>1. "idle" \in Labels /\ work'[u].call # "put_batch"
    BY <1>0, <1>1 DEF PlaceFits, Labels
  <2> QED BY <1>2, <2>1, PlainPlace
<1> QED BY <1>0, <1>2, <1>7, <1>8 DEF Fits, Sound, Truncated

(* Nothing but the next step of the compaction, or a crash, is possible     *)
(* between the truncation and the new table.                                *)
LEMMA TruncatedStep ==
  ASSUME NEW intact \in BOOLEAN, CompactsAlone, Fits, Truncated, Emptied,
         [MaintenanceNext]_allVars
  PROVE  Fits' /\ IF Truncated' THEN Emptied' ELSE Sound(intact)'
<1>1. PICK t \in Threads : pc[t] = "compact_forget"
  BY DEF Truncated
<1>2. \A u \in Threads : u = t
  BY <1>1 DEF Fits, PlaceFits, CompactsAlone
<1>3. CASE SingleStep(t)
  BY <1>1, <1>3, SingleMoves DEF SingleStep, Labels
<1>4. CASE Batch(t)
  BY <1>1, <1>4 DEF Batch, BatchBegin, BatchLookup, BatchAddRef, BatchAppend, BatchContains,
                    BatchInsert, BatchRecord, BatchIndex, BatchChain, BatchToc, At
<1>5. CASE Compact(t)
  <2>1. CompactForget(t)
    BY <1>1, <1>5 DEF Compact, CompactRead, CompactTruncate, CompactPut, CompactToc,
                      CompactFlush, At
  <2> QED BY <1>2, <2>1, ForgetKeeps
<1>6. CASE Restart
  <2>1. Crash /\ work' = [u \in Threads |-> NoWork]
    BY <1>1, <1>6 DEF Restart, Drop, Open, Emptied, Up
  <2>2. Forget /\ durable' = 0 /\ past' = past
    BY <2>1 DEF Crash, history, Emptied
  <2>3. log' = <<>>
    <3>1. PICK n \in 0 .. 0 : log' = SubSeq(<<>>, 1, n)
      BY <2>1 DEF Crash, Emptied
    <3>2. SubSeq(<<>>, 1, 0) = <<>>
      OBVIOUS
    <3> QED BY <3>1, <3>2
  <2>4. log' \in Seq(Block) /\ BlocksLead(intact)' /\ past' \in Pasts
    BY <2>2, <2>3 DEF BlocksLead, Emptied, Types
  <2>5. Holds(intact)'
    BY <2>2, <2>4, ForgottenLeads DEF Holds
  <2>6. \A u \in Threads : pc'[u] = "idle"
    BY <2>2 DEF Forget
  <2>7. Fits' /\ Sound(intact)'
    BY <2>1, <2>5, <2>6, IdleKeeps
  <2> QED BY <2>6, <2>7 DEF Truncated
<1>7. CASE UNCHANGED allVars
  BY <1>7 DEF allVars, vars, bulk, Fits, Truncated, Emptied, Types, Up
<1> QED BY <1>2, <1>3, <1>4, <1>5, <1>6, <1>7 DEF MaintenanceNext

(* Every other step keeps the invariant.  What a compaction reads is only   *)
(* known to be tensors where references are intact.                         *)
LEMMA SoundStep ==
  ASSUME NEW intact \in BOOLEAN, Fits, Sound(intact), [MaintenanceNext]_allVars,
         \A t \in Threads : ~CompactTruncate(t) /\ ~CompactForget(t),
         \A t \in Threads :
           CompactRead(t) => LiveTensors \in Seq([key : Key, value : Contents])
  PROVE  Fits' /\ Sound(intact)'
<1>1. ASSUME NEW t \in Threads, SingleStep(t) PROVE Fits' /\ Sound(intact)'
  BY <1>1, SingleKeeps
<1>2. ASSUME NEW t \in Threads, Batch(t) PROVE Fits' /\ Sound(intact)'
  BY <1>2, BatchKeeps
<1>3. ASSUME NEW t \in Threads, Compact(t) PROVE Fits' /\ Sound(intact)'
  BY <1>3, CompactReadKeeps, CompactPutKeeps, CompactTocKeeps, CompactFlushKeeps
     DEF Compact
<1>4. ASSUME Restart PROVE Fits' /\ Sound(intact)'
  BY <1>4, RestartKeeps
<1>5. CASE UNCHANGED allVars
  <2>1. UNCHANGED <<log, durable, toc, store, status, pc, arg, past, work>>
        /\ UNCHANGED vars
    BY <1>5 DEF allVars, vars, bulk
  <2>2. Holds(intact)'
    BY <2>1, HoldsStep DEF Sound
  <2> QED BY <2>1, <2>2 DEF Fits, Sound, Up
<1> QED BY <1>1, <1>2, <1>3, <1>4, <1>5 DEF MaintenanceNext

(* None but a truncation truncates.                                         *)
LEMMA OnlyTruncates ==
  ASSUME pc \in [Threads -> Points], ~Truncated, [MaintenanceNext]_allVars,
         \A t \in Threads : ~CompactTruncate(t)
  PROVE  ~Truncated'
<1>a. ASSUME NEW t \in Threads, NEW label, label # "compact_forget",
             pc' = [pc EXCEPT ![t] = label]
      PROVE  ~Truncated'
  BY <1>a DEF Truncated
<1>1. ASSUME NEW t \in Threads, SingleStep(t) PROVE ~Truncated'
  <2>1. PICK label \in Labels : pc' = [pc EXCEPT ![t] = label]
    BY <1>1, SingleMoves DEF SingleStep
  <2>2. label # "compact_forget"
    BY DEF Labels
  <2> QED BY <1>a, <2>1, <2>2
<1>2. ASSUME NEW t \in Threads, Batch(t) PROVE ~Truncated'
  <2>1. \E label : label # "compact_forget" /\ pc' = [pc EXCEPT ![t] = label]
    <3>1. pc = [pc EXCEPT ![t] = pc[t]] /\ pc[t] # "compact_forget"
      BY DEF Truncated
    <3> QED BY <1>2, <3>1
            DEF Batch, BatchBegin, BatchLookup, BatchAddRef, BatchAppend, BatchContains,
                BatchInsert, BatchRecord, BatchIndex, BatchChain, BatchToc, Goto
  <2> QED BY <1>a, <2>1
<1>3. ASSUME NEW t \in Threads, Compact(t) PROVE ~Truncated'
  <2>1. ~CompactForget(t)
    BY DEF CompactForget, At, Truncated
  <2>2. \E label : label # "compact_forget" /\ pc' = [pc EXCEPT ![t] = label]
    BY <1>3, <2>1 DEF Compact, CompactRead, CompactPut, CompactToc, CompactFlush, Goto
  <2> QED BY <1>a, <2>2
<1>4. ASSUME Restart PROVE ~Truncated'
  <2>1. \A t \in Threads : pc'[t] = "idle" \/ pc'[t] = pc[t]
    BY <1>4 DEF Restart, Crash, Drop, Open, Forget
  <2> QED BY <2>1 DEF Truncated
<1>5. CASE UNCHANGED allVars
  BY <1>5 DEF allVars, vars, Truncated
<1> QED BY <1>1, <1>2, <1>3, <1>4, <1>5 DEF MaintenanceNext

LEMMA IntactStep ==
  ASSUME NEW intact \in BOOLEAN, intact, Fits, Sound(intact), ~Truncated,
         [MaintenanceNext]_allVars, ~stale'
  PROVE  Fits' /\ IF Truncated' THEN Emptied' ELSE Sound(intact)'
<1>1. ASSUME NEW t \in Threads, CompactTruncate(t)
      PROVE  Fits' /\ Truncated' /\ Emptied'
  BY <1>1, TruncateKeeps
<1>2. CASE \A t \in Threads : ~CompactTruncate(t)
  <2>1. /\ pc \in [Threads -> Points]
        /\ LiveTensors \in Seq([key : Key, value : Contents])
    BY LiveTensorsType DEF Sound, Holds, IInv, Types
  <2>2. \A t \in Threads : ~CompactForget(t)
    BY DEF CompactForget, At, Truncated
  <2>3. ~Truncated'
    BY <1>2, <2>1, OnlyTruncates
  <2>4. Fits' /\ Sound(intact)'
    BY <1>2, <2>1, <2>2, SoundStep
  <2> QED BY <2>3, <2>4
<1> QED BY <1>1, <1>2

-----------------------------------------------------------------------------
LEMMA MaintenanceInitInv == MaintenanceInit => MaintenanceInv
<1> SUFFICES ASSUME MaintenanceInit PROVE Fits /\ Sound(TRUE) /\ ~Truncated
  BY DEF MaintenanceInv
<1>1. Holds(TRUE)
  BY InitInductive DEF MaintenanceInit, Inductive
<1>2. work = [t \in Threads |-> NoWork] /\ \A t \in Threads : pc[t] = "idle"
  BY DEF MaintenanceInit, Init
<1>3. Fits /\ Sound(TRUE)
  BY <1>1, <1>2, NoWorkFits DEF Fits, Sound
<1> QED BY <1>2, <1>3 DEF Truncated

(* No step of a batch or a compaction, and none of a single call beside a   *)
(* batch, makes a reference dangle, as long as no truncation leaves the     *)
(* content store behind: the inductive invariant is preserved.              *)
THEOREM MaintenanceStep ==
  ASSUME CompactsAlone, MaintenanceInv, [MaintenanceNext]_allVars
  PROVE  MaintenanceInv'
<1> SUFFICES ASSUME ~stale'
             PROVE  Fits' /\ IF Truncated' THEN Emptied' ELSE Sound(TRUE)'
  BY DEF MaintenanceInv
<1>1. ~stale
  <2>1. CASE UNCHANGED allVars
    BY <2>1 DEF allVars, bulk
  <2> QED BY ZenonT(60), <2>1 DEF MaintenanceNext, SingleStep, Batch, BatchBegin, BatchLookup,
             BatchAddRef, BatchAppend, BatchContains, BatchInsert, BatchRecord, BatchIndex,
             BatchChain, BatchToc, Compact, CompactRead, CompactTruncate, CompactForget,
             CompactPut, CompactToc, CompactFlush, Restart, OnlyWork, bulk
<1> QED BY <1>1, TruncatedStep, IntactStep DEF MaintenanceInv

(* Batches and compactions included, every entry of the table of contents   *)
(* and every get names its own tensor's chunks, as long as no compaction    *)
(* has found anything in the content store: for every number of threads,    *)
(* every batch and every interleaving of batches with single calls, for     *)
(* compactions in a process of one thread.                                  *)
THEOREM MaintenanceRefsResolve ==
  ASSUME CompactsAlone
  PROVE  MaintenanceSpec => []RefsResolveFresh
<1>1. MaintenanceInit => MaintenanceInv
  BY MaintenanceInitInv
<1>2. MaintenanceInv /\ [MaintenanceNext]_allVars => MaintenanceInv'
  BY MaintenanceStep
<1>3. MaintenanceInv => RefsResolveFresh
  BY InductiveResolves DEF MaintenanceInv, RefsResolveFresh, Truncated, Sound, Inductive
<1> QED BY <1>1, <1>2, <1>3, PTL DEF MaintenanceSpec
=============================================================================
