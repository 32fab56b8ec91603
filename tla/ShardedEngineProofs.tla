------------------------- MODULE ShardedEngineProofs ------------------------
(***************************************************************************)
(* References always resolve (RefsResolve), for any number of threads,      *)
(* keys, chunks and checkpoints, any interleaving, any crash and reopen.    *)
(*                                                                          *)
(* RefsResolve is not inductive: an entry's references come out of a put's  *)
(* local variables, those out of the store or an append, and after a reopen *)
(* the whole table comes out of a block of the file.  IInv says of each of  *)
(* these places that what it holds leads to the right chunk, and of a block *)
(* that it leads there within the part of the file that ends with it: that  *)
(* is what a crash leaves whenever it leaves the block.                     *)
(***************************************************************************)
EXTENDS ShardedEngine, FunctionTheorems, SequenceTheorems, FiniteSetTheorems,
        WellFoundedInduction, TLAPS

(* Below position n of the file l, off leads to the chunk h.  Where a file  *)
(* was truncated under the content store's references (EngineMaintenance)   *)
(* they are not intact, and all that is left of the invariant is its shape. *)
Leads(intact, l, n, h, off) == intact => off < n /\ l[off + 1] = Chunk(h)

(* The references r lead to the first chunks of the value v.                *)
PartLeads(intact, l, n, v, r) ==
  Len(r) <= Len(v) /\ \A i \in 1 .. Len(r) : Leads(intact, l, n, v[i], r[i])

(* An entry's, or a finished put's, references lead to all its chunks.      *)
AllLead(intact, l, n, e) ==
  Len(e.refs) = Len(e.value) /\ PartLeads(intact, l, n, e.value, e.refs)

TocLeads(intact, l, n, entries) ==
  \A i \in 1 .. Len(entries) : AllLead(intact, l, n, entries[i])

Mid == {"put_lookup", "put_add_ref", "put_append", "put_contains", "put_insert",
        "put_record"}

Holding == {"put_add_ref", "put_contains", "put_insert", "put_record"}

Complete == {"put_index", "put_chain", "put_toc", "get_read"}

ThreadLeads(intact, t) ==
  /\ pc[t] \in Mid => /\ Len(arg[t].refs) < Len(arg[t].value)
                      /\ PartLeads(intact, log, Len(log), arg[t].value, arg[t].refs)
  /\ pc[t] \in Holding => Leads(intact, log, Len(log), Segment(t), arg[t].off)
  /\ pc[t] \in Complete => AllLead(intact, log, Len(log), arg[t])
  /\ pc[t] \in Mid \union Complete => arg[t].key \in Key
  /\ pc[t] \in {"checkpoint_len", "checkpoint_append"}
       => TocLeads(intact, log, Len(log), arg[t].toc)
  /\ pc[t] = "checkpoint_append" => arg[t].off <= Len(log)

EntryLeads(intact, h) ==
  \E off \in Nat : /\ \E r : store[h] = [off |-> off, refcount |-> r]
                   /\ Leads(intact, log, Len(log), h, off)

StoreLeads(intact) == /\ DOMAIN store = Hash
                      /\ \A h \in Hash : Known(store, h) => EntryLeads(intact, h)

BlockLeads(intact, i) == /\ log[i].tocOffset < i
                         /\ TocLeads(intact, log, i, log[i].toc)

BlocksLead(intact) ==
  \A i \in 1 .. Len(log) : log[i].kind = "checkpoint" => BlockLeads(intact, i)

DownIsEmpty == ~Up => /\ store = EmptyStore
                      /\ \A t \in Threads : pc[t] = "idle"

ArgType == [call : Calls \union {"none"}, key : Key \union {Absent}, value : Contents,
            retention : Retentions \union {KeepLatest}, refs : Seq(Nat), off : Nat,
            toc : Seq(EntryType), past : Pasts]

(* Where a thread may be, in a bulk call (EngineMaintenance) too.           *)
BulkLabels == {"batch_lookup", "batch_add_ref", "batch_contains", "batch_insert",
               "batch_record", "batch_index", "batch_chain", "batch_toc",
               "compact_truncate", "compact_forget"}

Points == Labels \union BulkLabels

Types == /\ log \in Seq(Block)
         /\ toc \in Seq(EntryType)
         /\ past \in Pasts
         /\ pc \in [Threads -> Points]
         /\ arg \in [Threads -> ArgType]

IInv(intact) == /\ Types
                /\ TocLeads(intact, log, Len(log), toc)
                /\ BlocksLead(intact)
                /\ StoreLeads(intact)
                /\ \A t \in Threads : ThreadLeads(intact, t)
                /\ DownIsEmpty

-----------------------------------------------------------------------------
(* A set of numbers up to n that is not empty has a greatest element: Max   *)
(* is what its name says.                                                   *)
LEMMA MaxOf ==
  ASSUME NEW n \in Nat, NEW T \in SUBSET (1 .. n), T # {}
  PROVE  Max(T) \in T /\ \A y \in T : y <= Max(T)
<1> DEFINE D == {n - i : i \in T}
<1>1. D \subseteq Nat
  OBVIOUS
<1>2. D # {}
  <2> PICK i \in T : TRUE
    OBVIOUS
  <2> n - i \in D
    OBVIOUS
  <2> QED OBVIOUS
<1>3. PICK x \in D : \A y \in D : <<y, x>> \notin OpToRel(<, Nat)
  BY <1>1, <1>2, NatLessThanWellFounded, WFMin
<1>4. PICK m \in T : x = n - m
  OBVIOUS
<1>5. \A y \in T : y <= m
  <2> TAKE y \in T
  <2>1. n - y \in D /\ n - y \in Nat /\ x \in Nat
    BY <1>1
  <2>2. ~(n - y < x)
    BY <1>3, <2>1 DEF OpToRel
  <2> QED BY <1>4, <2>2
<1> QED BY <1>5 DEF Max

(* What leads to a chunk still does when the file keeps that part.          *)
LEMMA LeadsGrows ==
  ASSUME NEW intact \in BOOLEAN, NEW l, NEW l2, NEW n \in Nat, NEW m \in Nat, n <= m,
         \A i \in 1 .. n : l2[i] = l[i],
         NEW h, NEW off \in Nat, Leads(intact, l, n, h, off)
  PROVE  Leads(intact, l2, m, h, off)
<1>1. CASE intact
  <2>1. off + 1 \in 1 .. n
    BY <1>1 DEF Leads
  <2> QED BY <1>1, <2>1 DEF Leads
<1>2. CASE ~intact
  BY <1>2 DEF Leads
<1> QED BY <1>1, <1>2

LEMMA PartGrows ==
  ASSUME NEW intact \in BOOLEAN, NEW l, NEW l2, NEW n \in Nat, NEW m \in Nat, n <= m,
         \A i \in 1 .. n : l2[i] = l[i],
         NEW v, NEW r \in Seq(Nat), PartLeads(intact, l, n, v, r)
  PROVE  PartLeads(intact, l2, m, v, r)
<1> SUFFICES ASSUME NEW i \in 1 .. Len(r)
             PROVE  Leads(intact, l2, m, v[i], r[i])
  BY DEF PartLeads
<1>1. r[i] \in Nat /\ Leads(intact, l, n, v[i], r[i])
  BY DEF PartLeads
<1> QED BY <1>1, LeadsGrows

LEMMA AllGrows ==
  ASSUME NEW intact \in BOOLEAN, NEW l, NEW l2, NEW n \in Nat, NEW m \in Nat, n <= m,
         \A i \in 1 .. n : l2[i] = l[i],
         NEW e, e.refs \in Seq(Nat), AllLead(intact, l, n, e)
  PROVE  AllLead(intact, l2, m, e)
BY PartGrows DEF AllLead

LEMMA TocGrows ==
  ASSUME NEW intact \in BOOLEAN, NEW l, NEW l2, NEW n \in Nat, NEW m \in Nat, n <= m,
         \A i \in 1 .. n : l2[i] = l[i],
         NEW entries \in Seq(EntryType), TocLeads(intact, l, n, entries)
  PROVE  TocLeads(intact, l2, m, entries)
<1> SUFFICES ASSUME NEW i \in 1 .. Len(entries)
             PROVE  AllLead(intact, l2, m, entries[i])
  BY DEF TocLeads
<1>1. entries[i] \in EntryType /\ AllLead(intact, l, n, entries[i])
  BY DEF TocLeads
<1>2. entries[i].refs \in Seq(Nat)
  BY <1>1 DEF EntryType
<1> QED BY <1>1, <1>2, AllGrows

(* The history goes on with a map.                                          *)
LEMMA RememberType ==
  ASSUME past \in Pasts, NEW key, NEW value \in Contents \union {Absent},
         Remember(key, value)
  PROVE  past' \in Pasts
<1>1. past \in Seq(Map) /\ Len(past) \in 1 .. Len(past)
  BY DEF Pasts
<1>2. past[Len(past)] \in Map
  BY <1>1
<1>3. [past[Len(past)] EXCEPT ![key] = value] \in Map
  BY <1>2 DEF Map
<1> DEFINE new == [past[Len(past)] EXCEPT ![key] = value]
<1>4. past' = Append(past, new)
  BY DEF Remember
<1> HIDE DEF new
<1>5. Append(past, new) \in Seq(Map) /\ Len(Append(past, new)) # 0
  BY <1>1, <1>3 DEF new
<1>6. Append(past, new) # <<>>
  <2>1. Len(<<>>) = 0
    OBVIOUS
  <2> QED BY <1>5, <2>1, Zenon
<1> QED BY <1>4, <1>5, <1>6 DEF Pasts

LEMMA NoChangesType == NoChanges \in Pasts
<1>1. [k \in Key |-> Absent] \in Map
  BY DEF Map
<1> DEFINE none == [k \in Key |-> Absent]
<1> HIDE DEF none
<1>2. <<none>> \in Seq(Map) /\ <<none>> # <<>>
  BY <1>1 DEF none
<1> QED BY <1>2 DEF NoChanges, Pasts, none

-----------------------------------------------------------------------------
Grows == /\ Len(log) <= Len(log')
         /\ \A i \in 1 .. Len(log) : log'[i] = log[i]

LEMMA ThreadKeeps ==
  ASSUME NEW intact \in BOOLEAN, IInv(intact), Grows, log' \in Seq(Block),
         NEW u \in Threads, pc'[u] = pc[u], arg'[u] = arg[u]
  PROVE  ThreadLeads(intact, u)'
<1> DEFINE n == Len(log)
           m == Len(log')
           e == arg[u]
<1>1. n \in Nat /\ m \in Nat /\ n <= m /\ \A i \in 1 .. n : log'[i] = log[i]
  BY DEF Grows, IInv, Types
<1>2. e \in ArgType
  BY DEF IInv, Types
<1>3. e.refs \in Seq(Nat) /\ e.off \in Nat /\ e.toc \in Seq(EntryType)
  BY <1>2 DEF ArgType
<1>4. ThreadLeads(intact, u)
  BY DEF IInv
<1> HIDE DEF n, m, e
<1>5. PartLeads(intact, log, n, e.value, e.refs)
        => PartLeads(intact, log', m, e.value, e.refs)
  BY <1>1, <1>3, PartGrows
<1>6. AllLead(intact, log, n, e) => AllLead(intact, log', m, e)
  BY <1>1, <1>3, AllGrows
<1>7. TocLeads(intact, log, n, e.toc) => TocLeads(intact, log', m, e.toc)
  BY <1>1, <1>3, TocGrows
<1>8. ASSUME NEW h PROVE Leads(intact, log, n, h, e.off) => Leads(intact, log', m, h, e.off)
  BY <1>1, <1>3, LeadsGrows
<1> QED BY <1>1, <1>3, <1>4, <1>5, <1>6, <1>7, <1>8 DEF ThreadLeads, Segment, n, m, e

LEMMA StoreKeeps ==
  ASSUME NEW intact \in BOOLEAN, IInv(intact), Grows, log' \in Seq(Block),
         store' = store
  PROVE  StoreLeads(intact)'
<1> SUFFICES ASSUME NEW h \in Hash, Known(store, h)
             PROVE  \E off \in Nat : /\ \E r : store[h] = [off |-> off, refcount |-> r]
                                     /\ Leads(intact, log', Len(log'), h, off)
  BY DEF IInv, StoreLeads, EntryLeads, Known
<1>1. PICK off \in Nat : /\ \E r : store[h] = [off |-> off, refcount |-> r]
                         /\ Leads(intact, log, Len(log), h, off)
  BY DEF IInv, StoreLeads, EntryLeads
<1>2. Len(log) \in Nat /\ Len(log') \in Nat
  BY DEF IInv, Types
<1>3. Leads(intact, log', Len(log'), h, off)
  BY <1>1, <1>2, LeadsGrows DEF Grows
<1> QED BY <1>1, <1>3

LEMMA TocKeeps ==
  ASSUME NEW intact \in BOOLEAN, IInv(intact), Grows, log' \in Seq(Block), toc' = toc
  PROVE  TocLeads(intact, log', Len(log'), toc')
<1>1. Len(log) \in Nat /\ Len(log') \in Nat /\ toc \in Seq(EntryType)
  BY DEF IInv, Types
<1> QED BY <1>1, TocGrows DEF Grows, IInv

LEMMA AppendGrows ==
  ASSUME log \in Seq(Block), NEW b \in Block, log' = Append(log, b)
  PROVE  /\ log' \in Seq(Block) /\ Grows
         /\ Len(log') = Len(log) + 1 /\ log'[Len(log) + 1] = b
BY DEF Grows

-----------------------------------------------------------------------------
(* A step of thread t keeps IInv if what it makes of t's variables, of the  *)
(* table, of the store and of the file's blocks leads to chunks, and if it  *)
(* only appends to the file.                                                *)
LEMMA GrowStep ==
  ASSUME NEW intact \in BOOLEAN, IInv(intact), NEW t \in Threads, Up, Up',
         NEW new \in ArgType, arg' = [arg EXCEPT ![t] = new],
         NEW label \in Points, pc' = [pc EXCEPT ![t] = label],
         log' \in Seq(Block), Grows, BlocksLead(intact)',
         toc' \in Seq(EntryType), TocLeads(intact, log', Len(log'), toc'),
         past' \in Pasts, StoreLeads(intact)', ThreadLeads(intact, t)'
  PROVE  IInv(intact)'
<1>1. pc \in [Threads -> Points] /\ arg \in [Threads -> ArgType]
  BY DEF IInv, Types
<1>2. Types'
  BY <1>1 DEF Types
<1>3. ASSUME NEW u \in Threads PROVE ThreadLeads(intact, u)'
  <2>1. CASE u = t
    BY <2>1
  <2>2. CASE u # t
    <3>1. pc'[u] = pc[u] /\ arg'[u] = arg[u]
      BY <1>1, <2>2
    <3> QED BY <3>1, ThreadKeeps
  <2> QED BY <2>1, <2>2
<1>4. DownIsEmpty'
  BY DEF DownIsEmpty
<1> QED BY <1>2, <1>3, <1>4 DEF IInv

(* In particular when it appends at most one block, and none but one whose  *)
(* table leads into the file.                                               *)
Appended(intact, b) ==
  /\ log' = Append(log, b)
  /\ b.kind = "checkpoint" => /\ b.tocOffset <= Len(log)
                              /\ TocLeads(intact, log, Len(log), b.toc)

LEMMA ThreadStep ==
  ASSUME NEW intact \in BOOLEAN, IInv(intact), NEW t \in Threads, Up, Up',
         NEW new \in ArgType, arg' = [arg EXCEPT ![t] = new],
         NEW label \in Points, pc' = [pc EXCEPT ![t] = label],
         log' = log \/ \E b \in Block : Appended(intact, b),
         toc' \in Seq(EntryType), TocLeads(intact, log', Len(log'), toc'),
         past' \in Pasts, StoreLeads(intact)', ThreadLeads(intact, t)'
  PROVE  IInv(intact)'
<1>1. log \in Seq(Block) /\ pc \in [Threads -> Points] /\ arg \in [Threads -> ArgType]
  BY DEF IInv, Types
<1>2. log' \in Seq(Block) /\ Grows
  <2>1. CASE log' = log
    BY <1>1, <2>1 DEF Grows
  <2>2. CASE \E b \in Block : Appended(intact, b)
    BY <1>1, <2>2, AppendGrows DEF Appended
  <2> QED BY <2>1, <2>2
<1>3. BlocksLead(intact)'
  <2>1. CASE log' = log
    BY <2>1 DEF IInv, BlocksLead, BlockLeads
  <2>2. ASSUME NEW b \in Block, Appended(intact, b) PROVE BlocksLead(intact)'
    <3>0. Len(log) \in Nat /\ Len(log') = Len(log) + 1 /\ log'[Len(log) + 1] = b
      BY <1>1, <2>2, AppendGrows DEF Appended
    <3> SUFFICES ASSUME NEW i \in 1 .. Len(log'), log'[i].kind = "checkpoint"
                 PROVE  BlockLeads(intact, i)'
      BY DEF BlocksLead
    <3>1. CASE i \in 1 .. Len(log)
      <4>1. log'[i] = log[i] /\ \A j \in 1 .. i : log'[j] = log[j]
        <5>1. \A j \in 1 .. Len(log) : log'[j] = log[j]
          BY <1>2 DEF Grows
        <5>2. \A j \in 1 .. i : j \in 1 .. Len(log)
          BY <3>0, <3>1
        <5> QED BY <3>1, <5>1, <5>2
      <4>2. BlockLeads(intact, i) /\ log[i] \in Block /\ log[i].kind = "checkpoint"
        BY <1>1, <3>1, <4>1 DEF IInv, BlocksLead
      <4>3. log[i].toc \in Seq(EntryType)
        BY <4>2 DEF Block
      <4>4. TocLeads(intact, log, i, log[i].toc) /\ i \in Nat /\ i <= i
        BY <3>1, <4>2 DEF BlockLeads
      <4>5. TocLeads(intact, log', i, log[i].toc)
        BY <4>1, <4>3, <4>4, TocGrows
      <4> QED BY <4>1, <4>2, <4>5 DEF BlockLeads
    <3>2. CASE i = Len(log) + 1
      <4>1. log'[i] = b /\ b.kind = "checkpoint"
        BY <3>0, <3>2
      <4>2. b.toc \in Seq(EntryType) /\ b.tocOffset \in Nat
        BY <4>1 DEF Block
      <4>3. TocLeads(intact, log', i, b.toc)
        <5>1. TocLeads(intact, log, Len(log), b.toc)
          BY <2>2, <4>1 DEF Appended
        <5>2. i \in Nat /\ Len(log) <= i /\ \A j \in 1 .. Len(log) : log'[j] = log[j]
          BY <1>2, <3>0, <3>2 DEF Grows
        <5> QED BY <3>0, <4>2, <5>1, <5>2, TocGrows
      <4>4. b.tocOffset < i
        BY <2>2, <3>0, <3>2, <4>1, <4>2 DEF Appended
      <4> QED BY <4>1, <4>3, <4>4 DEF BlockLeads
    <3> QED BY <3>0, <3>1, <3>2
  <2> QED BY <2>1, <2>2
<1> QED BY <1>2, <1>3, GrowStep

(* Changing the refcount of a store's entry leaves it where it points.      *)
LEMMA Recount ==
  ASSUME NEW off, NEW c, NEW d
  PROVE  [[off |-> off, refcount |-> c] EXCEPT !.refcount = d]
           = [off |-> off, refcount |-> d]
OBVIOUS

(* Facts about a thread that every action of the thread starts from.        *)
LEMMA ThreadFacts ==
  ASSUME NEW intact \in BOOLEAN, IInv(intact), NEW t \in Threads
  PROVE  /\ arg[t] \in ArgType /\ pc[t] \in Points /\ ThreadLeads(intact, t)
         /\ log \in Seq(Block) /\ Len(log) \in Nat
         /\ toc \in Seq(EntryType) /\ past \in Pasts
         /\ arg[t].value \in Seq(Hash) /\ arg[t].refs \in Seq(Nat)
         /\ arg[t].off \in Nat /\ arg[t].toc \in Seq(EntryType)
         /\ arg = [arg EXCEPT ![t] = arg[t]]
<1>1. arg[t] \in ArgType /\ pc[t] \in Points /\ arg = [arg EXCEPT ![t] = arg[t]]
  BY DEF IInv, Types
<1>2. arg[t].value \in Seq(Hash)
  <2>1. arg[t].value \in Contents
    BY <1>1 DEF ArgType
  <2>2. <<>> \in Seq(Hash)
    OBVIOUS
  <2> QED BY <2>1, <2>2, EngineAssumption DEF Contents
<1>3. arg[t].refs \in Seq(Nat) /\ arg[t].off \in Nat /\ arg[t].toc \in Seq(EntryType)
  BY <1>1 DEF ArgType
<1> QED BY <1>1, <1>2, <1>3 DEF IInv, Types

LEMMA IdleArgType == IdleArg \in ArgType
<1>1. <<>> \in Seq(Nat) /\ <<>> \in Seq(EntryType) /\ NoChanges \in Pasts /\ <<>> \in Contents
  BY NoChangesType DEF Contents
<1> QED BY <1>1 DEF IdleArg, ArgType

(* Same file, same table: the parts of ThreadStep's hypotheses that most    *)
(* actions share.                                                           *)
LEMMA SameFile ==
  ASSUME NEW intact \in BOOLEAN, IInv(intact), log' = log
  PROVE  /\ Grows /\ log' \in Seq(Block)
         /\ toc' = toc => toc' \in Seq(EntryType) /\ TocLeads(intact, log', Len(log'), toc')
         /\ store' = store => StoreLeads(intact)'
<1>1. Grows /\ log' \in Seq(Block)
  BY DEF Grows, IInv, Types
<1> QED BY <1>1, TocKeeps, StoreKeeps DEF IInv, Types

(* A step that changes nothing but the thread's own variables.              *)
LEMMA LocalStep ==
  ASSUME NEW intact \in BOOLEAN, IInv(intact), NEW t \in Threads, Up, Up',
         log' = log, toc' = toc, store' = store, past' = past,
         NEW new \in ArgType, arg' = [arg EXCEPT ![t] = new],
         NEW label \in Points, pc' = [pc EXCEPT ![t] = label],
         ThreadLeads(intact, t)'
  PROVE  IInv(intact)'
<1>1. past' \in Pasts
  BY DEF IInv, Types
<1> QED BY <1>1, SameFile, ThreadStep

(* A call that ends: the thread holds nothing any more.                     *)
LEMMA ReturnStep ==
  ASSUME NEW intact \in BOOLEAN, IInv(intact), NEW t \in Threads, Up, Up', Return(t),
         log' = log, store' = store,
         toc' \in Seq(EntryType), TocLeads(intact, log', Len(log'), toc'),
         past' \in Pasts
  PROVE  IInv(intact)'
<1>1. arg' = [arg EXCEPT ![t] = IdleArg] /\ pc' = [pc EXCEPT ![t] = "idle"]
  BY DEF Return, Goto, Set
<1>2. pc'[t] = "idle"
  BY <1>1 DEF IInv, Types
<1>3. ThreadLeads(intact, t)'
  BY <1>2 DEF ThreadLeads, Mid, Holding, Complete
<1>4. "idle" \in Points /\ StoreLeads(intact)'
  BY SameFile DEF Points, Labels
<1> QED BY <1>1, <1>3, <1>4, IdleArgType, ThreadStep

LEMMA PartAppend ==
  ASSUME NEW intact \in BOOLEAN, NEW l, NEW n \in Nat, NEW v \in Seq(Hash),
         NEW r \in Seq(Nat),
         Len(r) < Len(v), PartLeads(intact, l, n, v, r),
         NEW off \in Nat, Leads(intact, l, n, v[Len(r) + 1], off)
  PROVE  /\ Append(r, off) \in Seq(Nat)
         /\ PartLeads(intact, l, n, v, Append(r, off))
         /\ Len(Append(r, off)) = Len(r) + 1
<1>1. \A i \in 1 .. Len(r) + 1 : Leads(intact, l, n, v[i], Append(r, off)[i])
  <2> TAKE i \in 1 .. Len(r) + 1
  <2>1. CASE i \in 1 .. Len(r)
    BY <2>1 DEF PartLeads
  <2>2. CASE i = Len(r) + 1
    BY <2>2
  <2> QED BY <2>1, <2>2
<1> QED BY <1>1 DEF PartLeads

(* PutAddRef and PutRecord hand the segment's offset over to the entry.     *)
LEMMA WithRefStep ==
  ASSUME NEW intact \in BOOLEAN, IInv(intact), NEW t \in Threads, Up, Up',
         pc[t] \in Holding,
         Set(t, WithRef(t, arg[t].off)), Goto(t, NextSegment(t, arg'[t].refs)),
         log' = log, toc' = toc, past' = past, StoreLeads(intact)'
  PROVE  IInv(intact)'
<1> DEFINE new == WithRef(t, arg[t].off)
           label == NextSegment(t, new.refs)
           r == arg[t].refs
           v == arg[t].value
           r2 == Append(r, arg[t].off)
<1>1. /\ arg[t] \in ArgType /\ v \in Seq(Hash) /\ r \in Seq(Nat) /\ arg[t].off \in Nat
      /\ Len(log) \in Nat
  BY ThreadFacts
<1>2. /\ Len(r) < Len(v) /\ PartLeads(intact, log, Len(log), v, r)
      /\ Leads(intact, log, Len(log), v[Len(r) + 1], arg[t].off)
      /\ arg[t].key \in Key
  BY DEF IInv, ThreadLeads, Mid, Holding, Segment
<1>3. r2 \in Seq(Nat) /\ PartLeads(intact, log, Len(log), v, r2) /\ Len(r2) = Len(r) + 1
  BY <1>1, <1>2, PartAppend
<1>4. new \in ArgType /\ new.value = v /\ new.refs = r2 /\ new.key = arg[t].key
  BY <1>1, <1>3 DEF WithRef, ArgType
<1>5. arg' = [arg EXCEPT ![t] = new] /\ arg'[t] = new
  BY DEF Set, IInv, Types
<1>6. /\ pc' = [pc EXCEPT ![t] = label] /\ label \in Points /\ pc'[t] = label
      /\ label = IF Len(r2) < Len(v) THEN "put_lookup" ELSE "put_index"
  BY <1>4, <1>5 DEF Goto, IInv, Types, NextSegment, Points, Labels
<1>7. ThreadLeads(intact, t)'
  <2> HIDE DEF new, label, r2
  <2>1. CASE Len(r2) < Len(v)
    BY <1>2, <1>3, <1>4, <1>5, <1>6, <2>1 DEF ThreadLeads, Mid, Holding, Complete
  <2>2. CASE ~(Len(r2) < Len(v))
    <3>1. Len(r2) = Len(v)
      BY <1>1, <1>3, <2>2 DEF PartLeads
    <3>2. AllLead(intact, log', Len(log'), arg'[t])
      BY <1>3, <1>4, <1>5, <3>1 DEF AllLead
    <3> QED BY <1>2, <1>4, <1>5, <1>6, <2>2, <3>2 DEF ThreadLeads, Mid, Holding, Complete
  <2> QED BY <2>1, <2>2
<1>8. toc' \in Seq(EntryType) /\ TocLeads(intact, log', Len(log'), toc') /\ past' \in Pasts
  BY SameFile DEF IInv, Types
<1> QED BY <1>4, <1>5, <1>6, <1>7, <1>8, ThreadStep

(* What an AddRef, an insertion or a release makes of the store still leads *)
(* to chunks, and so does the table of contents with one more entry.        *)
LEMMA AddRefLeads ==
  ASSUME NEW intact \in BOOLEAN, IInv(intact), log' = log, NEW h \in Hash,
         store' = AddRef(store, h)
  PROVE  StoreLeads(intact)'
<1>1. DOMAIN store' = Hash
  BY DEF IInv, StoreLeads, AddRef
<1>2. ASSUME NEW x \in Hash, Known(store', x) PROVE EntryLeads(intact, x)'
  <2>1. Known(store, x)
    <3>1. CASE x = h /\ Known(store, h)
      BY <3>1
    <3>2. CASE ~(x = h /\ Known(store, h))
      <4>1. store'[x] = store[x]
        BY <3>2 DEF AddRef, IInv, StoreLeads
      <4> QED BY <1>2, <4>1 DEF Known
    <3> QED BY <3>1, <3>2
  <2>2. PICK off \in Nat : /\ \E c : store[x] = [off |-> off, refcount |-> c]
                           /\ Leads(intact, log, Len(log), x, off)
    BY <2>1 DEF IInv, StoreLeads, EntryLeads
  <2>3. \E c : store'[x] = [off |-> off, refcount |-> c]
    <3>1. PICK c : store[x] = [off |-> off, refcount |-> c]
      BY <2>2
    <3>2. \/ store'[x] = store[x]
          \/ store'[x] = [store[x] EXCEPT !.refcount = (@ + 1) % U32]
      BY DEF AddRef, IInv, StoreLeads
    <3>3. [store[x] EXCEPT !.refcount = (@ + 1) % U32]
            = [off |-> off, refcount |-> (c + 1) % U32]
      BY <3>1
    <3> QED BY <3>1, <3>2, <3>3
  <2> QED BY <2>2, <2>3 DEF EntryLeads
<1> QED BY <1>1, <1>2 DEF StoreLeads

LEMMA InsertLeads ==
  ASSUME NEW intact \in BOOLEAN, IInv(intact), log' = log, NEW h \in Hash,
         NEW off \in Nat,
         Leads(intact, log, Len(log), h, off), store' = StoreInsert(store, h, off)
  PROVE  StoreLeads(intact)'
<1>0. store' = [store EXCEPT ![h] = [off |-> off, refcount |-> 1]]
  BY DEF StoreInsert
<1>1. DOMAIN store' = Hash
  BY <1>0 DEF IInv, StoreLeads
<1>2. ASSUME NEW x \in Hash, Known(store', x) PROVE EntryLeads(intact, x)'
  <2>1. CASE x = h
    <3>1. store'[x] = [off |-> off, refcount |-> 1]
      BY <1>0, <2>1 DEF IInv, StoreLeads
    <3> QED BY <2>1, <3>1 DEF EntryLeads
  <2>2. CASE x # h
    <3>1. store'[x] = store[x]
      BY <1>0, <2>2 DEF IInv, StoreLeads
    <3> QED BY <1>2, <3>1 DEF IInv, StoreLeads, EntryLeads, Known
  <2> QED BY <2>1, <2>2
<1> QED BY <1>1, <1>2 DEF StoreLeads

LEMMA ReleaseLeads ==
  ASSUME NEW intact \in BOOLEAN, IInv(intact), log' = log, NEW dropped,
         store' = ReleaseAll(store, dropped)
  PROVE  StoreLeads(intact)'
<1>1. DOMAIN store' = Hash
  BY DEF ReleaseAll
<1>2. ASSUME NEW x \in Hash, Known(store', x) PROVE EntryLeads(intact, x)'
  <2>1. Known(store, x)
    BY <1>2 DEF ReleaseAll, Known
  <2>2. PICK off \in Nat : /\ \E c : store[x] = [off |-> off, refcount |-> c]
                           /\ Leads(intact, log, Len(log), x, off)
    BY <2>1 DEF IInv, StoreLeads, EntryLeads
  <2>3. PICK c : store[x] = [off |-> off, refcount |-> c]
    BY <2>2
  <2> DEFINE d == (store[x].refcount - OccurrencesIn(dropped, x)) % U32
  <2>4. store'[x] = [store[x] EXCEPT !.refcount = d]
    BY <2>1 DEF ReleaseAll
  <2>5. [store[x] EXCEPT !.refcount = d] = [off |-> off, refcount |-> d]
    <3> HIDE DEF d
    <3> QED BY <2>3, Recount
  <2> HIDE DEF d
  <2> QED BY <2>2, <2>4, <2>5 DEF EntryLeads
<1> QED BY <1>1, <1>2 DEF StoreLeads

LEMMA TocAppends ==
  ASSUME NEW intact \in BOOLEAN, IInv(intact), log' = log, NEW e \in EntryType,
         AllLead(intact, log, Len(log), e),
         toc' = Append(toc, e)
  PROVE  toc' \in Seq(EntryType) /\ TocLeads(intact, log', Len(log'), toc')
<1>1. toc \in Seq(EntryType)
  BY DEF IInv, Types
<1>2. Len(toc') = Len(toc) + 1 /\ Len(toc) \in Nat
      /\ \A i \in 1 .. Len(toc') : toc'[i] = IF i <= Len(toc) THEN toc[i] ELSE e
  BY <1>1
<1>3. \A i \in 1 .. Len(toc) : AllLead(intact, log, Len(log), toc[i])
  BY DEF IInv, TocLeads
<1> QED BY <1>1, <1>2, <1>3 DEF TocLeads

-----------------------------------------------------------------------------
(* put, step by step.                                                       *)
LEMMA PutStep ==
  ASSUME NEW intact \in BOOLEAN, IInv(intact), NEW t \in Threads, Put(t)
  PROVE  IInv(intact)'
<1> DEFINE r == arg[t].refs
           v == arg[t].value
           h == Segment(t)
<1>0. /\ arg[t] \in ArgType /\ pc[t] \in Points /\ ThreadLeads(intact, t)
      /\ log \in Seq(Block) /\ Len(log) \in Nat
      /\ toc \in Seq(EntryType) /\ past \in Pasts
      /\ v \in Seq(Hash) /\ r \in Seq(Nat) /\ arg[t].off \in Nat
      /\ arg = [arg EXCEPT ![t] = arg[t]]
      /\ pc \in [Threads -> Points] /\ arg \in [Threads -> ArgType]
  BY ThreadFacts DEF IInv, Types
<1>u. Up /\ Up'
  BY DEF Put, PutBegin, PutLookup, PutAddRef, PutAppend, PutContains, PutInsert,
         PutRecord, PutIndex, PutChain, PutToc, PutShouldCheckpoint, At, Up
<1>s. pc[t] \in Mid => /\ h \in Hash /\ Len(r) < Len(v)
                       /\ PartLeads(intact, log, Len(log), v, r) /\ h = v[Len(r) + 1]
                       /\ arg[t].key \in Key
  BY <1>0 DEF ThreadLeads, Segment
<1>1. CASE PutBegin(t)
  <2>1. PICK k \in Key, w \in Value, p \in Retentions :
          /\ arg' = [arg EXCEPT ![t] = [IdleArg EXCEPT !.call = "put", !.key = k,
                                                       !.value = w, !.retention = p]]
          /\ pc' = [pc EXCEPT ![t] = IF w = <<>> THEN "put_index" ELSE "put_lookup"]
    BY <1>1 DEF PutBegin, Set, Goto
  <2> DEFINE new == [IdleArg EXCEPT !.call = "put", !.key = k, !.value = w, !.retention = p]
             label == IF w = <<>> THEN "put_index" ELSE "put_lookup"
  <2>2. w \in Seq(Hash) /\ w \in Contents
    BY EngineAssumption DEF Contents
  <2>3. new \in ArgType /\ new.refs = <<>> /\ new.value = w /\ new.key \in Key
    BY <2>2, IdleArgType DEF ArgType, IdleArg, Calls
  <2>4. arg'[t] = new /\ pc'[t] = label /\ label \in Points
    BY <1>0, <2>1 DEF Points, Labels
  <2>5. PartLeads(intact, log, Len(log), w, <<>>)
    BY <2>2 DEF PartLeads
  <2>6. log' = log /\ toc' = toc /\ store' = store /\ past' = past
    BY <1>1 DEF PutBegin, disk, memory, history
  <2>7. ThreadLeads(intact, t)'
    <3> HIDE DEF new, label
    <3>1. CASE w = <<>>
      <4>1. AllLead(intact, log', Len(log'), arg'[t])
        BY <2>3, <2>4, <2>5, <2>6, <3>1 DEF AllLead
      <4>2. pc'[t] = "put_index"
        BY <2>4, <3>1 DEF label
      <4> QED BY <2>3, <2>4, <4>1, <4>2 DEF ThreadLeads, Mid, Holding, Complete
    <3>2. CASE w # <<>>
      <4>1. pc'[t] = "put_lookup" /\ Len(<<>>) < Len(w)
        BY <2>2, <2>4, <3>2 DEF label
      <4> QED BY <2>3, <2>4, <2>5, <2>6, <4>1 DEF ThreadLeads, Mid, Holding, Complete
    <3> QED BY <3>1, <3>2
  <2> QED BY <1>u, <2>1, <2>3, <2>4, <2>6, <2>7, LocalStep
<1>2. CASE PutLookup(t)
  <2>0. /\ pc[t] = "put_lookup" /\ log' = log /\ toc' = toc /\ store' = store
        /\ past' = past /\ pc[t] \in Mid
    BY <1>2 DEF PutLookup, At, disk, memory, history, Mid
  <2>1. CASE Known(store, h)
    <3>1. PICK off \in Nat : /\ \E c : store[h] = [off |-> off, refcount |-> c]
                             /\ Leads(intact, log, Len(log), h, off)
      BY <1>s, <2>0, <2>1 DEF IInv, StoreLeads, EntryLeads
    <3>2. store[h].off = off
      BY <3>1
    <3> DEFINE new == [arg[t] EXCEPT !.off = off]
    <3>3. arg' = [arg EXCEPT ![t] = new] /\ pc' = [pc EXCEPT ![t] = "put_add_ref"]
      BY <1>2, <2>1, <3>2 DEF PutLookup, Set, Goto
    <3>4. new \in ArgType /\ new.off = off /\ new.refs = r /\ new.value = v
          /\ new.key = arg[t].key
      BY <1>0 DEF ArgType
    <3>5. arg'[t] = new /\ pc'[t] = "put_add_ref" /\ "put_add_ref" \in Points
      BY <1>0, <3>3 DEF Points, Labels
    <3>6. ThreadLeads(intact, t)'
      <4> HIDE DEF new
      <4> QED BY <1>s, <2>0, <3>1, <3>4, <3>5
              DEF ThreadLeads, Segment, Mid, Holding, Complete
    <3> QED BY <1>u, <2>0, <3>3, <3>4, <3>5, <3>6, LocalStep
  <2>2. CASE ~Known(store, h)
    <3>1. arg' = [arg EXCEPT ![t] = arg[t]] /\ pc' = [pc EXCEPT ![t] = "put_append"]
      BY <1>0, <1>2, <2>2 DEF PutLookup, Set, Goto
    <3>2. arg'[t] = arg[t] /\ pc'[t] = "put_append" /\ "put_append" \in Points
      BY <1>0, <3>1 DEF Points, Labels
    <3>3. ThreadLeads(intact, t)'
      BY <1>s, <2>0, <3>2 DEF ThreadLeads, Mid, Holding, Complete
    <3> QED BY <1>0, <1>u, <2>0, <3>1, <3>2, <3>3, LocalStep
  <2> QED BY <2>1, <2>2
<1>3. CASE PutAddRef(t)
  <2>1. pc[t] \in Holding /\ pc[t] \in Mid
    BY <1>3 DEF PutAddRef, At, Holding, Mid
  <2>2. StoreLeads(intact)'
    BY <1>3, <1>s, <2>1, AddRefLeads DEF PutAddRef, disk
  <2> QED BY <1>3, <1>u, <2>1, <2>2, WithRefStep DEF PutAddRef, disk, history
<1>4. CASE PutAppend(t)
  <2> DEFINE b == Chunk(h)
             new == [arg[t] EXCEPT !.off = Len(log)]
  <2>0. /\ pc[t] = "put_append" /\ pc[t] \in Mid /\ log' = Append(log, b)
        /\ toc' = toc /\ store' = store /\ past' = past
        /\ arg' = [arg EXCEPT ![t] = new] /\ pc' = [pc EXCEPT ![t] = "put_contains"]
    BY <1>4 DEF PutAppend, At, Set, Goto, memory, history, Mid
  <2>1. b \in Block /\ b.kind # "checkpoint"
    BY <1>s, <2>0 DEF Block, Chunk
  <2>2. /\ log' \in Seq(Block) /\ Grows /\ Len(log') = Len(log) + 1
        /\ log'[Len(log) + 1] = b
    BY <1>0, <2>0, <2>1, AppendGrows
  <2>3. new \in ArgType /\ new.off = Len(log) /\ new.refs = r /\ new.value = v
        /\ new.key = arg[t].key
    BY <1>0 DEF ArgType
  <2>4. arg'[t] = new /\ pc'[t] = "put_contains" /\ "put_contains" \in Points
    BY <1>0, <2>0 DEF Points, Labels
  <2>5. Leads(intact, log', Len(log'), h, Len(log)) /\ Len(log) \in Nat
    BY <1>0, <2>2 DEF Leads
  <2>6. PartLeads(intact, log', Len(log'), v, r)
    <3>1. Len(log') \in Nat /\ Len(log) <= Len(log')
      BY <1>0, <2>2
    <3>2. \A i \in 1 .. Len(log) : log'[i] = log[i]
      BY <2>2 DEF Grows
    <3>3. Len(log) \in Nat /\ r \in Seq(Nat) /\ PartLeads(intact, log, Len(log), v, r)
      BY <1>0, <1>s, <2>0
    <3> HIDE DEF b, h, new, r, v
    <3> QED BY <3>1, <3>2, <3>3, PartGrows
  <2>7. ThreadLeads(intact, t)'
    <3> HIDE DEF new, b
    <3> QED BY <1>s, <2>0, <2>3, <2>4, <2>5, <2>6
            DEF ThreadLeads, Segment, Mid, Holding, Complete
  <2>8. /\ toc' \in Seq(EntryType) /\ TocLeads(intact, log', Len(log'), toc')
        /\ past' \in Pasts /\ StoreLeads(intact)'
    BY <1>0, <2>0, <2>2, TocKeeps, StoreKeeps
  <2>9. \E x \in Block : Appended(intact, x)
    BY <2>0, <2>1 DEF Appended
  <2> QED BY <1>u, <2>0, <2>3, <2>4, <2>7, <2>8, <2>9, ThreadStep
<1>5. CASE PutContains(t)
  <2> DEFINE label == IF Known(store, h) THEN "put_record" ELSE "put_insert"
  <2>0. /\ pc[t] = "put_contains" /\ pc[t] \in Mid /\ pc[t] \in Holding
        /\ log' = log /\ toc' = toc /\ store' = store /\ past' = past
        /\ arg' = [arg EXCEPT ![t] = arg[t]] /\ pc' = [pc EXCEPT ![t] = label]
    BY <1>0, <1>5 DEF PutContains, At, Goto, disk, memory, history, Mid, Holding
  <2>1. arg'[t] = arg[t] /\ pc'[t] = label /\ label \in Points
    BY <1>0, <2>0 DEF Points, Labels
  <2>2. label \in {"put_record", "put_insert"}
    OBVIOUS
  <2> HIDE DEF label
  <2>3. ThreadLeads(intact, t)'
    BY <1>0, <1>s, <2>0, <2>1, <2>2 DEF ThreadLeads, Segment, Mid, Holding, Complete
  <2> QED BY <1>0, <1>u, <2>0, <2>1, <2>3, LocalStep
<1>6. CASE PutInsert(t)
  <2>0. /\ pc[t] = "put_insert" /\ pc[t] \in Mid /\ pc[t] \in Holding
        /\ log' = log /\ toc' = toc /\ past' = past
        /\ store' = [store EXCEPT ![h] = [off |-> arg[t].off, refcount |-> 1]]
        /\ arg' = [arg EXCEPT ![t] = arg[t]] /\ pc' = [pc EXCEPT ![t] = "put_record"]
    BY <1>0, <1>6 DEF PutInsert, StoreInsert, At, Goto, disk, history, Mid, Holding
  <2>1. arg'[t] = arg[t] /\ pc'[t] = "put_record" /\ "put_record" \in Points
    BY <1>0, <2>0 DEF Points, Labels
  <2>2. ThreadLeads(intact, t)'
    BY <1>0, <1>s, <2>0, <2>1 DEF ThreadLeads, Segment, Mid, Holding, Complete
  <2>3. StoreLeads(intact)'
    <3>1. Leads(intact, log, Len(log), h, arg[t].off)
      BY <1>0, <2>0 DEF ThreadLeads
    <3> HIDE DEF h
    <3> QED BY <1>0, <1>s, <2>0, <3>1, InsertLeads DEF StoreInsert
  <2>4. /\ toc' \in Seq(EntryType) /\ past' \in Pasts
        /\ TocLeads(intact, log', Len(log'), toc')
    BY <1>0, <2>0, SameFile
  <2> QED BY <1>0, <1>u, <2>0, <2>1, <2>2, <2>3, <2>4, ThreadStep
<1>7. CASE PutRecord(t)
  <2>1. pc[t] \in Holding /\ log' = log /\ store' = store
    BY <1>7 DEF PutRecord, At, Holding, disk
  <2>2. StoreLeads(intact)'
    BY <2>1, SameFile
  <2> QED BY <1>7, <1>u, <2>1, <2>2, WithRefStep DEF PutRecord, disk, history
<1>8. CASE PutIndex(t)
  <2>0. /\ pc[t] = "put_index" /\ log' = log /\ toc' = toc /\ store' = store
        /\ past' = past
        /\ arg' = [arg EXCEPT ![t] = arg[t]] /\ pc' = [pc EXCEPT ![t] = "put_chain"]
    BY <1>0, <1>8 DEF PutIndex, At, Goto, disk, history
  <2>1. arg'[t] = arg[t] /\ pc'[t] = "put_chain" /\ "put_chain" \in Points
    BY <1>0, <2>0 DEF Points, Labels
  <2>2. ThreadLeads(intact, t)'
    BY <1>0, <2>0, <2>1 DEF ThreadLeads, Mid, Holding, Complete
  <2> QED BY <1>0, <1>u, <2>0, <2>1, <2>2, LocalStep
<1>9. CASE PutChain(t)
  <2> DEFINE dropped == Evicted([chains[arg[t].key] EXCEPT !.retention = arg[t].retention], v)
  <2>0. /\ pc[t] = "put_chain" /\ log' = log /\ toc' = toc /\ past' = past
        /\ store' = ReleaseAll(store, dropped)
        /\ arg' = [arg EXCEPT ![t] = arg[t]] /\ pc' = [pc EXCEPT ![t] = "put_toc"]
    BY <1>0, <1>9 DEF PutChain, At, Goto, disk, history
  <2>1. arg'[t] = arg[t] /\ pc'[t] = "put_toc" /\ "put_toc" \in Points
    BY <1>0, <2>0 DEF Points, Labels
  <2>2. ThreadLeads(intact, t)'
    BY <1>0, <2>0, <2>1 DEF ThreadLeads, Mid, Holding, Complete
  <2> HIDE DEF dropped
  <2>3. StoreLeads(intact)'
    BY <2>0, ReleaseLeads
  <2>4. /\ toc' \in Seq(EntryType) /\ past' \in Pasts
        /\ TocLeads(intact, log', Len(log'), toc')
    BY <1>0, <2>0, SameFile
  <2> QED BY <1>0, <1>u, <2>0, <2>1, <2>2, <2>3, <2>4, ThreadStep
<1>10. CASE PutToc(t)
  <2> DEFINE e == NewEntry(arg[t].key, v, r)
  <2>0. /\ pc[t] = "put_toc" /\ log' = log /\ toc' = Append(toc, e) /\ store' = store
        /\ Remember(arg[t].key, v)
        /\ arg' = [arg EXCEPT ![t] = arg[t]]
        /\ pc' = [pc EXCEPT ![t] = "put_should_checkpoint"]
    BY <1>0, <1>10 DEF PutToc, At, Goto, disk
  <2>1. /\ arg'[t] = arg[t] /\ pc'[t] = "put_should_checkpoint"
        /\ "put_should_checkpoint" \in Points
    BY <1>0, <2>0 DEF Points, Labels
  <2>2. ThreadLeads(intact, t)'
    BY <2>1 DEF ThreadLeads, Mid, Holding, Complete
  <2>3. arg[t].key \in Key
    BY <1>0, <2>0 DEF ThreadLeads, Complete
  <2>4. e \in EntryType /\ e.refs = r /\ e.value = v
    BY <1>0, <2>3 DEF EntryType, NewEntry, ArgType
  <2>5. AllLead(intact, log, Len(log), e)
    BY <1>0, <2>0, <2>4 DEF ThreadLeads, Complete, AllLead
  <2>6. toc' \in Seq(EntryType) /\ TocLeads(intact, log', Len(log'), toc')
    <3> HIDE DEF e
    <3> QED BY <2>0, <2>4, <2>5, TocAppends
  <2>7. past' \in Pasts
    <3>1. v \in Contents \union {Absent}
      BY <1>0 DEF ArgType
    <3> QED BY <1>0, <2>0, <3>1, RememberType
  <2>8. StoreLeads(intact)'
    BY <2>0, SameFile
  <2> QED BY <1>0, <1>u, <2>0, <2>1, <2>2, <2>6, <2>7, <2>8, ThreadStep
<1>11. CASE PutShouldCheckpoint(t)
  <2>0. log' = log /\ toc' = toc /\ store' = store /\ past' = past
    BY <1>11 DEF PutShouldCheckpoint, disk, memory, history
  <2>1. CASE Return(t)
    BY <1>0, <1>u, <2>0, <2>1, SameFile, ReturnStep
  <2>2. CASE Goto(t, "checkpoint_toc") /\ UNCHANGED arg
    <3>1. /\ arg' = [arg EXCEPT ![t] = arg[t]]
          /\ pc' = [pc EXCEPT ![t] = "checkpoint_toc"] /\ pc'[t] = "checkpoint_toc"
          /\ "checkpoint_toc" \in Points
      BY <1>0, <2>2 DEF Goto, Points, Labels
    <3>2. ThreadLeads(intact, t)'
      BY <3>1 DEF ThreadLeads, Mid, Holding, Complete
    <3> QED BY <1>0, <1>u, <2>0, <3>1, <3>2, LocalStep
  <2> QED BY <1>11, <2>1, <2>2 DEF PutShouldCheckpoint
<1> QED BY <1>1, <1>2, <1>3, <1>4, <1>5, <1>6, <1>7, <1>8, <1>9, <1>10, <1>11 DEF Put

-----------------------------------------------------------------------------
(* checkpoint, flush and close, step by step.                               *)
LEMMA CheckpointStep ==
  ASSUME NEW intact \in BOOLEAN, IInv(intact), NEW t \in Threads, TakeCheckpoint(t)
  PROVE  IInv(intact)'
<1>0. /\ arg[t] \in ArgType /\ pc[t] \in Points /\ ThreadLeads(intact, t)
      /\ log \in Seq(Block) /\ Len(log) \in Nat
      /\ toc \in Seq(EntryType) /\ past \in Pasts
      /\ arg[t].off \in Nat /\ arg[t].toc \in Seq(EntryType)
      /\ arg = [arg EXCEPT ![t] = arg[t]]
      /\ pc \in [Threads -> Points] /\ arg \in [Threads -> ArgType]
  BY ThreadFacts DEF IInv, Types
<1>u. Up /\ Up'
  BY DEF TakeCheckpoint, CheckpointBegin, CheckpointToc, CheckpointLen, CheckpointAppend,
         CheckpointSync, CheckpointReset, LastSync, At, Up
<1>1. CASE CheckpointBegin(t)
  <2>1. PICK c \in {"checkpoint", "flush", "close"} :
          /\ arg' = [arg EXCEPT ![t] = [IdleArg EXCEPT !.call = c]]
          /\ pc' = [pc EXCEPT ![t] = "checkpoint_toc"]
          /\ log' = log /\ toc' = toc /\ store' = store /\ past' = past
    BY <1>1 DEF CheckpointBegin, Set, Goto, disk, memory, history
  <2>2. [IdleArg EXCEPT !.call = c] \in ArgType
    BY IdleArgType DEF ArgType, Calls
  <2>3. pc'[t] = "checkpoint_toc" /\ "checkpoint_toc" \in Points
    BY <1>0, <2>1 DEF Points, Labels
  <2>4. ThreadLeads(intact, t)'
    BY <2>3 DEF ThreadLeads, Mid, Holding, Complete
  <2> QED BY <1>u, <2>1, <2>2, <2>3, <2>4, LocalStep
<1>2. CASE CheckpointToc(t)
  <2> DEFINE new == [arg[t] EXCEPT !.toc = toc, !.past = past]
  <2>0. /\ arg' = [arg EXCEPT ![t] = new] /\ pc' = [pc EXCEPT ![t] = "checkpoint_len"]
        /\ log' = log /\ toc' = toc /\ store' = store /\ past' = past
    BY <1>2 DEF CheckpointToc, Set, Goto, disk, memory, history
  <2>1. new \in ArgType /\ new.toc = toc
    BY <1>0 DEF ArgType
  <2>2. arg'[t] = new /\ pc'[t] = "checkpoint_len" /\ "checkpoint_len" \in Points
    BY <1>0, <2>0 DEF Points, Labels
  <2>3. TocLeads(intact, log', Len(log'), arg'[t].toc)
    BY <2>0, <2>1, <2>2 DEF IInv
  <2>4. ThreadLeads(intact, t)'
    BY <2>2, <2>3 DEF ThreadLeads, Mid, Holding, Complete
  <2> QED BY <1>u, <2>0, <2>1, <2>2, <2>4, LocalStep
<1>3. CASE CheckpointLen(t)
  <2> DEFINE new == [arg[t] EXCEPT !.off = Len(log)]
  <2>0. /\ arg' = [arg EXCEPT ![t] = new] /\ pc' = [pc EXCEPT ![t] = "checkpoint_append"]
        /\ pc[t] = "checkpoint_len"
        /\ log' = log /\ toc' = toc /\ store' = store /\ past' = past
    BY <1>3 DEF CheckpointLen, At, Set, Goto, disk, memory, history
  <2>1. new \in ArgType /\ new.toc = arg[t].toc /\ new.off = Len(log)
    BY <1>0 DEF ArgType
  <2>2. arg'[t] = new /\ pc'[t] = "checkpoint_append" /\ "checkpoint_append" \in Points
    BY <1>0, <2>0 DEF Points, Labels
  <2>3. TocLeads(intact, log', Len(log'), arg'[t].toc) /\ arg'[t].off <= Len(log')
    BY <1>0, <2>0, <2>1, <2>2 DEF ThreadLeads
  <2>4. ThreadLeads(intact, t)'
    BY <2>2, <2>3 DEF ThreadLeads, Mid, Holding, Complete
  <2> QED BY <1>u, <2>0, <2>1, <2>2, <2>4, LocalStep
<1>4. CASE CheckpointAppend(t)
  <2> DEFINE b == Checkpoint(arg[t].toc, arg[t].off, arg[t].past)
             new == [arg[t] EXCEPT !.off = Len(log) + 1]
  <2>0. /\ arg' = [arg EXCEPT ![t] = new] /\ pc' = [pc EXCEPT ![t] = "checkpoint_sync"]
        /\ pc[t] = "checkpoint_append"
        /\ log' = Append(log, b) /\ toc' = toc /\ store' = store /\ past' = past
    BY <1>4 DEF CheckpointAppend, At, Set, Goto, memory, history
  <2>1. /\ b \in Block /\ b.toc = arg[t].toc /\ b.tocOffset = arg[t].off
    BY <1>0 DEF Block, Checkpoint, ArgType
  <2>2. Appended(intact, b)
    BY <1>0, <2>0, <2>1 DEF Appended, ThreadLeads
  <2>3. log' \in Seq(Block) /\ Grows
    BY <1>0, <2>0, <2>1, AppendGrows
  <2>4. new \in ArgType
    <3>1. Len(log) + 1 \in Nat
      BY <1>0
    <3> QED BY <1>0, <3>1 DEF ArgType
  <2>5. pc'[t] = "checkpoint_sync" /\ "checkpoint_sync" \in Points
    BY <1>0, <2>0 DEF Points, Labels
  <2>6. ThreadLeads(intact, t)'
    BY <2>5 DEF ThreadLeads, Mid, Holding, Complete
  <2>7. /\ toc' \in Seq(EntryType) /\ TocLeads(intact, log', Len(log'), toc')
        /\ past' \in Pasts /\ StoreLeads(intact)'
    BY <1>0, <2>0, <2>3, TocKeeps, StoreKeeps
  <2> QED BY <1>u, <2>0, <2>1, <2>2, <2>4, <2>5, <2>6, <2>7, ThreadStep
<1>5. CASE CheckpointSync(t)
  <2>0. /\ arg' = [arg EXCEPT ![t] = arg[t]] /\ pc' = [pc EXCEPT ![t] = "checkpoint_reset"]
        /\ log' = log /\ toc' = toc /\ store' = store /\ past' = past
    BY <1>0, <1>5 DEF CheckpointSync, Goto, memory
  <2>1. pc'[t] = "checkpoint_reset" /\ "checkpoint_reset" \in Points
    BY <1>0, <2>0 DEF Points, Labels
  <2>2. ThreadLeads(intact, t)'
    BY <2>1 DEF ThreadLeads, Mid, Holding, Complete
  <2> QED BY <1>0, <1>u, <2>0, <2>1, <2>2, LocalStep
<1>6. CASE CheckpointReset(t)
  <2>0. log' = log /\ toc' = toc /\ store' = store /\ past' = past
    BY <1>6 DEF CheckpointReset, disk, history
  <2>1. CASE Return(t)
    BY <1>0, <1>u, <2>0, <2>1, SameFile, ReturnStep
  <2>2. CASE Goto(t, "last_sync") /\ UNCHANGED arg
    <3>1. /\ arg' = [arg EXCEPT ![t] = arg[t]] /\ pc' = [pc EXCEPT ![t] = "last_sync"]
          /\ pc'[t] = "last_sync" /\ "last_sync" \in Points
      BY <1>0, <2>2 DEF Goto, Points, Labels
    <3>2. ThreadLeads(intact, t)'
      BY <3>1 DEF ThreadLeads, Mid, Holding, Complete
    <3> QED BY <1>0, <1>u, <2>0, <3>1, <3>2, LocalStep
  <2> QED BY <1>6, <2>1, <2>2 DEF CheckpointReset
<1>7. CASE LastSync(t)
  <2>1. log' = log /\ toc' = toc /\ store' = store /\ past' = past /\ Return(t)
    BY <1>7 DEF LastSync, memory, history
  <2> QED BY <1>0, <1>u, <2>1, SameFile, ReturnStep
<1> QED BY <1>1, <1>2, <1>3, <1>4, <1>5, <1>6, <1>7 DEF TakeCheckpoint

(* delete and get, step by step.                                            *)
LEMMA TombstonedLeads ==
  ASSUME NEW intact \in BOOLEAN, NEW l, NEW n, NEW entries \in Seq(EntryType), NEW k,
         TocLeads(intact, l, n, entries)
  PROVE  /\ Tombstoned(entries, k) \in Seq(EntryType)
         /\ TocLeads(intact, l, n, Tombstoned(entries, k))
<1> DEFINE dead == Tombstoned(entries, k)
<1>1. ASSUME NEW i \in 1 .. Len(entries)
      PROVE  /\ dead[i] \in EntryType
             /\ dead[i].refs = entries[i].refs /\ dead[i].value = entries[i].value
  <2>1. entries[i] \in EntryType /\ i \in DOMAIN entries
    OBVIOUS
  <2>2. dead[i] = IF entries[i].key = k THEN [entries[i] EXCEPT !.dead = TRUE] ELSE entries[i]
    BY <2>1, Zenon DEF Tombstoned
  <2> QED BY <2>1, <2>2 DEF EntryType
<1>2. Len(entries) \in Nat /\ dead = [i \in 1 .. Len(entries) |-> dead[i]]
  BY DEF Tombstoned
<1>3. dead \in Seq(EntryType) /\ Len(dead) = Len(entries)
  <2> HIDE DEF dead
  <2> QED BY <1>1, <1>2
<1> HIDE DEF dead
<1>4. ASSUME NEW i \in 1 .. Len(dead) PROVE AllLead(intact, l, n, dead[i])
  BY <1>1, <1>3 DEF TocLeads, AllLead
<1> QED BY <1>3, <1>4 DEF TocLeads, dead

LEMMA DeleteStep ==
  ASSUME NEW intact \in BOOLEAN, IInv(intact), NEW t \in Threads, Delete(t)
  PROVE  IInv(intact)'
<1>0. /\ arg[t] \in ArgType /\ pc[t] \in Points
      /\ toc \in Seq(EntryType) /\ past \in Pasts
      /\ arg = [arg EXCEPT ![t] = arg[t]]
      /\ pc \in [Threads -> Points] /\ arg \in [Threads -> ArgType]
  BY ThreadFacts DEF IInv, Types
<1>u. Up /\ Up'
  BY DEF Delete, DeleteBegin, DeleteChain, DeleteToc, At, Up
<1>1. CASE DeleteBegin(t)
  <2>1. PICK k \in Key :
          /\ arg' = [arg EXCEPT ![t] = [IdleArg EXCEPT !.call = "delete", !.key = k]]
          /\ pc' = [pc EXCEPT ![t] = "delete_chain"]
          /\ log' = log /\ toc' = toc /\ store' = store /\ past' = past
    BY <1>1 DEF DeleteBegin, Set, Goto, disk, history
  <2>2. [IdleArg EXCEPT !.call = "delete", !.key = k] \in ArgType
    BY IdleArgType DEF ArgType, Calls
  <2>3. pc'[t] = "delete_chain" /\ "delete_chain" \in Points
    BY <1>0, <2>1 DEF Points, Labels
  <2>4. ThreadLeads(intact, t)'
    BY <2>3 DEF ThreadLeads, Mid, Holding, Complete
  <2> QED BY <1>u, <2>1, <2>2, <2>3, <2>4, LocalStep
<1>2. CASE DeleteChain(t)
  <2>1. /\ arg' = [arg EXCEPT ![t] = arg[t]] /\ pc' = [pc EXCEPT ![t] = "delete_toc"]
        /\ log' = log /\ toc' = toc /\ store' = store /\ past' = past
    BY <1>0, <1>2 DEF DeleteChain, Goto, disk, history
  <2>2. pc'[t] = "delete_toc" /\ "delete_toc" \in Points
    BY <1>0, <2>1 DEF Points, Labels
  <2>3. ThreadLeads(intact, t)'
    BY <2>2 DEF ThreadLeads, Mid, Holding, Complete
  <2> QED BY <1>0, <1>u, <2>1, <2>2, <2>3, LocalStep
<1>3. CASE DeleteToc(t)
  <2>1. /\ toc' = Tombstoned(toc, arg[t].key) /\ Remember(arg[t].key, Absent)
        /\ log' = log /\ store' = store /\ Return(t)
    BY <1>3 DEF DeleteToc, disk
  <2>2. toc' \in Seq(EntryType) /\ TocLeads(intact, log', Len(log'), toc')
    BY <1>0, <2>1, TombstonedLeads DEF IInv
  <2>3. past' \in Pasts
    BY <1>0, <2>1, RememberType
  <2> QED BY <1>u, <2>1, <2>2, <2>3, ReturnStep
<1> QED BY <1>1, <1>2, <1>3 DEF Delete

LEMMA GetStep ==
  ASSUME NEW intact \in BOOLEAN, IInv(intact), NEW t \in Threads, Get(t)
  PROVE  IInv(intact)'
<1>0. /\ arg[t] \in ArgType /\ toc \in Seq(EntryType) /\ past \in Pasts
      /\ pc \in [Threads -> Points] /\ arg \in [Threads -> ArgType]
  BY ThreadFacts DEF IInv, Types
<1>u. Up /\ Up'
  BY DEF Get, GetLookup, GetRead, At, Up
<1>1. CASE GetLookup(t)
  <2>1. PICK k \in Key :
          /\ Live(toc, k)
          /\ arg' = [arg EXCEPT ![t] =
                       [IdleArg EXCEPT !.call = "get", !.key = k,
                                       !.value = Latest(toc, k).value,
                                       !.refs = Latest(toc, k).refs]]
          /\ pc' = [pc EXCEPT ![t] = "get_read"]
          /\ log' = log /\ toc' = toc /\ store' = store /\ past' = past
    BY <1>1 DEF GetLookup, Set, Goto, disk, memory, history
  <2> DEFINE P == Positions(toc, k)
             e == toc[Max(P)]
             new == [IdleArg EXCEPT !.call = "get", !.key = k, !.value = e.value,
                                    !.refs = e.refs]
  <2>2. P \in SUBSET (1 .. Len(toc)) /\ P # {} /\ Len(toc) \in Nat
    BY <1>0, <2>1 DEF Positions, Live
  <2>3. Max(P) \in 1 .. Len(toc)
    <3> HIDE DEF P
    <3>1. Max(P) \in P
      BY <2>2, MaxOf, Zenon
    <3> QED BY <2>2, <3>1
  <2>4. e \in EntryType /\ AllLead(intact, log, Len(log), e)
    BY <1>0, <2>3 DEF IInv, TocLeads
  <2>5. Latest(toc, k) = e
    BY DEF Latest
  <2> HIDE DEF e
  <2>6. new \in ArgType /\ new.value = e.value /\ new.refs = e.refs /\ new.key \in Key
    BY <2>4, IdleArgType DEF ArgType, IdleArg, EntryType, Calls
  <2>7. arg' = [arg EXCEPT ![t] = new] /\ pc' = [pc EXCEPT ![t] = "get_read"]
    BY <2>1, <2>5
  <2>8. arg'[t] = new /\ pc'[t] = "get_read" /\ "get_read" \in Points
    BY <1>0, <2>7 DEF Points, Labels
  <2> HIDE DEF new
  <2>9. ThreadLeads(intact, t)'
    BY <2>1, <2>4, <2>6, <2>8 DEF ThreadLeads, AllLead, Mid, Holding, Complete
  <2> QED BY <1>u, <2>1, <2>6, <2>7, <2>8, <2>9, LocalStep
<1>2. CASE GetRead(t)
  <2>1. log' = log /\ toc' = toc /\ store' = store /\ past' = past /\ Return(t)
    BY <1>2 DEF GetRead, disk, memory, history
  <2> QED BY <1>0, <1>u, <2>1, SameFile, ReturnStep
<1> QED BY <1>1, <1>2 DEF Get

-----------------------------------------------------------------------------
(* A file cut off anywhere: blocks lead into the part that ends with them,  *)
(* and threads and store hold nothing.                                      *)
LEMMA CutOff ==
  ASSUME NEW intact \in BOOLEAN, IInv(intact), NEW n \in 0 .. Len(log),
         log' = SubSeq(log, 1, n)
  PROVE  log' \in Seq(Block) /\ Len(log') = n /\ BlocksLead(intact)'
<1>0. log \in Seq(Block) /\ Len(log) \in Nat /\ n \in Nat
  BY DEF IInv, Types
<1>1. /\ log' \in Seq(Block) /\ Len(log') = n
      /\ \A i \in 1 .. n : log'[i] = log[i]
  <2>1. 1 \in Int /\ n \in Int /\ \A i \in 1 .. n : log[i] \in Block
    BY <1>0
  <2> QED BY <1>0, <2>1, SubSeqProperties
<1>2. ASSUME NEW i \in 1 .. n, log'[i].kind = "checkpoint"
      PROVE  BlockLeads(intact, i)'
  <2>1. /\ log'[i] = log[i] /\ log[i] \in Block /\ i \in Nat /\ i <= i
        /\ \A j \in 1 .. i : log'[j] = log[j]
    BY <1>0, <1>1
  <2>2. BlockLeads(intact, i) /\ i \in 1 .. Len(log)
    BY <1>0, <1>2, <2>1 DEF IInv, BlocksLead
  <2>3. log[i].toc \in Seq(EntryType)
    BY <1>2, <2>1 DEF Block
  <2>4. TocLeads(intact, log', i, log[i].toc)
    BY <2>1, <2>2, <2>3, TocGrows DEF BlockLeads
  <2> QED BY <2>1, <2>2, <2>4 DEF BlockLeads
<1> QED BY <1>1, <1>2 DEF BlocksLead

(* Once everything in memory is forgotten, only the file can be wrong.      *)
LEMMA ForgottenLeads ==
  ASSUME NEW intact \in BOOLEAN, Forget, log' \in Seq(Block), BlocksLead(intact)',
         past' \in Pasts
  PROVE  IInv(intact)'
<1>1. /\ toc' = <<>> /\ store' = EmptyStore
      /\ pc' = [t \in Threads |-> "idle"] /\ arg' = [t \in Threads |-> IdleArg]
  BY DEF Forget
<1>2. Types'
  <2>1. <<>> \in Seq(EntryType) /\ "idle" \in Points
    BY DEF Points, Labels
  <2> QED BY <1>1, <2>1, IdleArgType DEF Types
<1>3. TocLeads(intact, log', Len(log'), toc')
  BY <1>1 DEF TocLeads
<1>4. StoreLeads(intact)'
  BY <1>1 DEF StoreLeads, EmptyStore, Known
<1>5. \A t \in Threads : ThreadLeads(intact, t)'
  BY <1>1 DEF ThreadLeads, Mid, Holding, Complete
<1>6. DownIsEmpty'
  BY <1>1 DEF DownIsEmpty
<1> QED BY <1>2, <1>3, <1>4, <1>5, <1>6 DEF IInv

LEMMA CrashStep ==
  ASSUME NEW intact \in BOOLEAN, IInv(intact), durable \in Nat, Crash
  PROVE  IInv(intact)'
<1>1. PICK n \in durable .. Len(log) : log' = SubSeq(log, 1, n)
  BY DEF Crash
<1>2. n \in 0 .. Len(log)
  BY DEF IInv, Types
<1>3. Forget /\ past' \in Pasts
  BY DEF Crash, history, IInv, Types
<1> QED BY <1>1, <1>2, <1>3, CutOff, ForgottenLeads

LEMMA DropStep ==
  ASSUME NEW intact \in BOOLEAN, IInv(intact), Drop
  PROVE  IInv(intact)'
<1>1. Forget /\ log' = log /\ past' \in Pasts
  BY DEF Drop, disk, history, IInv, Types
<1>2. log' \in Seq(Block) /\ BlocksLead(intact)'
  BY <1>1 DEF IInv, Types, BlocksLead, BlockLeads
<1> QED BY <1>1, <1>2, ForgottenLeads

(* Reopening takes the table from a block at or before the last footer.     *)
LEMMA OpenStep ==
  ASSUME NEW intact \in BOOLEAN, IInv(intact), Open
  PROVE  IInv(intact)'
<1>0. /\ log \in Seq(Block) /\ Len(log) \in Nat
      /\ store = EmptyStore /\ store' = store /\ \A t \in Threads : pc[t] = "idle"
      /\ pc' = pc /\ arg' = arg
  BY DEF Open, IInv, Types, DownIsEmpty, Up
<1>1. StoreLeads(intact)'
  BY <1>0 DEF StoreLeads, EmptyStore, Known
<1>2. \A t \in Threads : ThreadLeads(intact, t)'
  BY <1>0 DEF ThreadLeads, Mid, Holding, Complete
<1>3. DownIsEmpty'
  BY <1>0 DEF DownIsEmpty
<1>4. CASE Recoverable(log)
  <2> DEFINE m == Max(Footers(log))
             j == log[m].tocOffset + 1
  <2>1. /\ log' = SubSeq(log, 1, m) /\ toc' = log[j].toc /\ past' = log[j].past
        /\ log[j].kind = "checkpoint"
    BY <1>4 DEF Open, Recoverable, Recovered, BlockAt
  <2>2. m \in 1 .. Len(log) /\ log[m].kind = "checkpoint"
    <3>1. Footers(log) \in SUBSET (1 .. Len(log)) /\ Footers(log) # {}
      BY <1>0, <1>4 DEF Footers, Recoverable
    <3>2. m \in Footers(log)
      BY <1>0, <3>1, MaxOf, Zenon
    <3> QED BY <3>1, <3>2 DEF Footers
  <2> HIDE DEF m
  <2>3. log[m] \in Block
    BY <1>0, <2>2
  <2>4. log[m].tocOffset \in Nat /\ log[m].tocOffset < m
    BY <2>2, <2>3 DEF Block, IInv, BlocksLead, BlockLeads
  <2>5. j \in 1 .. Len(log) /\ j <= m /\ m \in Nat /\ j \in Nat
    BY <1>0, <2>2, <2>4
  <2> HIDE DEF j
  <2>6. log[j] \in Block /\ BlockLeads(intact, j)
    BY <1>0, <2>1, <2>5 DEF IInv, BlocksLead
  <2>7. toc' \in Seq(EntryType) /\ past' \in Pasts
    BY <2>1, <2>6 DEF Block
  <2>8. m \in 0 .. Len(log)
    BY <2>2
  <2>9. log' \in Seq(Block) /\ Len(log') = m /\ BlocksLead(intact)'
    BY <2>1, <2>8, CutOff
  <2>10. TocLeads(intact, log', Len(log'), toc')
    <3>1. \A i \in 1 .. j : log'[i] = log[i]
      BY <1>0, <2>1, <2>2, <2>5
    <3>2. TocLeads(intact, log, j, log[j].toc) /\ log[j].toc \in Seq(EntryType)
      BY <2>1, <2>6, <2>7 DEF BlockLeads
    <3>3. TocLeads(intact, log', m, log[j].toc)
      BY <2>5, <3>1, <3>2, TocGrows
    <3> QED BY <2>1, <2>9, <3>3
  <2>11. Types'
    BY <1>0, <2>7, <2>9 DEF IInv, Types
  <2> QED BY <1>1, <1>2, <1>3, <2>9, <2>10, <2>11 DEF IInv
<1>5. CASE ~Recoverable(log)
  <2>1. log' = log /\ toc' = toc /\ past' = past
    BY <1>5 DEF Open
  <2>2. Types' /\ TocLeads(intact, log', Len(log'), toc') /\ BlocksLead(intact)'
    BY <1>0, <2>1 DEF IInv, Types, BlocksLead, BlockLeads
  <2> QED BY <1>1, <1>2, <1>3, <2>2 DEF IInv
<1> QED BY <1>4, <1>5

-----------------------------------------------------------------------------
LEMMA DurableStep ==
  ASSUME NEW intact \in BOOLEAN, IInv(intact), durable \in Nat, [Next]_vars
  PROVE  durable' \in Nat
<1>1. Len(log) \in Nat /\ \A t \in Threads : arg[t].off \in Nat
  BY ThreadFacts DEF IInv, Types
<1>2. ASSUME NEW n \in Nat, SyncedFrom(n) PROVE durable' \in Nat
  BY <1>1, <1>2 DEF SyncedFrom
<1>3. CASE UNCHANGED durable
  BY <1>3
<1>4. ASSUME NEW t \in Threads, CheckpointSync(t) \/ LastSync(t) PROVE durable' \in Nat
  BY <1>1, <1>2, <1>4 DEF CheckpointSync, LastSync
<1>5. CASE Open
  <2>1. CASE Recoverable(log)
    <3>1. Max(Footers(log)) \in 1 .. Len(log)
      <4>1. Footers(log) \in SUBSET (1 .. Len(log)) /\ Footers(log) # {}
        BY <2>1 DEF Footers, Recoverable, IInv, Types
      <4>2. Max(Footers(log)) \in Footers(log)
        BY <1>1, <4>1, MaxOf, Zenon
      <4> QED BY <4>1, <4>2
    <3>2. Len(log') \in Nat
      <4>1. log' = SubSeq(log, 1, Max(Footers(log))) /\ Max(Footers(log)) \in 0 .. Len(log)
        BY <1>5, <2>1, <3>1 DEF Open
      <4> QED BY <1>1, <4>1, CutOff
    <3> QED BY <1>5, <2>1, <3>2 DEF Open
  <2>2. CASE ~Recoverable(log)
    BY <1>5, <2>2 DEF Open
  <2> QED BY <2>1, <2>2
<1>6. CASE UNCHANGED vars
  BY <1>6 DEF vars
<1> QED
  BY ZenonT(60), <1>3, <1>4, <1>5, <1>6
     DEF Next, Put, TakeCheckpoint, Delete, Get, PutBegin, PutLookup, PutAddRef, PutAppend,
         PutContains, PutInsert, PutRecord, PutIndex, PutChain, PutToc,
         PutShouldCheckpoint, CheckpointBegin, CheckpointToc, CheckpointLen,
         CheckpointAppend, CheckpointReset, DeleteBegin, DeleteChain, DeleteToc,
         GetLookup, GetRead, Crash, Drop, disk

Holds(intact) == IInv(intact) /\ durable \in Nat

Inductive == Holds(TRUE)

LEMMA InitHolds ==
  ASSUME NEW intact \in BOOLEAN, Init
  PROVE  Holds(intact)
<1>1. Types
  <2>1. <<>> \in Seq(Block) /\ <<>> \in Seq(EntryType) /\ "idle" \in Points
    BY DEF Points, Labels
  <2>2. past \in Pasts
    BY NoChangesType DEF Init
  <2> QED BY <2>1, <2>2, IdleArgType DEF Init, Types
<1>2. TocLeads(intact, log, Len(log), toc) /\ BlocksLead(intact)
  BY DEF Init, TocLeads, BlocksLead
<1>3. StoreLeads(intact)
  BY DEF Init, StoreLeads, EmptyStore, Known
<1>4. \A t \in Threads : ThreadLeads(intact, t)
  BY DEF Init, ThreadLeads, Mid, Holding, Complete
<1>5. DownIsEmpty /\ durable \in Nat
  BY DEF Init, DownIsEmpty, Up
<1> QED BY <1>1, <1>2, <1>3, <1>4, <1>5 DEF Holds, IInv

LEMMA InitInductive == Init => Inductive
BY InitHolds DEF Inductive

(* What is intact stays intact, and what only has its shape keeps it.       *)
LEMMA HoldsStep ==
  ASSUME NEW intact \in BOOLEAN, Holds(intact), [Next]_vars
  PROVE  Holds(intact)'
<1> SUFFICES ASSUME IInv(intact), durable \in Nat PROVE IInv(intact)'
  BY DurableStep DEF Holds
<1>1. ASSUME NEW t \in Threads, Put(t) PROVE IInv(intact)'
  BY <1>1, PutStep
<1>2. ASSUME NEW t \in Threads, TakeCheckpoint(t) PROVE IInv(intact)'
  BY <1>2, CheckpointStep
<1>3. ASSUME NEW t \in Threads, Delete(t) PROVE IInv(intact)'
  BY <1>3, DeleteStep
<1>4. ASSUME NEW t \in Threads, Get(t) PROVE IInv(intact)'
  BY <1>4, GetStep
<1>5. CASE Crash
  BY <1>5, CrashStep
<1>6. CASE Drop
  BY <1>6, DropStep
<1>7. CASE Open
  BY <1>7, OpenStep
<1>8. CASE UNCHANGED vars
  BY <1>8 DEF vars, IInv, Types, BlocksLead, BlockLeads, StoreLeads, EntryLeads, Known,
              ThreadLeads, Segment, DownIsEmpty, Up
<1> QED BY <1>1, <1>2, <1>3, <1>4, <1>5, <1>6, <1>7, <1>8 DEF Next

(* No step of any thread, no crash and no reopening makes a reference       *)
(* dangle: the inductive invariant is preserved.                            *)
THEOREM EngineStep == Inductive /\ [Next]_vars => Inductive'
BY HoldsStep DEF Inductive

LEMMA InductiveResolves == Inductive => RefsResolve
<1> SUFFICES ASSUME NEW intact \in BOOLEAN, intact, IInv(intact) PROVE RefsResolve
  BY DEF Inductive, Holds
<1>0. Len(log) \in Nat /\ toc \in Seq(EntryType)
  BY DEF IInv, Types
<1>1. ASSUME NEW v \in Seq(Hash), NEW r \in Seq(Nat), PartLeads(intact, log, Len(log), v, r)
      PROVE  Resolves(log, v, r)
  BY <1>1 DEF PartLeads, Leads, Resolves, BlockAt
<1>2. Contents \subseteq Seq(Hash)
  <2>1. <<>> \in Seq(Hash)
    OBVIOUS
  <2> QED BY <2>1, EngineAssumption DEF Contents
<1>3. ASSUME NEW i \in DOMAIN toc PROVE EntryResolves(log, toc[i])
  <2>0. toc[i] \in EntryType /\ i \in 1 .. Len(toc)
    BY <1>0
  <2>1. AllLead(intact, log, Len(log), toc[i])
    BY <2>0 DEF IInv, TocLeads
  <2>2. toc[i].value \in Seq(Hash) /\ toc[i].refs \in Seq(Nat)
    BY <1>2, <2>0 DEF EntryType
  <2> QED BY <1>1, <2>1, <2>2 DEF AllLead, EntryResolves
<1>4. ASSUME NEW t \in Threads, pc[t] = "get_read"
      PROVE  /\ Len(arg[t].refs) = Len(arg[t].value)
             /\ Resolves(log, arg[t].value, arg[t].refs)
  <2>1. AllLead(intact, log, Len(log), arg[t])
    BY <1>4 DEF IInv, ThreadLeads, Complete
  <2> QED BY <1>1, <2>1, ThreadFacts DEF AllLead, Holds, IInv
<1> QED BY <1>3, <1>4 DEF RefsResolve

(* Every reference in the table of contents, and every one a get is about   *)
(* to follow, leads to the chunk of its own tensor: for every number of     *)
(* threads, keys and chunks, whatever the interleaving and the crashes.     *)
THEOREM EngineRefsResolve == Spec => []RefsResolve
<1>1. Init => Inductive
  BY InitInductive
<1>2. Inductive /\ [Next]_vars => Inductive'
  BY EngineStep
<1>3. Inductive => RefsResolve
  BY InductiveResolves
<1> QED BY <1>1, <1>2, <1>3, PTL DEF Spec

-----------------------------------------------------------------------------
(***************************************************************************)
(* What appending to a chain of versions does, for every chain and every    *)
(* policy (tpx-version/src/chain.rs).                                       *)
(***************************************************************************)
(* The ids of a chain follow one another.                                   *)
Consecutive(versions) ==
  \A i, j \in DOMAIN versions : versions[j].id - versions[i].id = j - i

-----------------------------------------------------------------------------
LEMMA StaysOne ==
  ASSUME NEW p \in Policies, NEW n \in Nat \ {0}
  PROVE  /\ Stay(p, n) \in Nat \ {0}
         /\ p = KeepLatest => Stay(p, n) = 1
         /\ p = KeepForever => Stay(p, n) = n
<1>1. KeepForever[1] = "keep_forever" /\ KeepLatest[1] = "keep_latest"
  BY DEF KeepForever, KeepLatest
<1>2. CASE p = KeepForever
  BY <1>1, <1>2 DEF Stay
<1>3. CASE p = KeepLatest
  BY <1>1, <1>3 DEF Stay
<1>4. ASSUME NEW m \in Nat, p = <<"keep_last_n", m>> PROVE Stay(p, n) \in Nat \ {0}
  <2>1. p[1] = "keep_last_n" /\ p[2] = m
    BY <1>4
  <2>2. p # KeepForever /\ p # KeepLatest
    BY <1>1, <2>1
  <2> QED BY <2>1, <2>2 DEF Stay
<1>5. ASSUME NEW m \in Nat, p = <<"keep_last_n", m>>
      PROVE  p # KeepForever /\ p # KeepLatest
  <2>1. p[1] = "keep_last_n"
    BY <1>5
  <2> QED BY <1>1, <2>1
<1> QED BY <1>1, <1>2, <1>3, <1>4, <1>5 DEF Policies

LEMMA PushedIds ==
  ASSUME NEW S, NEW chain \in ChainType(S), NEW h \in S, Consecutive(chain.versions)
  PROVE  /\ Pushed(chain, h) \in Seq(VersionType(S))
         /\ Len(Pushed(chain, h)) = Len(chain.versions) + 1
         /\ Consecutive(Pushed(chain, h))
         /\ Pushed(chain, h)[Len(chain.versions) + 1]
              = [id |-> NextVersionId(chain), hashes |-> h]
<1> DEFINE old == chain.versions
           n == Len(old)
           new == [id |-> NextVersionId(chain), hashes |-> h]
           all == Pushed(chain, h)
<1>1. old \in Seq(VersionType(S)) /\ n \in Nat /\ DOMAIN old = 1 .. n
      /\ \A i \in 1 .. n : old[i].id \in Nat
  <2>1. old \in Seq(VersionType(S))
    BY DEF ChainType
  <2>2. n \in Nat /\ DOMAIN old = 1 .. n /\ \A i \in 1 .. n : old[i] \in VersionType(S)
    BY <2>1
  <2>3. \A v \in VersionType(S) : v.id \in Nat
    BY DEF VersionType
  <2> QED BY <2>1, <2>2, <2>3
<1>2. /\ old = <<>> => n = 0 /\ NextVersionId(chain) = 0
      /\ old # <<>> => n \in 1 .. n /\ NextVersionId(chain) = old[n].id + 1
  BY <1>1, EmptySeq DEF NextVersionId
<1>3. new \in VersionType(S) /\ new.id = NextVersionId(chain)
  BY <1>1, <1>2 DEF VersionType
<1> HIDE DEF new
<1>4. all = Append(old, new)
  BY DEF Pushed, new
<1> HIDE DEF all, old
<1>5. /\ all \in Seq(VersionType(S)) /\ Len(all) = n + 1 /\ all[n + 1] = new
      /\ DOMAIN all = 1 .. n + 1 /\ \A i \in 1 .. n : all[i] = old[i]
  BY <1>1, <1>3, <1>4
<1>6. Consecutive(all)
  <2>0. \A i, j \in 1 .. n : old[j].id - old[i].id = j - i
    <3> Consecutive(old)
      BY DEF old
    <3> QED BY <1>1 DEF Consecutive
  <2>1. ASSUME NEW i \in 1 .. n PROVE all[n + 1].id - all[i].id = n + 1 - i
    <3>1. n \in 1 .. n /\ NextVersionId(chain) = old[n].id + 1
      BY <1>1, <1>2, EmptySeq
    <3>2. old[n].id - old[i].id = n - i
      BY <2>0, <3>1
    <3>3. all[n + 1].id = old[n].id + 1 /\ all[i].id = old[i].id
      BY <1>3, <1>5, <3>1
    <3>4. old[n].id \in Nat /\ old[i].id \in Nat /\ n \in Nat /\ i \in Nat
      BY <1>1, <3>1
    <3>5. all[n + 1].id - all[i].id = (old[n].id - old[i].id) + 1
      BY <3>3, <3>4
    <3> QED BY <3>2, <3>4, <3>5
  <2> SUFFICES ASSUME NEW i \in 1 .. n + 1, NEW j \in 1 .. n + 1
               PROVE  all[j].id - all[i].id = j - i
    BY <1>5 DEF Consecutive
  <2>2. /\ i \in 1 .. n \/ i = n + 1
        /\ j \in 1 .. n \/ j = n + 1
    BY <1>1
  <2>3. \A k \in 1 .. n + 1 : all[k].id \in Nat
    <3>1. \A k \in 1 .. n + 1 : all[k] \in VersionType(S)
      BY <1>5
    <3>2. \A v \in VersionType(S) : v.id \in Nat
      BY DEF VersionType
    <3> QED BY <3>1, <3>2
  <2>4. CASE i \in 1 .. n /\ j \in 1 .. n
    BY <1>5, <2>0, <2>4
  <2>5. CASE i \in 1 .. n /\ j = n + 1
    BY <2>1, <2>5
  <2>6. CASE i = n + 1 /\ j \in 1 .. n
    BY <1>1, <2>1, <2>3, <2>6
  <2>7. CASE i = n + 1 /\ j = n + 1
    BY <2>3, <2>7
  <2> QED BY <2>2, <2>4, <2>5, <2>6, <2>7
<1> QED BY <1>5, <1>6 DEF new, all, old

(* Whatever the policy asked for and however it changes from put to put: a  *)
(* chain never becomes empty, its ids follow one another, the version just  *)
(* put is its last, under an id that no version of it had, and no more stay *)
(* than the policy allows.                                                  *)
THEOREM ChainAppendKeepsIds ==
  ASSUME NEW S, NEW chain \in ChainType(S), NEW h \in S, Consecutive(chain.versions)
  PROVE  LET after == ChainAppend(chain, h).versions
             n     == Len(chain.versions) + 1
         IN  /\ after \in Seq(VersionType(S))
             /\ Consecutive(after)
             /\ Len(after) \in 1 .. n /\ Len(after) <= Stay(chain.retention, n)
             /\ after[Len(after)] = [id |-> NextVersionId(chain), hashes |-> h]
             /\ \A i \in DOMAIN chain.versions : chain.versions[i].id < NextVersionId(chain)
<1> DEFINE n == Len(chain.versions) + 1
           all == Pushed(chain, h)
           d == Dropped(chain, h)
           after == SubSeq(all, d + 1, n)
<1>1. /\ chain.versions \in Seq(VersionType(S)) /\ chain.retention \in Policies
      /\ n \in Nat \ {0} /\ DOMAIN chain.versions = 1 .. n - 1
      /\ DOMAIN chain = {"versions", "retention"}
  BY DEF ChainType
<1>2. /\ all \in Seq(VersionType(S)) /\ Len(all) = n /\ Consecutive(all)
      /\ all[n] = [id |-> NextVersionId(chain), hashes |-> h]
      /\ \A i \in 1 .. n - 1 : all[i] = chain.versions[i]
  BY <1>1, PushedIds DEF Pushed
<1>3. d \in 0 .. n - 1 /\ n - d <= Stay(chain.retention, n)
  BY <1>1, StaysOne DEF Dropped
<1>4. ChainAppend(chain, h).versions = after
  BY <1>1 DEF ChainAppend
<1> HIDE DEF all, d, n
<1>5. /\ after \in Seq(VersionType(S)) /\ Len(after) = n - d
      /\ \A i \in 1 .. n - d : after[i] = all[d + i]
  <2>1. d + 1 \in Int /\ n \in Int /\ d + 1 <= n + 1
        /\ \A i \in d + 1 .. n : all[i] \in VersionType(S)
    BY <1>1, <1>2, <1>3
  <2>2. /\ after \in Seq(VersionType(S))
        /\ Len(after) = IF d + 1 <= n THEN n - (d + 1) + 1 ELSE 0
        /\ \A i \in 1 .. n - (d + 1) + 1 : after[i] = all[d + 1 + i - 1]
    BY <2>1, SubSeqProperties
  <2>3. n - (d + 1) + 1 = n - d /\ d + 1 <= n /\ \A i \in Int : d + 1 + i - 1 = d + i
    BY <1>1, <1>3
  <2> QED BY <2>2, <2>3
<1> HIDE DEF after
<1>6. Consecutive(after)
  <2> SUFFICES ASSUME NEW i \in 1 .. n - d, NEW j \in 1 .. n - d
               PROVE  after[j].id - after[i].id = j - i
    BY <1>5 DEF Consecutive
  <2>1. d + i \in 1 .. n /\ d + j \in 1 .. n
    BY <1>1, <1>3
  <2>2. all[d + j].id - all[d + i].id = (d + j) - (d + i)
    BY <1>2, <2>1 DEF Consecutive
  <2>3. after[j] = all[d + j] /\ after[i] = all[d + i]
    BY <1>5
  <2>4. (d + j) - (d + i) = j - i
    BY <1>3
  <2> QED BY <2>2, <2>3, <2>4
<1>7. after[n - d] = all[n] /\ Len(after) \in 1 .. n
  <2>1. n - d \in 1 .. n - d /\ d + (n - d) = n
    BY <1>1, <1>3
  <2> QED BY <1>1, <1>3, <1>5, <2>1
<1>8. ASSUME NEW i \in 1 .. n - 1 PROVE chain.versions[i].id < NextVersionId(chain)
  <2>0. i \in 1 .. n /\ n \in 1 .. n /\ DOMAIN all = 1 .. n
        /\ \A k \in 1 .. n : all[k] \in VersionType(S)
    BY <1>1, <1>2
  <2>1. i \in 1 .. n /\ n \in 1 .. n /\ all[i].id \in Nat /\ all[n].id \in Nat
    BY <2>0 DEF VersionType
  <2>2. all[n].id - all[i].id = n - i
    BY <1>2, <2>0 DEF Consecutive
  <2>3. all[n].id = NextVersionId(chain)
    BY <1>2
  <2> QED BY <1>1, <1>2, <2>1, <2>2, <2>3
<1> QED BY <1>1, <1>2, <1>3, <1>4, <1>5, <1>6, <1>7, <1>8 DEF n, after, d

-----------------------------------------------------------------------------
(***************************************************************************)
(* Types of what the engine keeps in memory.  Refcounts stay u32 because    *)
(* the versions a put drops name finitely many chunks; so chains need the   *)
(* type of their versions, also of those that open rebuilds.                *)
(***************************************************************************)
LEMMA SetInduction ==
  ASSUME NEW G \in SUBSET Nat, 0 \in G, \A m \in G : m + 1 \in G
  PROVE  G = Nat
<1> SUFFICES ASSUME Nat \ G # {} PROVE FALSE
  OBVIOUS
<1>1. PICK x \in Nat \ G : \A y \in Nat \ G : <<y, x>> \notin OpToRel(<, Nat)
  BY NatLessThanWellFounded, WFMin
<1>2. x \in Nat /\ x # 0 /\ x - 1 \in Nat /\ x - 1 < x /\ (x - 1) + 1 = x
  OBVIOUS
<1>3. x - 1 \in G
  BY <1>1, <1>2 DEF OpToRel
<1> QED BY <1>2, <1>3

(* Every number up to the size of a set of positions is a rank in it.       *)
LEMMA RankExists ==
  ASSUME NEW m \in Nat, NEW P \in SUBSET (1 .. m), NEW n \in 1 .. Cardinality(P)
  PROVE  \E i \in P : Rank(P, i) = n
<1> DEFINE Ranked(m_1) == \A Q \in SUBSET (1 .. m_1) :
             /\ IsFiniteSet(Q) /\ Cardinality(Q) \in Nat
             /\ \A q \in 1 .. Cardinality(Q) : \E i \in Q : Rank(Q, i) = q
           G == {m_1 \in Nat : Ranked(m_1)}
<1>1. 0 \in G
  <2> SUFFICES ASSUME NEW Q \in SUBSET (1 .. 0)
               PROVE  /\ IsFiniteSet(Q) /\ Cardinality(Q) \in Nat
                      /\ \A q \in 1 .. Cardinality(Q) : \E i \in Q : Rank(Q, i) = q
    OBVIOUS
  <2>1. Q = {}
    OBVIOUS
  <2>2. IsFiniteSet(Q) /\ Cardinality(Q) = 0
    BY <2>1, FS_EmptySet
  <2> QED BY <2>2
<1>2. ASSUME NEW k \in G PROVE k + 1 \in G
  <2> SUFFICES ASSUME NEW Q \in SUBSET (1 .. k + 1)
               PROVE  /\ IsFiniteSet(Q) /\ Cardinality(Q) \in Nat
                      /\ \A q \in 1 .. Cardinality(Q) : \E i \in Q : Rank(Q, i) = q
    OBVIOUS
  <2> DEFINE R == Q \ {k + 1}
  <2>1. k \in Nat /\ R \in SUBSET (1 .. k)
    OBVIOUS
  <2>2. /\ IsFiniteSet(R) /\ Cardinality(R) \in Nat
        /\ \A q \in 1 .. Cardinality(R) : \E i \in R : Rank(R, i) = q
    BY <2>1
  <2>3. CASE k + 1 \notin Q
    BY <2>2, <2>3
  <2>4. CASE k + 1 \in Q
    <3>1. Q = R \union {k + 1}
      BY <2>4
    <3>2. IsFiniteSet(Q) /\ Cardinality(Q) = Cardinality(R) + 1
      BY <2>2, <3>1, FS_AddElement
    <3>a. Cardinality(Q) \in Nat
      BY <2>2, <3>2
    <3> SUFFICES ASSUME NEW q \in 1 .. Cardinality(Q)
                 PROVE  \E i \in Q : Rank(Q, i) = q
      BY <3>2, <3>a
    <3>3. CASE q = Cardinality(Q)
      <4>1. \A j \in Q : j <= k + 1
        OBVIOUS
      <4>2. {j \in Q : j <= k + 1} = Q
        BY <4>1
      <4> QED BY <2>4, <3>3, <4>2 DEF Rank
    <3>4. CASE q # Cardinality(Q)
      <4>1. PICK i \in R : Rank(R, i) = q
        BY <2>2, <3>2, <3>4
      <4>2. {j \in Q : j <= i} = {j \in R : j <= i}
        BY <2>1
      <4> QED BY <4>1, <4>2 DEF Rank
    <3> QED BY <3>3, <3>4
  <2> QED BY <2>3, <2>4
<1>3. G = Nat
  <2> HIDE DEF G
  <2>1. G \in SUBSET Nat
    BY DEF G
  <2> QED BY <1>1, <1>2, <2>1, SetInduction
<1> QED BY <1>3

(* The entries at some positions are a sequence of as many entries.         *)
LEMMA PickedType ==
  ASSUME NEW S, NEW s \in Seq(S), NEW P \in SUBSET DOMAIN s
  PROVE  /\ Picked(s, P) \in Seq(S)
         /\ Cardinality(P) \in Nat /\ Len(Picked(s, P)) = Cardinality(P)
<1>1. Len(s) \in Nat /\ P \in SUBSET (1 .. Len(s)) /\ \A i \in P : s[i] \in S
  OBVIOUS
<1>2. Cardinality(P) \in Nat
  <2>1. IsFiniteSet(1 .. Len(s))
    BY <1>1, FS_Interval
  <2> QED BY <1>1, <2>1, FS_Subset, FS_CardinalityType
<1>3. ASSUME NEW n \in 1 .. Cardinality(P)
      PROVE  s[CHOOSE i \in P : Rank(P, i) = n] \in S
  <2>1. \E i \in P : Rank(P, i) = n
    BY <1>1, RankExists
  <2> QED BY <1>1, <2>1
<1>4. Picked(s, P) = [n \in 1 .. Cardinality(P) |-> s[CHOOSE i \in P : Rank(P, i) = n]]
  BY DEF Picked
<1> DEFINE c == Cardinality(P)
           picked == Picked(s, P)
<1>5. picked \in [1 .. c -> S]
  BY <1>3, <1>4
<1>6. c \in Nat
  BY <1>2
<1> HIDE DEF c, picked
<1>7. picked \in Seq(S) /\ Len(picked) = c
  BY <1>5, <1>6
<1> QED BY <1>6, <1>7 DEF c, picked

LEMMA PlacesFinite ==
  ASSUME NEW versions \in Seq(VersionType(Hashes)), NEW h
  PROVE  IsFiniteSet(PlacesIn(versions, h))
<1> DEFINE D == DOMAIN versions
           T == {Places(versions, i, h) : i \in D}
           f == [i \in D |-> Places(versions, i, h)]
<1>1. D = 1 .. Len(versions) /\ Len(versions) \in Nat /\ IsFiniteSet(D)
  BY FS_Interval
<1>2. ASSUME NEW i \in D PROVE IsFiniteSet(Places(versions, i, h))
  <2>1. versions[i] \in VersionType(Hashes)
    BY <1>1
  <2>2. versions[i].hashes \in Hashes
    BY <2>1 DEF VersionType
  <2>3. \E n \in Nat : DOMAIN versions[i].hashes = 1 .. n
    BY <2>2 DEF Hashes
  <2>4. IsFiniteSet(DOMAIN versions[i].hashes)
    BY <2>3, FS_Interval
  <2>5. IsFiniteSet({j \in DOMAIN versions[i].hashes : versions[i].hashes[j] = h})
    BY <2>4, FS_Subset
  <2> QED BY <2>5, FS_Singleton, FS_Product DEF Places
<1>3. f \in Surjection(D, T)
  BY DEF Surjection
<1>4. IsFiniteSet(T)
  BY <1>1, <1>3, FS_Surjection
<1>5. \A U \in T : IsFiniteSet(U)
  BY <1>2
<1>6. IsFiniteSet(UNION T)
  <2> HIDE DEF T
  <2> QED BY <1>4, <1>5, FS_UNION
<1> QED BY <1>6 DEF PlacesIn

LEMMA OccurrencesType ==
  ASSUME NEW versions \in Seq(VersionType(Hashes)), NEW h
  PROVE  OccurrencesIn(versions, h) \in Nat
BY PlacesFinite, FS_CardinalityType DEF OccurrencesIn

StoreType == [Hash -> [off : Nat, refcount : 0 .. U32 - 1] \union {NoEntry}]

Remembered ==
  /\ pc \in [Threads -> Labels]
  /\ chains \in [Key -> ChainType(Hashes)]
  /\ \A k \in Key : Consecutive(chains[k].versions)
  /\ store \in StoreType
  /\ art \in [Key -> Nat \union {NotIndexed}]
  /\ dirty \in Nat
  /\ status \in {"open", "closed", "down", "unopenable"}
  /\ kept \in Nat

LEMMA CountType ==
  ASSUME NEW st \in StoreType, NEW h \in Hash, Known(st, h), NEW c \in Int
  PROVE  [st[h] EXCEPT !.refcount = (@ + c) % U32] \in [off : Nat, refcount : 0 .. U32 - 1]
<1>1. st[h] \in [off : Nat, refcount : 0 .. U32 - 1]
  BY DEF StoreType, Known
<1>2. st[h].off \in Nat /\ st[h].refcount + c \in Int
  BY <1>1, StoreAssumption
<1>3. (st[h].refcount + c) % U32 \in 0 .. U32 - 1
  BY <1>2, StoreAssumption
<1>4. [st[h] EXCEPT !.refcount = (@ + c) % U32]
        = [off |-> st[h].off, refcount |-> (st[h].refcount + c) % U32]
  BY <1>1
<1> DEFINE d == (st[h].refcount + c) % U32
<1> HIDE DEF d
<1> QED BY <1>2, <1>3, <1>4 DEF d

LEMMA ReleaseType ==
  ASSUME NEW st \in StoreType, NEW versions \in Seq(VersionType(Hashes))
  PROVE  ReleaseAll(st, versions) \in StoreType
<1> SUFFICES ASSUME NEW h \in Hash, Known(st, h)
             PROVE  [st[h] EXCEPT !.refcount = (@ - OccurrencesIn(versions, h)) % U32]
                      \in [off : Nat, refcount : 0 .. U32 - 1]
  BY DEF ReleaseAll, StoreType
<1> DEFINE n == OccurrencesIn(versions, h)
<1>1. n \in Nat
  BY OccurrencesType
<1> HIDE DEF n
<1>2. st[h] \in [off : Nat, refcount : 0 .. U32 - 1]
  BY DEF StoreType, Known
<1>3. -n \in Int /\ st[h].refcount + (-n) = st[h].refcount - n
  BY <1>1, <1>2, StoreAssumption
<1>4. [st[h] EXCEPT !.refcount = (@ + (-n)) % U32] \in [off : Nat, refcount : 0 .. U32 - 1]
  BY <1>3, CountType
<1>5. [st[h] EXCEPT !.refcount = (@ - n) % U32] = [st[h] EXCEPT !.refcount = (@ + (-n)) % U32]
  BY <1>3
<1> QED BY <1>4, <1>5 DEF n

LEMMA AddRefType ==
  ASSUME NEW st \in StoreType, NEW h \in Hash
  PROVE  AddRef(st, h) \in StoreType
<1>1. CASE ~Known(st, h)
  BY <1>1 DEF AddRef
<1>2. CASE Known(st, h)
  <2> DEFINE e == [st[h] EXCEPT !.refcount = (@ + 1) % U32]
  <2>0. 1 \in Int
    OBVIOUS
  <2>1. e \in [off : Nat, refcount : 0 .. U32 - 1]
    BY <1>2, <2>0, CountType, Zenon
  <2>2. AddRef(st, h) = [st EXCEPT ![h] = e]
    BY <1>2 DEF AddRef
  <2> HIDE DEF e
  <2> QED BY <2>1, <2>2 DEF StoreType
<1> QED BY <1>1, <1>2

LEMMA InsertType ==
  ASSUME NEW st \in StoreType, NEW h \in Hash, NEW off \in Nat
  PROVE  StoreInsert(st, h, off) \in StoreType
<1>1. [off |-> off, refcount |-> 1] \in [off : Nat, refcount : 0 .. U32 - 1]
  BY StoreAssumption
<1> QED BY <1>1 DEF StoreInsert, StoreType

LEMMA ChainAppendType ==
  ASSUME NEW chain \in ChainType(Hashes), Consecutive(chain.versions), NEW h \in Hashes
  PROVE  /\ ChainAppend(chain, h) \in ChainType(Hashes)
         /\ Consecutive(ChainAppend(chain, h).versions)
         /\ Evicted(chain, h) \in Seq(VersionType(Hashes))
<1> DEFINE n == Len(chain.versions) + 1
           all == Pushed(chain, h)
           d == Dropped(chain, h)
<1>1. /\ chain.versions \in Seq(VersionType(Hashes)) /\ chain.retention \in Policies
      /\ n \in Nat \ {0}
  BY DEF ChainType
<1>2. all \in Seq(VersionType(Hashes)) /\ Len(all) = n
  BY PushedIds
<1>3. d \in 0 .. n - 1
  BY <1>1, StaysOne DEF Dropped
<1>4. Evicted(chain, h) \in Seq(VersionType(Hashes))
  <2> HIDE DEF all, n, d
  <2>1. 1 \in Int /\ d \in Int /\ 1 <= d + 1 /\ \A i \in 1 .. d : all[i] \in VersionType(Hashes)
    BY <1>1, <1>2, <1>3
  <2>2. SubSeq(all, 1, d) \in Seq(VersionType(Hashes))
    BY <2>1, SubSeqProperties
  <2> QED BY <2>2 DEF Evicted, all, d
<1>5. /\ ChainAppend(chain, h).versions \in Seq(VersionType(Hashes))
      /\ Consecutive(ChainAppend(chain, h).versions)
  BY ChainAppendKeepsIds
<1>6. ChainAppend(chain, h) = [versions  |-> ChainAppend(chain, h).versions,
                               retention |-> chain.retention]
  <2> DEFINE after == SubSeq(all, d + 1, n)
  <2>1. ChainAppend(chain, h) = [chain EXCEPT !.versions = after]
    BY DEF ChainAppend
  <2>2. chain = [versions |-> chain.versions, retention |-> chain.retention]
    BY DEF ChainType
  <2> HIDE DEF after
  <2> QED BY <2>1, <2>2
<1> QED BY <1>1, <1>4, <1>5, <1>6 DEF ChainType

LEMMA NoChainType == NoChain \in ChainType(Hashes) /\ Consecutive(NoChain.versions)
<1>1. NoChain = [versions |-> <<>>, retention |-> KeepLatest] /\ NoChain.versions = <<>>
  BY DEF NoChain
<1>2. <<>> \in Seq(VersionType(Hashes)) /\ KeepLatest \in Policies
  BY DEF Policies
<1> QED BY <1>1, <1>2 DEF ChainType, Consecutive

(* What open makes of a key's entries.                                      *)
LEMMA RebuiltType ==
  ASSUME NEW entries \in Seq(EntryType), NEW k \in Key
  PROVE  /\ RebuiltChain(entries, k) \in ChainType(Hashes)
         /\ Consecutive(RebuiltChain(entries, k).versions)
         /\ RebuiltIndex(entries, k) \in Nat \union {NotIndexed}
<1> DEFINE own == LiveEntriesOf(entries, k)
           version(i) == [id |-> i - 1, hashes |-> OffsetHashes(own[i].refs)]
           versions == [i \in DOMAIN own |-> version(i)]
<1>1. own \in Seq(EntryType)
  <2>1. {i \in Positions(entries, k) : ~entries[i].dead} \in SUBSET DOMAIN entries
    BY DEF Positions
  <2> QED BY <2>1, PickedType DEF LiveEntriesOf
<1> HIDE DEF own
<1>2. DOMAIN own = 1 .. Len(own) /\ Len(own) \in Nat
  BY <1>1
<1>3. ASSUME NEW i \in DOMAIN own PROVE version(i) \in VersionType(Hashes)
  <2>1. own[i].refs \in Seq(Nat)
    <3>1. own[i] \in EntryType
      BY <1>1
    <3> QED BY <3>1 DEF EntryType
  <2>2. OffsetHashes(own[i].refs) \in Seq([at : Nat])
    <3> DEFINE refs == own[i].refs
               offs == OffsetHashes(refs)
    <3> HIDE DEF refs
    <3>1. refs \in Seq(Nat) /\ Len(refs) \in Nat /\ DOMAIN refs = 1 .. Len(refs)
      BY <2>1 DEF refs
    <3>2. offs \in [1 .. Len(refs) -> [at : Nat]]
      BY <3>1 DEF OffsetHashes
    <3> DEFINE S == [at : Nat]
    <3> HIDE DEF offs, S
    <3>3. offs \in [1 .. Len(refs) -> S]
      BY <3>2 DEF S
    <3>4. offs \in Seq(S)
      BY <3>1, <3>3
    <3> QED BY <3>4 DEF offs, refs, S
  <2>3. i - 1 \in Nat
    BY <1>2
  <2> HIDE DEF own
  <2> QED BY <2>2, <2>3 DEF VersionType, Hashes
<1>4. versions \in Seq(VersionType(Hashes)) /\ Consecutive(versions)
  <2>1. versions \in [1 .. Len(own) -> VersionType(Hashes)]
    BY <1>2, <1>3
  <2>2. \A i \in DOMAIN own : versions[i].id = i - 1
    OBVIOUS
  <2>3. DOMAIN versions = 1 .. Len(own)
    BY <1>2
  <2> HIDE DEF versions
  <2>4. \A i, j \in 1 .. Len(own) : versions[j].id - versions[i].id = j - i
    BY <1>2, <2>2
  <2> QED BY <1>2, <2>1, <2>3, <2>4 DEF Consecutive
<1>5. RebuiltChain(entries, k)
        = [versions |-> versions, retention |-> IF own = <<>> THEN KeepLatest ELSE KeepForever]
  BY DEF RebuiltChain, own
<1>6. RebuiltIndex(entries, k) \in Nat \union {NotIndexed}
  <2> DEFINE places == {i \in Positions(entries, k) : ~entries[i].dead /\ entries[i].refs # <<>>}
             refs == entries[Max(places)].refs
  <2>1. CASE places = {}
    BY <2>1 DEF RebuiltIndex
  <2>2. CASE places # {}
    <3>1. places \in SUBSET (1 .. Len(entries)) /\ Len(entries) \in Nat
      BY DEF Positions
    <3>2. Max(places) \in places
      <4> HIDE DEF places
      <4> QED BY <2>2, <3>1, MaxOf, Zenon
    <3>3. refs \in Seq(Nat) /\ refs # <<>>
      <4>1. entries[Max(places)] \in EntryType
        BY <3>1, <3>2
      <4> QED BY <3>2, <4>1 DEF EntryType
    <3>4. RebuiltIndex(entries, k) = refs[Len(refs)]
      BY <2>2 DEF RebuiltIndex
    <3> HIDE DEF refs
    <3>5. Len(refs) \in 1 .. Len(refs)
      BY <3>3, EmptySeq
    <3> QED BY <3>3, <3>4, <3>5
  <2> QED BY <2>1, <2>2
<1>7. KeepLatest \in Policies /\ KeepForever \in Policies
  BY DEF Policies
<1> HIDE DEF versions
<1> QED BY <1>4, <1>5, <1>6, <1>7 DEF ChainType

LEMMA ValueHashes == Contents \subseteq Hashes
<1>1. <<>> \in Seq(Hash)
  OBVIOUS
<1> QED BY <1>1, EngineAssumption DEF Contents, Hashes

LEMMA ChainsStep ==
  ASSUME NEW intact \in BOOLEAN, IInv(intact), Remembered, [Next]_vars
  PROVE  /\ chains' \in [Key -> ChainType(Hashes)]
         /\ \A k \in Key : Consecutive(chains'[k].versions)
<1> USE DEF Remembered
<1>1. ASSUME NEW t \in Threads, PutChain(t)
      PROVE  /\ chains' \in [Key -> ChainType(Hashes)]
             /\ \A k \in Key : Consecutive(chains'[k].versions)
  <2> DEFINE key == arg[t].key
             chain == [chains[key] EXCEPT !.retention = arg[t].retention]
             after == ChainAppend(chain, arg[t].value)
  <2>1. key \in Key /\ arg[t] \in ArgType
    BY <1>1, ThreadFacts DEF PutChain, At, ThreadLeads, Complete
  <2>2. arg[t].value \in Hashes /\ arg[t].retention \in Policies
    BY <2>1, ValueHashes, EngineAssumption DEF ArgType, Policies
  <2>3. chains[key] \in ChainType(Hashes) /\ Consecutive(chains[key].versions)
    BY <2>1
  <2>4. chain \in ChainType(Hashes) /\ chain.versions = chains[key].versions
    BY <2>2, <2>3 DEF ChainType
  <2> HIDE DEF chain
  <2>5. after \in ChainType(Hashes) /\ Consecutive(after.versions)
    BY <2>2, <2>3, <2>4, ChainAppendType
  <2>6. chains' = [chains EXCEPT ![key] = after]
    BY <1>1 DEF PutChain, chain
  <2> HIDE DEF after, key
  <2> QED BY <2>5, <2>6
<1>2. ASSUME NEW t \in Threads, DeleteChain(t)
      PROVE  /\ chains' \in [Key -> ChainType(Hashes)]
             /\ \A k \in Key : Consecutive(chains'[k].versions)
  BY <1>2, NoChainType DEF DeleteChain
<1>3. CASE Crash \/ Drop
  BY <1>3, NoChainType DEF Crash, Drop, Forget
<1>4. CASE Open
  <2>1. CASE Recoverable(log)
    <3>1. toc' \in Seq(EntryType)
      BY <1>4, OpenStep DEF IInv, Types
    <3>2. chains' = [k \in Key |-> RebuiltChain(toc', k)]
      BY <1>4, <2>1 DEF Open
    <3> QED BY <3>1, <3>2, RebuiltType
  <2>2. CASE ~Recoverable(log)
    BY <1>4, <2>2 DEF Open
  <2> QED BY <2>1, <2>2
<1>5. CASE UNCHANGED chains
  BY <1>5
<1> QED
  BY ZenonT(60), <1>1, <1>2, <1>3, <1>4, <1>5
     DEF Next, Put, TakeCheckpoint, Delete, Get, PutBegin, PutLookup, PutAddRef, PutAppend,
         PutContains, PutInsert, PutRecord, PutIndex, PutToc, PutShouldCheckpoint,
         CheckpointBegin, CheckpointToc, CheckpointLen, CheckpointAppend, CheckpointSync,
         CheckpointReset, LastSync, DeleteBegin, DeleteToc, GetLookup, GetRead,
         memory, vars

LEMMA StoreStep ==
  ASSUME NEW intact \in BOOLEAN, IInv(intact), Remembered, [Next]_vars
  PROVE  store' \in StoreType
<1> USE DEF Remembered
<1>0. ASSUME NEW t \in Threads, pc[t] \in Mid PROVE Segment(t) \in Hash
  <2>1. /\ arg[t].value \in Seq(Hash) /\ arg[t].refs \in Seq(Nat)
        /\ Len(arg[t].refs) < Len(arg[t].value)
    BY <1>0, ThreadFacts DEF ThreadLeads
  <2>2. Len(arg[t].refs) + 1 \in 1 .. Len(arg[t].value)
    BY <2>1
  <2> QED BY <2>1, <2>2 DEF Segment
<1>1. ASSUME NEW t \in Threads, PutAddRef(t) PROVE store' \in StoreType
  BY <1>0, <1>1, AddRefType DEF PutAddRef, At, Mid
<1>2. ASSUME NEW t \in Threads, PutInsert(t) PROVE store' \in StoreType
  <2>1. Segment(t) \in Hash /\ arg[t].off \in Nat
    BY <1>0, <1>2, ThreadFacts DEF PutInsert, At, Mid
  <2> QED BY <1>2, <2>1, InsertType DEF PutInsert
<1>3. ASSUME NEW t \in Threads, PutChain(t) PROVE store' \in StoreType
  <2> DEFINE key == arg[t].key
             chain == [chains[key] EXCEPT !.retention = arg[t].retention]
             dropped == Evicted(chain, arg[t].value)
  <2>1. key \in Key /\ arg[t] \in ArgType
    BY <1>3, ThreadFacts DEF PutChain, At, ThreadLeads, Complete
  <2>2. arg[t].value \in Hashes /\ arg[t].retention \in Policies
    BY <2>1, ValueHashes, EngineAssumption DEF ArgType, Policies
  <2>3. chains[key] \in ChainType(Hashes) /\ Consecutive(chains[key].versions)
    BY <2>1
  <2>4. chain \in ChainType(Hashes) /\ chain.versions = chains[key].versions
    BY <2>2, <2>3 DEF ChainType
  <2> HIDE DEF chain
  <2>5. dropped \in Seq(VersionType(Hashes))
    BY <2>2, <2>3, <2>4, ChainAppendType
  <2>6. store' = ReleaseAll(store, dropped)
    BY <1>3 DEF PutChain, chain
  <2> HIDE DEF dropped
  <2> QED BY <2>5, <2>6, ReleaseType
<1>4. CASE Crash \/ Drop
  <2>1. EmptyStore \in StoreType
    BY DEF EmptyStore, StoreType
  <2> QED BY <1>4, <2>1 DEF Crash, Drop, Forget
<1>5. CASE UNCHANGED store
  BY <1>5
<1> QED
  BY ZenonT(60), <1>1, <1>2, <1>3, <1>4, <1>5
     DEF Next, Put, TakeCheckpoint, Delete, Get, PutBegin, PutLookup, PutAppend,
         PutContains, PutRecord, PutIndex, PutToc, PutShouldCheckpoint,
         CheckpointBegin, CheckpointToc, CheckpointLen, CheckpointAppend, CheckpointSync,
         CheckpointReset, LastSync, DeleteBegin, DeleteChain, DeleteToc, GetLookup,
         GetRead, Open, memory, vars

LEMMA TreesStep ==
  ASSUME NEW intact \in BOOLEAN, IInv(intact), Remembered, [Next]_vars
  PROVE  art' \in [Key -> Nat \union {NotIndexed}]
<1> USE DEF Remembered
<1>1. ASSUME NEW t \in Threads, PutIndex(t) PROVE art' \in [Key -> Nat \union {NotIndexed}]
  <2>1. CASE arg[t].refs = <<>>
    BY <1>1, <2>1 DEF PutIndex
  <2>2. CASE arg[t].refs # <<>>
    <3>1. arg[t].key \in Key /\ arg[t].refs \in Seq(Nat)
      BY <1>1, ThreadFacts DEF PutIndex, At, ThreadLeads, Complete
    <3>2. Head(arg[t].refs) \in Nat
      BY <2>2, <3>1
    <3> QED BY <1>1, <2>2, <3>1, <3>2 DEF PutIndex
  <2> QED BY <2>1, <2>2
<1>2. ASSUME NEW t \in Threads, DeleteBegin(t) PROVE art' \in [Key -> Nat \union {NotIndexed}]
  BY <1>2 DEF DeleteBegin
<1>3. CASE Crash \/ Drop
  BY <1>3 DEF Crash, Drop, Forget
<1>4. CASE Open
  <2>1. CASE Recoverable(log)
    <3>1. toc' \in Seq(EntryType)
      BY <1>4, OpenStep DEF IInv, Types
    <3>2. art' = [k \in Key |-> RebuiltIndex(toc', k)]
      BY <1>4, <2>1 DEF Open
    <3> QED BY <3>1, <3>2, RebuiltType
  <2>2. CASE ~Recoverable(log)
    BY <1>4, <2>2 DEF Open
  <2> QED BY <2>1, <2>2
<1>5. CASE UNCHANGED art
  BY <1>5
<1> QED
  BY ZenonT(60), <1>1, <1>2, <1>3, <1>4, <1>5
     DEF Next, Put, TakeCheckpoint, Delete, Get, PutBegin, PutLookup, PutAddRef, PutAppend,
         PutContains, PutInsert, PutRecord, PutChain, PutToc, PutShouldCheckpoint,
         CheckpointBegin, CheckpointToc, CheckpointLen, CheckpointAppend, CheckpointSync,
         CheckpointReset, LastSync, DeleteChain, DeleteToc, GetLookup, GetRead,
         memory, vars

LEMMA CounterStep ==
  ASSUME NEW intact \in BOOLEAN, IInv(intact), Remembered, [Next]_vars
  PROVE  dirty' \in Nat /\ kept' \in Nat
<1> USE DEF Remembered
<1>1. dirty' \in Nat
  <2>1. ASSUME NEW t \in Threads, PutRecord(t) PROVE dirty' \in Nat
    BY <2>1 DEF PutRecord
  <2>2. ASSUME NEW t \in Threads, CheckpointReset(t) PROVE dirty' \in Nat
    BY <2>2 DEF CheckpointReset
  <2>3. CASE Crash \/ Drop
    BY <2>3 DEF Crash, Drop, Forget
  <2>4. CASE UNCHANGED dirty
    BY <2>4
  <2> QED
    BY ZenonT(60), <2>1, <2>2, <2>3, <2>4
       DEF Next, Put, TakeCheckpoint, Delete, Get, PutBegin, PutLookup, PutAddRef, PutAppend,
           PutContains, PutInsert, PutIndex, PutChain, PutToc, PutShouldCheckpoint,
           CheckpointBegin, CheckpointToc, CheckpointLen, CheckpointAppend, CheckpointSync,
           LastSync, DeleteBegin, DeleteChain, DeleteToc, GetLookup, GetRead, Open,
           memory, vars
<1>2. kept' \in Nat
  <2>1. ASSUME NEW t \in Threads, CheckpointSync(t) PROVE kept' \in Nat
    <3>1. arg[t].past \in Pasts
      BY ThreadFacts DEF ArgType
    <3>2. Len(arg[t].past) \in Nat
      BY <3>1 DEF Pasts
    <3> QED BY <2>1, <3>2 DEF CheckpointSync
  <2>2. CASE UNCHANGED kept
    BY <2>2
  <2> QED
    BY ZenonT(60), <2>1, <2>2
       DEF Next, Put, TakeCheckpoint, Delete, Get, PutBegin, PutLookup, PutAddRef, PutAppend,
           PutContains, PutInsert, PutRecord, PutIndex, PutChain, PutToc,
           PutShouldCheckpoint, CheckpointBegin, CheckpointToc, CheckpointLen,
           CheckpointAppend, CheckpointReset, LastSync, DeleteBegin, DeleteChain,
           DeleteToc, GetLookup, GetRead, Crash, Drop, Open, history, vars
<1> QED BY <1>1, <1>2

LEMMA StatusStep ==
  ASSUME Remembered, [Next]_vars
  PROVE  status' \in {"open", "closed", "down", "unopenable"}
<1> USE DEF Remembered
<1>1. ASSUME NEW t \in Threads, LastSync(t)
      PROVE  status' \in {"open", "closed", "down", "unopenable"}
  BY <1>1 DEF LastSync
<1>2. CASE Crash \/ Drop
  BY <1>2 DEF Crash, Drop
<1>3. CASE Open
  BY <1>3 DEF Open
<1>4. CASE UNCHANGED status
  BY <1>4
<1> QED
  BY ZenonT(60), <1>1, <1>2, <1>3, <1>4
     DEF Next, Put, TakeCheckpoint, Delete, Get, PutBegin, PutLookup, PutAddRef, PutAppend,
         PutContains, PutInsert, PutRecord, PutIndex, PutChain, PutToc,
         PutShouldCheckpoint, CheckpointBegin, CheckpointToc, CheckpointLen,
         CheckpointAppend, CheckpointSync, CheckpointReset, DeleteBegin, DeleteChain,
         DeleteToc, GetLookup, GetRead, vars

(* A call of the engine itself never goes where only bulk calls are.        *)
LEMMA SingleMoves ==
  ASSUME NEW t \in Threads, Put(t) \/ TakeCheckpoint(t) \/ Delete(t) \/ Get(t)
  PROVE  pc[t] \in Labels /\ \E label \in Labels : pc' = [pc EXCEPT ![t] = label]
BY DEF Put, TakeCheckpoint, Delete, Get, PutBegin, PutLookup, PutAddRef, PutAppend,
       PutContains, PutInsert, PutRecord, PutIndex, PutChain, PutToc,
       PutShouldCheckpoint, CheckpointBegin, CheckpointToc, CheckpointLen,
       CheckpointAppend, CheckpointSync, CheckpointReset, LastSync, DeleteBegin,
       DeleteChain, DeleteToc, GetLookup, GetRead, NextSegment, Return, Goto, At, Labels

LEMMA PcStep ==
  ASSUME Remembered, [Next]_vars
  PROVE  pc' \in [Threads -> Labels]
<1> USE DEF Remembered
<1>1. ASSUME NEW t \in Threads, Put(t) \/ TakeCheckpoint(t) \/ Delete(t) \/ Get(t)
      PROVE  pc' \in [Threads -> Labels]
  BY <1>1, SingleMoves
<1>2. CASE Crash \/ Drop
  BY <1>2 DEF Crash, Drop, Forget, Labels
<1>3. CASE Open
  BY <1>3 DEF Open
<1> QED BY <1>1, <1>2, <1>3 DEF Next, vars

LEMMA RememberedStep ==
  ASSUME NEW intact \in BOOLEAN, IInv(intact), Remembered, [Next]_vars
  PROVE  Remembered'
BY ChainsStep, StoreStep, TreesStep, CounterStep, StatusStep, PcStep DEF Remembered

LEMMA RememberedInit == Init => Remembered
<1> SUFFICES ASSUME Init PROVE Remembered
  OBVIOUS
<1>1. store \in StoreType
  BY DEF Init, EmptyStore, StoreType
<1> QED BY <1>1, NoChainType DEF Init, Remembered, Labels

Whole == Inductive /\ Remembered

LEMMA WholeStep == Whole /\ [Next]_vars => Whole'
<1>1. Whole /\ [Next]_vars => Inductive'
  BY EngineStep DEF Whole
<1>2. Whole /\ [Next]_vars => Remembered'
  BY RememberedStep DEF Whole, Inductive, Holds
<1> QED BY <1>1, <1>2 DEF Whole

(* Whatever threads, crashes and reopenings do, the engine's state keeps    *)
(* its types: refcounts stay u32, chains stay chains, a tree names offsets. *)
THEOREM EngineTypeCorrect == Spec => []TypeOK
<1>1. Init => Whole
  BY InitInductive, RememberedInit DEF Whole
<1>2. Whole /\ [Next]_vars => Whole'
  BY WholeStep
<1>3. Whole => TypeOK
  BY DEF Whole, Inductive, Holds, IInv, Types, ArgType, Remembered, StoreType, TypeOK
<1> QED BY <1>1, <1>2, <1>3, PTL DEF Spec

VersionIdsConsecutive == \A k \in Key : Consecutive(chains[k].versions)

(* The versions of a key always have consecutive ids, so no two of them     *)
(* share one, whichever threads put and delete it, under whatever policies, *)
(* and whatever a reopening made of its chain.                              *)
THEOREM EngineVersionIds == Spec => []VersionIdsConsecutive
<1>1. Init => Whole
  BY InitInductive, RememberedInit DEF Whole
<1>2. Whole /\ [Next]_vars => Whole'
  BY WholeStep
<1>3. Whole => VersionIdsConsecutive
  BY DEF Whole, Remembered, VersionIdsConsecutive
<1> QED BY <1>1, <1>2, <1>3, PTL DEF Spec
-----------------------------------------------------------------------------
(***************************************************************************)
(* Counting the places in versions that name a chunk: what a put adds, what *)
(* its retention evicts, and what all chains have when one of them changes. *)
(***************************************************************************)
LEMMA InPlaces ==
  ASSUME NEW s, NEW h, NEW p
  PROVE  p \in PlacesIn(s, h) <=>
           \E i \in DOMAIN s : \E j \in DOMAIN s[i].hashes :
             p = <<i, j>> /\ s[i].hashes[j] = h
<1>1. p \in PlacesIn(s, h) <=> \E i \in DOMAIN s : p \in Places(s, i, h)
  BY DEF PlacesIn
<1>2. ASSUME NEW i \in DOMAIN s
      PROVE  p \in Places(s, i, h) <=>
               \E j \in DOMAIN s[i].hashes : p = <<i, j>> /\ s[i].hashes[j] = h
  BY DEF Places
<1> QED BY <1>1, <1>2

(* Two sets without a common element count together.                        *)
LEMMA DisjointCount ==
  ASSUME NEW S, IsFiniteSet(S), NEW T, IsFiniteSet(T), S \intersect T = {}
  PROVE  /\ IsFiniteSet(S \union T)
         /\ Cardinality(S \union T) = Cardinality(S) + Cardinality(T)
<1>1. /\ IsFiniteSet(S \union T)
      /\ Cardinality(S \union T) = Cardinality(S) + Cardinality(T) - Cardinality(S \intersect T)
  BY FS_Union
<1>2. Cardinality(S \intersect T) = 0
  BY FS_EmptySet
<1>3. Cardinality(S) \in Nat /\ Cardinality(T) \in Nat
  BY FS_CardinalityType
<1> QED BY <1>1, <1>2, <1>3

LEMMA PairCount ==
  ASSUME NEW x, NEW S, IsFiniteSet(S)
  PROVE  IsFiniteSet({x} \X S) /\ Cardinality({x} \X S) = Cardinality(S)
<1>1. IsFiniteSet({x}) /\ Cardinality({x}) = 1
  BY FS_Singleton
<1>2. IsFiniteSet({x} \X S) /\ Cardinality({x} \X S) = Cardinality({x}) * Cardinality(S)
  BY <1>1, FS_Product
<1>3. Cardinality(S) \in Nat
  BY FS_CardinalityType
<1> QED BY <1>1, <1>2, <1>3

(* A push adds the places of its own content.                               *)
LEMMA PushCount ==
  ASSUME NEW s \in Seq(VersionType(Hashes)), NEW v \in VersionType(Hashes), NEW h
  PROVE  OccurrencesIn(Append(s, v), h)
           = OccurrencesIn(s, h) + Cardinality({j \in DOMAIN v.hashes : v.hashes[j] = h})
<1> DEFINE n == Len(s) + 1
           all == Append(s, v)
           P == PlacesIn(s, h)
           J == {j \in DOMAIN v.hashes : v.hashes[j] = h}
           Q == {n} \X J
<1>1. /\ DOMAIN s = 1 .. n - 1 /\ DOMAIN all = 1 .. n /\ n \in Nat \ {0}
      /\ all[n] = v /\ \A i \in 1 .. n - 1 : all[i] = s[i]
      /\ all \in Seq(VersionType(Hashes))
  OBVIOUS
<1> HIDE DEF n, all
<1>2. \A p : p \in PlacesIn(all, h) <=> p \in P \/ p \in Q
  <2> SUFFICES ASSUME NEW p PROVE p \in PlacesIn(all, h) <=> p \in P \/ p \in Q
    OBVIOUS
  <2>1. p \in Q <=> \E j \in DOMAIN v.hashes : p = <<n, j>> /\ v.hashes[j] = h
    OBVIOUS
  <2>2. p \in P <=> \E i \in 1 .. n - 1 : \E j \in DOMAIN s[i].hashes :
                      p = <<i, j>> /\ s[i].hashes[j] = h
    BY <1>1, InPlaces
  <2>3. p \in PlacesIn(all, h) <=> \E i \in 1 .. n : \E j \in DOMAIN all[i].hashes :
                                     p = <<i, j>> /\ all[i].hashes[j] = h
    BY <1>1, InPlaces
  <2>4. 1 .. n = (1 .. n - 1) \union {n}
    BY <1>1
  <2> HIDE DEF P, Q
  <2> QED BY <1>1, <2>1, <2>2, <2>3, <2>4
<1>3. PlacesIn(all, h) = P \union Q
  <2> HIDE DEF P, Q
  <2> QED BY <1>2
<1>4. P \intersect Q = {}
  <2> SUFFICES ASSUME NEW p \in P, p \in Q PROVE FALSE
    OBVIOUS
  <2>1. p[1] = n
    OBVIOUS
  <2>2. PICK i \in 1 .. n - 1 : \E j \in DOMAIN s[i].hashes : p = <<i, j>>
    BY <1>1, InPlaces
  <2> QED BY <1>1, <2>1, <2>2
<1>5. IsFiniteSet(P) /\ IsFiniteSet(J)
  <2>1. v.hashes \in Hashes
    BY DEF VersionType
  <2>2. \E m \in Nat : DOMAIN v.hashes = 1 .. m
    BY <2>1 DEF Hashes
  <2>3. IsFiniteSet(DOMAIN v.hashes)
    BY <2>2, FS_Interval
  <2> QED BY <2>3, PlacesFinite, FS_Subset
<1>6. IsFiniteSet(Q) /\ Cardinality(Q) = Cardinality(J)
  <2> HIDE DEF J
  <2> QED BY <1>5, PairCount
<1>7. Cardinality(P \union Q) = Cardinality(P) + Cardinality(Q)
  <2> HIDE DEF P, Q
  <2> QED BY <1>4, <1>5, <1>6, DisjointCount
<1> QED BY <1>3, <1>6, <1>7 DEF OccurrencesIn, all

(* Cutting versions in two cuts their places in two.                        *)
LEMMA CutCount ==
  ASSUME NEW s \in Seq(VersionType(Hashes)), NEW d \in 0 .. Len(s), NEW h
  PROVE  OccurrencesIn(s, h) = OccurrencesIn(SubSeq(s, 1, d), h)
                                 + OccurrencesIn(SubSeq(s, d + 1, Len(s)), h)
<1> DEFINE n == Len(s)
           front == SubSeq(s, 1, d)
           back == SubSeq(s, d + 1, n)
           F == PlacesIn(front, h)
           B == PlacesIn(back, h)
           R == {p \in PlacesIn(s, h) : p[1] > d}
           shift == [p \in B |-> <<p[1] + d, p[2]>>]
<1>0. n \in Nat /\ d \in Nat /\ d <= n /\ DOMAIN s = 1 .. n
      /\ \A i \in 1 .. n : s[i] \in VersionType(Hashes)
  OBVIOUS
<1>1. /\ front \in Seq(VersionType(Hashes)) /\ DOMAIN front = 1 .. d
      /\ \A i \in 1 .. d : front[i] = s[i]
  <2>1. 1 \in Int /\ d \in Int /\ 1 <= d + 1 /\ \A i \in 1 .. d : s[i] \in VersionType(Hashes)
    BY <1>0
  <2>2. /\ front \in Seq(VersionType(Hashes))
        /\ Len(front) = IF 1 <= d THEN d - 1 + 1 ELSE 0
        /\ \A i \in 1 .. d - 1 + 1 : front[i] = s[1 + i - 1]
    BY <2>1, SubSeqProperties
  <2>3. Len(front) = d /\ d - 1 + 1 = d /\ \A i \in 1 .. d : 1 + i - 1 = i
    BY <1>0, <2>2
  <2> HIDE DEF front
  <2> QED BY <2>2, <2>3
<1>2. /\ back \in Seq(VersionType(Hashes)) /\ DOMAIN back = 1 .. n - d
      /\ \A i \in 1 .. n - d : back[i] = s[i + d]
  <2>1. d + 1 \in Int /\ n \in Int /\ d + 1 <= n + 1
        /\ \A i \in d + 1 .. n : s[i] \in VersionType(Hashes)
    BY <1>0
  <2>2. /\ back \in Seq(VersionType(Hashes))
        /\ Len(back) = IF d + 1 <= n THEN n - (d + 1) + 1 ELSE 0
        /\ \A i \in 1 .. n - (d + 1) + 1 : back[i] = s[d + 1 + i - 1]
    BY <2>1, SubSeqProperties
  <2> HIDE DEF back, n
  <2>3. n - (d + 1) + 1 = n - d /\ \A i \in 1 .. n - d : d + 1 + i - 1 = i + d
    BY <1>0
  <2>4. Len(back) = n - d
    BY <1>0, <2>2, <2>3
  <2> QED BY <2>2, <2>3, <2>4
<1> HIDE DEF n, front, back
<1>3. \A p : p \in F <=> p \in PlacesIn(s, h) /\ ~(p[1] > d)
  <2> SUFFICES ASSUME NEW p PROVE p \in F <=> p \in PlacesIn(s, h) /\ ~(p[1] > d)
    OBVIOUS
  <2>1. p \in F <=> \E i \in 1 .. d : \E j \in DOMAIN s[i].hashes :
                      p = <<i, j>> /\ s[i].hashes[j] = h
    BY <1>1, InPlaces
  <2>2. p \in PlacesIn(s, h) <=> \E i \in 1 .. n : \E j \in DOMAIN s[i].hashes :
                                   p = <<i, j>> /\ s[i].hashes[j] = h
    BY <1>0, InPlaces
  <2>3. \A i \in 1 .. n : i \in 1 .. d <=> ~(i > d)
    BY <1>0
  <2>4. \A i \in 1 .. d : i \in 1 .. n
    BY <1>0
  <2>5. \A i, j : <<i, j>>[1] = i
    OBVIOUS
  <2> HIDE DEF F
  <2> QED BY <2>1, <2>2, <2>3, <2>4, <2>5
<1>4. IsFiniteSet(PlacesIn(s, h)) /\ IsFiniteSet(F) /\ IsFiniteSet(B)
  BY <1>1, <1>2, PlacesFinite
<1>a. \A p \in B : \E i \in 1 .. n - d : \E j \in DOMAIN back[i].hashes :
        p = <<i, j>> /\ back[i].hashes[j] = h
  <2> SUFFICES ASSUME NEW p \in PlacesIn(back, h)
               PROVE  \E i \in DOMAIN back : \E j \in DOMAIN back[i].hashes :
                        p = <<i, j>> /\ back[i].hashes[j] = h
    BY <1>2
  <2> QED BY InPlaces
<1>5. IsFiniteSet(R)
  BY <1>4, FS_Subset
<1>6. shift \in Bijection(B, R)
  <2>1. ASSUME NEW p \in B PROVE shift[p] \in R
    <3>0. PICK i \in 1 .. n - d : \E j \in DOMAIN back[i].hashes :
                 p = <<i, j>> /\ back[i].hashes[j] = h
      BY <1>a
    <3>1. PICK j \in DOMAIN back[i].hashes : p = <<i, j>> /\ back[i].hashes[j] = h
      BY <3>0
    <3>2. shift[p] = <<i + d, j>> /\ s[i + d] = back[i]
      BY <1>2, <3>1
    <3>3. i + d \in 1 .. n /\ i + d > d
      BY <1>0
    <3>4. <<i + d, j>> \in PlacesIn(s, h)
      BY <1>0, <3>1, <3>2, <3>3, InPlaces
    <3> QED BY <3>2, <3>3, <3>4
  <2>2. ASSUME NEW p \in B, NEW q \in B, shift[p] = shift[q] PROVE p = q
    <3>1. PICK i \in 1 .. n - d : \E j : p = <<i, j>>
      BY <1>a
    <3>2. PICK k \in 1 .. n - d : \E l : q = <<k, l>>
      BY <1>a
    <3>a. PICK j : p = <<i, j>>
      BY <3>1
    <3>b. PICK l : q = <<k, l>>
      BY <3>2
    <3>3. <<i + d, j>> = <<k + d, l>>
      BY <2>2, <3>a, <3>b
    <3>4. i + d = k + d /\ j = l
      BY <3>3
    <3>5. i = k
      BY <1>0, <3>4
    <3> QED BY <3>4, <3>5, <3>a, <3>b
  <2>3. ASSUME NEW q \in R PROVE \E p \in B : shift[p] = q
    <3>0. PICK k \in 1 .. n : \E j \in DOMAIN s[k].hashes : q = <<k, j>> /\ s[k].hashes[j] = h
      BY <1>0, InPlaces
    <3>1. PICK j \in DOMAIN s[k].hashes : q = <<k, j>> /\ s[k].hashes[j] = h
      BY <3>0
    <3>2. k > d
      BY <3>1
    <3>3. k - d \in 1 .. n - d /\ (k - d) + d = k
      BY <1>0, <3>1, <3>2
    <3>4. back[k - d] = s[k]
      BY <1>2, <3>3
    <3>5. <<k - d, j>> \in B
      BY <1>2, <3>1, <3>3, <3>4, InPlaces
    <3>6. shift[<<k - d, j>>] = <<k, j>>
      BY <3>3, <3>5
    <3> QED BY <3>1, <3>5, <3>6
  <2> HIDE DEF B, R
  <2>4. DOMAIN shift = B
    OBVIOUS
  <2> HIDE DEF shift
  <2>5. shift \in [B -> R]
    <3>1. shift = [p \in B |-> shift[p]]
      BY DEF shift
    <3> QED BY <2>1, <3>1
  <2> QED BY <2>2, <2>3, <2>5 DEF Bijection, Injection, Surjection, IsInjective
<1>7. Cardinality(R) = Cardinality(B)
  <2> HIDE DEF B, R, shift
  <2> QED BY <1>4, <1>6, FS_Bijection DEF ExistsBijection
<1>8. PlacesIn(s, h) = F \union R /\ F \intersect R = {}
  <2> HIDE DEF F
  <2> QED BY <1>3
<1>9. Cardinality(F \union R) = Cardinality(F) + Cardinality(R)
  <2> HIDE DEF F, R
  <2> QED BY <1>4, <1>5, <1>8, DisjointCount
<1> QED BY <1>7, <1>8, <1>9 DEF OccurrencesIn, n, front, back
(* What a put adds to its key's versions and what they lose is what its     *)
(* tensor names.                                                            *)
LEMMA ChainCount ==
  ASSUME NEW chain \in ChainType(Hashes), Consecutive(chain.versions), NEW v \in Hashes,
         NEW h
  PROVE  OccurrencesIn(ChainAppend(chain, v).versions, h) + OccurrencesIn(Evicted(chain, v), h)
           = OccurrencesIn(chain.versions, h) + Cardinality({j \in DOMAIN v : v[j] = h})
<1> DEFINE n == Len(chain.versions) + 1
           new == [id |-> NextVersionId(chain), hashes |-> v]
           all == Pushed(chain, v)
           d == Dropped(chain, v)
           front == SubSeq(all, 1, d)
           back == SubSeq(all, d + 1, n)
<1>1. /\ chain.versions \in Seq(VersionType(Hashes)) /\ chain.retention \in Policies
      /\ n \in Nat \ {0}
  BY DEF ChainType
<1>2. all \in Seq(VersionType(Hashes)) /\ Len(all) = n /\ all[n] = new
  BY PushedIds
<1>3. new \in VersionType(Hashes) /\ new.hashes = v
  <2>1. new = all[n]
    BY <1>2
  <2>2. n \in 1 .. n
    BY <1>1
  <2> HIDE DEF all, new, n
  <2>3. new \in VersionType(Hashes)
    BY <1>2, <2>1, <2>2
  <2> QED BY <2>3 DEF new
<1>4. d \in 0 .. Len(all)
  BY <1>1, <1>2, StaysOne DEF Dropped
<1>5. all = Append(chain.versions, new)
  BY DEF Pushed
<1>6. Evicted(chain, v) = front
  BY DEF Evicted
<1>7. ChainAppend(chain, v).versions = back
  <2>1. chain = [versions |-> chain.versions, retention |-> chain.retention]
    BY DEF ChainType
  <2>2. ChainAppend(chain, v) = [chain EXCEPT !.versions = back]
    BY DEF ChainAppend
  <2> HIDE DEF back
  <2> QED BY <2>1, <2>2
<1>8. OccurrencesIn(all, h)
        = OccurrencesIn(chain.versions, h) + Cardinality({j \in DOMAIN v : v[j] = h})
  <2> HIDE DEF all, new
  <2> QED BY <1>1, <1>3, <1>5, PushCount
<1>9. OccurrencesIn(all, h) = OccurrencesIn(front, h) + OccurrencesIn(back, h)
  <2>1. back = SubSeq(all, d + 1, Len(all))
    BY <1>2
  <2> HIDE DEF all, d, n, back
  <2> QED BY <1>2, <1>4, <2>1, CutCount
<1>10. /\ OccurrencesIn(front, h) \in Nat /\ OccurrencesIn(back, h) \in Nat
  <2>1. ChainAppend(chain, v) \in ChainType(Hashes) /\ Evicted(chain, v) \in Seq(VersionType(Hashes))
    BY ChainAppendType
  <2>2. ChainAppend(chain, v).versions \in Seq(VersionType(Hashes))
    BY <2>1 DEF ChainType
  <2> HIDE DEF front, back
  <2> QED BY <1>6, <1>7, <2>1, <2>2, OccurrencesType
<1> HIDE DEF front, back
<1> QED BY <1>6, <1>7, <1>8, <1>9, <1>10

(* When one key's chain changes, the places in all chains change by what    *)
(* that chain gained and lost.                                              *)
LEMMA RekeyCount ==
  ASSUME NEW c, NEW d, NEW k \in Key, \A j \in Key \ {k} : d[j] = c[j], NEW h,
         IsFiniteSet(NamedIn(c, h)), IsFiniteSet(PlacesIn(c[k].versions, h)),
         IsFiniteSet(PlacesIn(d[k].versions, h))
  PROVE  /\ IsFiniteSet(NamedIn(d, h))
         /\ Cardinality(NamedIn(d, h)) + OccurrencesIn(c[k].versions, h)
              = Cardinality(NamedIn(c, h)) + OccurrencesIn(d[k].versions, h)
         /\ OccurrencesIn(c[k].versions, h) <= Cardinality(NamedIn(c, h))
<1> DEFINE P == PlacesIn(c[k].versions, h)
           Q == PlacesIn(d[k].versions, h)
           R == UNION {{j} \X PlacesIn(c[j].versions, h) : j \in Key \ {k}}
<1>1. NamedIn(c, h) = R \union ({k} \X P)
  BY DEF NamedIn
<1>2. NamedIn(d, h) = R \union ({k} \X Q)
  <2>1. R = UNION {{j} \X PlacesIn(d[j].versions, h) : j \in Key \ {k}}
    OBVIOUS
  <2> QED BY <2>1 DEF NamedIn
<1>3. \A X : R \intersect ({k} \X X) = {}
  OBVIOUS
<1> HIDE DEF P, Q, R
<1>4. IsFiniteSet(R)
  BY <1>1, FS_Subset
<1>5. /\ IsFiniteSet({k} \X P) /\ Cardinality({k} \X P) = Cardinality(P)
      /\ IsFiniteSet({k} \X Q) /\ Cardinality({k} \X Q) = Cardinality(Q)
  BY PairCount DEF P, Q
<1>6. Cardinality(R) \in Nat /\ Cardinality(P) \in Nat /\ Cardinality(Q) \in Nat
  BY <1>4, FS_CardinalityType DEF P, Q
<1>7. Cardinality(NamedIn(c, h)) = Cardinality(R) + Cardinality(P)
  <2>1. R \intersect ({k} \X P) = {}
    BY <1>3
  <2> QED BY <1>1, <1>4, <1>5, <2>1, DisjointCount
<1>8. /\ IsFiniteSet(NamedIn(d, h))
      /\ Cardinality(NamedIn(d, h)) = Cardinality(R) + Cardinality(Q)
  <2>1. R \intersect ({k} \X Q) = {}
    BY <1>3
  <2> QED BY <1>2, <1>4, <1>5, <2>1, DisjointCount
<1>9. OccurrencesIn(c[k].versions, h) = Cardinality(P) /\ OccurrencesIn(d[k].versions, h) = Cardinality(Q)
  BY DEF OccurrencesIn, P, Q
<1> QED BY <1>6, <1>7, <1>8, <1>9

LEMMA NoneNamed ==
  ASSUME NEW c, NEW h, \A k \in Key : PlacesIn(c[k].versions, h) = {}
  PROVE  NamedIn(c, h) = {} /\ IsFiniteSet(NamedIn(c, h)) /\ Cardinality(NamedIn(c, h)) = 0
<1>1. NamedIn(c, h) = {}
  BY DEF NamedIn
<1> QED BY <1>1, FS_EmptySet
=============================================================================
