---------------------------- MODULE ImportProofs ----------------------------
(***************************************************************************)
(* The safety of Import, proved for every number of runs, every size of    *)
(* their inputs, every state of the database and every batch size.         *)
(*                                                                         *)
(*   Types: type correctness, and that a step leaves the variables of      *)
(*   other runs alone.                                                     *)
(*   The invariant: IInv of module ImportInvariant is inductive.  A step   *)
(*   either is the commit of one transaction or leaves the database and    *)
(*   all committed transactions as they are; in the second case only the   *)
(*   run that takes the step has something to show, action by action.      *)
(*   Promises: what committed imports have bound in the database, that the *)
(*   configuration row serializes writers, that reports are true, that     *)
(*   changes are found, and that the runs together implement AtomicImport. *)
(***************************************************************************)
EXTENDS ImportInvariant, FiniteSetTheorems, TLAPS

(* The facts about an accepted plan that the proofs use.                   *)
LEMMA PlanFacts ==
  ASSUME NEW p \in Importers, held[p] \in [FilesOf(p) -> Versions], MyPlan(p) # Rejected
  PROVE  /\ MyPlan(p).envelope \in Envelopes
         /\ MyPlan(p).targets \in Seq(Targets)
         /\ MyPlan(p).targets # <<>>
         /\ MyPlan(p).counts \in [Targets -> Nat]
         /\ MyPlan(p).policies \in [Targets -> Policies \union {NoPolicy}]
         /\ MyPlan(p).stream \in Seq(Item)
         /\ MyPlan(p).stream # <<>>
         /\ MyPlan(p).stream[Len(MyPlan(p).stream)].kind = "end"
         /\ \A i \in DOMAIN MyPlan(p).stream :
              /\ MyPlan(p).stream[i].file \in FilesOf(p)
              /\ MyPlan(p).stream[i].kind = "record" =>
                   MyPlan(p).stream[i].target \in TargetsOf(MyPlan(p))
PROOF
<1>1. MyPlan(p) \in Plan
  BY PlanAssumption DEF MyPlan
<1>2. QED
  BY <1>1, PlanAssumption DEF MyPlan, Plan

LEMMA DiscardType ==
  ASSUME TypeOK, NEW p \in Importers, Discard(p)
  PROVE  /\ lock' \in Importers \union {NoOne}
         /\ tx' \in [Importers -> TxStates]
         /\ seen' \in [Importers -> SUBSET Importers]
         /\ snap' \in [Importers -> Snapshot]
         /\ created' \in [Importers -> SUBSET (Targets \union {System})]
         /\ own' \in [Importers -> SUBSET Row]
PROOF
<1>1. NoSnap \in Snapshot
  BY DEF NoSnap, Snapshot, EntryOrNone
<1>2. QED
  BY <1>1 DEF TypeOK, Discard, Release, TxStates

LEMMA StopType ==
  ASSUME TypeOK, NEW p \in Importers, NEW how \in Ended, Stop(p, how),
         lock' \in Importers \union {NoOne},
         tx' \in [Importers -> TxStates],
         seen' \in [Importers -> SUBSET Importers],
         snap' \in [Importers -> Snapshot],
         created' \in [Importers -> SUBSET (Targets \union {System})],
         own' \in [Importers -> SUBSET Row]
  PROVE  TypeOK'
PROOF
<1>1. NoBatch \in Batch
  BY DEF NoBatch, Batch
<1>2. pc' \in [Importers -> Stages] /\ pos' \in [Importers -> Nat \ {0}]
  BY DEF TypeOK, Stop, Goto, Stages
<1>3. todo' \in [Importers -> SUBSET Files] /\ dirty' \in [Importers -> BOOLEAN]
  BY DEF TypeOK, Stop
<1>4. batch' \in [Importers -> Batch]
  BY <1>1 DEF TypeOK, Stop
<1>5. UNCHANGED <<disk, touched, transactionalDDL, tables, config, meta, rows, held, counted>>
  BY DEF Stop, files, database
<1>6. QED
  BY <1>2, <1>3, <1>4, <1>5 DEF TypeOK

LEMMA FailType ==
  ASSUME TypeOK, NEW p \in Importers, Fail(p)
  PROVE  TypeOK'
PROOF
<1>1. Stop(p, "failed") /\ "failed" \in Ended
  BY DEF Fail, Ended
<1>2. CASE tx[p] = "active"
  BY <1>1, <1>2, DiscardType, StopType DEF Fail
<1>3. CASE tx[p] # "active"
  BY <1>1, <1>3, StopType DEF Fail, TypeOK, txState
<1>4. QED
  BY <1>2, <1>3

-----------------------------------------------------------------------------
(* What type correctness needs to know of a run besides the types.         *)
Typed(p) ==
  InputsRead(p) /\ PlanAccepted(p) /\ IndexInLoop(p) /\ Transaction(p) /\ BatchHasTarget(p)

TInv == TypeOK /\ \A p \in Importers : Typed(p)

LEMMA PlanUsable ==
  ASSUME TInv, NEW p \in Importers,
         pc[p] \notin {"open", "preflight", "failed", "crashed"} \/ tx[p] # "none"
  PROVE  held[p] \in [FilesOf(p) -> Versions] /\ MyPlan(p) # Rejected
BY DEF TInv, Typed, InputsRead, PlanAccepted

(* The control variables.                                                  *)
Control == pc \in [Importers -> Stages] /\ pos \in [Importers -> Nat \ {0}]

LEMMA TypedControl ==
  ASSUME TypeOK
  PROVE  Control
BY DEF TypeOK, Control

LEMMA GotoType ==
  ASSUME Control, NEW p \in Importers, NEW next \in Stages, Goto(p, next)
  PROVE  Control'
BY DEF Control, Goto

LEMMA LoopType ==
  ASSUME Control, NEW p \in Importers, NEW next \in Stages, NEW n, Loop(p, n, next)
  PROVE  Control'
PROOF
<1>1. CASE pos[p] < n
  <2>1. pos' = [pos EXCEPT ![p] = pos[p] + 1] /\ pc' = pc
    BY <1>1 DEF Loop
  <2>2. pos[p] + 1 \in Nat \ {0}
    BY DEF Control
  <2>3. QED
    BY <2>1, <2>2 DEF Control
<1>2. CASE ~(pos[p] < n)
  BY <1>2 DEF Control, Loop
<1>3. QED
  BY <1>1, <1>2

LEMMA ReadType ==
  ASSUME TInv, NEW p \in Importers, ReadInput(p)
  PROVE  TypeOK'
PROOF
<1> DEFINE f == InputsOf(p)[pos[p]]
<1>1. f \in FilesOf(p)
  <2>1. pos[p] \in Nat \ {0} /\ pos[p] <= Len(InputsOf(p))
    BY DEF TInv, Typed, InputsRead, ReadInput, TypeOK
  <2>2. InputsOf(p) \in Seq(FilesOf(p))
    BY InputAssumption
  <2>3. QED
    BY <2>1, <2>2
<1>2. disk[f] \in Versions
  BY <1>1 DEF TInv, TypeOK, Files
<1>3. held' = [held EXCEPT ![p][f] = disk[f]]
  BY DEF ReadInput
<1>4. DOMAIN held' = Importers /\ \A q \in Importers : held'[q] \in [FilesOf(q) -> Versions \union {NoVersion}]
  <2>1. \A q \in Importers : held[q] \in [FilesOf(q) -> Versions \union {NoVersion}]
    BY DEF TInv, TypeOK
  <2>2. held' = [q \in Importers |-> IF q = p THEN [held[p] EXCEPT ![f] = disk[f]] ELSE held[q]]
    BY <1>3 DEF TInv, TypeOK
  <2>3. QED
    BY <1>1, <1>2, <2>1, <2>2
<1>5. Control'
  <2>1. Loop(p, Len(InputsOf(p)), "preflight") /\ "preflight" \in Stages
    BY DEF ReadInput, Stages, Running
  <2>2. QED
    BY <2>1, TypedControl, LoopType DEF TInv
<1>6. UNCHANGED <<disk, touched, transactionalDDL, tables, config, meta, rows, lock, todo, tx, seen, snap, created, own, batch, dirty, counted>>
  BY DEF ReadInput, files, database, txState
<1>7. QED
  BY <1>4, <1>5, <1>6 DEF TInv, TypeOK, Control

LEMMA PreflightType ==
  ASSUME TInv, NEW p \in Importers, Preflight(p)
  PROVE  TypeOK'
PROOF
<1>1. CASE Fail(p)
  BY <1>1, FailType DEF TInv
<1>2. CASE ~Fail(p)
  <2>1. FilesOf(p) \in SUBSET Files
    BY DEF Files
  <2>2. Control'
    <3>1. Goto(p, "recheck") /\ "recheck" \in Stages
      BY <1>2 DEF Preflight, Stages, Running
    <3>2. QED
      BY <3>1, TypedControl, GotoType DEF TInv
  <2>3. todo' \in [Importers -> SUBSET Files]
    BY <1>2, <2>1 DEF Preflight, TInv, TypeOK
  <2>4. UNCHANGED <<disk, touched, transactionalDDL, tables, config, meta, rows, lock, held, tx, seen, snap, created, own, batch, dirty, counted>>
    BY <1>2 DEF Preflight, files, database, txState
  <2>5. QED
    BY <2>2, <2>3, <2>4 DEF TInv, TypeOK, Control
<1>3. QED
  BY <1>1, <1>2

LEMMA CompareType ==
  ASSUME TInv, NEW p \in Importers, NEW next \in Running, Compare(p, next)
  PROVE  TypeOK'
PROOF
<1>1. CASE Fail(p)
  BY <1>1, FailType DEF TInv
<1>2. CASE ~Fail(p)
  <2>1. Control'
    <3>1. next \in Stages
      BY DEF Stages
    <3>2. Goto(p, next) \/ UNCHANGED <<pc, pos>>
      BY <1>2 DEF Compare
    <3>3. CASE Goto(p, next)
      BY <3>1, <3>3, TypedControl, GotoType DEF TInv
    <3>4. CASE UNCHANGED <<pc, pos>>
      BY <3>4, TypedControl DEF TInv, Control
    <3>5. QED
      BY <3>2, <3>3, <3>4
  <2>2. todo' \in [Importers -> SUBSET Files]
    BY <1>2 DEF Compare, TInv, TypeOK
  <2>3. UNCHANGED <<disk, touched, transactionalDDL, tables, config, meta, rows, lock, held, tx, seen, snap, created, own, batch, dirty, counted>>
    BY <1>2 DEF Compare, files, database, txState
  <2>4. QED
    BY <2>1, <2>2, <2>3 DEF TInv, TypeOK, Control
<1>3. QED
  BY <1>1, <1>2

LEMMA CreateTableType ==
  ASSUME TInv, NEW p \in Importers, NEW t \in Targets \union {System}, CreateTable(p, t),
         Control', tx' \in [Importers -> TxStates], seen' \in [Importers -> SUBSET Importers],
         snap' \in [Importers -> Snapshot]
  PROVE  TypeOK'
PROOF
<1>1. created' \in [Importers -> SUBSET (Targets \union {System})] /\ tables' \subseteq Targets \union {System}
  <2>1. created \in [Importers -> SUBSET (Targets \union {System})] /\ tables \subseteq Targets \union {System}
    BY DEF TInv, TypeOK
  <2>2. CASE transactionalDDL
    BY <2>1, <2>2 DEF CreateTable
  <2>3. CASE ~transactionalDDL
    BY <2>1, <2>3 DEF CreateTable
  <2>4. QED
    BY <2>2, <2>3
<1>2. UNCHANGED <<disk, touched, transactionalDDL, config, meta, rows, lock, held, todo, batch, dirty, counted, own>>
  BY DEF CreateTable, files, memory
<1>3. QED
  BY <1>1, <1>2 DEF TInv, TypeOK, Control

LEMMA ConnectType ==
  ASSUME TInv, NEW p \in Importers, CheckDatabase(p) \/ Begin(p) \/ CreateNamespace(p)
  PROVE  TypeOK'
PROOF
<1>1. CASE Fail(p)
  BY <1>1, FailType DEF TInv
<1>2. CASE CheckDatabase(p) /\ ~Fail(p)
  <2>1. Control'
    <3>1. Goto(p, "begin") /\ "begin" \in Stages
      BY <1>2 DEF CheckDatabase, Stages, Running
    <3>2. QED
      BY <3>1, TypedControl, GotoType DEF TInv
  <2>2. UNCHANGED <<disk, touched, transactionalDDL, tables, config, meta, rows, lock, held, todo, batch, dirty, counted, tx, seen, snap, created, own>>
    BY <1>2 DEF CheckDatabase, files, database, memory, txState
  <2>3. QED
    BY <2>1, <2>2 DEF TInv, TypeOK, Control
<1>3. CASE Begin(p)
  <2>1. Control'
    <3>1. Goto(p, "config") /\ "config" \in Stages
      BY <1>3 DEF Begin, Stages, Running
    <3>2. QED
      BY <3>1, TypedControl, GotoType DEF TInv
  <2>2. tx' \in [Importers -> TxStates] /\ seen' \in [Importers -> SUBSET Importers]
    BY <1>3 DEF Begin, TInv, TypeOK, TxStates
  <2>3. snap' \in [Importers -> Snapshot]
    <3>1. [config |-> config, meta |-> meta, rows |-> rows] \in Snapshot
      BY DEF TInv, TypeOK, Snapshot
    <3>2. snap \in [Importers -> Snapshot]
      BY DEF TInv, TypeOK
    <3>3. QED
      BY <1>3, <3>1, <3>2 DEF Begin
  <2>4. QED
    BY <1>3, <2>1, <2>2, <2>3, CreateTableType DEF Begin
<1>4. CASE CreateNamespace(p)
  <2>1. MyPlan(p).targets[pos[p]] \in Targets
    <3>1. pc[p] = "create" /\ pos[p] \in Nat \ {0} /\ pos[p] <= Len(MyPlan(p).targets)
      BY <1>4 DEF CreateNamespace, TInv, TypeOK, Typed, IndexInLoop
    <3>2. MyPlan(p).targets \in Seq(Targets)
      BY <3>1, PlanUsable, PlanFacts
    <3>3. QED
      BY <3>1, <3>2
  <2>2. pc' \in [Importers -> Stages] /\ UNCHANGED <<pos, tx, seen, snap>>
    BY <1>4 DEF CreateNamespace, TInv, TypeOK, Stages, Running
  <2>3. Control' /\ tx' \in [Importers -> TxStates]
        /\ seen' \in [Importers -> SUBSET Importers] /\ snap' \in [Importers -> Snapshot]
    BY <2>2 DEF TInv, TypeOK, Control
  <2>4. QED
    BY <1>4, <2>1, <2>2, <2>3, CreateTableType DEF CreateNamespace
<1>5. QED
  BY <1>1, <1>2, <1>3, <1>4

(* An entry that ensureEntry stores.                                       *)
LEMMA EntryType ==
  ASSUME NEW S, NEW v \in S
  PROVE  [value |-> v, version |-> 0] \in EntryOrNone(S)
BY DEF EntryOrNone

LEMMA EnsureType ==
  ASSUME TInv, NEW p \in Importers, EnsureConfig(p) \/ EnsureNamespace(p)
  PROVE  TypeOK'
PROOF
<1>1. CASE Fail(p)
  BY <1>1, FailType DEF TInv
<1>2. snap \in [Importers -> Snapshot] /\ lock \in Importers \union {NoOne}
  BY DEF TInv, TypeOK
<1>3. CASE EnsureConfig(p) /\ ~Fail(p)
  <2> DEFINE entry == [value |-> MyPlan(p).envelope, version |-> 0]
  <2>1. Control' /\ lock' = p
    <3>1. Goto(p, "create") /\ "create" \in Stages /\ lock' = p
      BY <1>3 DEF EnsureConfig, Stages, Running
    <3>2. QED
      BY <3>1, TypedControl, GotoType DEF TInv
  <2>2. snap' \in [Importers -> Snapshot]
    <3>1. MyPlan(p).envelope \in Envelopes
      BY <1>3, PlanUsable, PlanFacts DEF EnsureConfig
    <3>2. entry \in EntryOrNone(Envelopes)
      BY <3>1, EntryType
    <3>3. [snap[p] EXCEPT !.config = entry] \in Snapshot
      BY <1>2, <3>2 DEF Snapshot
    <3>4. snap' = [snap EXCEPT ![p] = [snap[p] EXCEPT !.config = entry]]
      BY <1>2, <1>3 DEF EnsureConfig
    <3>5. QED
      BY <1>2, <3>3, <3>4
  <2>3. UNCHANGED <<disk, touched, transactionalDDL, tables, config, meta, rows, held, todo, batch, dirty, counted, tx, seen, created, own>>
    BY <1>3 DEF EnsureConfig, files, database, memory
  <2>4. QED
    BY <2>1, <2>2, <2>3 DEF TInv, TypeOK, Control
<1>4. CASE EnsureNamespace(p) /\ ~Fail(p)
  <2> DEFINE t == MyPlan(p).targets[pos[p]]
             entry == [value |-> MyPlan(p).policies[t], version |-> 0]
  <2>1. pc[p] = "ensure" /\ MyPlan(p).policies[t] # NoPolicy /\ snap' = [snap EXCEPT ![p].meta[t] = entry]
        /\ UNCHANGED <<files, database, lock, memory, tx, seen, created, own>>
    BY <1>4 DEF EnsureNamespace
  <2>2. IF pos[p] < Len(MyPlan(p).targets)
        THEN pos' = [pos EXCEPT ![p] = @ + 1] /\ pc' = [pc EXCEPT ![p] = "create"]
        ELSE Goto(p, "stream")
    BY <1>4 DEF EnsureNamespace
  <2>3. Control'
    <3>1. pc \in [Importers -> Stages] /\ pos \in [Importers -> Nat \ {0}]
      BY DEF TInv, TypeOK
    <3>2. "stream" \in Stages /\ "create" \in Stages
      BY DEF Stages, Running
    <3>3. pos' = [pos EXCEPT ![p] = pos[p] + 1] \/ pos' = [pos EXCEPT ![p] = 1]
      BY <2>2 DEF Goto
    <3>4. pos[p] + 1 \in Nat \ {0} /\ 1 \in Nat \ {0}
      BY <3>1
    <3>5. pos' \in [Importers -> Nat \ {0}]
      BY <3>1, <3>3, <3>4
    <3>6. pc' \in [Importers -> Stages]
      BY <2>2, <3>1, <3>2 DEF Goto
    <3>7. QED
      BY <3>5, <3>6 DEF Control
  <2>4. snap' \in [Importers -> Snapshot]
    <3>1. held[p] \in [FilesOf(p) -> Versions] /\ MyPlan(p) # Rejected
          /\ pos[p] \in Nat \ {0} /\ pos[p] <= Len(MyPlan(p).targets)
      BY <2>1, PlanUsable DEF TInv, TypeOK, Typed, IndexInLoop
    <3>2. t \in Targets /\ MyPlan(p).policies \in [Targets -> Policies \union {NoPolicy}]
      BY <3>1, PlanFacts
    <3>3. entry \in EntryOrNone(Policies)
      <4>1. MyPlan(p).policies[t] \in Policies
        BY <2>1, <3>2
      <4>2. QED
        BY <4>1, EntryType
    <3>4. snap[p].meta \in [Targets -> EntryOrNone(Policies)]
      BY <1>2 DEF Snapshot
    <3>5. [snap[p].meta EXCEPT ![t] = entry] \in [Targets -> EntryOrNone(Policies)]
      BY <3>2, <3>3, <3>4
    <3>6. [snap[p] EXCEPT !.meta = [snap[p].meta EXCEPT ![t] = entry]] \in Snapshot
      BY <1>2, <3>5 DEF Snapshot
    <3>7. snap' = [snap EXCEPT ![p] = [snap[p] EXCEPT !.meta = [snap[p].meta EXCEPT ![t] = entry]]]
      BY <1>2, <2>1
    <3>8. QED
      BY <1>2, <3>6, <3>7
  <2>5. UNCHANGED <<disk, touched, transactionalDDL, tables, config, meta, rows, lock, held, todo, batch, dirty, counted, tx, seen, created, own>>
    BY <2>1 DEF files, database, memory
  <2>6. QED
    BY <2>3, <2>4, <2>5 DEF TInv, TypeOK, Control
<1>5. QED
  BY <1>1, <1>3, <1>4

LEMMA BatchRowsType ==
  ASSUME NEW b \in Batch, b.target # NoOne \/ b.records = <<>>
  PROVE  BatchRows(b) \subseteq Row
PROOF
<1>1. SUFFICES ASSUME NEW i \in DOMAIN b.records
               PROVE  RowFor(b.target, b.records[i].key, b.records[i].value) \in Row
  BY DEF BatchRows
<1>2. b.records \in Seq([key: Keys, value: Values]) /\ b.target \in Targets \union {NoOne}
  BY DEF Batch
<1>3. b.records[i] \in [key: Keys, value: Values]
  <2> DEFINE S == [key: Keys, value: Values]
  <2>1. b.records \in Seq(S)
    BY <1>2
  <2> HIDE DEF S
  <2>2. b.records[i] \in S
    BY <2>1
  <2>3. QED
    BY <2>2 DEF S
<1>4. b.target \in Targets
  <2>1. DOMAIN <<>> = {}
    OBVIOUS
  <2>2. QED
    BY <1>2, <2>1
<1>5. QED
  BY <1>3, <1>4 DEF RowFor, Row

LEMMA EmptyBatch ==
  ASSUME NEW t \in Targets \union {NoOne}
  PROVE  [target |-> t, records |-> <<>>] \in Batch
PROOF
<1>1. <<>> \in Seq([key: Keys, value: Values])
  OBVIOUS
<1>2. QED
  BY <1>1 DEF Batch

LEMMA EmptiedBatch ==
  ASSUME NEW b \in Batch
  PROVE  [b EXCEPT !.records = <<>>] \in Batch
PROOF
<1>1. <<>> \in Seq([key: Keys, value: Values])
  OBVIOUS
<1>2. QED
  BY <1>1 DEF Batch

(* The batch of a run that is given a record.                              *)
LEMMA YieldType ==
  ASSUME TInv, NEW p \in Importers, NEW t \in Targets, NEW r \in [key: Keys, value: Values],
         NEW agreed \in BOOLEAN, Yield(p, t, r, agreed)
  PROVE  TypeOK'
PROOF
<1>1. CASE Fail(p)
  BY <1>1, FailType DEF TInv
<1>2. CASE ~Fail(p)
  <2> DEFINE old == batch[p]
             switch == old.target \notin {NoOne, t}
             new == [target |-> t, records |-> Append(IF switch THEN <<>> ELSE old.records, r)]
             full == Len(new.records) = BatchSize
             inserts == (IF switch THEN {old} ELSE {}) \union (IF full THEN {new} ELSE {})
  <2>1. batch \in [Importers -> Batch] /\ own \in [Importers -> SUBSET Row] /\ old \in Batch
        /\ dirty \in [Importers -> BOOLEAN]
    BY DEF TInv, TypeOK
  <2>2. t # NoOne
    BY SentinelAssumption
  <2>3. new \in Batch
    <3>1. old.records \in Seq([key: Keys, value: Values]) /\ <<>> \in Seq([key: Keys, value: Values])
      BY <2>1 DEF Batch
    <3>2. new.records \in Seq([key: Keys, value: Values])
      BY <3>1
    <3>3. QED
      BY <3>2 DEF Batch
  <2>4. /\ own' = [own EXCEPT ![p] = @ \union UNION {BatchRows(b) : b \in inserts}]
        /\ batch' = [batch EXCEPT ![p] = [target |-> t, records |-> IF full THEN <<>> ELSE new.records]]
        /\ dirty' = [dirty EXCEPT ![p] = @ \/ ~agreed]
        /\ pos' = [pos EXCEPT ![p] = @ + 1]
        /\ UNCHANGED <<files, database, lock, pc, held, todo, tx, seen, snap, created, counted>>
    BY <1>2 DEF Yield
  <2>5. \A b \in inserts : BatchRows(b) \subseteq Row
    BY <2>1, <2>2, <2>3, BatchRowsType
  <2>6. own' \in [Importers -> SUBSET Row]
    <3>1. UNION {BatchRows(b) : b \in inserts} \subseteq Row
      BY <2>5
    <3> HIDE DEF inserts
    <3>2. QED
      BY <2>1, <2>4, <3>1
  <2>7. batch' \in [Importers -> Batch]
    <3>1. [target |-> t, records |-> IF full THEN <<>> ELSE new.records] \in Batch
      BY <2>3, EmptyBatch DEF Batch
    <3> HIDE DEF new, full
    <3>2. QED
      BY <2>1, <2>4, <3>1
  <2>8. dirty' \in [Importers -> BOOLEAN]
    BY <2>1, <2>4
  <2>9. Control'
    BY <2>4, TypedControl DEF TInv, Control
  <2>10. UNCHANGED <<disk, touched, transactionalDDL, tables, config, meta, rows, lock, held, todo, tx, seen, snap, created, counted>>
    BY <2>4 DEF files, database
  <2>11. QED
    BY <2>6, <2>7, <2>8, <2>9, <2>10 DEF TInv, TypeOK, Control
<1>3. QED
  BY <1>1, <1>2

(* The item of the stream that a run is at.                                *)
LEMMA ItemFacts ==
  ASSUME TInv, NEW p \in Importers, pc[p] = "stream"
  PROVE  /\ pos[p] \in 1..Len(MyPlan(p).stream)
         /\ MyPlan(p).stream \in Seq(Item)
         /\ CurrentItem(p) = MyPlan(p).stream[pos[p]]
         /\ CurrentItem(p) \in Item
         /\ CurrentItem(p).kind = "record" => CurrentItem(p).target \in TargetsOf(MyPlan(p))
PROOF
<1>1. held[p] \in [FilesOf(p) -> Versions] /\ MyPlan(p) # Rejected
  BY PlanUsable
<1>2. pos[p] \in Nat \ {0} /\ pos[p] <= Len(MyPlan(p).stream)
  BY DEF TInv, TypeOK, Typed, IndexInLoop
<1>3. MyPlan(p).stream \in Seq(Item)
      /\ \A i \in DOMAIN MyPlan(p).stream :
           MyPlan(p).stream[i].kind = "record" => MyPlan(p).stream[i].target \in TargetsOf(MyPlan(p))
  BY <1>1, PlanFacts
<1>4. pos[p] \in DOMAIN MyPlan(p).stream /\ pos[p] \in 1..Len(MyPlan(p).stream)
  BY <1>2, <1>3
<1>5. QED
  BY <1>3, <1>4 DEF CurrentItem

LEMMA TargetsType ==
  ASSUME TInv, NEW p \in Importers,
         pc[p] \notin {"open", "preflight", "failed", "crashed"} \/ tx[p] # "none"
  PROVE  TargetsOf(MyPlan(p)) \subseteq Targets
PROOF
<1>1. MyPlan(p).targets \in Seq(Targets)
  BY PlanUsable, PlanFacts
<1>2. QED
  BY <1>1 DEF TargetsOf

LEMMA StreamType ==
  ASSUME TInv, NEW p \in Importers, Deliver(p) \/ EndOfFile(p) \/ WalkFails(p) \/ FlushLast(p)
  PROVE  TypeOK'
PROOF
<1>1. CASE Fail(p)
  BY <1>1, FailType DEF TInv
<1>2. CASE Deliver(p)
  <2>1. PICK k \in Keys, v \in Values :
          Yield(p, CurrentItem(p).target, [key |-> k, value |-> v],
                k = CurrentItem(p).key /\ v = CurrentItem(p).value)
    BY <1>2 DEF Deliver
  <2>2. CurrentItem(p).target \in Targets
    BY <1>2, ItemFacts, TargetsType DEF Deliver
  <2>3. QED
    BY <2>1, <2>2, YieldType
<1>3. CASE EndOfFile(p) /\ ~Fail(p)
  <2>1. Control'
    <3>1. Loop(p, Len(MyPlan(p).stream), "flush") /\ "flush" \in Stages
      BY <1>3 DEF EndOfFile, Stages, Running
    <3>2. QED
      BY <3>1, TypedControl, LoopType DEF TInv
  <2>2. UNCHANGED <<disk, touched, transactionalDDL, tables, config, meta, rows, lock, held, todo, batch, dirty, counted, tx, seen, snap, created, own>>
    BY <1>3 DEF EndOfFile, files, database, memory, txState
  <2>3. QED
    BY <2>1, <2>2 DEF TInv, TypeOK, Control
<1>4. CASE FlushLast(p) /\ ~Fail(p)
  <2>1. Control'
    <3>1. Goto(p, "verify") /\ "verify" \in Stages
      BY <1>4 DEF FlushLast, Stages, Running
    <3>2. QED
      BY <3>1, TypedControl, GotoType DEF TInv
  <2>2. batch[p] \in Batch /\ batch \in [Importers -> Batch] /\ own \in [Importers -> SUBSET Row]
    BY DEF TInv, TypeOK
  <2>3. BatchRows(batch[p]) \subseteq Row
    BY <2>2, BatchRowsType DEF TInv, Typed, BatchHasTarget
  <2>4. own' \in [Importers -> SUBSET Row]
    BY <1>4, <2>2, <2>3 DEF FlushLast
  <2>5. batch' \in [Importers -> Batch]
    <3>1. [batch[p] EXCEPT !.records = <<>>] \in Batch
      BY <2>2, EmptiedBatch
    <3>2. batch' = [batch EXCEPT ![p] = [batch[p] EXCEPT !.records = <<>>]]
      BY <1>4, <2>2 DEF FlushLast
    <3>3. QED
      BY <2>2, <3>1, <3>2
  <2>6. UNCHANGED <<disk, touched, transactionalDDL, tables, config, meta, rows, lock, held, todo, dirty, counted, tx, seen, snap, created>>
    BY <1>4 DEF FlushLast, files, database
  <2>7. QED
    BY <2>1, <2>4, <2>5, <2>6 DEF TInv, TypeOK, Control
<1>5. QED
  BY <1>1, <1>2, <1>3, <1>4 DEF WalkFails

LEMMA CommitType ==
  ASSUME TInv, NEW p \in Importers,
         Verify(p) \/ SendCommit(p) \/ CommitReturned(p) \/ WriteReport(p)
  PROVE  TypeOK'
PROOF
<1>1. CASE Fail(p)
  BY <1>1, FailType DEF TInv
<1>2. {"revalidate", "committing", "report", "failed", "succeeded"} \subseteq Stages
  BY DEF Stages, Running, Ended
<1>3. CASE Verify(p) /\ ~Fail(p)
  <2>1. pc[p] = "verify" /\ Goto(p, "revalidate") /\ todo' = [todo EXCEPT ![p] = FilesOf(p)]
        /\ \A t \in TargetsOf(MyPlan(p)) : Cardinality(Found(p, t)) = MyPlan(p).counts[t]
    BY <1>3 DEF Verify
  <2>2. Control'
    BY <1>2, <2>1, TypedControl, GotoType DEF TInv
  <2>3. todo' \in [Importers -> SUBSET Files]
    BY <2>1 DEF TInv, TypeOK, Files
  <2>4. counted' \in [Importers -> [Targets -> Nat]]
    <3> DEFINE found == [t \in Targets |-> IF t \in TargetsOf(MyPlan(p)) THEN Cardinality(Found(p, t)) ELSE 0]
    <3>1. MyPlan(p).counts \in [Targets -> Nat]
      BY <2>1, PlanUsable, PlanFacts
    <3>2. found \in [Targets -> Nat]
      BY <2>1, <3>1
    <3>3. counted \in [Importers -> [Targets -> Nat]]
      BY DEF TInv, TypeOK
    <3>4. counted' = [counted EXCEPT ![p] = found]
      BY <1>3 DEF Verify
    <3> HIDE DEF found
    <3>5. QED
      BY <3>2, <3>3, <3>4
  <2>5. UNCHANGED <<disk, touched, transactionalDDL, tables, config, meta, rows, lock, held, batch, dirty, tx, seen, snap, created, own>>
    BY <1>3 DEF Verify, files, database, txState
  <2>6. QED
    BY <2>2, <2>3, <2>4, <2>5 DEF TInv, TypeOK, Control
<1>4. CASE SendCommit(p)
  <2>1. Control'
    BY <1>2, <1>4, TypedControl, GotoType DEF SendCommit, TInv
  <2>2. tx' \in [Importers -> TxStates]
    BY <1>4 DEF SendCommit, TInv, TypeOK, TxStates
  <2>3. UNCHANGED <<disk, touched, transactionalDDL, tables, config, meta, rows, lock, held, todo, batch, dirty, counted, seen, snap, created, own>>
    BY <1>4 DEF SendCommit, files, database, memory, txState
  <2>4. QED
    BY <2>1, <2>2, <2>3 DEF TInv, TypeOK, Control
<1>5. CASE CommitReturned(p) \/ WriteReport(p)
  <2>1. Control'
    BY <1>2, <1>5, TypedControl, GotoType DEF CommitReturned, WriteReport, TInv
  <2>2. UNCHANGED <<disk, touched, transactionalDDL, tables, config, meta, rows, lock, held, todo, batch, dirty, counted, tx, seen, snap, created, own>>
    BY <1>5 DEF CommitReturned, WriteReport, files, database, memory, txState
  <2>3. QED
    BY <2>1, <2>2 DEF TInv, TypeOK, Control
<1>6. QED
  BY <1>1, <1>3, <1>4, <1>5

LEMMA ServerType ==
  ASSUME TInv, NEW p \in Importers, Server(p)
  PROVE  TypeOK'
PROOF
<1>1. CASE ServerCommits(p)
  <2>1. pc[p] = "committing" \/ tx[p] = "deciding"
    BY <1>1 DEF ServerCommits
  <2>2. /\ snap[p] \in Snapshot /\ own[p] \subseteq Row /\ created[p] \subseteq Targets \union {System}
        /\ tx \in [Importers -> TxStates] /\ rows \subseteq Row /\ tables \subseteq Targets \union {System}
        /\ meta \in [Targets -> EntryOrNone(Policies)] /\ lock \in Importers \union {NoOne}
    BY DEF TInv, TypeOK
  <2>3. /\ tx' = [tx EXCEPT ![p] = "committed"]
        /\ rows' = rows \union own[p]
        /\ config' = snap[p].config
        /\ meta' = [t \in Targets |-> IF t \in TargetsOf(MyPlan(p)) THEN snap[p].meta[t] ELSE meta[t]]
        /\ tables' = tables \union created[p]
        /\ lock' = IF lock = p THEN NoOne ELSE lock
    BY <1>1 DEF ServerCommits, Release
  <2>4. tx' \in [Importers -> TxStates]
    BY <2>2, <2>3 DEF TxStates
  <2>5. config' \in EntryOrNone(Envelopes)
    BY <2>2, <2>3 DEF Snapshot
  <2>6. meta' \in [Targets -> EntryOrNone(Policies)]
    <3>1. snap[p].meta \in [Targets -> EntryOrNone(Policies)]
      BY <2>2 DEF Snapshot
    <3>2. QED
      BY <2>2, <2>3, <3>1
  <2>7. rows' \subseteq Row /\ tables' \subseteq Targets \union {System} /\ lock' \in Importers \union {NoOne}
    BY <2>2, <2>3
  <2>8. UNCHANGED <<disk, touched, transactionalDDL, pc, pos, held, todo, batch, dirty, counted, seen, snap, created, own>>
    BY <1>1 DEF ServerCommits, files, memory, txState
  <2>9. QED
    BY <2>4, <2>5, <2>6, <2>7, <2>8 DEF TInv, TypeOK
<1>2. CASE ServerRejects(p) \/ ServerAborts(p)
  <2>1. Discard(p) /\ UNCHANGED <<disk, touched, transactionalDDL, tables, config, meta, rows, pc, pos, held, todo, batch, dirty, counted>>
    BY <1>2 DEF ServerRejects, ServerAborts, files, database, memory
  <2>2. QED
    BY <2>1, DiscardType DEF TInv, TypeOK
<1>3. QED
  BY <1>1, <1>2 DEF Server

LEMMA FaultType ==
  ASSUME TInv, NEW p \in Importers, Fault(p)
  PROVE  TypeOK'
PROOF
<1>1. CASE ReportError(p)
  BY <1>1, FailType DEF ReportError, TInv
<1>2. CASE LoseConnection(p) \/ ReportLost(p) \/ Crash(p)
  <2>1. PICK how \in Ended : Stop(p, how)
    BY <1>2 DEF LoseConnection, ReportLost, Crash, Ended
  <2>2. UNCHANGED <<lock, tx, seen, snap, created, own>>
    BY <1>2 DEF LoseConnection, ReportLost, Crash, txState
  <2>3. TypeOK
    BY DEF TInv
  <2>4. /\ lock' \in Importers \union {NoOne} /\ tx' \in [Importers -> TxStates]
        /\ seen' \in [Importers -> SUBSET Importers] /\ snap' \in [Importers -> Snapshot]
        /\ created' \in [Importers -> SUBSET (Targets \union {System})]
        /\ own' \in [Importers -> SUBSET Row]
    BY <2>2, <2>3 DEF TypeOK
  <2>5. QED
    BY <2>1, <2>3, <2>4, StopType
<1>3. QED
  BY <1>1, <1>2 DEF Fault

LEMMA ChangeType ==
  ASSUME TInv, NEW f \in Changeable, ChangeInput(f)
  PROVE  TypeOK'
PROOF
<1>1. f \in Files
  BY FaultAssumption
<1>2. disk' \in [Files -> Versions] /\ touched' \subseteq Files
  BY <1>1 DEF ChangeInput, TInv, TypeOK
<1>3. UNCHANGED <<transactionalDDL, tables, config, meta, rows, lock, pc, pos, held, todo, batch, dirty, counted, tx, seen, snap, created, own>>
  BY DEF ChangeInput, database, memory, txState
<1>4. QED
  BY <1>2, <1>3 DEF TInv, TypeOK

LEMMA NextType ==
  ASSUME TInv, [Next]_vars
  PROVE  TypeOK'
PROOF
<1>1. CASE UNCHANGED vars
  BY <1>1 DEF vars, TInv, TypeOK
<1>2. ASSUME NEW p \in Importers, Step(p)
      PROVE  TypeOK'
  <2>1. {"connect", "commit"} \subseteq Running
    BY DEF Running
  <2>2. CASE RevalidateBefore(p) \/ RevalidateAfter(p)
    BY <2>1, <2>2, CompareType DEF RevalidateBefore, RevalidateAfter
  <2>3. QED
    BY <1>2, <2>2, ReadType, PreflightType, ConnectType, EnsureType, StreamType, CommitType DEF Step
<1>3. QED
  BY <1>1, <1>2, ServerType, FaultType, ChangeType DEF Next, Terminated

-----------------------------------------------------------------------------
(* A step of one run leaves what belongs to another run alone.             *)
Untouched(q) ==
  /\ pc'[q] = pc[q] /\ pos'[q] = pos[q]
  /\ held'[q] = held[q] /\ batch'[q] = batch[q] /\ dirty'[q] = dirty[q]
  /\ tx'[q] = tx[q] /\ seen'[q] = seen[q] /\ snap'[q] = snap[q]
  /\ created'[q] = created[q] /\ own'[q] = own[q]

Domains ==
  /\ DOMAIN pc = Importers /\ DOMAIN pos = Importers
  /\ DOMAIN held = Importers /\ DOMAIN batch = Importers /\ DOMAIN dirty = Importers
  /\ DOMAIN tx = Importers /\ DOMAIN seen = Importers /\ DOMAIN snap = Importers
  /\ DOMAIN created = Importers /\ DOMAIN own = Importers

LEMMA TypedDomains ==
  ASSUME TypeOK
  PROVE  Domains
BY DEF TypeOK, Domains

LEMMA FailLocal ==
  ASSUME Domains, NEW p \in Importers, NEW q \in Importers \ {p}, Fail(p)
  PROVE  Untouched(q)
PROOF
<1>1. UNCHANGED held /\ Goto(p, "failed")
      /\ batch' = [batch EXCEPT ![p] = NoBatch] /\ dirty' = [dirty EXCEPT ![p] = FALSE]
  BY DEF Fail, Stop
<1>2. Discard(p) \/ UNCHANGED <<tx, seen, snap, created, own>>
  BY DEF Fail, txState
<1>3. QED
  BY <1>1, <1>2 DEF Untouched, Domains, Discard, Goto

LEMMA StepLocal ==
  ASSUME Domains, NEW p \in Importers, NEW q \in Importers \ {p}, Step(p)
  PROVE  Untouched(q)
PROOF
<1>1. CASE Fail(p)
  BY <1>1, FailLocal
<1>2. CASE ReadInput(p)
  BY <1>2 DEF ReadInput, Loop, txState, Untouched, Domains
<1>3. CASE Preflight(p) /\ ~Fail(p)
  BY <1>3 DEF Preflight, Goto, txState, Untouched, Domains
<1>4. CASE (RevalidateBefore(p) \/ RevalidateAfter(p)) /\ ~Fail(p)
  BY <1>4 DEF RevalidateBefore, RevalidateAfter, Compare, Goto, txState, Untouched, Domains
<1>5. CASE CheckDatabase(p) /\ ~Fail(p)
  BY <1>5 DEF CheckDatabase, Goto, memory, txState, Untouched, Domains
<1>6. CASE Begin(p)
  BY <1>6 DEF Begin, CreateTable, Goto, memory, Untouched, Domains
<1>7. CASE EnsureConfig(p) /\ ~Fail(p)
  BY <1>7 DEF EnsureConfig, Goto, memory, Untouched, Domains
<1>8. CASE CreateNamespace(p)
  BY <1>8 DEF CreateNamespace, CreateTable, memory, Untouched, Domains
<1>9. CASE EnsureNamespace(p) /\ ~Fail(p)
  BY <1>9 DEF EnsureNamespace, Goto, memory, Untouched, Domains
<1>10. CASE Deliver(p) /\ ~Fail(p)
  BY <1>10 DEF Deliver, Yield, Untouched, Domains
<1>11. CASE EndOfFile(p) /\ ~Fail(p)
  BY <1>11 DEF EndOfFile, Loop, memory, txState, Untouched, Domains
<1>12. CASE FlushLast(p) /\ ~Fail(p)
  BY <1>12 DEF FlushLast, Goto, Untouched, Domains
<1>13. CASE Verify(p) /\ ~Fail(p)
  BY <1>13 DEF Verify, Goto, txState, Untouched, Domains
<1>14. CASE SendCommit(p) \/ CommitReturned(p) \/ WriteReport(p)
  BY <1>14 DEF SendCommit, CommitReturned, WriteReport, Goto, memory, txState, Untouched, Domains
<1>15. QED
  BY <1>1, <1>2, <1>3, <1>4, <1>5, <1>6, <1>7, <1>8, <1>9, <1>10, <1>11, <1>12, <1>13, <1>14
  DEF Step, WalkFails

LEMMA ServerLocal ==
  ASSUME Domains, NEW p \in Importers, NEW q \in Importers \ {p}, Server(p)
  PROVE  Untouched(q)
BY DEF Server, ServerCommits, ServerRejects, ServerAborts, Discard, memory, txState, Untouched, Domains

LEMMA FaultLocal ==
  ASSUME Domains, NEW p \in Importers, NEW q \in Importers \ {p}, Fault(p)
  PROVE  Untouched(q)
PROOF
<1>1. CASE Fail(p)
  BY <1>1, FailLocal
<1>2. CASE LoseConnection(p) \/ ReportLost(p) \/ Crash(p)
  BY <1>2 DEF LoseConnection, ReportLost, Crash, Stop, Goto, txState, Untouched, Domains
<1>3. QED
  BY <1>1, <1>2 DEF Fault, ReportError

(* Which kind of database it is never changes.                             *)
LEMMA SameDatabaseKind ==
  ASSUME Next
  PROVE  transactionalDDL' = transactionalDDL
PROOF
<1>1. ASSUME NEW p \in Importers, Fail(p)
      PROVE  transactionalDDL' = transactionalDDL
  BY <1>1 DEF Fail, Stop, database
<1>2. ASSUME NEW p \in Importers, Step(p)
      PROVE  transactionalDDL' = transactionalDDL
  BY <1>1, <1>2 DEF Step, ReadInput, Preflight, RevalidateBefore, RevalidateAfter, Compare,
     CheckDatabase, Begin, EnsureConfig, CreateNamespace, EnsureNamespace, CreateTable, Deliver,
     Yield, EndOfFile, WalkFails, FlushLast, Verify, SendCommit, CommitReturned, WriteReport, database
<1>3. ASSUME NEW p \in Importers, Server(p) \/ Fault(p)
      PROVE  transactionalDDL' = transactionalDDL
  BY <1>1, <1>3 DEF Server, ServerCommits, ServerRejects, ServerAborts, Fault, ReportError,
     LoseConnection, ReportLost, Crash, Stop, database
<1>4. QED
  BY <1>2, <1>3 DEF Next, ChangeInput, Terminated, vars, database

-----------------------------------------------------------------------------
LEMMA TypedOther ==
  ASSUME NEW q \in Importers, Typed(q), Untouched(q), transactionalDDL' = transactionalDDL
  PROVE  Typed(q)'
PROOF
<1>1. MyPlan(q)' = MyPlan(q)
  BY DEF Untouched, MyPlan
<1>2. InputsRead(q)' /\ PlanAccepted(q)' /\ IndexInLoop(q)'
  BY <1>1 DEF Typed, Untouched, InputsRead, PlanAccepted, IndexInLoop
<1>3. Transaction(q)' /\ BatchHasTarget(q)'
  BY DEF Typed, Untouched, Transaction, BatchHasTarget
<1>4. QED
  BY <1>2, <1>3 DEF Typed

(* A step that leaves the loops alone and moves on with the same plan.     *)
LEMMA TypedMoves ==
  ASSUME TInv, NEW p \in Importers, held'[p] = held[p], pc'[p] # "open",
         pc'[p] \notin {"failed", "crashed"} \/ tx'[p] # "none" =>
           (pc[p] # "open" /\ pc[p] \notin {"failed", "crashed"}) \/ tx[p] # "none",
         pc'[p] \notin {"preflight", "failed", "crashed"} \/ tx'[p] # "none" => MyPlan(p) # Rejected
  PROVE  InputsRead(p)' /\ PlanAccepted(p)'
PROOF
<1>1. MyPlan(p)' = MyPlan(p)
  BY DEF MyPlan
<1>2. QED
  BY <1>1 DEF TInv, Typed, InputsRead, PlanAccepted

LEMMA TypedFail ==
  ASSUME TInv, NEW p \in Importers, Fail(p)
  PROVE  Typed(p)'
PROOF
<1>1. Domains
  BY TypedDomains DEF TInv
<1>2. Typed(p)
  BY DEF TInv
<1>3. pc'[p] = "failed" /\ held' = held /\ batch'[p] = NoBatch /\ transactionalDDL' = transactionalDDL
  BY <1>1 DEF Fail, Stop, Goto, Domains, database
<1>4. tx'[p] # "none" => tx[p] # "none"
  BY <1>1 DEF Fail, Discard, Domains
<1>5. InputsRead(p)' /\ PlanAccepted(p)'
  BY <1>3, <1>4, TypedMoves, PlanUsable
<1>6. IndexInLoop(p)' /\ Transaction(p)' /\ BatchHasTarget(p)'
  BY <1>2, <1>3, <1>4 DEF IndexInLoop, Transaction, BatchHasTarget, NoBatch, BeforeTx, InTx, Writing
<1>7. QED
  BY <1>5, <1>6 DEF Typed

LEMMA TypedRead ==
  ASSUME TInv, NEW p \in Importers, ReadInput(p)
  PROVE  Typed(p)'
PROOF
<1> DEFINE n == Len(InputsOf(p))
           f == InputsOf(p)[pos[p]]
<1>1. Domains /\ Typed(p) /\ pc[p] = "open"
  BY TypedDomains DEF TInv, ReadInput
<1>2. /\ InputsOf(p) \in Seq(FilesOf(p)) /\ n \in Nat
      /\ pos[p] \in Nat \ {0} /\ pos[p] <= n
      /\ held[p] \in [FilesOf(p) -> Versions \union {NoVersion}]
  BY <1>1, InputAssumption DEF TInv, TypeOK, Typed, InputsRead
<1>3. f \in FilesOf(p) /\ disk[f] \in Versions
  <2>1. f \in FilesOf(p)
    BY <1>2
  <2>2. QED
    BY <2>1 DEF Files, TInv, TypeOK
<1>4. held'[p] = [held[p] EXCEPT ![f] = disk[f]]
  BY <1>1 DEF ReadInput, Domains
<1>5. \A i \in 1..pos[p] : held'[p][InputsOf(p)[i]] \in Versions
  <2>1. SUFFICES ASSUME NEW i \in 1..pos[p]
                 PROVE  held'[p][InputsOf(p)[i]] \in Versions
    OBVIOUS
  <2>2. InputsOf(p)[i] \in FilesOf(p)
    BY <1>2
  <2>3. CASE i = pos[p]
    BY <2>3, <1>2, <1>3, <1>4
  <2>4. CASE i # pos[p]
    <3>1. i \in 1..(pos[p] - 1)
      BY <1>2, <2>4
    <3>2. held[p][InputsOf(p)[i]] \in Versions
      BY <1>1, <3>1 DEF Typed, InputsRead
    <3>3. QED
      BY <3>2, <2>2, <1>2, <1>3, <1>4
  <2>5. QED
    BY <2>3, <2>4
<1>6. tx'[p] = "none" /\ batch'[p] = batch[p]
  BY <1>1 DEF ReadInput, Typed, Transaction, BeforeTx
<1>7. CASE pos[p] < n
  <2>1. pos'[p] = pos[p] + 1 /\ pc'[p] = "open"
    BY <1>1, <1>7 DEF ReadInput, Loop, Domains
  <2>2. InputsRead(p)'
    BY <1>2, <1>5, <1>6, <1>7, <2>1 DEF InputsRead
  <2>3. QED
    BY <1>1, <1>6, <2>1, <2>2 DEF Typed, PlanAccepted, IndexInLoop, Transaction, BatchHasTarget, InTx, Writing
<1>8. CASE ~(pos[p] < n)
  <2>1. pos[p] = n /\ pc'[p] = "preflight"
    BY <1>1, <1>2, <1>8 DEF ReadInput, Loop, Domains
  <2>2. \A g \in FilesOf(p) : held'[p][g] \in Versions
    BY <1>2, <1>5, <2>1 DEF FilesOf
  <2>3. held'[p] \in [FilesOf(p) -> Versions]
    BY <1>2, <1>4, <2>2
  <2>4. InputsRead(p)'
    BY <2>1, <2>3 DEF InputsRead
  <2>5. QED
    BY <1>1, <1>6, <2>1, <2>4 DEF Typed, PlanAccepted, IndexInLoop, Transaction, BatchHasTarget, InTx, Writing
<1>9. QED
  BY <1>7, <1>8

(* The steps that only move a run on, on its side or on the server's.      *)
LEMMA TypedMoveOn ==
  ASSUME TInv, NEW p \in Importers, ~Fail(p),
         \/ Preflight(p) \/ RevalidateBefore(p) \/ RevalidateAfter(p) \/ CheckDatabase(p)
         \/ Begin(p) \/ FlushLast(p) \/ Verify(p) \/ SendCommit(p)
         \/ CommitReturned(p) \/ WriteReport(p)
  PROVE  Typed(p)'
PROOF
<1> DEFINE moved(from, to, before, after) ==
             pc[p] = from /\ pc'[p] = to /\ tx[p] = before /\ tx'[p] = after
<1>1. Domains /\ Typed(p)
  BY TypedDomains DEF TInv
<1>2. held'[p] = held[p] /\ transactionalDDL' = transactionalDDL
  BY DEF Preflight, RevalidateBefore, RevalidateAfter, Compare, CheckDatabase, Begin, CreateTable,
     FlushLast, Verify, SendCommit, CommitReturned, WriteReport, database, memory
<1>3. BatchHasTarget(p)'
  <2>1. batch'[p] = batch[p] \/ batch'[p].records = <<>>
    <3>1. CASE FlushLast(p)
      <4>1. batch' = [batch EXCEPT ![p].records = <<>>] /\ batch[p] \in Batch
        BY <3>1 DEF FlushLast, TInv, TypeOK
      <4>2. QED
        BY <1>1, <4>1 DEF Domains, Batch
    <3>2. CASE ~FlushLast(p)
      BY <3>2 DEF Preflight, RevalidateBefore, RevalidateAfter, Compare, CheckDatabase, Begin,
         CreateTable, Verify, SendCommit, CommitReturned, WriteReport, memory
    <3>3. QED
      BY <3>1, <3>2
  <2>2. QED
    BY <1>1, <2>1 DEF Typed, BatchHasTarget
<1>4. CASE Preflight(p)
  <2>1. MyPlan(p) # Rejected /\ pc[p] = "preflight" /\ pc'[p] = "recheck" /\ tx'[p] = tx[p]
    BY <1>1, <1>4 DEF Preflight, Goto, Domains
  <2>2. InputsRead(p)' /\ PlanAccepted(p)'
    BY <1>2, <2>1, TypedMoves
  <2>3. IndexInLoop(p)' /\ Transaction(p)'
    BY <1>1, <1>2, <2>1 DEF Typed, Transaction, IndexInLoop, BeforeTx, InTx, Writing
  <2>4. QED
    BY <1>3, <2>2, <2>3 DEF Typed
<1>5. CASE ~Preflight(p)
  <2>1. \/ moved("recheck", "connect", "none", "none") \/ moved("recheck", "recheck", "none", "none")
        \/ moved("connect", "begin", "none", "none") /\ transactionalDDL
        \/ moved("begin", "config", "none", "active")
        \/ moved("flush", "verify", "active", "active") \/ moved("verify", "revalidate", "active", "active")
        \/ moved("revalidate", "revalidate", "active", "active") \/ moved("revalidate", "commit", "active", "active")
        \/ moved("commit", "committing", "active", "deciding")
        \/ moved("committing", "report", "committed", "committed")
        \/ moved("committing", "failed", "aborted", "aborted")
        \/ moved("report", "succeeded", "committed", "committed")
    BY <1>1, <1>5 DEF RevalidateBefore, RevalidateAfter, Compare, CheckDatabase, Begin,
       FlushLast, Verify, SendCommit, CommitReturned, WriteReport, Goto, Domains, Typed, Transaction,
       BeforeTx, InTx, Writing
  <2>2. MyPlan(p) # Rejected
    BY <2>1, PlanUsable
  <2>3. InputsRead(p)' /\ PlanAccepted(p)'
    BY <1>2, <2>1, <2>2, TypedMoves
  <2>4. IndexInLoop(p)' /\ Transaction(p)'
    BY <1>1, <1>2, <2>1 DEF Typed, Transaction, IndexInLoop, BeforeTx, InTx, Writing
  <2>5. QED
    BY <1>3, <2>3, <2>4 DEF Typed
<1>6. QED
  BY <1>4, <1>5

(* The steps that enter or go round one of the loops.                      *)
LEMMA TypedLoops ==
  ASSUME TInv, NEW p \in Importers, ~Fail(p),
         EnsureConfig(p) \/ CreateNamespace(p) \/ EnsureNamespace(p) \/ Deliver(p) \/ EndOfFile(p)
  PROVE  Typed(p)'
PROOF
<1>1. Domains /\ Typed(p) /\ pos[p] \in Nat \ {0}
  BY TypedDomains DEF TInv, TypeOK
<1>2. pc[p] \in {"config", "create", "ensure", "stream"}
  BY DEF EnsureConfig, CreateNamespace, EnsureNamespace, Deliver, EndOfFile
<1>3. tx[p] = "active" /\ transactionalDDL
  BY <1>1, <1>2 DEF Typed, Transaction, InTx, Writing
<1>4. held[p] \in [FilesOf(p) -> Versions] /\ MyPlan(p) # Rejected
  BY <1>2, PlanUsable
<1>5. /\ MyPlan(p).targets \in Seq(Targets) /\ MyPlan(p).targets # <<>>
      /\ MyPlan(p).stream \in Seq(Item) /\ MyPlan(p).stream # <<>>
      /\ MyPlan(p).stream[Len(MyPlan(p).stream)].kind = "end"
  BY <1>4, PlanFacts
<1>6. 1 <= Len(MyPlan(p).targets) /\ 1 <= Len(MyPlan(p).stream)
  BY <1>5
<1>7. held'[p] = held[p] /\ tx'[p] = tx[p] /\ transactionalDDL' = transactionalDDL
  BY DEF EnsureConfig, CreateNamespace, CreateTable, EnsureNamespace, Deliver, Yield, EndOfFile,
     database, memory, txState
<1>8. MyPlan(p)' = MyPlan(p)
  BY <1>7 DEF MyPlan
<1>9. pc'[p] \in {"create", "ensure", "stream", "flush"}
  BY <1>1, <1>2 DEF EnsureConfig, CreateNamespace, EnsureNamespace, Deliver, Yield, EndOfFile, Loop, Goto, Domains
<1>10. InputsRead(p)' /\ PlanAccepted(p)'
  BY <1>2, <1>4, <1>7, <1>9, TypedMoves
<1>11. Transaction(p)'
  BY <1>3, <1>7, <1>9 DEF Transaction, BeforeTx, InTx, Writing
<1>12. IndexInLoop(p)'
  <2>1. CASE EnsureConfig(p)
    BY <1>1, <1>6, <1>8, <2>1 DEF EnsureConfig, Goto, Domains, IndexInLoop
  <2>2. CASE CreateNamespace(p)
    BY <1>1, <1>8, <2>2 DEF CreateNamespace, Domains, Typed, IndexInLoop
  <2>3. CASE EnsureNamespace(p)
    <3>1. CASE pos[p] < Len(MyPlan(p).targets)
      <4>1. pos'[p] = pos[p] + 1 /\ pc'[p] = "create"
        BY <1>1, <2>3, <3>1 DEF EnsureNamespace, Domains
      <4>2. pos[p] + 1 <= Len(MyPlan(p).targets)
        BY <1>1, <1>5, <3>1
      <4>3. QED
        BY <1>8, <4>1, <4>2 DEF IndexInLoop
    <3>2. CASE ~(pos[p] < Len(MyPlan(p).targets))
      BY <1>1, <1>6, <1>8, <2>3, <3>2 DEF EnsureNamespace, Goto, Domains, IndexInLoop
    <3>3. QED
      BY <3>1, <3>2
  <2>4. CASE Deliver(p)
    <3>1. pos[p] \in 1..Len(MyPlan(p).stream) /\ MyPlan(p).stream[pos[p]].kind = "record"
      BY <2>4, ItemFacts DEF Deliver
    <3>2. pos[p] # Len(MyPlan(p).stream)
      BY <1>5, <3>1
    <3>3. pos'[p] = pos[p] + 1 /\ pc'[p] = "stream"
      BY <1>1, <2>4 DEF Deliver, Yield, Domains
    <3>4. pos[p] + 1 <= Len(MyPlan(p).stream)
      BY <1>5, <3>1, <3>2
    <3>5. QED
      BY <1>8, <3>3, <3>4 DEF IndexInLoop
  <2>5. CASE EndOfFile(p)
    <3>1. CASE pos[p] < Len(MyPlan(p).stream)
      <4>1. pos'[p] = pos[p] + 1 /\ pc'[p] = "stream"
        BY <1>1, <2>5, <3>1 DEF EndOfFile, Loop, Domains
      <4>2. pos[p] + 1 <= Len(MyPlan(p).stream)
        BY <1>1, <1>5, <3>1
      <4>3. QED
        BY <1>8, <4>1, <4>2 DEF IndexInLoop
    <3>2. CASE ~(pos[p] < Len(MyPlan(p).stream))
      BY <1>1, <2>5, <3>2 DEF EndOfFile, Loop, Domains, IndexInLoop
    <3>3. QED
      BY <3>1, <3>2
  <2>6. QED
    BY <2>1, <2>2, <2>3, <2>4, <2>5
<1>13. BatchHasTarget(p)'
  <2>1. CASE Deliver(p)
    <3>1. CurrentItem(p).target \in Targets
      BY <2>1, ItemFacts, TargetsType DEF Deliver
    <3>2. CurrentItem(p).target # NoOne
      BY <3>1, SentinelAssumption
    <3>3. batch'[p].target = CurrentItem(p).target
      <4>1. PICK r, agreed : Yield(p, CurrentItem(p).target, r, agreed)
        BY <2>1 DEF Deliver
      <4>2. PICK records : batch' = [batch EXCEPT ![p] = [target |-> CurrentItem(p).target, records |-> records]]
        BY <1>1, <4>1 DEF Yield
      <4>3. DOMAIN batch = Importers
        BY <1>1 DEF Domains
      <4>4. QED
        BY <4>2, <4>3
    <3>4. QED
      BY <3>2, <3>3 DEF BatchHasTarget
  <2>2. CASE ~Deliver(p)
    <3>1. batch'[p] = batch[p]
      BY <2>2 DEF EnsureConfig, CreateNamespace, CreateTable, EnsureNamespace, EndOfFile, memory
    <3>2. QED
      BY <1>1, <3>1 DEF Typed, BatchHasTarget
  <2>3. QED
    BY <2>1, <2>2
<1>14. QED
  BY <1>10, <1>11, <1>12, <1>13 DEF Typed

(* What the server does, and faults.                                       *)
LEMMA TypedServer ==
  ASSUME TInv, NEW p \in Importers, Server(p) \/ Fault(p)
  PROVE  Typed(p)'
PROOF
<1>1. CASE Fail(p)
  BY <1>1, TypedFail
<1>2. Domains /\ Typed(p)
  BY TypedDomains DEF TInv
<1>3. CASE Server(p)
  <2>1. /\ pc' = pc /\ pos' = pos /\ held' = held /\ batch' = batch
        /\ transactionalDDL' = transactionalDDL /\ tx'[p] # "none"
        /\ \/ tx[p] = "deciding" /\ tx'[p] \in {"committed", "aborted"}
           \/ tx[p] = "active" /\ tx'[p] = "aborted" /\ pc[p] \in Ended
    BY <1>2, <1>3 DEF Server, ServerCommits, ServerRejects, ServerAborts, Discard, database, memory, Domains
  <2>2. tx[p] # "none" /\ MyPlan(p)' = MyPlan(p)
    BY <2>1 DEF MyPlan
  <2>3. InputsRead(p)' /\ PlanAccepted(p)' /\ IndexInLoop(p)' /\ BatchHasTarget(p)'
    BY <1>2, <2>1, <2>2 DEF Typed, InputsRead, PlanAccepted, IndexInLoop, BatchHasTarget
  <2>4. Transaction(p)'
    BY <1>2, <2>1 DEF Typed, Transaction, BeforeTx, InTx, Writing, Ended
  <2>5. QED
    BY <2>3, <2>4 DEF Typed
<1>4. CASE LoseConnection(p) \/ ReportLost(p) \/ Crash(p)
  <2>1. /\ pc'[p] \in {"failed", "crashed"} /\ held' = held /\ tx' = tx /\ batch'[p] = NoBatch
        /\ transactionalDDL' = transactionalDDL
    BY <1>2, <1>4 DEF LoseConnection, ReportLost, Crash, Stop, Goto, Domains, database
  <2>2. InputsRead(p)' /\ PlanAccepted(p)'
    BY <2>1, TypedMoves, PlanUsable
  <2>3. IndexInLoop(p)' /\ Transaction(p)' /\ BatchHasTarget(p)'
    BY <2>1 DEF IndexInLoop, Transaction, BatchHasTarget, NoBatch, BeforeTx, InTx, Writing
  <2>4. QED
    BY <2>2, <2>3 DEF Typed
<1>5. QED
  BY <1>1, <1>3, <1>4 DEF Fault, ReportError

LEMMA NextTyped ==
  ASSUME TInv, [Next]_vars
  PROVE  TInv'
PROOF
<1>1. TypeOK' /\ Domains
  BY NextType, TypedDomains DEF TInv
<1>2. SUFFICES ASSUME NEW q \in Importers
               PROVE  Typed(q)'
  BY <1>1 DEF TInv
<1>3. Typed(q)
  BY DEF TInv
<1>4. CASE UNCHANGED vars \/ \E f \in Changeable : ChangeInput(f)
  <2>1. Untouched(q) /\ transactionalDDL' = transactionalDDL
    BY <1>4 DEF vars, ChangeInput, Untouched, database, memory, txState
  <2>2. QED
    BY <1>3, <2>1, TypedOther
<1>5. ASSUME NEW p \in Importers, Step(p) \/ Server(p) \/ Fault(p)
      PROVE  Typed(q)'
  <2>1. CASE p # q
    <3>1. transactionalDDL' = transactionalDDL
      BY <1>5, SameDatabaseKind DEF Next
    <3>2. Untouched(q)
      BY <1>1, <1>5, <2>1, StepLocal, ServerLocal, FaultLocal
    <3>3. QED
      BY <1>3, <3>1, <3>2, TypedOther
  <2>2. CASE p = q
    BY <1>5, <2>2, TypedFail, TypedRead, TypedMoveOn, TypedLoops, TypedServer DEF Step, WalkFails
  <2>3. QED
    BY <2>1, <2>2
<1>6. QED
  BY <1>4, <1>5 DEF Next, Terminated

LEMMA InitTyped ==
  ASSUME Init
  PROVE  TInv
PROOF
<1>1. disk \in [Files -> Versions] /\ touched \subseteq Files
  BY StartAssumption DEF Init
<1>2. /\ transactionalDDL \in BOOLEAN /\ tables \subseteq Targets \union {System}
      /\ config \in EntryOrNone(Envelopes) /\ meta \in [Targets -> EntryOrNone(Policies)]
      /\ rows \subseteq Row
  BY StartAssumption DEF Init, Database
<1>3. /\ lock \in Importers \union {NoOne} /\ Control
      /\ tx \in [Importers -> TxStates] /\ seen \in [Importers -> SUBSET Importers]
      /\ todo \in [Importers -> SUBSET Files] /\ created \in [Importers -> SUBSET (Targets \union {System})]
      /\ own \in [Importers -> SUBSET Row] /\ dirty \in [Importers -> BOOLEAN]
      /\ counted \in [Importers -> [Targets -> Nat]]
  BY DEF Init, Control, Stages, Running, TxStates
<1>4. snap \in [Importers -> Snapshot] /\ batch \in [Importers -> Batch]
  <2>1. NoSnap \in Snapshot /\ NoBatch \in Batch
    BY DEF NoSnap, Snapshot, EntryOrNone, NoBatch, Batch
  <2>2. QED
    BY <2>1 DEF Init
<1>5. DOMAIN held = Importers
      /\ \A p \in Importers : held[p] \in [FilesOf(p) -> Versions \union {NoVersion}]
  BY DEF Init
<1>6. TypeOK
  BY <1>1, <1>2, <1>3, <1>4, <1>5 DEF TypeOK, Control
<1>7. ASSUME NEW p \in Importers
      PROVE  Typed(p)
  <2>1. pc[p] = "open" /\ pos[p] = 1 /\ tx[p] = "none" /\ batch[p] = NoBatch
    BY DEF Init
  <2>2. 1 <= Len(InputsOf(p))
    BY InputAssumption
  <2>3. QED
    BY <2>1, <2>2 DEF Typed, InputsRead, PlanAccepted, IndexInLoop, Transaction, BatchHasTarget,
       NoBatch, BeforeTx, InTx, Writing
<1>8. QED
  BY <1>6, <1>7 DEF TInv

(* The typing invariant holds in every state: the first layer, on which the *)
(* safety invariant of ImportProofs is built.                              *)
THEOREM TypingInvariant == Spec => []TInv
PROOF
<1>1. Init => TInv
  BY InitTyped
<1>2. TInv /\ [Next]_vars => TInv'
  BY NextTyped
<1>3. QED
  BY <1>1, <1>2, PTL DEF Spec

(***************************************************************************)
(* The variables of a run and of the database keep their types.            *)
(***************************************************************************)
THEOREM TypeCorrect == Spec => []TypeOK
PROOF
<1>1. TInv => TypeOK
  BY DEF TInv
<1>2. QED
  BY <1>1, TypingInvariant, PTL
-----------------------------------------------------------------------------
(***************************************************************************)
(* The invariant.                                                          *)
(***************************************************************************)

(* What a run knows besides the types.                                     *)
Safe(p) ==
  /\ HoldsConfig(p)
  /\ SnapshotOfRows(p)
  /\ Prepared(p)
  /\ CreatesOwnTables(p)
  /\ RecordsAccounted(p)

SInv == TInv /\ (\A p \in Importers : Safe(p)) /\ ExactImport

(* A step other than a commit, as seen by everybody.                       *)
DatabaseKept == UNCHANGED database

CommittedKept ==
  \A r \in Importers :
    /\ tx'[r] = "committed" <=> tx[r] = "committed"
    /\ tx[r] = "committed" => own'[r] = own[r] /\ held'[r] = held[r]

(* A transaction that is committed stays so.                               *)
LEMMA FailKeeps ==
  ASSUME TInv, NEW p \in Importers, Fail(p)
  PROVE  /\ DatabaseKept
         /\ tx'[p] = "committed" <=> tx[p] = "committed"
         /\ tx[p] = "committed" => own'[p] = own[p] /\ held'[p] = held[p]
         /\ \A q \in Importers \ {p} : lock' = q <=> lock = q
PROOF
<1>1. Domains
  BY TypedDomains DEF TInv
<1>2. DatabaseKept /\ held' = held
  BY DEF Fail, Stop, DatabaseKept
<1>3. CASE tx[p] = "active"
  <2>1. tx'[p] = "aborted" /\ lock' = IF lock = p THEN NoOne ELSE lock
    BY <1>1, <1>3 DEF Fail, Discard, Release, Domains
  <2>2. QED
    BY <1>2, <1>3, <2>1, SentinelAssumption
<1>4. CASE tx[p] # "active"
  BY <1>2, <1>4 DEF Fail, txState
<1>5. QED
  BY <1>3, <1>4

LEMMA StepKeeps ==
  ASSUME TInv, NEW p \in Importers, Step(p)
  PROVE  /\ DatabaseKept
         /\ tx'[p] = "committed" <=> tx[p] = "committed"
         /\ tx[p] = "committed" => own'[p] = own[p] /\ held'[p] = held[p]
         /\ \A q \in Importers \ {p} : lock' = q <=> lock = q
PROOF
<1>1. CASE Fail(p)
  BY <1>1, FailKeeps
<1>2. Domains /\ Typed(p)
  BY TypedDomains DEF TInv
<1>3. CASE ReadInput(p) \/ Preflight(p) \/ RevalidateBefore(p) \/ CheckDatabase(p)
  <2>1. tx[p] = "none"
    BY <1>2, <1>3 DEF ReadInput, Preflight, RevalidateBefore, CheckDatabase, Typed, Transaction, BeforeTx
  <2>2. CASE ~Fail(p)
    BY <1>3, <2>1, <2>2 DEF ReadInput, Preflight, RevalidateBefore, Compare, CheckDatabase, DatabaseKept
  <2>3. QED
    BY <1>1, <2>2
<1>4. CASE Begin(p)
  BY <1>2, <1>4 DEF Begin, CreateTable, Typed, Transaction, BeforeTx, DatabaseKept, database, Domains
<1>5. CASE EnsureConfig(p) /\ ~Fail(p)
  <2>1. lock = NoOne /\ lock' = p /\ tx' = tx /\ UNCHANGED <<database, memory, own>>
    BY <1>5 DEF EnsureConfig
  <2>2. QED
    BY <2>1, SentinelAssumption DEF DatabaseKept, memory
<1>6. CASE CreateNamespace(p)
  <2>1. transactionalDDL
    BY <1>2, <1>6 DEF CreateNamespace, Typed, Transaction, InTx
  <2>2. QED
    BY <1>6, <2>1 DEF CreateNamespace, CreateTable, DatabaseKept, database, memory
<1>7. CASE EnsureNamespace(p) /\ ~Fail(p)
  BY <1>7 DEF EnsureNamespace, DatabaseKept, memory
<1>8. CASE (Deliver(p) \/ EndOfFile(p) \/ FlushLast(p)) /\ ~Fail(p)
  <2>1. tx[p] = "active"
    BY <1>2, <1>8 DEF Deliver, EndOfFile, FlushLast, Typed, Transaction, InTx, Writing
  <2>2. tx' = tx /\ lock' = lock /\ DatabaseKept
    BY <1>8 DEF Deliver, Yield, EndOfFile, FlushLast, DatabaseKept
  <2>3. QED
    BY <2>1, <2>2
<1>9. CASE (Verify(p) \/ RevalidateAfter(p)) /\ ~Fail(p)
  BY <1>9 DEF Verify, RevalidateAfter, Compare, DatabaseKept, txState
<1>10. CASE SendCommit(p)
  BY <1>2, <1>10 DEF SendCommit, Typed, Transaction, InTx, Writing, DatabaseKept, Domains
<1>11. CASE CommitReturned(p) \/ WriteReport(p)
  BY <1>11 DEF CommitReturned, WriteReport, DatabaseKept, memory, txState
<1>12. QED
  BY <1>1, <1>3, <1>4, <1>5, <1>6, <1>7, <1>8, <1>9, <1>10, <1>11 DEF Step, WalkFails

LEMMA OtherKeeps ==
  ASSUME TInv, NEW p \in Importers, ServerRejects(p) \/ ServerAborts(p) \/ Fault(p)
  PROVE  /\ DatabaseKept
         /\ tx'[p] = "committed" <=> tx[p] = "committed"
         /\ tx[p] = "committed" => own'[p] = own[p] /\ held'[p] = held[p]
         /\ \A q \in Importers \ {p} : lock' = q <=> lock = q
PROOF
<1>1. CASE Fail(p)
  BY <1>1, FailKeeps
<1>2. Domains
  BY TypedDomains DEF TInv
<1>3. CASE ServerRejects(p) \/ ServerAborts(p)
  <2>1. tx[p] \in {"active", "deciding"} /\ tx'[p] = "aborted" /\ DatabaseKept
        /\ lock' = IF lock = p THEN NoOne ELSE lock
    BY <1>2, <1>3 DEF ServerRejects, ServerAborts, Discard, Release, DatabaseKept, Domains
  <2>2. QED
    BY <2>1, SentinelAssumption
<1>4. CASE LoseConnection(p) \/ ReportLost(p) \/ Crash(p)
  BY <1>4 DEF LoseConnection, ReportLost, Crash, Stop, DatabaseKept, txState
<1>5. QED
  BY <1>1, <1>3, <1>4 DEF Fault, ReportError

Quiet(p) == Step(p) \/ ServerRejects(p) \/ ServerAborts(p) \/ Fault(p)

LEMMA QuietKeeps ==
  ASSUME TInv, NEW p \in Importers, Quiet(p)
  PROVE  /\ DatabaseKept /\ CommittedKept
         /\ \A q \in Importers \ {p} : Untouched(q) /\ (lock' = q <=> lock = q)
PROOF
<1>1. Domains
  BY TypedDomains DEF TInv
<1>2. \A q \in Importers \ {p} : Untouched(q)
  BY <1>1, StepLocal, ServerLocal, FaultLocal DEF Quiet, Server
<1>3. /\ DatabaseKept
      /\ tx'[p] = "committed" <=> tx[p] = "committed"
      /\ tx[p] = "committed" => own'[p] = own[p] /\ held'[p] = held[p]
      /\ \A q \in Importers \ {p} : lock' = q <=> lock = q
  BY StepKeeps, OtherKeeps DEF Quiet
<1>4. \A q \in Importers \ {p} : tx'[q] = tx[q] /\ own'[q] = own[q] /\ held'[q] = held[q]
  BY <1>2 DEF Untouched
<1>5. CommittedKept
  BY <1>3, <1>4 DEF CommittedKept
<1>6. QED
  BY <1>2, <1>3, <1>5

(* What others committed is seen as before.                                *)
LEMMA SnapshotKept ==
  ASSUME NEW p \in Importers, SnapshotOfRows(p), DatabaseKept, CommittedKept,
         seen'[p] = seen[p], snap'[p].rows = snap[p].rows,
         tx'[p] \in {"active", "deciding"} => tx[p] \in {"active", "deciding"}
  PROVE  SnapshotOfRows(p)'
PROOF
<1>1. rows' = rows
  BY DEF DatabaseKept, database
<1>2. CommittedSince(p)' = CommittedSince(p)
  BY DEF CommittedSince, CommittedKept
<1>3. {own[q] : q \in CommittedSince(p)}' = {own[q] : q \in CommittedSince(p)}
  BY <1>2 DEF CommittedSince, CommittedKept
<1>4. seen'[p] \subseteq {q \in Importers : tx'[q] = "committed"}
  BY DEF SnapshotOfRows, CommittedKept
<1>5. QED
  BY <1>1, <1>2, <1>3, <1>4 DEF SnapshotOfRows

(* A step that leaves the transaction's view of the configuration alone.   *)
LEMMA PreparedKept ==
  ASSUME NEW p \in Importers, DatabaseKept, MyPlan(p)' = MyPlan(p),
         snap'[p] = snap[p], created[p] \subseteq created'[p]
  PROVE  /\ NetworkBound(p) => NetworkBound(p)'
         /\ \A t : BoundFor(p, t) => BoundFor(p, t)'
PROOF
<1>1. config' = config /\ meta' = meta
  BY DEF DatabaseKept, database
<1>2. QED
  BY <1>1 DEF NetworkBound, BoundFor, HasRows

LEMMA OthersSafe ==
  ASSUME NEW q \in Importers, Safe(q), Untouched(q), DatabaseKept, CommittedKept,
         lock' = q <=> lock = q
  PROVE  Safe(q)'
PROOF
<1>1. MyPlan(q)' = MyPlan(q)
  BY DEF Untouched, MyPlan
<1>2. HoldsConfig(q)'
  BY DEF Safe, HoldsConfig, Untouched
<1>3. SnapshotOfRows(q)'
  BY SnapshotKept DEF Safe, Untouched
<1>4. Prepared(q)'
  <2>1. Targeted(q, pos[q] - 1)' = Targeted(q, pos[q] - 1)
    BY <1>1 DEF Untouched, Targeted
  <2>2. /\ NetworkBound(q) => NetworkBound(q)'
        /\ \A t : BoundFor(q, t) => BoundFor(q, t)'
    BY <1>1, PreparedKept DEF Untouched
  <2>3. QED
    BY <1>1, <2>1, <2>2 DEF Safe, Prepared, Untouched
<1>5. CreatesOwnTables(q)'
  BY <1>1 DEF Safe, CreatesOwnTables, Untouched
<1>6. RecordsAccounted(q)'
  BY <1>1 DEF Safe, RecordsAccounted, Untouched
<1>7. QED
  BY <1>2, <1>3, <1>4, <1>5, <1>6 DEF Safe

(* What is committed stays exact while nothing is committed.               *)
LEMMA ExactKept ==
  ASSUME ExactImport, DatabaseKept, CommittedKept
  PROVE  ExactImport'
PROOF
<1>1. rows' = rows
  BY DEF DatabaseKept, database
<1>2. ASSUME NEW p \in Importers, tx'[p] = "committed"
      PROVE  tx[p] = "committed" /\ MyPlan(p)' = MyPlan(p)
  BY <1>2 DEF CommittedKept, MyPlan
<1>3. QED
  BY <1>1, <1>2 DEF ExactImport
-----------------------------------------------------------------------------
(* The run that takes the step.                                            *)
LEMMA SafeFail ==
  ASSUME TInv, NEW p \in Importers, Safe(p), Fail(p)
  PROVE  Safe(p)'
PROOF
<1>1. Domains /\ DatabaseKept /\ CommittedKept
  BY TypedDomains, QuietKeeps, FailKeeps, FailLocal DEF TInv, Untouched, CommittedKept
<1>2. /\ pc'[p] = "failed" /\ held' = held
      /\ \/ tx[p] = "active" /\ tx'[p] = "aborted" /\ lock' # p /\ seen'[p] = {}
         \/ tx[p] # "active" /\ UNCHANGED <<lock, tx, seen, snap, created, own>>
  BY <1>1, SentinelAssumption DEF Fail, Stop, Goto, Discard, Release, txState, Domains
<1>3. MyPlan(p)' = MyPlan(p)
  BY <1>2 DEF MyPlan
<1>4. HoldsConfig(p)'
  BY <1>2 DEF Safe, HoldsConfig, Writing
<1>5. SnapshotOfRows(p)'
  BY <1>1, <1>2, SnapshotKept DEF Safe, SnapshotOfRows
<1>6. Prepared(p)'
  <2>1. CASE tx'[p] # "deciding"
    BY <1>2, <2>1 DEF Prepared, InTx, Writing
  <2>2. CASE tx'[p] = "deciding"
    BY <1>1, <1>2, <1>3, <2>2, PreparedKept DEF Safe, Prepared, InTx, Writing
  <2>3. QED
    BY <2>1, <2>2
<1>7. CreatesOwnTables(p)' /\ RecordsAccounted(p)'
  BY <1>2, <1>3 DEF Safe, CreatesOwnTables, RecordsAccounted, BeforeTx
<1>8. QED
  BY <1>4, <1>5, <1>6, <1>7 DEF Safe

(* Reading, checking and connecting: there is no transaction yet.          *)
LEMMA SafeBeforeTx ==
  ASSUME TInv, NEW p \in Importers, Safe(p), CommittedKept, DatabaseKept, ~Fail(p),
         ReadInput(p) \/ Preflight(p) \/ RevalidateBefore(p) \/ CheckDatabase(p)
  PROVE  Safe(p)'
PROOF
<1>1. Domains /\ Typed(p)
  BY TypedDomains DEF TInv
<1>2. pc[p] \in BeforeTx /\ tx[p] = "none"
  BY <1>1 DEF ReadInput, Preflight, RevalidateBefore, CheckDatabase, Typed, Transaction, BeforeTx
<1>3. UNCHANGED <<lock, tx, seen, snap, created, own, batch, dirty>>
  BY DEF ReadInput, Preflight, RevalidateBefore, Compare, CheckDatabase, memory, txState
<1>4. pc'[p] \in BeforeTx
  BY <1>1 DEF ReadInput, Loop, Preflight, RevalidateBefore, Compare, CheckDatabase, Goto, Domains, BeforeTx
<1>5. HoldsConfig(p)' /\ Prepared(p)' /\ CreatesOwnTables(p)'
  BY <1>2, <1>3, <1>4 DEF Safe, HoldsConfig, Prepared, CreatesOwnTables, BeforeTx, InTx, Writing
<1>6. SnapshotOfRows(p)'
  BY <1>3, SnapshotKept DEF Safe
<1>7. RecordsAccounted(p)'
  BY <1>2, <1>3, <1>4 DEF Safe, RecordsAccounted, BeforeTx
<1>8. QED
  BY <1>5, <1>6, <1>7 DEF Safe

LEMMA SafeBegin ==
  ASSUME TInv, NEW p \in Importers, Safe(p), CommittedKept, DatabaseKept, Begin(p)
  PROVE  Safe(p)'
PROOF
<1>1. Domains /\ Typed(p)
  BY TypedDomains DEF TInv
<1>2. pc[p] = "begin" /\ tx[p] = "none" /\ transactionalDDL
  BY <1>1 DEF Begin, Typed, Transaction, BeforeTx
<1>3. /\ pc'[p] = "config" /\ tx'[p] = "active" /\ lock' = lock
      /\ seen'[p] = {q \in Importers : tx[q] = "committed"}
      /\ snap'[p].rows = rows /\ created'[p] = created[p] \union {System}
      /\ UNCHANGED <<own, batch, dirty, held>>
  BY <1>1, <1>2 DEF Begin, Goto, CreateTable, memory, Domains
<1>4. HoldsConfig(p)'
  BY <1>2, <1>3 DEF Safe, HoldsConfig, Writing
<1>5. SnapshotOfRows(p)'
  <2>1. rows' = rows
    BY DEF DatabaseKept, database
  <2>2. seen'[p] \subseteq {q \in Importers : tx'[q] = "committed"} /\ CommittedSince(p)' = {}
    BY <1>3 DEF CommittedKept, CommittedSince
  <2>3. QED
    BY <1>3, <2>1, <2>2 DEF SnapshotOfRows
<1>6. Prepared(p)'
  BY <1>3 DEF Prepared, Writing
<1>7. CreatesOwnTables(p)' /\ RecordsAccounted(p)'
  BY <1>2, <1>3 DEF Safe, CreatesOwnTables, RecordsAccounted, BeforeTx
<1>8. QED
  BY <1>4, <1>5, <1>6, <1>7 DEF Safe

(* ensureEntry for the configuration: from here on the run holds the row.  *)
LEMMA SafeEnsureConfig ==
  ASSUME TInv, NEW p \in Importers, Safe(p), CommittedKept, DatabaseKept, EnsureConfig(p), ~Fail(p)
  PROVE  Safe(p)'
PROOF
<1> DEFINE entry == [value |-> MyPlan(p).envelope, version |-> 0]
<1>1. Domains /\ Typed(p) /\ snap[p] \in Snapshot
  BY TypedDomains DEF TInv, TypeOK
<1>2. pc[p] = "config" /\ tx[p] = "active"
  BY <1>1 DEF EnsureConfig, Typed, Transaction, InTx
<1>3. /\ config = NoRow \/ SameConfig(config, MyPlan(p).envelope)
      /\ lock' = p /\ snap' = [snap EXCEPT ![p].config = entry]
      /\ pc'[p] = "create" /\ pos'[p] = 1
      /\ UNCHANGED <<memory, tx, seen, created, own>>
  BY <1>1 DEF EnsureConfig, Goto, Domains
<1>4. snap'[p].config = entry /\ snap'[p].rows = snap[p].rows
  BY <1>1, <1>3 DEF Domains, Snapshot
<1>5. MyPlan(p)' = MyPlan(p) /\ UNCHANGED <<held, batch, dirty>>
  BY <1>3 DEF MyPlan, memory
<1>6. HoldsConfig(p)'
  BY <1>2, <1>3 DEF HoldsConfig
<1>7. SnapshotOfRows(p)'
  BY <1>3, <1>4, SnapshotKept DEF Safe
<1>8. Prepared(p)'
  <2>1. NetworkBound(p)'
    BY <1>3, <1>4, <1>5 DEF NetworkBound, DatabaseKept, database
  <2>2. Targeted(p, pos[p] - 1)' = {}
    BY <1>3 DEF Targeted
  <2>3. QED
    BY <1>2, <1>3, <2>1, <2>2 DEF Safe, Prepared, InTx, Writing
<1>9. CreatesOwnTables(p)' /\ RecordsAccounted(p)'
  BY <1>2, <1>3, <1>5 DEF Safe, CreatesOwnTables, RecordsAccounted, BeforeTx
<1>10. QED
  BY <1>6, <1>7, <1>8, <1>9 DEF Safe

LEMMA SafeCreateNamespace ==
  ASSUME TInv, NEW p \in Importers, Safe(p), CommittedKept, DatabaseKept, CreateNamespace(p)
  PROVE  Safe(p)'
PROOF
<1> DEFINE t == MyPlan(p).targets[pos[p]]
<1>1. Domains /\ Typed(p)
  BY TypedDomains DEF TInv
<1>2. pc[p] = "create" /\ tx[p] = "active" /\ transactionalDDL
  BY <1>1 DEF CreateNamespace, Typed, Transaction, InTx
<1>3. /\ created' = [created EXCEPT ![p] = @ \union {t}] /\ pc'[p] = "ensure"
      /\ UNCHANGED <<lock, memory, own, pos, tx, seen, snap>>
  BY <1>1, <1>2 DEF CreateNamespace, CreateTable, Domains
<1>4. created'[p] = created[p] \union {t} /\ MyPlan(p)' = MyPlan(p)
      /\ UNCHANGED <<held, batch, dirty>>
  BY <1>1, <1>3 DEF Domains, MyPlan, memory
<1>5. t \in TargetsOf(MyPlan(p))
  <2>1. MyPlan(p).targets \in Seq(Targets)
    BY <1>2, PlanUsable, PlanFacts
  <2>2. pos[p] \in Nat \ {0} /\ pos[p] <= Len(MyPlan(p).targets)
    BY <1>1, <1>2 DEF TInv, TypeOK, Typed, IndexInLoop
  <2>3. pos[p] \in DOMAIN MyPlan(p).targets
    BY <2>1, <2>2
  <2>4. QED
    BY <2>3 DEF TargetsOf
<1>6. HoldsConfig(p)'
  BY <1>2, <1>3 DEF Safe, HoldsConfig, Writing
<1>7. SnapshotOfRows(p)'
  BY <1>3, SnapshotKept DEF Safe
<1>8. Prepared(p)'
  <2>1. /\ NetworkBound(p) => NetworkBound(p)'
        /\ \A u : BoundFor(p, u) => BoundFor(p, u)'
    BY <1>3, <1>4, PreparedKept
  <2>2. Targeted(p, pos[p] - 1)' = Targeted(p, pos[p] - 1)
    BY <1>3, <1>4 DEF Targeted
  <2>3. MyPlan(p)'.targets[pos'[p]] = t
    BY <1>3, <1>4
  <2>4. QED
    BY <1>2, <1>3, <1>4, <2>1, <2>2, <2>3 DEF Safe, Prepared, InTx, Writing
<1>9. CreatesOwnTables(p)' /\ RecordsAccounted(p)'
  BY <1>2, <1>3, <1>4, <1>5 DEF Safe, CreatesOwnTables, RecordsAccounted, BeforeTx
<1>10. QED
  BY <1>6, <1>7, <1>8, <1>9 DEF Safe

LEMMA SafeEnsureNamespace ==
  ASSUME TInv, NEW p \in Importers, Safe(p), CommittedKept, DatabaseKept, EnsureNamespace(p), ~Fail(p)
  PROVE  Safe(p)'
PROOF
<1> DEFINE plan == MyPlan(p)
           t == plan.targets[pos[p]]
           entry == [value |-> plan.policies[t], version |-> 0]
<1>1. Domains /\ Typed(p) /\ snap[p] \in Snapshot
  BY TypedDomains DEF TInv, TypeOK
<1>2. pc[p] = "ensure" /\ tx[p] = "active" /\ lock = p
  BY <1>1 DEF EnsureNamespace, Typed, Transaction, InTx, Safe, HoldsConfig
<1>3. /\ plan.targets \in Seq(Targets) /\ plan.targets # <<>>
      /\ pos[p] \in Nat \ {0} /\ pos[p] <= Len(plan.targets)
  BY <1>1, <1>2, PlanUsable, PlanFacts DEF TInv, TypeOK, Typed, IndexInLoop
<1>4. /\ ~HasRows(p, t) /\ plan.policies[t] # NoPolicy /\ meta[t] \in {NoRow, entry}
      /\ snap' = [snap EXCEPT ![p].meta[t] = entry]
      /\ UNCHANGED <<lock, memory, tx, seen, created, own>>
      /\ \/ pos[p] < Len(plan.targets) /\ pos'[p] = pos[p] + 1 /\ pc'[p] = "create"
         \/ ~(pos[p] < Len(plan.targets)) /\ pos'[p] = 1 /\ pc'[p] = "stream"
  BY <1>1 DEF EnsureNamespace, Goto, Domains
<1>5. plan' = plan /\ UNCHANGED <<held, batch, dirty>>
  BY <1>4 DEF MyPlan, memory
<1>6. t \in Targets /\ snap[p].meta \in [Targets -> EntryOrNone(Policies)]
  BY <1>1, <1>3 DEF Snapshot
<1>7. /\ snap'[p].config = snap[p].config /\ snap'[p].rows = snap[p].rows
      /\ snap'[p].meta = [snap[p].meta EXCEPT ![t] = entry]
  BY <1>1, <1>4 DEF Domains, Snapshot
<1>8. meta' = meta /\ config' = config
  BY DEF DatabaseKept, database
<1>9. NetworkBound(p)'
  BY <1>2, <1>5, <1>7, <1>8 DEF Safe, Prepared, NetworkBound
<1>10. t \in created[p]
  BY <1>2 DEF Safe, Prepared
<1>11. \A u \in Targeted(p, pos[p]) : BoundFor(p, u)'
  <2>1. SUFFICES ASSUME NEW i \in 1..pos[p], NEW u, u = plan.targets[i]
                 PROVE  BoundFor(p, u)'
    BY DEF Targeted
  <2>2. u \in Targets
    BY <1>3, <2>1
  <2>3. CASE u = t
    <3>1. snap'[p].meta[t] = entry
      BY <1>6, <1>7
    <3>2. QED
      BY <1>4, <1>5, <1>7, <1>8, <1>10, <2>3, <3>1 DEF BoundFor, HasRows
  <2>4. CASE u # t
    <3>1. i \in 1..(pos[p] - 1)
      BY <1>3, <2>1, <2>4
    <3>2. BoundFor(p, u)
      BY <1>2, <2>1, <3>1 DEF Safe, Prepared, Targeted
    <3>3. snap'[p].meta[u] = snap[p].meta[u]
      BY <1>6, <1>7, <2>2, <2>4
    <3>4. QED
      BY <1>4, <1>5, <1>7, <1>8, <3>2, <3>3 DEF BoundFor, HasRows
  <2>5. QED
    BY <2>3, <2>4
<1>12. HoldsConfig(p)'
  BY <1>2, <1>4 DEF HoldsConfig
<1>13. SnapshotOfRows(p)'
  BY <1>4, <1>7, SnapshotKept DEF Safe
<1>14. CreatesOwnTables(p)'
  BY <1>2, <1>4, <1>5 DEF Safe, CreatesOwnTables
<1>15. System \in created'[p]
  BY <1>2, <1>4 DEF Safe, Prepared, InTx
<1>16. CASE pos[p] < Len(plan.targets)
  <2>1. pc'[p] = "create" /\ pos'[p] - 1 = pos[p]
    BY <1>3, <1>4, <1>16
  <2>2. Targeted(p, pos[p] - 1)' = Targeted(p, pos[p])
    BY <1>5, <2>1 DEF Targeted
  <2>3. Prepared(p)'
    BY <1>2, <1>4, <1>9, <1>11, <1>15, <2>1, <2>2 DEF Prepared, Writing
  <2>4. RecordsAccounted(p)'
    BY <1>2, <1>4, <1>5, <2>1 DEF Safe, RecordsAccounted, BeforeTx
  <2>5. QED
    BY <1>12, <1>13, <1>14, <2>3, <2>4 DEF Safe
<1>17. CASE ~(pos[p] < Len(plan.targets))
  <2>1. pc'[p] = "stream" /\ pos'[p] = 1 /\ pos[p] = Len(plan.targets)
    BY <1>3, <1>4, <1>17
  <2>2. TargetsOf(plan) = Targeted(p, pos[p])
    BY <1>3, <2>1 DEF TargetsOf, Targeted
  <2>3. Prepared(p)'
    BY <1>4, <1>5, <1>9, <1>11, <1>15, <2>1, <2>2 DEF Prepared, Writing
  <2>4. own[p] = {} /\ batch[p] = NoBatch
    BY <1>2 DEF Safe, RecordsAccounted
  <2>5. BatchRows(NoBatch) = {} /\ RowsUpTo(plan, 0) = {}
    BY DEF BatchRows, NoBatch, RowsUpTo
  <2>6. RecordsAccounted(p)'
    BY <1>2, <1>4, <1>5, <2>1, <2>4, <2>5 DEF RecordsAccounted, BeforeTx
  <2>7. QED
    BY <1>12, <1>13, <1>14, <2>3, <2>6 DEF Safe
<1>18. QED
  BY <1>16, <1>17

(* Streaming: the configuration and the tables are settled, records move   *)
(* from the stream through the batch into the transaction.                 *)
LEMMA SafeWhileWriting ==
  ASSUME TInv, NEW p \in Importers, Safe(p), CommittedKept, DatabaseKept,
         pc[p] \in Writing, held'[p] = held[p], RecordsAccounted(p)',
         (pc'[p] \in Writing /\ tx'[p] = tx[p]) \/ (pc'[p] = "committing" /\ tx'[p] = "deciding"),
         lock' = lock, seen' = seen, snap' = snap, created' = created
  PROVE  Safe(p)'
PROOF
<1>1. Typed(p)
  BY DEF TInv
<1>2. tx[p] = "active" /\ MyPlan(p)' = MyPlan(p)
  BY <1>1 DEF Typed, Transaction, InTx, MyPlan
<1>3. HoldsConfig(p)'
  BY <1>2 DEF Safe, HoldsConfig, Writing
<1>4. SnapshotOfRows(p)'
  BY <1>2, SnapshotKept DEF Safe
<1>5. Prepared(p)'
  <2>1. /\ NetworkBound(p) => NetworkBound(p)'
        /\ \A t : BoundFor(p, t) => BoundFor(p, t)'
    BY <1>2, PreparedKept
  <2>2. QED
    BY <1>2, <2>1 DEF Safe, Prepared, InTx, Writing
<1>6. CreatesOwnTables(p)'
  BY <1>2 DEF Safe, CreatesOwnTables
<1>7. QED
  BY <1>3, <1>4, <1>5, <1>6 DEF Safe

(* The rows of the first n items and of the n-th.                          *)
LEMMA OneMoreItem ==
  ASSUME NEW plan, NEW n \in Nat \ {0}
  PROVE  RowsUpTo(plan, n) = RowsUpTo(plan, n - 1) \union
           (IF plan.stream[n].kind = "record"
            THEN {RowFor(plan.stream[n].target, plan.stream[n].key, plan.stream[n].value)} ELSE {})
PROOF
<1>1. 1..n = (1..(n - 1)) \union {n}
  OBVIOUS
<1>2. QED
  BY <1>1 DEF RowsUpTo

LEMMA AppendedRow ==
  ASSUME NEW t, NEW S, NEW s \in Seq(S), NEW r \in S
  PROVE  BatchRows([target |-> t, records |-> Append(s, r)])
           = BatchRows([target |-> t, records |-> s]) \union {RowFor(t, r.key, r.value)}
PROOF
<1>1. DOMAIN Append(s, r) = DOMAIN s \union {Len(s) + 1}
  OBVIOUS
<1>2. \A i \in DOMAIN s : Append(s, r)[i] = s[i]
  OBVIOUS
<1>3. Append(s, r)[Len(s) + 1] = r
  OBVIOUS
<1>4. QED
  BY <1>1, <1>2, <1>3 DEF BatchRows

LEMMA NoRows == ASSUME NEW t PROVE BatchRows([target |-> t, records |-> <<>>]) = {}
BY DEF BatchRows

(* A record given to the batch is in the batch or in the transaction, and  *)
(* so is everything that was there before.                                 *)
LEMMA YieldAccounts ==
  ASSUME TInv, NEW p \in Importers, NEW t \in Targets, NEW r \in [key: Keys, value: Values],
         NEW agreed \in BOOLEAN, Yield(p, t, r, agreed), ~Fail(p)
  PROVE  own'[p] \union BatchRows(batch'[p])
           = own[p] \union BatchRows(batch[p]) \union {RowFor(t, r.key, r.value)}
PROOF
<1> DEFINE old == batch[p]
           switch == old.target \notin {NoOne, t}
           new == [target |-> t, records |-> Append(IF switch THEN <<>> ELSE old.records, r)]
           full == Len(new.records) = BatchSize
           inserts == (IF switch THEN {old} ELSE {}) \union (IF full THEN {new} ELSE {})
           row == RowFor(t, r.key, r.value)
<1>1. Domains /\ old \in Batch /\ BatchHasTarget(p)
  BY TypedDomains DEF TInv, TypeOK, Typed
<1>2. /\ own'[p] = own[p] \union UNION {BatchRows(b) : b \in inserts}
      /\ batch'[p] = [target |-> t, records |-> IF full THEN <<>> ELSE new.records]
  BY <1>1 DEF Yield, Domains
<1>3. old.records \in Seq([key: Keys, value: Values]) /\ old = [target |-> old.target, records |-> old.records]
  BY <1>1 DEF Batch
<1>4. BatchRows(new) = (IF switch THEN {} ELSE BatchRows(old)) \union {row}
  <2> DEFINE S == [key: Keys, value: Values]
  <2>0. old.records \in Seq(S) /\ r \in S /\ <<>> \in Seq(S)
    BY <1>3
  <2> HIDE DEF S
  <2>1. CASE switch
    <3> DEFINE none == <<>>
    <3>1. new = [target |-> t, records |-> Append(none, r)]
      BY <2>1
    <3>2. none \in Seq(S) /\ BatchRows([target |-> t, records |-> none]) = {}
      BY NoRows
    <3> HIDE DEF none
    <3>3. BatchRows([target |-> t, records |-> Append(none, r)])
            = BatchRows([target |-> t, records |-> none]) \union {RowFor(t, r.key, r.value)}
      BY ONLY <2>0, <3>2, AppendedRow
    <3>4. row = RowFor(t, r.key, r.value)
      OBVIOUS
    <3> HIDE DEF new, row, switch
    <3>5. QED
      BY <2>1, <3>1, <3>2, <3>3, <3>4
  <2>2. CASE ~switch
    <3>1. BatchRows([target |-> t, records |-> old.records]) = BatchRows(old)
      <4>1. CASE old.target = t
        BY <1>3, <4>1
      <4>2. CASE old.target = NoOne
        <5>1. old.records = <<>>
          BY <1>1, <4>2 DEF BatchHasTarget
        <5>2. QED
          BY <1>3, <5>1, NoRows
      <4>3. QED
        BY <2>2, <4>1, <4>2
    <3>2. new = [target |-> t, records |-> Append(old.records, r)]
      BY <2>2
    <3>3. BatchRows(new) = BatchRows([target |-> t, records |-> old.records]) \union {row}
      BY <2>0, <3>2, AppendedRow
    <3>4. QED
      BY <2>2, <3>1, <3>3
  <2>3. QED
    BY <2>1, <2>2
<1>5. UNION {BatchRows(b) : b \in inserts}
        = (IF switch THEN BatchRows(old) ELSE {}) \union (IF full THEN BatchRows(new) ELSE {})
  <2> HIDE DEF switch, full, new, old
  <2>1. QED
    OBVIOUS
<1>6. BatchRows(batch'[p]) = IF full THEN {} ELSE BatchRows(new)
  <2>1. new = [target |-> t, records |-> new.records]
    OBVIOUS
  <2> HIDE DEF new, full
  <2>2. CASE full
    BY <1>2, <2>2, NoRows
  <2>3. CASE ~full
    BY <1>2, <2>1, <2>3
  <2>4. QED
    BY <2>2, <2>3
<1>7. BatchRows(batch[p]) = BatchRows(old) /\ row = RowFor(t, r.key, r.value)
  OBVIOUS
<1>8. QED
  <2> HIDE DEF switch, full, new, old, row, inserts
  <2>1. QED
    BY <1>2, <1>4, <1>5, <1>6, <1>7

LEMMA SafeDeliver ==
  ASSUME TInv, NEW p \in Importers, Safe(p), CommittedKept, DatabaseKept, Deliver(p), ~Fail(p)
  PROVE  Safe(p)'
PROOF
<1> DEFINE item == CurrentItem(p)
<1>1. Domains /\ Typed(p) /\ pos[p] \in Nat \ {0} /\ dirty[p] \in BOOLEAN
  BY TypedDomains DEF TInv, TypeOK
<1>2. pc[p] = "stream" /\ tx[p] = "active"
  BY <1>1 DEF Deliver, Typed, Transaction, InTx, Writing
<1>3. item.target \in Targets /\ item = MyPlan(p).stream[pos[p]] /\ item.kind = "record"
  BY <1>2, ItemFacts, TargetsType DEF Deliver
<1>4. PICK k \in Keys, v \in Values :
        Yield(p, item.target, [key |-> k, value |-> v], k = item.key /\ v = item.value)
  BY DEF Deliver
<1> DEFINE r == [key |-> k, value |-> v]
           agreed == k = item.key /\ v = item.value
<1>5. own'[p] \union BatchRows(batch'[p])
        = own[p] \union BatchRows(batch[p]) \union {RowFor(item.target, r.key, r.value)}
  <2>1. agreed \in BOOLEAN /\ r \in [key: Keys, value: Values] /\ Yield(p, item.target, r, agreed)
    BY <1>4
  <2> HIDE DEF item, r, agreed
  <2>2. QED
    BY <1>3, <2>1, YieldAccounts
<1>6. /\ dirty' = [dirty EXCEPT ![p] = @ \/ ~agreed] /\ pos' = [pos EXCEPT ![p] = @ + 1]
      /\ UNCHANGED <<lock, pc, held, tx, seen, snap, created>>
  BY <1>4 DEF Yield
<1>7. dirty'[p] = (dirty[p] \/ ~agreed) /\ pos'[p] - 1 = pos[p]
  BY <1>1, <1>6 DEF Domains
<1>8. MyPlan(p)' = MyPlan(p)
  BY <1>6 DEF MyPlan
<1>9. ASSUME ~dirty'[p]
      PROVE  own'[p] \union BatchRows(batch'[p]) = RowsUpTo(MyPlan(p), pos[p])
  <2>1. agreed /\ ~dirty[p]
    BY <1>7, <1>9
  <2>2. own[p] \union BatchRows(batch[p]) = RowsUpTo(MyPlan(p), pos[p] - 1)
    BY <1>2, <2>1 DEF Safe, RecordsAccounted
  <2>3. RowsUpTo(MyPlan(p), pos[p])
          = RowsUpTo(MyPlan(p), pos[p] - 1) \union {RowFor(item.target, item.key, item.value)}
    BY <1>1, <1>3, OneMoreItem
  <2>4. r.key = item.key /\ r.value = item.value
    BY <2>1
  <2> HIDE DEF item, r
  <2>5. QED
    BY <1>5, <2>2, <2>3, <2>4
<1>10. RecordsAccounted(p)'
  BY <1>2, <1>6, <1>7, <1>8, <1>9 DEF RecordsAccounted, BeforeTx
<1>11. QED
  BY <1>2, <1>6, <1>10, SafeWhileWriting DEF Writing

LEMMA SafeEndOfFile ==
  ASSUME TInv, NEW p \in Importers, Safe(p), CommittedKept, DatabaseKept, EndOfFile(p), ~Fail(p)
  PROVE  Safe(p)'
PROOF
<1> DEFINE plan == MyPlan(p)
<1>1. Domains /\ Typed(p) /\ pos[p] \in Nat \ {0}
  BY TypedDomains DEF TInv, TypeOK
<1>2. pc[p] = "stream" /\ tx[p] = "active" /\ ~dirty[p]
  BY <1>1 DEF EndOfFile, Typed, Transaction, InTx, Writing
<1>3. plan.stream[pos[p]].kind = "end" /\ pos[p] \in 1..Len(plan.stream) /\ Len(plan.stream) \in Nat
  BY <1>2, ItemFacts DEF EndOfFile
<1>4. /\ \/ pos[p] < Len(plan.stream) /\ pc'[p] = "stream" /\ pos'[p] = pos[p] + 1
         \/ pos[p] = Len(plan.stream) /\ pc'[p] = "flush"
      /\ UNCHANGED <<lock, memory, tx, seen, snap, created, own>>
  BY <1>1, <1>2, <1>3 DEF EndOfFile, Loop, txState, Domains
<1>5. UNCHANGED <<held, batch, dirty>> /\ plan' = plan
  BY <1>4 DEF memory, MyPlan
<1>6. own[p] \union BatchRows(batch[p]) = RowsUpTo(plan, pos[p])
  <2>1. own[p] \union BatchRows(batch[p]) = RowsUpTo(plan, pos[p] - 1)
    BY <1>2 DEF Safe, RecordsAccounted
  <2>2. RowsUpTo(plan, pos[p]) = RowsUpTo(plan, pos[p] - 1) \union {}
    <3> HIDE DEF plan
    <3>1. QED
      BY <1>1, <1>3, OneMoreItem
  <2>3. QED
    BY <2>1, <2>2
<1>7. CASE pc'[p] = "stream"
  <2>1. pos'[p] - 1 = pos[p]
    BY <1>3, <1>4, <1>7
  <2>2. RecordsAccounted(p)'
    BY <1>2, <1>4, <1>5, <1>6, <1>7, <2>1 DEF RecordsAccounted, BeforeTx
  <2>3. QED
    BY <1>2, <1>4, <1>5, <1>7, <2>2, SafeWhileWriting DEF Writing
<1>8. CASE pc'[p] = "flush"
  <2>1. AllRows(plan) = RowsUpTo(plan, pos[p])
    BY <1>4, <1>8 DEF AllRows
  <2>2. RecordsAccounted(p)'
    BY <1>2, <1>4, <1>5, <1>6, <1>8, <2>1 DEF RecordsAccounted, BeforeTx
  <2>3. QED
    BY <1>2, <1>4, <1>5, <1>8, <2>2, SafeWhileWriting DEF Writing
<1>9. QED
  BY <1>4, <1>7, <1>8

(* Everything after the last digest check: the transaction is complete.    *)
LEMMA SafeComplete ==
  ASSUME TInv, NEW p \in Importers, Safe(p), CommittedKept, DatabaseKept, ~Fail(p),
         FlushLast(p) \/ Verify(p) \/ RevalidateAfter(p) \/ SendCommit(p)
  PROVE  Safe(p)'
PROOF
<1>1. Domains /\ Typed(p)
  BY TypedDomains DEF TInv
<1>2. pc[p] \in {"flush", "verify", "revalidate", "commit"} /\ tx[p] = "active"
  BY <1>1 DEF FlushLast, Verify, RevalidateAfter, SendCommit, Typed, Transaction, InTx, Writing
<1>3. held' = held /\ MyPlan(p)' = MyPlan(p) /\ UNCHANGED <<lock, seen, snap, created>>
  BY DEF FlushLast, Verify, RevalidateAfter, Compare, SendCommit, MyPlan, memory, txState
<1>4. CASE FlushLast(p)
  <2>1. pc[p] = "flush" /\ pc'[p] = "verify" /\ tx' = tx /\ own'[p] = own[p] \union BatchRows(batch[p])
    BY <1>1, <1>4 DEF FlushLast, Goto, Domains
  <2>2. own'[p] = AllRows(MyPlan(p))
    BY <2>1 DEF Safe, RecordsAccounted
  <2>3. RecordsAccounted(p)'
    BY <1>2, <1>3, <2>1, <2>2 DEF RecordsAccounted, BeforeTx
  <2>4. QED
    BY <1>2, <1>3, <2>1, <2>3, SafeWhileWriting DEF Writing
<1>5. CASE ~FlushLast(p)
  <2>1. /\ pc[p] \in {"verify", "revalidate", "commit"} /\ own' = own
        /\ \/ pc'[p] \in {"revalidate", "commit"} /\ tx' = tx
           \/ pc'[p] = "committing" /\ tx'[p] = "deciding"
    BY <1>1, <1>5 DEF Verify, RevalidateAfter, Compare, SendCommit, Goto, memory, txState, Domains
  <2>2. own'[p] = AllRows(MyPlan(p))
    BY <2>1 DEF Safe, RecordsAccounted
  <2>3. RecordsAccounted(p)'
    BY <1>2, <1>3, <2>1, <2>2 DEF RecordsAccounted, BeforeTx
  <2>4. QED
    BY <1>2, <1>3, <2>1, <2>3, SafeWhileWriting DEF Writing
<1>6. QED
  BY <1>4, <1>5

(* The run has sent COMMIT, lost the connection or crashed: its            *)
(* transaction is in the hands of the server.                              *)
LEMMA SafeWhileGone ==
  ASSUME TInv, NEW p \in Importers, Safe(p), CommittedKept, DatabaseKept,
         pc'[p] \in {"report"} \union Ended,
         held' = held, lock' = lock, tx' = tx, seen' = seen, snap' = snap, created' = created, own' = own
  PROVE  Safe(p)'
PROOF
<1>1. MyPlan(p)' = MyPlan(p)
  BY DEF MyPlan
<1>2. HoldsConfig(p)'
  BY DEF Safe, HoldsConfig, Writing, Ended
<1>3. SnapshotOfRows(p)'
  BY SnapshotKept DEF Safe
<1>4. Prepared(p)'
  <2>1. /\ NetworkBound(p) => NetworkBound(p)'
        /\ \A t : BoundFor(p, t) => BoundFor(p, t)'
    BY <1>1, PreparedKept
  <2>2. QED
    BY <1>1, <2>1 DEF Safe, Prepared, InTx, Writing, Ended
<1>5. CreatesOwnTables(p)' /\ RecordsAccounted(p)'
  BY <1>1 DEF Safe, CreatesOwnTables, RecordsAccounted, BeforeTx, Ended
<1>6. QED
  BY <1>2, <1>3, <1>4, <1>5 DEF Safe

LEMMA SafeDiscard ==
  ASSUME TInv, NEW p \in Importers, Safe(p), CommittedKept, DatabaseKept,
         ServerRejects(p) \/ ServerAborts(p)
  PROVE  Safe(p)'
PROOF
<1>1. Domains /\ Typed(p)
  BY TypedDomains DEF TInv
<1>2. pc[p] \in {"committing"} \union Ended /\ tx[p] \in {"active", "deciding"} /\ pc[p] \in Stages
  BY <1>1 DEF ServerRejects, ServerAborts, Typed, Transaction, TInv, TypeOK, Stages, Running, Ended,
     BeforeTx, InTx, Writing
<1>3. /\ tx'[p] = "aborted" /\ lock' # p /\ seen'[p] = {} /\ pc' = pc
      /\ lock' = (IF lock = p THEN NoOne ELSE lock)
  BY <1>1, SentinelAssumption DEF ServerRejects, ServerAborts, Discard, Release, Domains
<1>4. QED
  BY <1>2, <1>3 DEF Safe, HoldsConfig, SnapshotOfRows, Prepared, CreatesOwnTables, RecordsAccounted,
     BeforeTx, InTx, Writing, Ended

LEMMA SafeQuiet ==
  ASSUME TInv, NEW p \in Importers, Safe(p), CommittedKept, DatabaseKept, Quiet(p)
  PROVE  Safe(p)'
PROOF
<1>1. CASE Fail(p)
  BY <1>1, SafeFail
<1>2. Domains
  BY TypedDomains DEF TInv
<1>3. CASE ReadInput(p) \/ Preflight(p) \/ RevalidateBefore(p) \/ CheckDatabase(p)
  BY <1>1, <1>3, SafeBeforeTx
<1>4. CASE Begin(p) \/ EnsureConfig(p) \/ CreateNamespace(p) \/ EnsureNamespace(p)
  BY <1>1, <1>4, SafeBegin, SafeEnsureConfig, SafeCreateNamespace, SafeEnsureNamespace
<1>5. CASE Deliver(p) \/ EndOfFile(p)
  BY <1>1, <1>5, SafeDeliver, SafeEndOfFile
<1>6. CASE FlushLast(p) \/ Verify(p) \/ RevalidateAfter(p) \/ SendCommit(p)
  BY <1>1, <1>6, SafeComplete
<1>7. CASE CommitReturned(p) \/ WriteReport(p) \/ LoseConnection(p) \/ ReportLost(p) \/ Crash(p)
  <2>1. pc'[p] \in {"report"} \union Ended
    BY <1>2, <1>7 DEF CommitReturned, WriteReport, LoseConnection, ReportLost, Crash, Stop, Goto, Domains, Ended
  <2>2. /\ held' = held /\ lock' = lock /\ tx' = tx /\ seen' = seen /\ snap' = snap
        /\ created' = created /\ own' = own
    BY <1>7 DEF CommitReturned, WriteReport, LoseConnection, ReportLost, Crash, Stop, memory, txState
  <2>3. QED
    BY <2>1, <2>2, SafeWhileGone
<1>8. CASE ServerRejects(p) \/ ServerAborts(p)
  BY <1>8, SafeDiscard
<1>9. QED
  BY <1>1, <1>3, <1>4, <1>5, <1>6, <1>7, <1>8 DEF Quiet, Step, WalkFails, Fault, ReportError
-----------------------------------------------------------------------------
(* The commit of a transaction.                                            *)
LEMMA RowsAreTargeted ==
  ASSUME TInv, NEW p \in Importers, tx[p] # "none"
  PROVE  \A r \in AllRows(MyPlan(p)) : r.ns \in TargetsOf(MyPlan(p))
PROOF
<1> DEFINE plan == MyPlan(p)
<1>1. /\ plan.stream \in Seq(Item)
      /\ \A i \in DOMAIN plan.stream :
           plan.stream[i].kind = "record" => plan.stream[i].target \in TargetsOf(plan)
  BY PlanUsable, PlanFacts
<1>2. \A j \in 1..Len(plan.stream) : j \in DOMAIN plan.stream
  BY <1>1
<1> HIDE DEF plan
<1>3. \A r \in AllRows(plan) : r.ns \in TargetsOf(plan)
  BY <1>1, <1>2 DEF AllRows, RowsUpTo, RowFor
<1>4. QED
  BY <1>3 DEF plan

(* The transaction saw its target namespaces empty; whoever committed to   *)
(* one of them since would be in conflict with it.                         *)
LEMMA CommitsIntoEmpty ==
  ASSUME SInv, NEW p \in Importers, ServerCommits(p), NEW r \in own[p]
  PROVE  RowsOf(rows, r.ns) = {}
PROOF
<1>1. tx[p] = "deciding" /\ TInv /\ Safe(p)
  BY DEF ServerCommits, SInv
<1>2. own[p] = AllRows(MyPlan(p)) /\ r.ns \in TargetsOf(MyPlan(p))
  BY <1>1, RowsAreTargeted DEF Safe, RecordsAccounted
<1>3. SUFFICES ASSUME NEW other \in rows, other.ns = r.ns
               PROVE  FALSE
  BY DEF RowsOf
<1>4. CASE other \in snap[p].rows
  BY <1>1, <1>2, <1>3, <1>4 DEF Safe, Prepared, BoundFor, HasRows
<1>5. ASSUME NEW q \in CommittedSince(p), other \in own[q]
      PROVE  FALSE
  <2>1. tx[q] = "committed" /\ q \in Importers \ (seen[p] \union {p}) /\ Safe(q)
    BY <1>1, <1>5 DEF CommittedSince, SInv
  <2>2. own[q] = AllRows(MyPlan(q)) /\ other.ns \in TargetsOf(MyPlan(q))
    BY <1>1, <1>5, <2>1, RowsAreTargeted DEF Safe, RecordsAccounted
  <2>3. r.ns \in Written(p) /\ r.ns \in Written(q)
    BY <1>3, <1>5 DEF Written
  <2>4. SerializationConflict(p)
    BY <1>2, <1>3, <2>1, <2>2, <2>3 DEF SerializationConflict
  <2>5. QED
    BY <2>4 DEF ServerCommits
<1>6. rows = snap[p].rows \union UNION {own[q] : q \in CommittedSince(p)}
  BY <1>1 DEF Safe, SnapshotOfRows
<1>7. QED
  BY <1>3, <1>4, <1>5, <1>6

LEMMA ExactAfterCommit ==
  ASSUME SInv, NEW p \in Importers, ServerCommits(p)
  PROVE  ExactImport'
PROOF
<1>1. Domains /\ tx[p] = "deciding" /\ own[p] = AllRows(MyPlan(p))
  BY TypedDomains DEF SInv, TInv, ServerCommits, Safe, RecordsAccounted
<1>2. rows' = rows \union own[p] /\ tx' = [tx EXCEPT ![p] = "committed"] /\ held' = held
  BY DEF ServerCommits, memory
<1>3. SUFFICES ASSUME NEW q \in Importers, tx'[q] = "committed", NEW r \in AllRows(MyPlan(q))
               PROVE  RowsOf(rows \union own[p], r.ns) = RowsOf(AllRows(MyPlan(q)), r.ns)
  BY <1>2 DEF ExactImport, MyPlan
<1>4. CASE q = p
  <2>1. RowsOf(rows, r.ns) = {}
    BY <1>1, <1>3, <1>4, CommitsIntoEmpty
  <2>2. QED
    BY <1>1, <1>4, <2>1 DEF RowsOf
<1>5. CASE q # p
  <2>1. RowsOf(rows, r.ns) = RowsOf(AllRows(MyPlan(q)), r.ns)
    BY <1>1, <1>2, <1>3, <1>5 DEF SInv, ExactImport, Domains
  <2>2. r \in RowsOf(rows, r.ns)
    BY <1>3, <2>1 DEF RowsOf
  <2>3. \A other \in own[p] : other.ns # r.ns
    BY <2>2, CommitsIntoEmpty
  <2>4. QED
    BY <2>1, <2>3 DEF RowsOf
<1>6. QED
  BY <1>4, <1>5

LEMMA SafeAfterCommit ==
  ASSUME SInv, NEW p \in Importers, ServerCommits(p), NEW q \in Importers
  PROVE  Safe(q)'
PROOF
<1>1. Domains /\ TInv /\ Safe(p) /\ Safe(q) /\ Typed(p)
  BY TypedDomains DEF SInv, TInv
<1>2. tx[p] = "deciding" /\ lock = p
  BY <1>1 DEF ServerCommits, Safe, HoldsConfig
<1>3. /\ tx' = [tx EXCEPT ![p] = "committed"] /\ lock' = NoOne /\ rows' = rows \union own[p]
      /\ pc' = pc /\ pos' = pos /\ held' = held /\ batch' = batch /\ dirty' = dirty
      /\ seen' = seen /\ snap' = snap /\ created' = created /\ own' = own
  BY <1>2 DEF ServerCommits, Release, memory, txState
<1>4. MyPlan(q)' = MyPlan(q)
  BY <1>3 DEF MyPlan
<1>5. CASE q = p
  <2>1. tx'[q] = "committed" /\ pc[q] \notin BeforeTx \union InTx
    BY <1>1, <1>2, <1>3, <1>5 DEF Domains, Typed, Transaction
  <2>2. seen[q] \subseteq {i \in Importers : tx'[i] = "committed"}
    BY <1>1, <1>2, <1>3 DEF Safe, SnapshotOfRows, Domains
  <2>3. QED
    BY <1>1, <1>2, <1>3, <1>4, <1>5, <2>1, <2>2, SentinelAssumption DEF Safe, HoldsConfig, SnapshotOfRows,
       Prepared, CreatesOwnTables, RecordsAccounted, InTx, Writing
<1>6. CASE q # p
  <2>1. tx'[q] = tx[q] /\ lock # q /\ lock' # q
    BY <1>1, <1>2, <1>3, <1>6, SentinelAssumption DEF Domains
  <2>2. HoldsConfig(q)' /\ Prepared(q)'
    BY <1>1, <1>3, <2>1 DEF Safe, HoldsConfig, Prepared
  <2>3. CreatesOwnTables(q)' /\ RecordsAccounted(q)'
    BY <1>1, <1>3, <1>4, <2>1 DEF Safe, CreatesOwnTables, RecordsAccounted
  <2>4. SnapshotOfRows(q)'
    <3>1. p \in CommittedSince(q)' /\ CommittedSince(q)' = CommittedSince(q) \union {p}
      BY <1>1, <1>2, <1>3 DEF Safe, SnapshotOfRows, CommittedSince, Domains
    <3>2. UNION {own[i] : i \in CommittedSince(q) \union {p}}
            = own[p] \union UNION {own[i] : i \in CommittedSince(q)}
      OBVIOUS
    <3>3. seen[q] \subseteq {i \in Importers : tx'[i] = "committed"}
      BY <1>1, <1>2, <1>3 DEF Safe, SnapshotOfRows, Domains
    <3>4. QED
      BY <1>1, <1>3, <2>1, <3>1, <3>2, <3>3 DEF Safe, SnapshotOfRows
  <2>5. QED
    BY <2>2, <2>3, <2>4 DEF Safe
<1>7. QED
  BY <1>5, <1>6
-----------------------------------------------------------------------------
LEMMA NextSafe ==
  ASSUME SInv, [Next]_vars
  PROVE  SInv'
PROOF
<1>1. TInv /\ TInv'
  BY NextTyped DEF SInv
<1>2. SUFFICES (\A q \in Importers : Safe(q)') /\ ExactImport'
  BY <1>1 DEF SInv
<1>3. CASE UNCHANGED vars \/ \E f \in Changeable : ChangeInput(f)
  <2>1. DatabaseKept /\ CommittedKept /\ lock' = lock /\ \A q \in Importers : Untouched(q)
    BY <1>3 DEF vars, ChangeInput, Untouched, DatabaseKept, CommittedKept, database, memory, txState
  <2>2. QED
    BY <2>1, OthersSafe, ExactKept DEF SInv
<1>4. ASSUME NEW p \in Importers, Quiet(p)
      PROVE  (\A q \in Importers : Safe(q)') /\ ExactImport'
  <2>1. DatabaseKept /\ CommittedKept
        /\ \A q \in Importers \ {p} : Untouched(q) /\ (lock' = q <=> lock = q)
    BY <1>1, <1>4, QuietKeeps
  <2>2. Safe(p)'
    BY <1>1, <1>4, <2>1, SafeQuiet DEF SInv
  <2>3. \A q \in Importers \ {p} : Safe(q)'
    BY <2>1, OthersSafe DEF SInv
  <2>4. QED
    BY <2>1, <2>2, <2>3, ExactKept DEF SInv
<1>5. ASSUME NEW p \in Importers, ServerCommits(p)
      PROVE  (\A q \in Importers : Safe(q)') /\ ExactImport'
  BY <1>5, SafeAfterCommit, ExactAfterCommit
<1>6. QED
  BY <1>3, <1>4, <1>5 DEF Next, Terminated, Server, Quiet

LEMMA InitSafe ==
  ASSUME Init
  PROVE  SInv
PROOF
<1>1. SUFFICES ASSUME NEW p \in Importers PROVE Safe(p) /\ tx[p] # "committed"
  BY InitTyped DEF SInv, ExactImport
<1>2. /\ pc[p] = "open" /\ lock = NoOne /\ tx[p] = "none" /\ seen[p] = {} /\ created[p] = {}
      /\ own[p] = {} /\ batch[p] = NoBatch /\ dirty[p] = FALSE
  BY DEF Init
<1>3. QED
  BY <1>2, SentinelAssumption DEF Safe, HoldsConfig, SnapshotOfRows, Prepared, CreatesOwnTables,
     RecordsAccounted, BeforeTx, InTx, Writing

(* The invariant holds in every reachable state.                           *)
THEOREM SafetyInvariant == Spec => []SInv
PROOF
<1>1. Init => SInv
  BY InitSafe
<1>2. SInv /\ [Next]_vars => SInv'
  BY NextSafe
<1>3. QED
  BY <1>1, <1>2, PTL DEF Spec

(***************************************************************************)
(* The invariant that TLC checks on small instances holds for any number   *)
(* of runs, any plans, any batch size and with or without faults: what a   *)
(* run knows of its inputs, its transaction and the database at each step  *)
(* of Import (import.go:54-262).                                           *)
(***************************************************************************)
THEOREM Invariant == Spec => []IInv
PROOF
<1>1. SInv => IInv
  BY DEF SInv, TInv, Safe, Typed, IInv, RunInv
<1>2. QED
  BY <1>1, SafetyInvariant, PTL

(***************************************************************************)
(* A committed import has put exactly its agreed records into every        *)
(* namespace it wrote to, whatever other runs, retries, changed files and  *)
(* faults do: the emptiness check, the batches, the digests and            *)
(* serializability together leave no gap.                                  *)
(***************************************************************************)
THEOREM Exactness == Spec => []ExactImport
PROOF
<1>1. SInv => ExactImport
  BY DEF SInv
<1>2. QED
  BY <1>1, SafetyInvariant, PTL

(***************************************************************************)
(* Only a COMMIT that takes effect changes the database: no table, entry   *)
(* or row of a run that fails, is cut off or crashes survives it.          *)
(***************************************************************************)
THEOREM NoTrace == Spec => NoTraceWithoutCommit
PROOF
<1> DEFINE Commits == \E p \in Importers : tx[p] = "deciding" /\ tx'[p] = "committed"
<1>1. TInv /\ [Next]_vars => [database' # database => Commits]_vars
  <2>1. SUFFICES ASSUME TInv, Next, database' # database
                 PROVE  Commits
    OBVIOUS
  <2>2. Domains
    BY <2>1, TypedDomains DEF TInv
  <2>3. ASSUME NEW p \in Importers, ServerCommits(p)
        PROVE  Commits
    BY <2>2, <2>3 DEF ServerCommits, Domains
  <2>4. ASSUME NEW p \in Importers, Quiet(p)
        PROVE  FALSE
    BY <2>1, <2>4, QuietKeeps DEF DatabaseKept
  <2>5. ASSUME NEW f \in Changeable, ChangeInput(f)
        PROVE  FALSE
    BY <2>1, <2>5 DEF ChangeInput
  <2>6. ~UNCHANGED vars
    BY <2>1 DEF vars, database
  <2>7. QED
    BY <2>1, <2>3, <2>4, <2>5, <2>6 DEF Next, Terminated, Server, Quiet
<1>2. QED
  BY <1>1, TypingInvariant, PTL DEF Spec, NoTraceWithoutCommit
-----------------------------------------------------------------------------
(***************************************************************************)
(* Promises.                                                               *)
(***************************************************************************)

(* Every step is a commit, or leaves the database and what is committed    *)
(* alone and belongs to at most one run.                                   *)
Silent ==
  /\ DatabaseKept /\ CommittedKept /\ lock' = lock /\ counted' = counted
  /\ \A q \in Importers : Untouched(q)

LEMMA ThreeKinds ==
  ASSUME [Next]_vars
  PROVE  Silent \/ \E p \in Importers : Quiet(p) \/ ServerCommits(p)
PROOF
<1>1. CASE UNCHANGED vars \/ \E f \in Changeable : ChangeInput(f)
  BY <1>1 DEF vars, ChangeInput, Silent, Untouched, DatabaseKept, CommittedKept, database, memory, txState
<1>2. CASE \E p \in Importers : Step(p) \/ Server(p) \/ Fault(p)
  BY <1>2 DEF Server, Quiet
<1>3. QED
  BY <1>1, <1>2 DEF Next, Terminated

(* A commit changes the database and the state of the transaction only.    *)
LEMMA CommitEffect ==
  ASSUME SInv, NEW p \in Importers, ServerCommits(p)
  PROVE  /\ Domains /\ TInv /\ Safe(p)
         /\ tx[p] = "deciding" /\ lock = p /\ lock' = NoOne
         /\ tx' = [tx EXCEPT ![p] = "committed"]
         /\ rows' = rows \union own[p]
         /\ config' = snap[p].config
         /\ meta' = [t \in Targets |-> IF t \in TargetsOf(MyPlan(p)) THEN snap[p].meta[t] ELSE meta[t]]
         /\ tables' = tables \union created[p]
         /\ NetworkBound(p) /\ \A t \in TargetsOf(MyPlan(p)) : BoundFor(p, t)
         /\ UNCHANGED <<pc, pos, held, own, created, counted>>
PROOF
<1>1. Domains /\ TInv /\ Safe(p) /\ tx[p] = "deciding"
  BY TypedDomains DEF SInv, TInv, ServerCommits
<1>2. lock = p /\ NetworkBound(p) /\ \A t \in TargetsOf(MyPlan(p)) : BoundFor(p, t)
  BY <1>1 DEF Safe, HoldsConfig, Prepared
<1>3. QED
  BY <1>1, <1>2 DEF ServerCommits, Release, memory, txState
-----------------------------------------------------------------------------
(* What committed imports have bound.  That their policies are policies is *)
(* what makes a later import agree with them: it finds an entry in _meta.  *)
PoliciesKnown ==
  \A p \in Importers : tx[p] = "committed" =>
    \A t \in TargetsOf(MyPlan(p)) : MyPlan(p).policies[t] # NoPolicy

Bindings == SInv /\ BoundTogether /\ PoliciesKnown

LEMMA EntryIsARow ==
  ASSUME NEW v \in Envelopes \union Policies
  PROVE  [value |-> v, version |-> 0] # NoRow
BY SentinelAssumption

LEMMA BindingsKept ==
  ASSUME Bindings, DatabaseKept, CommittedKept
  PROVE  BoundTogether' /\ PoliciesKnown'
PROOF
<1>1. config' = config /\ meta' = meta /\ tables' = tables
  BY DEF DatabaseKept, database
<1>2. ASSUME NEW p \in Importers, tx'[p] = "committed"
      PROVE  tx[p] = "committed" /\ MyPlan(p)' = MyPlan(p)
  BY <1>2 DEF CommittedKept, MyPlan
<1>3. QED
  BY <1>1, <1>2 DEF Bindings, BoundTogether, PoliciesKnown

LEMMA CommitBinds ==
  ASSUME Bindings, NEW p \in Importers, ServerCommits(p)
  PROVE  BoundTogether' /\ PoliciesKnown'
PROOF
<1> DEFINE plan == MyPlan(p)
           entry(t) == [value |-> plan.policies[t], version |-> 0]
<1>1. /\ Domains /\ TInv /\ tx[p] = "deciding"
      /\ tx' = [tx EXCEPT ![p] = "committed"] /\ held' = held
      /\ config' = snap[p].config /\ tables' = tables \union created[p]
      /\ meta' = [t \in Targets |-> IF t \in TargetsOf(plan) THEN snap[p].meta[t] ELSE meta[t]]
      /\ NetworkBound(p) /\ \A t \in TargetsOf(plan) : BoundFor(p, t)
  BY CommitEffect DEF Bindings
<1>2. /\ TargetsOf(plan) \subseteq Targets /\ plan.envelope \in Envelopes
      /\ plan.policies \in [Targets -> Policies \union {NoPolicy}]
  BY <1>1, TargetsType, PlanUsable, PlanFacts
<1>3. config' = [value |-> plan.envelope, version |-> 0] /\ config' # NoRow
  BY <1>1, <1>2, EntryIsARow DEF NetworkBound
<1>4. config = NoRow \/ SameConfig(config, plan.envelope)
  BY <1>1 DEF NetworkBound
<1>5. \A t \in TargetsOf(plan) :
        /\ t \in tables' /\ meta'[t] = entry(t)
        /\ plan.policies[t] # NoPolicy /\ meta[t] \in {NoRow, entry(t)}
  BY <1>1, <1>2 DEF BoundFor
<1>6. ASSUME NEW q \in Importers, tx'[q] = "committed"
      PROVE  /\ MyPlan(q)' = MyPlan(q)
             /\ config' # NoRow /\ SameConfig(config', MyPlan(q).envelope)
             /\ \A t \in TargetsOf(MyPlan(q)) :
                  /\ t \in tables'
                  /\ meta'[t] = [value |-> MyPlan(q).policies[t], version |-> 0]
                  /\ MyPlan(q).policies[t] # NoPolicy
  <2>1. MyPlan(q)' = MyPlan(q)
    BY <1>1 DEF MyPlan
  <2>2. CASE q = p
    BY <1>3, <1>5, <2>1, <2>2 DEF SameConfig
  <2>3. CASE q # p
    <3>1. tx[q] = "committed"
      BY <1>1, <1>6, <2>3 DEF Domains
    <3>2. /\ config # NoRow /\ SameConfig(config, MyPlan(q).envelope)
          /\ \A t \in TargetsOf(MyPlan(q)) :
               /\ t \in tables /\ MyPlan(q).policies[t] # NoPolicy
               /\ meta[t] = [value |-> MyPlan(q).policies[t], version |-> 0]
      BY <3>1 DEF Bindings, BoundTogether, PoliciesKnown
    <3>3. SameConfig(config', MyPlan(q).envelope)
      BY <1>3, <1>4, <3>2 DEF SameConfig
    <3>4. /\ TargetsOf(MyPlan(q)) \subseteq Targets
          /\ MyPlan(q).policies \in [Targets -> Policies \union {NoPolicy}]
      BY <1>1, <3>1, TargetsType, PlanUsable, PlanFacts
    <3>5. ASSUME NEW t \in TargetsOf(MyPlan(q))
          PROVE  meta'[t] = meta[t]
      <4>1. meta[t] # NoRow
        BY <3>2, <3>4, <3>5, EntryIsARow
      <4>2. QED
        BY <1>1, <1>5, <3>4, <3>5, <4>1
    <3>6. QED
      BY <1>1, <1>3, <2>1, <3>2, <3>3, <3>5
  <2>4. QED
    BY <2>2, <2>3
<1>7. BoundTogether'
  BY <1>6 DEF BoundTogether, SameConfig, TargetsOf
<1>8. PoliciesKnown'
  <2> SUFFICES ASSUME NEW q \in Importers, (tx[q] = "committed")',
                      NEW t \in (TargetsOf(MyPlan(q)))'
               PROVE  (MyPlan(q).policies[t] # NoPolicy)'
    BY DEF PoliciesKnown
  <2>1. MyPlan(q)' = MyPlan(q)
    BY <1>6
  <2>2. t \in TargetsOf(MyPlan(q))
    BY <2>1 DEF TargetsOf
  <2> QED
    BY <1>6, <2>1, <2>2
<1>9. QED
  BY <1>7, <1>8

(***************************************************************************)
(* Imports that are committed agree on the network's configuration with    *)
(* the one row of _config and find their policies in _meta, however many   *)
(* there are and in whatever order they ran.                               *)
(***************************************************************************)
THEOREM Binding == Spec => []BoundTogether
PROOF
<1>1. Init => Bindings
  BY InitSafe DEF Init, Bindings, BoundTogether, PoliciesKnown
<1>2. Bindings /\ [Next]_vars => Bindings'
  <2>1. SUFFICES ASSUME Bindings, [Next]_vars
                 PROVE  BoundTogether' /\ PoliciesKnown'
    BY NextSafe DEF Bindings
  <2>2. CASE Silent
    BY <2>1, <2>2, BindingsKept DEF Silent
  <2>3. ASSUME NEW p \in Importers, Quiet(p)
        PROVE  BoundTogether' /\ PoliciesKnown'
    BY <2>1, <2>3, BindingsKept, QuietKeeps DEF Bindings, SInv
  <2>4. ASSUME NEW p \in Importers, ServerCommits(p)
        PROVE  BoundTogether' /\ PoliciesKnown'
    BY <2>1, <2>4, CommitBinds
  <2>5. QED
    BY <2>1, <2>2, <2>3, <2>4, ThreeKinds
<1>3. Bindings => BoundTogether
  BY DEF Bindings
<1>4. QED
  BY <1>1, <1>2, <1>3, PTL DEF Spec
-----------------------------------------------------------------------------
(* Whoever has anything pending holds the row of _config.  Before its      *)
(* ensureEntry a transaction has created nothing but the system tables.    *)
WritersHoldConfig ==
  \A p \in Importers :
    /\ HasPendingWrites(p) => lock = p
    /\ pc[p] = "config" => created[p] \subseteq {System}

LEMMA PendingKept ==
  ASSUME SInv, WritersHoldConfig, NEW q \in Importers, Untouched(q), lock' = q <=> lock = q
  PROVE  /\ HasPendingWrites(q)' => lock' = q
         /\ pc'[q] = "config" => created'[q] \subseteq {System}
BY DEF WritersHoldConfig, HasPendingWrites, Untouched

(* A run that is gone leaves its transaction as it was.                    *)
LEMMA GoneQuietly ==
  ASSUME SInv, NEW p \in Importers, Quiet(p), pc'[p] \in Ended, tx'[p] = "active"
  PROVE  UNCHANGED <<lock, created, own>> /\ tx[p] = "active"
PROOF
<1>1. Domains /\ Typed(p)
  BY TypedDomains DEF SInv, TInv
<1>2. ~Fail(p)
  BY <1>1 DEF Fail, Discard, Domains
<1>3. CASE Step(p)
  <2>1. CASE CommitReturned(p) \/ WriteReport(p)
    BY <1>1, <2>1 DEF CommitReturned, WriteReport, Typed, Transaction
  <2>2. CASE ReadInput(p) \/ Preflight(p) \/ RevalidateBefore(p) \/ CheckDatabase(p)
    BY <1>1, <1>2, <2>2 DEF ReadInput, Loop, Preflight, RevalidateBefore, Compare, CheckDatabase, Goto, Domains, Ended
  <2>3. CASE Begin(p) \/ EnsureConfig(p) \/ CreateNamespace(p) \/ EnsureNamespace(p)
    BY <1>1, <1>2, <2>3 DEF Begin, EnsureConfig, CreateNamespace, EnsureNamespace, Loop, Goto, Domains, Ended
  <2>4. CASE Deliver(p)
    BY <1>1, <1>2, <2>4 DEF Deliver, Yield, Loop, Goto, Domains, Ended
  <2>5. CASE EndOfFile(p) \/ WalkFails(p) \/ FlushLast(p)
    BY <1>1, <1>2, <2>5 DEF EndOfFile, WalkFails, FlushLast, Loop, Goto, Domains, Ended
  <2>6. CASE Verify(p) \/ RevalidateAfter(p) \/ SendCommit(p)
    BY <1>1, <1>2, <2>6 DEF Verify, RevalidateAfter, Compare, SendCommit, Loop, Goto, Domains, Ended
  <2>7. QED
    BY <1>3, <2>1, <2>2, <2>3, <2>4, <2>5, <2>6 DEF Step
<1>4. CASE ServerRejects(p) \/ ServerAborts(p)
  BY <1>1, <1>4 DEF ServerRejects, ServerAborts, Discard, Domains
<1>5. CASE Fault(p)
  BY <1>2, <1>5 DEF Fault, ReportError, LoseConnection, ReportLost, Crash, txState
<1>6. QED
  BY <1>3, <1>4, <1>5 DEF Quiet

LEMMA OnlySystemTables ==
  ASSUME SInv, WritersHoldConfig, NEW p \in Importers, Quiet(p), pc'[p] = "config"
  PROVE  created'[p] \subseteq {System}
PROOF
<1>1. Domains /\ Typed(p) /\ Safe(p)
  BY TypedDomains DEF SInv, TInv
<1>2. CASE Begin(p)
  <2>1. tx[p] = "none" /\ transactionalDDL
    BY <1>1, <1>2 DEF Begin, Typed, Transaction, BeforeTx
  <2>2. created[p] = {} /\ created'[p] = created[p] \union {System}
    BY <1>1, <1>2, <2>1 DEF Begin, CreateTable, Safe, CreatesOwnTables, Domains
  <2>3. QED
    BY <2>2
<1>3. CASE ServerRejects(p) \/ ServerAborts(p)
  BY <1>1, <1>3 DEF ServerRejects, ServerAborts, Discard, Domains
<1>4. ~Fail(p) /\ ~Fault(p)
  BY <1>1 DEF Fault, ReportError, LoseConnection, ReportLost, Crash, Fail, Stop, Goto, Domains
<1>5. CASE Step(p) /\ ~Begin(p)
  BY <1>1, <1>4, <1>5 DEF Step, ReadInput, Loop, Preflight, RevalidateBefore, RevalidateAfter,
     Compare, CheckDatabase, EnsureConfig, CreateNamespace, EnsureNamespace, Deliver, Yield,
     EndOfFile, WalkFails, FlushLast, Verify, SendCommit, CommitReturned, WriteReport, Goto, Domains
<1>6. QED
  BY <1>2, <1>3, <1>4, <1>5 DEF Quiet

LEMMA WriterHolds ==
  ASSUME SInv, SInv', WritersHoldConfig, NEW p \in Importers, Quiet(p), HasPendingWrites(p)'
  PROVE  lock' = p
PROOF
<1>1. Typed(p)' /\ Safe(p)' /\ pc'[p] \in Stages /\ tx'[p] \in {"active", "deciding"}
  BY DEF SInv, TInv, TypeOK, HasPendingWrites
<1>2. CASE pc'[p] \in {"create", "ensure"} \union Writing \/ tx'[p] = "deciding"
  BY <1>1, <1>2 DEF Safe, HoldsConfig
<1>3. CASE pc'[p] = "config"
  <2>1. own'[p] = {} /\ created'[p] \subseteq {System}
    BY <1>1, <1>3, OnlySystemTables DEF Safe, RecordsAccounted
  <2>2. QED
    BY <2>1, SentinelAssumption DEF HasPendingWrites
<1>4. CASE pc'[p] \in Ended /\ tx'[p] = "active"
  BY <1>4, GoneQuietly DEF WritersHoldConfig, HasPendingWrites
<1>5. QED
  BY <1>1, <1>2, <1>3, <1>4 DEF Typed, Transaction, Stages, Running, Ended, BeforeTx, InTx, Writing

LEMMA NextWriters ==
  ASSUME SInv, WritersHoldConfig, [Next]_vars
  PROVE  WritersHoldConfig'
PROOF
<1>1. CASE Silent
  <2>1. ASSUME NEW q \in Importers
        PROVE  Untouched(q) /\ (lock' = q <=> lock = q)
    BY <1>1 DEF Silent
  <2>2. QED
    BY <2>1, PendingKept DEF WritersHoldConfig
<1>2. ASSUME NEW p \in Importers, Quiet(p)
      PROVE  WritersHoldConfig'
  <2>1. \A q \in Importers \ {p} : Untouched(q) /\ (lock' = q <=> lock = q)
    BY <1>2, QuietKeeps DEF SInv
  <2>2. (HasPendingWrites(p)' => lock' = p) /\ (pc'[p] = "config" => created'[p] \subseteq {System})
    BY <1>2, NextSafe, WriterHolds, OnlySystemTables
  <2>3. QED
    BY <2>1, <2>2, PendingKept DEF WritersHoldConfig
<1>3. ASSUME NEW p \in Importers, ServerCommits(p)
      PROVE  WritersHoldConfig'
  <2>1. /\ Domains /\ lock = p /\ tx' = [tx EXCEPT ![p] = "committed"]
        /\ UNCHANGED <<pc, own, created>>
    BY <1>3, CommitEffect
  <2>2. ASSUME NEW q \in Importers, HasPendingWrites(q)'
        PROVE  FALSE
    <3>1. q # p /\ HasPendingWrites(q)
      BY <2>1, <2>2 DEF HasPendingWrites, Domains
    <3>2. QED
      BY <2>1, <3>1 DEF WritersHoldConfig
  <2>3. QED
    BY <2>1, <2>2 DEF WritersHoldConfig
<1>4. QED
  BY <1>1, <1>2, <1>3, ThreeKinds

(***************************************************************************)
(* "The normal configuration row serializes imports" (import.go:196): two  *)
(* transactions never have application tables or rows pending together,    *)
(* whether their clients run, wait for the answer to COMMIT or are gone.   *)
(***************************************************************************)
THEOREM Serialization == Spec => []ImportsSerialized
PROOF
<1>1. Init => SInv /\ WritersHoldConfig
  BY InitSafe DEF Init, WritersHoldConfig, HasPendingWrites
<1>2. (SInv /\ WritersHoldConfig) /\ [Next]_vars => (SInv /\ WritersHoldConfig)'
  BY NextSafe, NextWriters
<1>3. SInv /\ WritersHoldConfig => ImportsSerialized
  BY DEF WritersHoldConfig, ImportsSerialized
<1>4. QED
  BY <1>1, <1>2, <1>3, PTL DEF Spec
-----------------------------------------------------------------------------
(* From the comparison of counts on, the report says what the plan says.   *)
Reported(p) ==
  \A t \in Targets : counted[p][t] = Cardinality(RowsOf(AllRows(MyPlan(p)), t))

Reporting == {"revalidate", "commit", "committing", "report", "succeeded"}

CountsReported == \A p \in Importers : pc[p] \in Reporting => Reported(p)

LEMMA ReportedKept ==
  ASSUME NEW q \in Importers, held'[q] = held[q], counted'[q] = counted[q],
         pc'[q] \in Reporting => pc[q] \in Reporting, pc[q] \in Reporting => Reported(q)
  PROVE  pc'[q] \in Reporting => Reported(q)'
PROOF
<1>1. MyPlan(q)' = MyPlan(q)
  BY DEF MyPlan
<1>2. QED
  BY <1>1 DEF Reported, AllRows, RowsUpTo, RowsOf

(* Verify counts what the transaction finds, which is what it inserted.    *)
LEMMA VerifyReports ==
  ASSUME SInv, NEW p \in Importers, Verify(p), ~Fail(p)
  PROVE  Reported(p)'
PROOF
<1> DEFINE plan == MyPlan(p)
<1>1. Domains /\ TInv /\ Safe(p) /\ Typed(p) /\ pc[p] = "verify"
  BY TypedDomains DEF SInv, TInv, Verify
<1>2. tx[p] = "active" /\ own[p] = AllRows(plan) /\ \A t \in TargetsOf(plan) : BoundFor(p, t)
  BY <1>1 DEF Typed, Transaction, InTx, Writing, Safe, RecordsAccounted, Prepared
<1>3. plan' = plan /\ DOMAIN counted = Importers
      /\ counted' = [counted EXCEPT ![p] =
           [t \in Targets |-> IF t \in TargetsOf(plan) THEN Cardinality(Found(p, t)) ELSE 0]]
  BY <1>1 DEF Verify, MyPlan, TInv, TypeOK
<1>4. ASSUME NEW t \in Targets
      PROVE  counted'[p][t] = Cardinality(RowsOf(AllRows(plan), t))
  <2>1. CASE t \in TargetsOf(plan)
    <3>1. Found(p, t) = RowsOf(AllRows(plan), t)
      BY <1>2, <2>1 DEF Found, RowsOf, BoundFor, HasRows
    <3>2. QED
      BY <1>3, <2>1, <3>1
  <2>2. CASE t \notin TargetsOf(plan)
    <3>1. RowsOf(AllRows(plan), t) = {}
      BY <1>1, <1>2, <2>2, RowsAreTargeted DEF RowsOf
    <3>2. QED
      BY <1>3, <2>2, <3>1, FS_EmptySet
  <2>3. QED
    BY <2>1, <2>2
<1>5. \A t \in Targets : RowsOf(AllRows(plan), t)' = RowsOf(AllRows(plan), t)
  BY <1>3 DEF AllRows, RowsUpTo, RowsOf
<1>6. SUFFICES ASSUME NEW t \in Targets
               PROVE  counted'[p][t] = Cardinality(RowsOf(AllRows(plan), t))'
  BY DEF Reported
<1> HIDE DEF plan
<1>7. QED
  BY <1>4, <1>5

(* Nobody else touches a run's counts, and the report is only reached      *)
(* through the comparison.                                                 *)
LEMMA CountsElsewhere ==
  ASSUME Domains, NEW p \in Importers, Quiet(p) \/ ServerCommits(p), ~Verify(p) \/ Fail(p)
  PROVE  counted' = counted /\ (pc'[p] \in Reporting => pc[p] \in Reporting /\ held'[p] = held[p])
PROOF
<1>1. CASE Fail(p)
  BY <1>1 DEF Fail, Stop, Goto, Domains, Reporting
<1>2. CASE Step(p) /\ ~Fail(p)
  <2>1. CASE ReadInput(p) \/ Preflight(p) \/ CheckDatabase(p)
    BY <1>2, <2>1 DEF ReadInput, Loop, Preflight, CheckDatabase, Goto, Domains, memory, Reporting
  <2>2. CASE RevalidateBefore(p) \/ RevalidateAfter(p)
    <3>1. PICK next \in {"connect", "commit"} :
            /\ Compare(p, next)
            /\ pc[p] = IF next = "connect" THEN "recheck" ELSE "revalidate"
      BY <2>2 DEF RevalidateBefore, RevalidateAfter
    <3>2. /\ Goto(p, next) \/ UNCHANGED pc
          /\ UNCHANGED <<held, counted>>
      BY <1>2, <3>1 DEF Compare
    <3>3. QED
      BY <3>1, <3>2 DEF Goto, Domains, Reporting
  <2>3. CASE Begin(p)
    BY <2>3 DEF Begin, CreateTable, Goto, Domains, memory, Reporting
  <2>4. CASE EnsureConfig(p) \/ CreateNamespace(p) \/ EnsureNamespace(p)
    BY <1>2, <2>4 DEF EnsureConfig, CreateNamespace, CreateTable, EnsureNamespace, Loop, Goto, Domains,
       memory, Reporting
  <2>5. CASE Deliver(p)
    BY <1>2, <2>5 DEF Deliver, Yield, Domains, memory, Reporting
  <2>6. CASE EndOfFile(p) \/ WalkFails(p) \/ FlushLast(p)
    BY <1>2, <2>6 DEF EndOfFile, WalkFails, FlushLast, Loop, Goto, Domains, memory, Reporting
  <2>7. CASE SendCommit(p) \/ CommitReturned(p) \/ WriteReport(p)
    BY <1>2, <2>7 DEF SendCommit, CommitReturned, WriteReport, Goto, Domains, memory, Reporting
  <2>8. QED
    BY <1>2, <2>1, <2>2, <2>4, <2>5, <2>6, <2>7, <2>3 DEF Step
<1>3. CASE Server(p) \/ (Fault(p) /\ ~Fail(p))
  BY <1>3 DEF Server, ServerCommits, ServerRejects, ServerAborts, Discard, memory, Fault, ReportError,
     LoseConnection, ReportLost, Crash, Stop, Goto, Domains, Reporting
<1>4. QED
  BY <1>1, <1>2, <1>3 DEF Quiet, Server

LEMMA NextCounts ==
  ASSUME SInv, CountsReported, [Next]_vars
  PROVE  CountsReported'
PROOF
<1>1. Domains /\ DOMAIN counted = Importers
  BY TypedDomains DEF SInv, TInv, TypeOK
<1>2. CASE Silent
  BY <1>2, ReportedKept DEF Silent, Untouched, CountsReported
<1>3. ASSUME NEW p \in Importers, Quiet(p) \/ ServerCommits(p), NEW q \in Importers
      PROVE  pc'[q] \in Reporting => Reported(q)'
  <2>1. CASE q # p
    <3>1. Untouched(q)
      BY <1>1, <1>3, <2>1, StepLocal, ServerLocal, FaultLocal DEF Quiet, Server
    <3>2. counted'[q] = counted[q]
      BY <1>1, <1>3, <2>1, CountsElsewhere DEF Verify
    <3>3. QED
      BY <3>1, <3>2, ReportedKept DEF Untouched, CountsReported
  <2>2. CASE q = p /\ Verify(p) /\ ~Fail(p)
    BY <2>2, VerifyReports
  <2>3. CASE q = p /\ (~Verify(p) \/ Fail(p))
    <3>1. CASE pc'[p] \in Reporting
      BY <1>1, <1>3, <2>3, <3>1, CountsElsewhere, ReportedKept DEF CountsReported
    <3>2. QED
      BY <2>3, <3>1
  <2>4. QED
    BY <2>1, <2>2, <2>3
<1>4. QED
  BY <1>2, <1>3, ThreeKinds DEF CountsReported

LEMMA ReportIsTrue ==
  ASSUME SInv, CountsReported
  PROVE  TruthfulReport
PROOF
<1>1. SUFFICES ASSUME NEW p \in Importers, pc[p] \in {"report", "succeeded"}
               PROVE  /\ tx[p] = "committed"
                      /\ \A t \in Targets :
                           counted[p][t] = IF t \in Written(p) THEN Cardinality(RowsOf(rows, t)) ELSE 0
  BY DEF TruthfulReport
<1>2. tx[p] = "committed"
  BY <1>1 DEF SInv, TInv, Typed, Transaction
<1>3. own[p] = AllRows(MyPlan(p))
  BY <1>2 DEF SInv, Safe, RecordsAccounted
<1>4. ASSUME NEW t \in Targets
      PROVE  counted[p][t] = IF t \in Written(p) THEN Cardinality(RowsOf(rows, t)) ELSE 0
  <2>1. counted[p][t] = Cardinality(RowsOf(AllRows(MyPlan(p)), t))
    BY <1>1 DEF CountsReported, Reporting, Reported
  <2>2. CASE t \in Written(p)
    <3>1. PICK r \in AllRows(MyPlan(p)) : r.ns = t
      BY <1>3, <2>2 DEF Written
    <3>2. RowsOf(rows, t) = RowsOf(AllRows(MyPlan(p)), t)
      BY <1>2, <3>1 DEF SInv, ExactImport
    <3>3. QED
      BY <2>1, <2>2, <3>2
  <2>3. CASE t \notin Written(p)
    <3>1. RowsOf(AllRows(MyPlan(p)), t) = {}
      BY <1>3, <2>3 DEF Written, RowsOf
    <3>2. QED
      BY <2>1, <2>3, <3>1, FS_EmptySet
  <2>4. QED
    BY <2>2, <2>3
<1>5. QED
  BY <1>2, <1>4

(***************************************************************************)
(* A report that may be printed, or was, is about a committed transaction  *)
(* and counts the rows that are in the database.                           *)
(***************************************************************************)
THEOREM Truthfulness == Spec => []TruthfulReport
PROOF
<1>1. Init => SInv /\ CountsReported
  BY InitSafe DEF Init, CountsReported, Reporting
<1>2. (SInv /\ CountsReported) /\ [Next]_vars => (SInv /\ CountsReported)'
  BY NextSafe, NextCounts
<1>3. SInv /\ CountsReported => TruthfulReport
  BY ReportIsTrue
<1>4. QED
  BY <1>1, <1>2, <1>3, PTL DEF Spec
-----------------------------------------------------------------------------
(* The refinement.  A commit is ACommit with the inputs the run holds;     *)
(* a run that is undone is AAbort; nothing else is seen.                   *)
LEMMA CommitImplements ==
  ASSUME SInv, NEW p \in Importers, ServerCommits(p)
  PROVE  Abstract!ACommit(p)
PROOF
<1> DEFINE plan == MyPlan(p)
           outcome == [q \in Importers |-> Outcome(q)]
<1>1. /\ Domains /\ TInv /\ Safe(p) /\ tx[p] = "deciding"
      /\ tx' = [tx EXCEPT ![p] = "committed"] /\ rows' = rows \union own[p]
      /\ config' = snap[p].config /\ tables' = tables \union created[p]
      /\ meta' = [t \in Targets |-> IF t \in TargetsOf(plan) THEN snap[p].meta[t] ELSE meta[t]]
      /\ NetworkBound(p) /\ \A t \in TargetsOf(plan) : BoundFor(p, t)
  BY CommitEffect
<1>2. held[p] \in [FilesOf(p) -> Versions] /\ plan # Rejected /\ plan = PlanOf(p, held[p])
  BY <1>1, PlanUsable DEF MyPlan
<1>3. own[p] = AllRows(plan) /\ created[p] = TargetsOf(plan) \union {System}
  BY <1>1 DEF Safe, RecordsAccounted, CreatesOwnTables, Prepared, BoundFor
<1>4. outcome[p] = "pending" /\ outcome' = [outcome EXCEPT ![p] = "committed"]
  BY <1>1 DEF Outcome, Domains
<1>5. \A r \in rows, n \in AllRows(plan) : r.ns # n.ns
  BY <1>3, CommitsIntoEmpty DEF RowsOf
<1>6. /\ config = NoRow \/ SameConfig(config, plan.envelope)
      /\ config' = [value |-> plan.envelope, version |-> 0]
      /\ \A t \in TargetsOf(plan) :
           plan.policies[t] # NoPolicy /\ meta[t] \in {NoRow, [value |-> plan.policies[t], version |-> 0]}
      /\ meta' = [t \in Targets |-> IF t \in TargetsOf(plan)
                                    THEN [value |-> plan.policies[t], version |-> 0] ELSE meta[t]]
      /\ rows' = rows \union AllRows(plan)
      /\ tables' = tables \union TargetsOf(plan) \union {System}
  BY <1>1, <1>3 DEF NetworkBound, BoundFor
<1>7. Abstract!Apply(p, plan)
  <2> HIDE DEF plan, outcome
  <2>1. QED
    BY <1>4, <1>5, <1>6 DEF outcome, Abstract!Apply, Abstract!Entry, Abstract!AllRows, AllRows,
       Abstract!RowsUpTo, RowsUpTo, Abstract!RowFor, RowFor, Abstract!TargetsOf, TargetsOf,
       Abstract!SameConfig, SameConfig
<1>8. QED
  BY <1>2, <1>4, <1>7 DEF Abstract!ACommit, Abstract!FilesOf, FilesOf

LEMMA AbortedStays ==
  ASSUME SInv, NEW p \in Importers, Quiet(p), tx[p] = "aborted"
  PROVE  tx'[p] = "aborted"
PROOF
<1>1. Typed(p) /\ pc[p] \in Stages
  BY DEF SInv, TInv, TypeOK
<1>2. pc[p] \in {"committing"} \union Ended
  BY <1>1 DEF Typed, Transaction, Stages, Running, Ended, BeforeTx, InTx, Writing
<1>3. tx' = tx
  BY <1>2 DEF Quiet, Step, ReadInput, Preflight, RevalidateBefore, RevalidateAfter, CheckDatabase, Begin,
     EnsureConfig, CreateNamespace, EnsureNamespace, Deliver, EndOfFile, WalkFails, FlushLast, Verify,
     SendCommit, CommitReturned, WriteReport, ServerRejects, ServerAborts, Fault, ReportError,
     LoseConnection, ReportLost, Crash, Fail, Running, Ended
<1>4. QED
  BY <1>3

LEMMA QuietImplements ==
  ASSUME SInv, NEW p \in Importers, Quiet(p)
  PROVE  Abstract!AAbort(p) \/ UNCHANGED Abstract!avars
PROOF
<1> DEFINE outcome == [q \in Importers |-> Outcome(q)]
<1>1. DatabaseKept /\ CommittedKept /\ \A q \in Importers \ {p} : Untouched(q)
  BY QuietKeeps DEF SInv
<1>2. UNCHANGED <<tables, config, meta, rows>>
  BY <1>1 DEF DatabaseKept, database
<1>3. \A q \in Importers \ {p} : Outcome(q)' = Outcome(q)
  BY <1>1 DEF Outcome, Untouched
<1>4. CASE Outcome(p)' = Outcome(p)
  <2>1. outcome' = outcome
    BY <1>3, <1>4
  <2>2. QED
    BY <1>2, <2>1 DEF Abstract!avars
<1>5. CASE Outcome(p)' # Outcome(p)
  <2>1. Outcome(p) = "pending" /\ Outcome(p)' = "aborted"
    BY <1>1, <1>5, AbortedStays DEF CommittedKept, Outcome
  <2>2. outcome[p] = "pending" /\ outcome' = [outcome EXCEPT ![p] = "aborted"]
    BY <1>3, <2>1
  <2>3. QED
    BY <1>2, <2>2 DEF Abstract!AAbort
<1>6. QED
  BY <1>4, <1>5

(***************************************************************************)
(* Concurrent imports, with changed inputs, faults and crashes, implement  *)
(* AtomicImport: each changes nothing, or brings in one step the records   *)
(* of one agreed set of inputs into namespaces that are empty until then.  *)
(***************************************************************************)
THEOREM Refinement == Spec => ImplementsAtomicImport
PROOF
<1>1. Init => Abstract!AInit
  BY DEF Init, Abstract!AInit, Outcome
<1>2. SInv /\ [Next]_vars => [Abstract!ANext]_(Abstract!avars)
  <2>1. SUFFICES ASSUME SInv, [Next]_vars
                 PROVE  Abstract!ANext \/ UNCHANGED Abstract!avars
    OBVIOUS
  <2>2. CASE Silent
    <3>1. /\ UNCHANGED <<tables, config, meta, rows>>
          /\ \A q \in Importers : Outcome(q)' = Outcome(q)
      BY <2>2 DEF Silent, DatabaseKept, database, Outcome, Untouched
    <3>2. QED
      BY <3>1 DEF Abstract!avars
  <2>3. ASSUME NEW p \in Importers, Quiet(p) \/ ServerCommits(p)
        PROVE  Abstract!ANext \/ UNCHANGED Abstract!avars
    BY <2>1, <2>3, QuietImplements, CommitImplements DEF Abstract!ANext
  <2>4. QED
    BY <2>1, <2>2, <2>3, ThreeKinds
<1>3. QED
  BY <1>1, <1>2, SafetyInvariant, PTL DEF Spec, ImplementsAtomicImport, Abstract!ASpec
-----------------------------------------------------------------------------
(* Buffering and flushing lose and add nothing, whatever the bytes are:    *)
(* the rows of a transaction and the records of the batch are as many as   *)
(* the items delivered, target by target.  Equal records would be counted  *)
(* twice and stored once; the primary key refuses them.                    *)
LenFor(b, t) == IF b.target = t THEN Len(b.records) ELSE 0

Kept(p, n) ==
  /\ IsFiniteSet(own[p])
  /\ \A t \in Targets :
       Cardinality(RowsOf(own[p], t)) + LenFor(batch[p], t) = Cardinality(ItemsTo(MyPlan(p), n, t))

KeptSoFar(p) ==
  /\ pc[p] = "stream" => Kept(p, pos[p] - 1)
  /\ pc[p] \in {"flush", "verify"} => Kept(p, Len(MyPlan(p).stream))
  /\ pc[p] = "verify" => batch[p].records = <<>>

NothingLost == \A p \in Importers : KeptSoFar(p)

DistinctKeys(b) == \A i, j \in DOMAIN b.records : b.records[i].key = b.records[j].key => i = j

LEMMA BatchCount ==
  ASSUME NEW b \in Batch, DistinctKeys(b)
  PROVE  IsFiniteSet(BatchRows(b)) /\ Cardinality(BatchRows(b)) = Len(b.records)
PROOF
<1> DEFINE n == Len(b.records)
           row == [i \in 1..n |-> RowFor(b.target, b.records[i].key, b.records[i].value)]
<1>1. n \in Nat /\ DOMAIN b.records = 1..n
  BY DEF Batch
<1>2. BatchRows(b) = {row[i] : i \in 1..n}
  BY <1>1 DEF BatchRows
<1>3. \A i, j \in 1..n : row[i] = row[j] => i = j
  BY <1>1 DEF DistinctKeys, RowFor
<1>4. row \in Bijection(1..n, BatchRows(b))
  <2> HIDE DEF n
  <2>1. row \in [1..n -> BatchRows(b)]
    BY <1>2
  <2>2. row \in Injection(1..n, BatchRows(b))
    BY <1>3, <2>1 DEF Injection, IsInjective
  <2>3. row \in Surjection(1..n, BatchRows(b))
    BY <1>2, <2>1 DEF Surjection
  <2>4. QED
    BY <2>2, <2>3 DEF Bijection
<1>5. IsFiniteSet(1..n) /\ Cardinality(1..n) = n
  BY <1>1, FS_Interval
<1>6. QED
  BY <1>4, <1>5, FS_Bijection DEF ExistsBijection

(* Inserting a batch adds its records to the rows of its target.           *)
LEMMA InsertCount ==
  ASSUME NEW S, IsFiniteSet(S), NEW b \in Batch, DistinctKeys(b),
         \A r \in S, n \in BatchRows(b) : r.ns # n.ns \/ r.key # n.key,
         NEW t
  PROVE  /\ IsFiniteSet(S \union BatchRows(b))
         /\ Cardinality(RowsOf(S \union BatchRows(b), t)) = Cardinality(RowsOf(S, t)) + LenFor(b, t)
PROOF
<1>1. IsFiniteSet(BatchRows(b)) /\ Cardinality(BatchRows(b)) = Len(b.records)
  BY BatchCount
<1>2. IsFiniteSet(S \union BatchRows(b))
  BY <1>1, FS_Union
<1>3. IsFiniteSet(RowsOf(S, t)) /\ Cardinality(RowsOf(S, t)) \in Nat
  <2>1. RowsOf(S, t) \subseteq S
    BY DEF RowsOf
  <2>2. QED
    BY <2>1, FS_Subset, FS_CardinalityType
<1>4. \A r \in BatchRows(b) : r.ns = b.target
  BY DEF BatchRows, RowFor
<1>5. CASE b.target = t
  <2>1. RowsOf(S \union BatchRows(b), t) = RowsOf(S, t) \union BatchRows(b)
    BY <1>4, <1>5 DEF RowsOf
  <2>2. RowsOf(S, t) \intersect BatchRows(b) = {}
    BY DEF RowsOf
  <2>3. Cardinality(RowsOf(S, t) \union BatchRows(b))
          = Cardinality(RowsOf(S, t)) + Cardinality(BatchRows(b)) - Cardinality({})
    BY <1>1, <1>3, <2>2, FS_Union
  <2>4. Len(b.records) \in Nat
    BY DEF Batch
  <2>5. Cardinality({}) = 0 /\ LenFor(b, t) = Len(b.records)
    BY <1>5, FS_EmptySet DEF LenFor
  <2>6. Cardinality(RowsOf(S \union BatchRows(b), t)) = Cardinality(RowsOf(S, t) \union BatchRows(b))
    BY <2>1, Zenon
  <2>7. QED
    BY <1>1, <1>2, <1>3, <2>3, <2>4, <2>5, <2>6
<1>6. CASE b.target # t
  <2>1. RowsOf(S \union BatchRows(b), t) = RowsOf(S, t)
    BY <1>4, <1>6 DEF RowsOf
  <2>2. QED
    BY <1>2, <1>3, <1>6, <2>1 DEF LenFor
<1>7. QED
  BY <1>5, <1>6

LEMMA OneMoreItemTo ==
  ASSUME NEW plan, NEW n \in Nat \ {0}, NEW t
  PROVE  /\ Cardinality(ItemsTo(plan, n - 1, t)) \in Nat
         /\ Cardinality(ItemsTo(plan, n, t)) = Cardinality(ItemsTo(plan, n - 1, t))
              + (IF plan.stream[n].kind = "record" /\ plan.stream[n].target = t THEN 1 ELSE 0)
PROOF
<1>1. IsFiniteSet(ItemsTo(plan, n - 1, t))
  <2>1. ItemsTo(plan, n - 1, t) \subseteq 1..(n - 1)
    BY DEF ItemsTo
  <2>2. QED
    BY <2>1, FS_Interval, FS_Subset
<1>2. Cardinality(ItemsTo(plan, n - 1, t)) \in Nat
  BY <1>1, FS_CardinalityType
<1>3. n \notin ItemsTo(plan, n - 1, t)
  BY DEF ItemsTo
<1>4. ItemsTo(plan, n, t) = ItemsTo(plan, n - 1, t) \union
        (IF plan.stream[n].kind = "record" /\ plan.stream[n].target = t THEN {n} ELSE {})
  BY DEF ItemsTo
<1>5. Cardinality(ItemsTo(plan, n - 1, t) \union {n}) = Cardinality(ItemsTo(plan, n - 1, t)) + 1
  BY <1>1, <1>3, FS_AddElement
<1>6. CASE plan.stream[n].kind = "record" /\ plan.stream[n].target = t
  <2>1. ItemsTo(plan, n, t) = ItemsTo(plan, n - 1, t) \union {n}
    BY <1>4, <1>6
  <2>2. Cardinality(ItemsTo(plan, n, t)) = Cardinality(ItemsTo(plan, n - 1, t) \union {n})
    BY <2>1, Zenon
  <2>3. QED
    BY <1>2, <1>5, <1>6, <2>2
<1>7. CASE ~(plan.stream[n].kind = "record" /\ plan.stream[n].target = t)
  <2>1. ItemsTo(plan, n, t) = ItemsTo(plan, n - 1, t)
    BY <1>4, <1>7
  <2>2. QED
    BY <1>2, <1>7, <2>1
<1>8. QED
  BY <1>6, <1>7

(* A record given to the batch is one more for its target.                 *)
LEMMA YieldCounts ==
  ASSUME TInv, NEW p \in Importers, IsFiniteSet(own[p]),
         NEW t \in Targets, NEW r \in [key: Keys, value: Values],
         NEW agreed \in BOOLEAN, Yield(p, t, r, agreed), ~Fail(p), NEW u \in Targets
  PROVE  /\ IsFiniteSet(own'[p])
         /\ Cardinality(RowsOf(own'[p], u)) + LenFor(batch'[p], u)
              = Cardinality(RowsOf(own[p], u)) + LenFor(batch[p], u) + (IF u = t THEN 1 ELSE 0)
PROOF
<1> DEFINE old == batch[p]
           switch == old.target \notin {NoOne, t}
           new == [target |-> t, records |-> Append(IF switch THEN <<>> ELSE old.records, r)]
           full == Len(new.records) = BatchSize
           inserts == (IF switch THEN {old} ELSE {}) \union (IF full THEN {new} ELSE {})
           first == IF switch THEN own[p] \union BatchRows(old) ELSE own[p]
           second == IF full THEN first \union BatchRows(new) ELSE first
<1>1. Domains /\ old \in Batch /\ BatchHasTarget(p)
  BY TypedDomains DEF TInv, TypeOK, Typed
<1>2. /\ own'[p] = own[p] \union UNION {BatchRows(b) : b \in inserts}
      /\ batch'[p] = [target |-> t, records |-> IF full THEN <<>> ELSE new.records]
      /\ \A b \in inserts : Insertable(p, b)
  BY <1>1 DEF Yield, Domains
<1>3. old.records \in Seq([key: Keys, value: Values]) /\ Len(old.records) \in Nat
  BY <1>1 DEF Batch
<1>4. new \in Batch /\ Len(new.records) = 1 + (IF switch THEN 0 ELSE Len(old.records))
  BY <1>3 DEF Batch
<1>5. own'[p] = second
  <2> HIDE DEF old, switch, new, full
  <2>1. QED
    BY <1>2
<1>6. \A b \in Batch : Insertable(p, b) =>
        DistinctKeys(b) /\ \A x \in own[p], n \in BatchRows(b) : x.ns # n.ns \/ x.key # n.key
  BY DEF Insertable, DistinctKeys
<1>7. /\ IsFiniteSet(first)
      /\ Cardinality(RowsOf(first, u)) + (IF switch THEN 0 ELSE LenFor(old, u))
           = Cardinality(RowsOf(own[p], u)) + LenFor(old, u)
  <2>1. Cardinality(RowsOf(own[p], u)) \in Nat
    <3>1. RowsOf(own[p], u) \subseteq own[p]
      BY DEF RowsOf
    <3>2. QED
      BY <3>1, FS_Subset, FS_CardinalityType
  <2>2. CASE switch
    <3>1. Insertable(p, old)
      BY <1>2, <2>2
    <3> HIDE DEF old
    <3>2. IsFiniteSet(own[p] \union BatchRows(old))
          /\ Cardinality(RowsOf(own[p] \union BatchRows(old), u)) = Cardinality(RowsOf(own[p], u)) + LenFor(old, u)
      BY <1>1, <1>6, <3>1, InsertCount
    <3>3. LenFor(old, u) \in Nat
      BY <1>3 DEF LenFor
    <3>4. QED
      BY <2>1, <2>2, <3>2, <3>3
  <2>3. CASE ~switch
    BY <2>3
  <2>4. QED
    BY <2>2, <2>3
<1>8. LenFor(new, u) = (IF switch THEN 0 ELSE LenFor(old, u)) + (IF u = t THEN 1 ELSE 0)
  <2>1. new.target = t
    OBVIOUS
  <2>2. CASE switch
    <3> HIDE DEF new
    <3>1. QED
      BY <1>4, <2>1, <2>2 DEF LenFor
  <2>3. CASE ~switch /\ old.target = t
    <3> HIDE DEF new, old
    <3>1. Len(new.records) = Len(old.records) + 1
      BY <1>3, <1>4, <2>3
    <3>2. CASE u = t
      BY <1>3, <2>1, <2>3, <3>1, <3>2 DEF LenFor
    <3>3. CASE u # t
      BY <2>1, <2>3, <3>3 DEF LenFor
    <3>4. QED
      BY <3>2, <3>3
  <2>4. CASE ~switch /\ old.target = NoOne
    <3>1. old.records = <<>> /\ u # NoOne
      BY <1>1, <2>4, SentinelAssumption DEF BatchHasTarget
    <3> HIDE DEF new
    <3>2. QED
      BY <1>4, <2>1, <2>4, <3>1 DEF LenFor
  <2>5. QED
    BY <2>2, <2>3, <2>4
<1>9. /\ IsFiniteSet(second)
      /\ Cardinality(RowsOf(second, u)) + LenFor(batch'[p], u)
           = Cardinality(RowsOf(first, u)) + LenFor(new, u)
  <2>1. Cardinality(RowsOf(first, u)) \in Nat /\ LenFor(new, u) \in Nat
    <3>1. RowsOf(first, u) \subseteq first
      BY DEF RowsOf
    <3> HIDE DEF first, new
    <3>2. QED
      BY <1>4, <1>7, <3>1, FS_Subset, FS_CardinalityType DEF LenFor, Batch
  <2>2. CASE full
    <3>1. Insertable(p, new)
      BY <1>2, <2>2
    <3>2. \A x \in first, n \in BatchRows(new) : x.ns # n.ns \/ x.key # n.key
      <4>1. \A n \in BatchRows(new) : n.ns = t
        BY DEF BatchRows, RowFor
      <4>2. \A x \in BatchRows(old) : x.ns = old.target
        BY DEF BatchRows, RowFor
      <4> HIDE DEF old, new
      <4>3. QED
        BY <1>4, <1>6, <3>1, <4>1, <4>2
    <3>3. LenFor(batch'[p], u) = 0
      BY <1>2, <2>2 DEF LenFor
    <3> HIDE DEF first, new, full
    <3>4. IsFiniteSet(first \union BatchRows(new))
          /\ Cardinality(RowsOf(first \union BatchRows(new), u)) = Cardinality(RowsOf(first, u)) + LenFor(new, u)
      BY <1>4, <1>6, <1>7, <3>1, <3>2, InsertCount
    <3>5. QED
      BY <2>1, <2>2, <3>3, <3>4
  <2>3. CASE ~full
    <3>1. batch'[p] = new
      BY <1>2, <2>3
    <3> HIDE DEF first, new, full
    <3>2. QED
      BY <1>7, <2>1, <2>3, <3>1
  <2>4. QED
    BY <2>2, <2>3
<1>10. /\ Cardinality(RowsOf(own[p], u)) \in Nat /\ LenFor(old, u) \in Nat
       /\ Cardinality(RowsOf(first, u)) \in Nat
  <2>1. RowsOf(own[p], u) \subseteq own[p] /\ RowsOf(first, u) \subseteq first
    BY DEF RowsOf
  <2> HIDE DEF old, first
  <2>2. QED
    BY <1>3, <1>7, <2>1, FS_Subset, FS_CardinalityType DEF LenFor
<1>11. LenFor(old, u) = LenFor(batch[p], u)
  OBVIOUS
<1>12. QED
  <2> HIDE DEF old, switch, new, full, first, second
  <2>1. QED
    BY <1>5, <1>7, <1>8, <1>9, <1>10, <1>11

LEMMA KeptUntouched ==
  ASSUME NEW q \in Importers, Untouched(q), KeptSoFar(q)
  PROVE  KeptSoFar(q)'
PROOF
<1>1. MyPlan(q)' = MyPlan(q)
  BY DEF Untouched, MyPlan
<1>2. \A n : Kept(q, n) => Kept(q, n)'
  BY <1>1 DEF Untouched, Kept, RowsOf, ItemsTo
<1>3. QED
  BY <1>1, <1>2 DEF Untouched, KeptSoFar

(* Who comes to, or stays at, the steps between binding and revalidation.  *)
LEMMA KeepingSteps ==
  ASSUME SInv, NEW p \in Importers, Quiet(p) \/ ServerCommits(p),
         pc'[p] \in {"stream", "flush", "verify"}
  PROVE  ~Fail(p) /\ (EnsureNamespace(p) \/ Deliver(p) \/ EndOfFile(p) \/ FlushLast(p))
PROOF
<1>1. Domains /\ Typed(p)
  BY TypedDomains DEF SInv, TInv
<1>2. ~Fail(p)
  BY <1>1 DEF Fail, Stop, Goto, Domains
<1>3. CASE Step(p)
  BY <1>1, <1>2, <1>3 DEF Step, ReadInput, Loop, Preflight, RevalidateBefore, RevalidateAfter, Compare,
     CheckDatabase, Begin, EnsureConfig, CreateNamespace, WalkFails, Verify, SendCommit,
     CommitReturned, WriteReport, Goto, Domains
<1>4. CASE Server(p)
  <2>1. pc' = pc /\ (tx[p] = "deciding" \/ pc[p] \in Ended)
    BY <1>4 DEF Server, ServerCommits, ServerRejects, ServerAborts
  <2>2. QED
    BY <1>1, <2>1 DEF Typed, Transaction, InTx, Writing, Ended
<1>5. CASE Fault(p)
  BY <1>1, <1>2, <1>5 DEF Fault, ReportError, LoseConnection, ReportLost, Crash, Stop, Goto, Domains
<1>6. QED
  BY <1>3, <1>4, <1>5 DEF Quiet, Server

LEMMA KeptWhenReady ==
  ASSUME SInv, NEW p \in Importers, EnsureNamespace(p), ~Fail(p), pc'[p] \in {"stream", "flush", "verify"}
  PROVE  KeptSoFar(p)'
PROOF
<1>1. Domains /\ Typed(p) /\ Safe(p) /\ pc[p] = "ensure"
  BY TypedDomains DEF SInv, TInv, EnsureNamespace
<1>2. pc'[p] = "stream" /\ pos'[p] = 1 /\ own' = own /\ batch' = batch
  BY <1>1 DEF EnsureNamespace, Goto, Domains, memory
<1>3. own[p] = {} /\ batch[p] = NoBatch
  BY <1>1 DEF Safe, RecordsAccounted
<1>4. ASSUME NEW t \in Targets
      PROVE  Cardinality(RowsOf({}, t)) + LenFor(NoBatch, t) = Cardinality(ItemsTo(MyPlan(p)', 0, t))
  <2>1. RowsOf({}, t) = {} /\ ItemsTo(MyPlan(p)', 0, t) = {}
    BY DEF RowsOf, ItemsTo
  <2>2. LenFor(NoBatch, t) = 0
    BY DEF LenFor, NoBatch
  <2>3. QED
    BY <2>1, <2>2, FS_EmptySet
<1>5. Kept(p, pos[p] - 1)'
  BY <1>2, <1>3, <1>4, FS_EmptySet DEF Kept, RowsOf, ItemsTo
<1>6. QED
  BY <1>2, <1>5 DEF KeptSoFar

LEMMA KeptByDeliver ==
  ASSUME SInv, NEW p \in Importers, KeptSoFar(p), Deliver(p), ~Fail(p)
  PROVE  KeptSoFar(p)'
PROOF
<1> DEFINE item == CurrentItem(p)
           n == pos[p]
<1>1. TInv /\ Domains /\ pc[p] = "stream" /\ n \in Nat \ {0} /\ item.kind = "record"
  BY TypedDomains DEF SInv, TInv, TypeOK, Deliver
<1>2. item.target \in Targets /\ item = MyPlan(p).stream[n]
  BY <1>1, ItemFacts, TargetsType
<1>3. PICK k \in Keys, v \in Values :
        Yield(p, item.target, [key |-> k, value |-> v], k = item.key /\ v = item.value)
  BY DEF Deliver
<1>4. pc'[p] = "stream" /\ pos'[p] - 1 = n /\ MyPlan(p)' = MyPlan(p)
  BY <1>1, <1>3 DEF Yield, Domains, MyPlan
<1>5. Kept(p, n - 1)
  BY <1>1 DEF KeptSoFar
<1> DEFINE r == [key |-> k, value |-> v]
           agreed == k = item.key /\ v = item.value
<1>6. ASSUME NEW u \in Targets
      PROVE  /\ IsFiniteSet(own'[p])
             /\ Cardinality(RowsOf(own'[p], u)) + LenFor(batch'[p], u) = Cardinality(ItemsTo(MyPlan(p), n, u))
  <2>1. r \in [key: Keys, value: Values] /\ agreed \in BOOLEAN /\ Yield(p, item.target, r, agreed)
    BY <1>3
  <2>2. IsFiniteSet(own[p])
        /\ Cardinality(RowsOf(own[p], u)) + LenFor(batch[p], u) = Cardinality(ItemsTo(MyPlan(p), n - 1, u))
    BY <1>5 DEF Kept
  <2> HIDE DEF item, n, r, agreed
  <2>3. /\ IsFiniteSet(own'[p])
        /\ Cardinality(RowsOf(own'[p], u)) + LenFor(batch'[p], u)
             = Cardinality(RowsOf(own[p], u)) + LenFor(batch[p], u) + (IF u = item.target THEN 1 ELSE 0)
    BY <1>1, <1>2, <2>1, <2>2, YieldCounts
  <2>4. Cardinality(ItemsTo(MyPlan(p), n, u))
          = Cardinality(ItemsTo(MyPlan(p), n - 1, u)) + (IF u = item.target THEN 1 ELSE 0)
    BY <1>1, <1>2, OneMoreItemTo
  <2>5. QED
    BY <2>2, <2>3, <2>4
<1>7. \E t : t \in Targets
  BY <1>2
<1>8. IsFiniteSet(own'[p])
  BY <1>6, <1>7
<1>9. Kept(p, pos[p] - 1)'
  <2> HIDE DEF n
  <2>1. QED
    BY <1>4, <1>6, <1>8 DEF Kept, RowsOf, ItemsTo
<1>10. QED
  BY <1>4, <1>9 DEF KeptSoFar

LEMMA KeptByEndOfFile ==
  ASSUME SInv, NEW p \in Importers, KeptSoFar(p), EndOfFile(p), ~Fail(p)
  PROVE  KeptSoFar(p)'
PROOF
<1> DEFINE plan == MyPlan(p)
<1>1. TInv /\ Domains /\ pc[p] = "stream" /\ pos[p] \in Nat \ {0}
  BY TypedDomains DEF SInv, TInv, TypeOK, EndOfFile
<1>2. PICK n \in Nat \ {0} : n = pos[p]
  BY <1>1
<1>3. plan.stream[n].kind = "end" /\ n \in 1..Len(plan.stream) /\ Len(plan.stream) \in Nat
  BY <1>1, <1>2, ItemFacts DEF EndOfFile
<1>4. /\ \/ pc'[p] = "stream" /\ pos'[p] = n + 1
         \/ pc'[p] = "flush" /\ n = Len(plan.stream)
      /\ own' = own /\ batch' = batch /\ plan' = plan
  BY <1>1, <1>2, <1>3 DEF EndOfFile, Loop, txState, memory, Domains, MyPlan
<1>5. Kept(p, n - 1)
  BY <1>1, <1>2 DEF KeptSoFar
<1>6. \A t \in Targets : Cardinality(ItemsTo(plan, n, t)) = Cardinality(ItemsTo(plan, n - 1, t))
  <2> HIDE DEF plan
  <2>1. QED
    BY <1>3, OneMoreItemTo
<1>7. /\ IsFiniteSet(own'[p])
      /\ \A t \in Targets :
           Cardinality(RowsOf(own'[p], t)) + LenFor(batch'[p], t) = Cardinality(ItemsTo(plan, n, t))
  BY <1>4, <1>5, <1>6 DEF Kept
<1>8. Kept(p, n)'
  BY <1>4, <1>7 DEF Kept, RowsOf, ItemsTo
<1>9. QED
  BY <1>3, <1>4, <1>8 DEF KeptSoFar

(* The last batch is inserted, and nothing is left in it.                  *)
LEMMA KeptByFlush ==
  ASSUME SInv, NEW p \in Importers, KeptSoFar(p), FlushLast(p), ~Fail(p)
  PROVE  KeptSoFar(p)'
PROOF
<1> DEFINE b == batch[p]
<1>1. TInv /\ Domains /\ b \in Batch /\ pc[p] = "flush"
  BY TypedDomains DEF SInv, TInv, TypeOK, FlushLast
<1>2. /\ Insertable(p, b) /\ pc'[p] = "verify" /\ own'[p] = own[p] \union BatchRows(b)
      /\ batch'[p] = [b EXCEPT !.records = <<>>] /\ MyPlan(p)' = MyPlan(p)
  BY <1>1 DEF FlushLast, Goto, Domains, MyPlan
<1>3. batch'[p].records = <<>> /\ \A t : LenFor(batch'[p], t) = 0
  BY <1>1, <1>2 DEF Batch, LenFor
<1>4. Kept(p, Len(MyPlan(p).stream))
  BY <1>1 DEF KeptSoFar
<1>5. ASSUME NEW t \in Targets
      PROVE  /\ IsFiniteSet(own'[p])
             /\ Cardinality(RowsOf(own'[p], t)) = Cardinality(RowsOf(own[p], t)) + LenFor(b, t)
             /\ Cardinality(RowsOf(own'[p], t)) \in Nat
  <2>1. DistinctKeys(b) /\ \A r \in own[p], m \in BatchRows(b) : r.ns # m.ns \/ r.key # m.key
    <3> HIDE DEF b
    <3>1. QED
      BY <1>2 DEF Insertable, DistinctKeys
  <2>2. IsFiniteSet(own[p])
    BY <1>4 DEF Kept
  <2> HIDE DEF b
  <2>3. LET new == own[p] \union BatchRows(b)
        IN  IsFiniteSet(new) /\ Cardinality(RowsOf(new, t)) = Cardinality(RowsOf(own[p], t)) + LenFor(b, t)
    <3>1. b \in Batch
      BY <1>1
    <3>2. QED
      BY <2>1, <2>2, <3>1, InsertCount
  <2>4. own'[p] = own[p] \union BatchRows(b)
    BY <1>2
  <2>5. IsFiniteSet(own'[p])
        /\ Cardinality(RowsOf(own'[p], t)) = Cardinality(RowsOf(own[p], t)) + LenFor(b, t)
    BY <2>3, <2>4, Zenon
  <2>6. RowsOf(own'[p], t) \subseteq own'[p]
    BY DEF RowsOf
  <2>7. QED
    BY <2>5, <2>6, FS_Subset, FS_CardinalityType
<1>6. IsFiniteSet(own'[p])
  <2>1. \E t : t \in Targets
    BY <1>1, PlanUsable, PlanFacts
  <2>2. QED
    BY <1>5, <2>1
<1>7. \A t \in Targets : Cardinality(RowsOf(own'[p], t)) + LenFor(batch'[p], t)
                           = Cardinality(ItemsTo(MyPlan(p), Len(MyPlan(p).stream), t))
  BY <1>3, <1>4, <1>5 DEF Kept
<1>8. Kept(p, Len(MyPlan(p).stream))'
  BY <1>2, <1>6, <1>7 DEF Kept, RowsOf, ItemsTo
<1>9. QED
  BY <1>2, <1>3, <1>8 DEF KeptSoFar

LEMMA NextKept ==
  ASSUME SInv, NothingLost, [Next]_vars
  PROVE  NothingLost'
PROOF
<1>1. CASE Silent
  BY <1>1, KeptUntouched DEF Silent, NothingLost
<1>2. ASSUME NEW p \in Importers, Quiet(p) \/ ServerCommits(p), NEW q \in Importers
      PROVE  KeptSoFar(q)'
  <2>1. CASE q # p
    <3>1. Untouched(q)
      BY <1>2, <2>1, TypedDomains, StepLocal, ServerLocal, FaultLocal DEF SInv, TInv, Quiet, Server
    <3>2. QED
      BY <3>1, KeptUntouched DEF NothingLost
  <2>2. CASE q = p /\ pc'[p] \in {"stream", "flush", "verify"}
    BY <1>2, <2>2, KeepingSteps, KeptWhenReady, KeptByDeliver, KeptByEndOfFile, KeptByFlush DEF NothingLost
  <2>3. CASE q = p /\ pc'[p] \notin {"stream", "flush", "verify"}
    BY <2>3 DEF KeptSoFar
  <2>4. QED
    BY <2>1, <2>2, <2>3
<1>3. QED
  BY <1>1, <1>2, ThreeKinds DEF NothingLost

LEMMA CountsHold ==
  ASSUME SInv, NothingLost
  PROVE  CountCheckRedundant
PROOF
<1>1. SUFFICES ASSUME NEW p \in Importers, pc[p] = "verify", NEW t \in TargetsOf(MyPlan(p))
               PROVE  Cardinality(Found(p, t)) = MyPlan(p).counts[t]
  BY DEF CountCheckRedundant
<1>2. TInv /\ Safe(p) /\ KeptSoFar(p) /\ held[p] \in [FilesOf(p) -> Versions] /\ MyPlan(p) # Rejected
  BY <1>1, PlanUsable DEF SInv, NothingLost
<1>3. t \in Targets /\ BoundFor(p, t)
  BY <1>1, <1>2, TargetsType DEF Safe, Prepared, Writing
<1>4. Found(p, t) = RowsOf(own[p], t)
  BY <1>3 DEF Found, RowsOf, BoundFor, HasRows
<1>5. Cardinality(RowsOf(own[p], t)) + LenFor(batch[p], t)
        = Cardinality(ItemsTo(MyPlan(p), Len(MyPlan(p).stream), t))
  BY <1>1, <1>2, <1>3 DEF KeptSoFar, Kept
<1>6. LenFor(batch[p], t) = 0
  BY <1>1, <1>2 DEF KeptSoFar, LenFor
<1>7. Cardinality(RowsOf(own[p], t)) \in Nat
  <2>1. IsFiniteSet(own[p]) /\ RowsOf(own[p], t) \subseteq own[p]
    BY <1>1, <1>2 DEF KeptSoFar, Kept, RowsOf
  <2>2. QED
    BY <2>1, FS_Subset, FS_CardinalityType
<1>8. MyPlan(p).counts[t] = Cardinality(ItemsTo(MyPlan(p), Len(MyPlan(p).stream), t))
  BY <1>1, <1>2, CountAssumption DEF MyPlan
<1>9. QED
  BY <1>4, <1>5, <1>6, <1>7, <1>8

(***************************************************************************)
(* The comparison of counts before the commit (import.go:243-250) never    *)
(* fails: for any batch size and any change of the files, buffering and    *)
(* flushing insert as many rows as the walk delivered records, and the     *)
(* primary key keeps two records from becoming one row.                    *)
(***************************************************************************)
THEOREM CountCheck == Spec => []CountCheckRedundant
PROOF
<1>1. Init => SInv /\ NothingLost
  BY InitSafe DEF Init, NothingLost, KeptSoFar
<1>2. (SInv /\ NothingLost) /\ [Next]_vars => (SInv /\ NothingLost)'
  BY NextSafe, NextKept
<1>3. SInv /\ NothingLost => CountCheckRedundant
  BY CountsHold
<1>4. QED
  BY <1>1, <1>2, <1>3, PTL DEF Spec
-----------------------------------------------------------------------------
(* A run that is to find a difference: it has the last comparison of the   *)
(* file before it, or has given up.                                        *)
WillCompare(p, f) ==
  \/ pc[p] \in {"verify", "failed", "crashed"}
  \/ pc[p] = "revalidate" /\ f \in todo[p]

LEMMA FailsInTheEnd ==
  ASSUME Domains, NEW p \in Importers, NEW f, Fail(p) \/ Stop(p, "failed") \/ Stop(p, "crashed")
  PROVE  WillCompare(p, f)'
BY DEF Domains, Fail, Stop, Goto, WillCompare

LEMMA ComparedByOwner ==
  ASSUME TypeOK, NEW p \in Importers, NEW f \in FilesOf(p), WillCompare(p, f), disk[f] # held[p][f],
         Step(p) \/ Server(p) \/ Fault(p)
  PROVE  WillCompare(p, f)'
PROOF
<1>1. Domains /\ todo \in [Importers -> SUBSET Files]
  BY TypedDomains DEF TypeOK
<1>2. CASE Server(p)
  BY <1>2 DEF Server, ServerCommits, ServerRejects, ServerAborts, memory, WillCompare
<1>3. CASE Fault(p)
  BY <1>1, <1>3, FailsInTheEnd DEF Fault, ReportError, LoseConnection, ReportLost, Crash
<1>4. CASE Step(p)
  <2>1. pc[p] \in {"verify", "revalidate", "failed", "crashed"}
    BY DEF WillCompare
  <2>2. (pc[p] = "verify" /\ Verify(p)) \/ (pc[p] = "revalidate" /\ RevalidateAfter(p))
    BY <1>4, <2>1 DEF Step, ReadInput, Preflight, RevalidateBefore, CheckDatabase, Begin, EnsureConfig,
       CreateNamespace, EnsureNamespace, Deliver, EndOfFile, WalkFails, FlushLast, Verify, RevalidateAfter,
       SendCommit, CommitReturned, WriteReport
  <2>3. CASE Fail(p)
    BY <1>1, <2>3, FailsInTheEnd
  <2>4. CASE pc[p] = "verify" /\ Verify(p) /\ ~Fail(p)
    BY <1>1, <2>4 DEF Verify, Goto, WillCompare, Domains
  <2>5. CASE pc[p] = "revalidate" /\ RevalidateAfter(p) /\ ~Fail(p)
    <3>1. f \in todo[p]
      BY <2>5 DEF WillCompare
    <3>2. PICK g \in todo[p] :
            /\ disk[g] = held[p][g]
            /\ todo' = [todo EXCEPT ![p] = @ \ {g}]
            /\ IF todo[p] = {g} THEN Goto(p, "commit") ELSE UNCHANGED <<pc, pos>>
      BY <2>5 DEF RevalidateAfter, Compare
    <3>3. g # f
      BY <3>2
    <3>4. f \in todo'[p] /\ pc' = pc
      BY <1>1, <3>1, <3>2, <3>3
    <3> QED
      BY <2>5, <3>4 DEF WillCompare
  <2> QED
    BY <2>2, <2>3, <2>4, <2>5
<1> QED
  BY <1>2, <1>3, <1>4

(* Other runs leave the list alone, too.                                   *)
LEMMA TodoLocal ==
  ASSUME TypeOK, NEW p \in Importers, NEW q \in Importers \ {p}, Step(p) \/ Server(p) \/ Fault(p)
  PROVE  todo'[q] = todo[q]
PROOF
<1>1. todo \in [Importers -> SUBSET Files]
  BY DEF TypeOK
<1>2. CASE Fail(p) \/ Stop(p, "failed") \/ Stop(p, "crashed")
  BY <1>1, <1>2 DEF Fail, Stop
<1>3. CASE Preflight(p) \/ RevalidateBefore(p) \/ RevalidateAfter(p) \/ Verify(p)
  BY <1>1, <1>2, <1>3 DEF Preflight, RevalidateBefore, RevalidateAfter, Compare, Verify
<1>4. CASE ReadInput(p) \/ CheckDatabase(p) \/ Begin(p) \/ EnsureConfig(p) \/ CreateNamespace(p)
           \/ EnsureNamespace(p) \/ Deliver(p) \/ EndOfFile(p) \/ WalkFails(p) \/ FlushLast(p)
           \/ SendCommit(p) \/ CommitReturned(p) \/ WriteReport(p)
  BY <1>2, <1>4 DEF ReadInput, CheckDatabase, Begin, EnsureConfig, CreateNamespace, EnsureNamespace,
     CreateTable, Deliver, Yield, EndOfFile, WalkFails, FlushLast, SendCommit, CommitReturned, WriteReport, memory
<1>5. CASE Server(p)
  BY <1>5 DEF Server, ServerCommits, ServerRejects, ServerAborts, memory
<1>6. CASE Fault(p)
  BY <1>2, <1>6 DEF Fault, ReportError, LoseConnection, ReportLost, Crash
<1> QED
  BY <1>3, <1>4, <1>5, <1>6 DEF Step

LEMMA ComparisonStays ==
  ASSUME TypeOK, [Next]_vars, NEW p \in Importers, NEW f \in FilesOf(p), WillCompare(p, f), disk[f] # held[p][f]
  PROVE  WillCompare(p, f)'
PROOF
<1>1. CASE UNCHANGED vars \/ \E g \in Changeable : ChangeInput(g)
  BY <1>1 DEF vars, ChangeInput, memory, WillCompare
<1>2. ASSUME NEW q \in Importers, Step(q) \/ Server(q) \/ Fault(q)
      PROVE  WillCompare(p, f)'
  <2>1. CASE q = p
    BY <1>2, <2>1, ComparedByOwner
  <2>2. CASE q # p
    <3>1. pc'[p] = pc[p]
      BY <1>2, <2>2, TypedDomains, StepLocal, ServerLocal, FaultLocal DEF Untouched
    <3>2. todo'[p] = todo[p]
      BY <1>2, <2>2, TodoLocal
    <3> QED
      BY <3>1, <3>2 DEF WillCompare
  <2> QED
    BY <2>1, <2>2
<1> QED
  BY <1>1, <1>2 DEF Next, Terminated

(***************************************************************************)
(* "rechecks all source files, configuration, and mappings for changes"    *)
(* (README.md:201): a file that differs when the counts are verified and   *)
(* from then on is compared before COMMIT is sent, whatever other runs,    *)
(* the operator and faults do in between (import.go:254-257).              *)
(***************************************************************************)
THEOREM ChangesDetected == Spec => ChangeAtVerifyDetected
PROOF
<1> SUFFICES ASSUME NEW p \in Importers, NEW f \in FilesOf(p)
             PROVE  Spec => []((pc[p] = "verify" /\ [](disk[f] # held[p][f])) => [](pc[p] # "committing"))
  BY DEF ChangeAtVerifyDetected
<1>1. pc[p] = "verify" => WillCompare(p, f)
  BY DEF WillCompare
<1>2. TypeOK /\ [Next]_vars /\ WillCompare(p, f) /\ disk[f] # held[p][f] => WillCompare(p, f)'
  BY ComparisonStays
<1>3. WillCompare(p, f) => pc[p] # "committing"
  BY DEF WillCompare
<1> QED
  BY <1>1, <1>2, <1>3, TypeCorrect, PTL DEF Spec
=============================================================================
