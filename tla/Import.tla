------------------------------- MODULE Import -------------------------------
(***************************************************************************)
(* Concurrent runs of `fabric-x-migrate import` against one committer      *)
(* database: the function Import of internal/migrate/import.go, from the   *)
(* first input read to the report, one action per step that reads the      *)
(* input files, talks to the database or can fail.                         *)
(*                                                                         *)
(* Around the runs are                                                     *)
(*   - the operator, who may change an input file at any time;             *)
(*   - the database: transactional DDL or not, serializable transactions,  *)
(*     row locks, unique keys (external; modelled from what import.go      *)
(*     asks of it);                                                        *)
(*   - faults: I/O and database errors, lost connections, crashes.         *)
(*                                                                         *)
(* The promise of all this is module AtomicImport, which Import implements.*)
(***************************************************************************)
EXTENDS ImportPlan

CONSTANTS
  BatchSize,     \* insertBatchSize
  Changeable,    \* the files the operator may change
  Faulty         \* whether I/O, the database or the process may fail

ASSUME BatchAssumption == BatchSize \in Nat \ {0}

ASSUME FaultAssumption == Faulty \in BOOLEAN /\ Changeable \subseteq Files
-----------------------------------------------------------------------------
VARIABLES
  disk,       \* contents of the input files
  touched,    \* files that have ever been changed
  transactionalDDL, tables, config, meta, rows,  \* the committed database
  lock,       \* who holds the lock on the row of _config
  pc, pos,    \* what a run does next, and its loop index
  held,       \* the input contents a run has read and agreed on
  todo,       \* files a revalidation has yet to compare
  tx,         \* the run's transaction, as the database sees it
  seen,       \* transactions committed when the run's snapshot was taken
  snap,       \* config and meta as the transaction sees them, rows of others
  created,    \* tables the transaction has created
  own,        \* rows the transaction has inserted
  batch,      \* stateBatch: records not yet inserted
  dirty,      \* whether the records read since the last digest check differ
  counted     \* record counts for the report

files == <<disk, touched>>
database == <<transactionalDDL, tables, config, meta, rows>>
memory == <<held, todo, batch, dirty, counted>>
txState == <<seen, snap, created, own>>
vars == <<disk, touched, transactionalDDL, tables, config, meta, rows, lock, pc, pos, held,
          todo, tx, seen, snap, created, own, batch, dirty, counted>>

Running == {"open", "preflight", "recheck", "connect", "begin", "config", "create",
            "ensure", "stream", "flush", "verify", "revalidate", "commit"}
Ended == {"succeeded", "failed", "crashed"}
Stages == Running \union {"committing", "report"} \union Ended
TxStates == {"none", "active", "deciding", "committed", "aborted"}

Snapshot == [config: EntryOrNone(Envelopes), meta: [Targets -> EntryOrNone(Policies)],
             rows: SUBSET Row]
Batch == [target: Targets \union {NoOne}, records: Seq([key: Keys, value: Values])]

NoBatch == [target |-> NoOne, records |-> <<>>]
NoSnap == [config |-> NoRow, meta |-> [t \in Targets |-> NoRow], rows |-> {}]

MyPlan(p) == PlanOf(p, held[p])

TypeOK ==
  /\ disk \in [Files -> Versions]
  /\ touched \subseteq Files
  /\ transactionalDDL \in BOOLEAN
  /\ tables \subseteq Targets \union {System}
  /\ config \in EntryOrNone(Envelopes)
  /\ meta \in [Targets -> EntryOrNone(Policies)]
  /\ rows \subseteq Row
  /\ lock \in Importers \union {NoOne}
  /\ pc \in [Importers -> Stages]
  /\ pos \in [Importers -> Nat \ {0}]
  /\ DOMAIN held = Importers
  /\ \A p \in Importers : held[p] \in [FilesOf(p) -> Versions \union {NoVersion}]
  /\ todo \in [Importers -> SUBSET Files]
  /\ tx \in [Importers -> TxStates]
  /\ seen \in [Importers -> SUBSET Importers]
  /\ snap \in [Importers -> Snapshot]
  /\ created \in [Importers -> SUBSET (Targets \union {System})]
  /\ own \in [Importers -> SUBSET Row]
  /\ batch \in [Importers -> Batch]
  /\ dirty \in [Importers -> BOOLEAN]
  /\ counted \in [Importers -> [Targets -> Nat]]

Init ==
  /\ disk \in Disks
  /\ touched = {}
  /\ \E d \in Databases :
       /\ transactionalDDL = d.transactionalDDL
       /\ tables = d.tables
       /\ config = d.config
       /\ meta = d.meta
       /\ rows = d.rows
  /\ lock = NoOne
  /\ pc = [p \in Importers |-> "open"]
  /\ pos = [p \in Importers |-> 1]
  /\ held = [p \in Importers |-> [f \in FilesOf(p) |-> NoVersion]]
  /\ todo = [p \in Importers |-> {}]
  /\ tx = [p \in Importers |-> "none"]
  /\ seen = [p \in Importers |-> {}]
  /\ snap = [p \in Importers |-> NoSnap]
  /\ created = [p \in Importers |-> {}]
  /\ own = [p \in Importers |-> {}]
  /\ batch = [p \in Importers |-> NoBatch]
  /\ dirty = [p \in Importers |-> FALSE]
  /\ counted = [p \in Importers |-> [t \in Targets |-> 0]]
-----------------------------------------------------------------------------
(* The next iteration of a loop over 1..n, or what follows the loop.       *)
Loop(p, n, next) ==
  IF pos[p] < n
  THEN pos' = [pos EXCEPT ![p] = @ + 1] /\ UNCHANGED pc
  ELSE pos' = [pos EXCEPT ![p] = 1] /\ pc' = [pc EXCEPT ![p] = next]

Goto(p, next) == pc' = [pc EXCEPT ![p] = next] /\ pos' = [pos EXCEPT ![p] = 1]

(* What the server does when a transaction ends without effect.            *)
Release(p) == lock' = IF lock = p THEN NoOne ELSE lock

Discard(p) ==
  /\ Release(p)
  /\ tx' = [tx EXCEPT ![p] = "aborted"]
  /\ seen' = [seen EXCEPT ![p] = {}]
  /\ snap' = [snap EXCEPT ![p] = NoSnap]
  /\ created' = [created EXCEPT ![p] = {}]
  /\ own' = [own EXCEPT ![p] = {}]

(* What the run kept in memory is gone.                                    *)
Stop(p, how) ==
  /\ Goto(p, how)
  /\ todo' = [todo EXCEPT ![p] = {}]
  /\ batch' = [batch EXCEPT ![p] = NoBatch]
  /\ dirty' = [dirty EXCEPT ![p] = FALSE]
  /\ UNCHANGED <<files, database, held, counted>>

(* An error return of Import: the deferred Rollback undoes the transaction *)
(* if one was begun.                                                       *)
Fail(p) ==
  /\ Stop(p, "failed")
  /\ IF tx[p] = "active" THEN Discard(p) ELSE UNCHANGED <<lock, tx, txState>>

(* Read the inputs (import.go:55-106); an opened snapshot is bound to the  *)
(* digests in its signable metadata, the other inputs are kept as bytes.   *)
ReadInput(p) ==
  /\ pc[p] = "open"
  /\ LET f == InputsOf(p)[pos[p]]
     IN held' = [held EXCEPT ![p][f] = disk[f]]
  /\ Loop(p, Len(InputsOf(p)), "preflight")
  /\ UNCHANGED <<files, database, lock, todo, tx, txState, batch, dirty, counted>>

(* Counts, policies, the target configuration and a first walk over all    *)
(* records, which fails on a snapshot that is no longer the agreed one.    *)
StreamFiles(plan) == {plan.stream[i].file : i \in DOMAIN plan.stream}

Preflight(p) ==
  /\ pc[p] = "preflight"
  /\ IF /\ MyPlan(p) # Rejected
        /\ \A f \in StreamFiles(MyPlan(p)) : disk[f] = held[p][f]
     THEN /\ Goto(p, "recheck")
          /\ todo' = [todo EXCEPT ![p] = FilesOf(p)]
          /\ UNCHANGED <<files, database, lock, held, tx, txState, batch, dirty, counted>>
     ELSE Fail(p)

(* One input of a revalidation; snapshots are compared in map order, so    *)
(* the order is left open.  A snapshot directory is compared in one step   *)
(* here, and file by file in SnapshotStream.                               *)
Compare(p, next) ==
  \E f \in todo[p] :
    IF disk[f] = held[p][f]
    THEN /\ todo' = [todo EXCEPT ![p] = @ \ {f}]
         /\ IF todo[p] = {f} THEN Goto(p, next) ELSE UNCHANGED <<pc, pos>>
         /\ UNCHANGED <<files, database, lock, held, tx, txState, batch, dirty, counted>>
    ELSE Fail(p)

(* As RevalidateAfter, without the comparison.                             *)
RevalidateAfterSkipped(p) ==
  /\ pc[p] = "revalidate"
  /\ Goto(p, "commit")
  /\ UNCHANGED <<files, database, lock, memory, tx, txState>>

RevalidateBefore(p) == pc[p] = "recheck" /\ Compare(p, "connect")

RevalidateAfter(p) == pc[p] = "revalidate" /\ Compare(p, "commit")

(* As CheckDatabase, accepting any database.                               *)
CheckDatabaseSkipped(p) ==
  /\ pc[p] = "connect"
  /\ Goto(p, "begin")
  /\ UNCHANGED <<files, database, lock, memory, tx, txState>>

(* Without transactional DDL (YugabyteDB with its default setting) created *)
(* tables would survive a rollback, so such a database is refused.         *)
CheckDatabase(p) ==
  /\ pc[p] = "connect"
  /\ IF transactionalDDL
     THEN /\ Goto(p, "begin")
          /\ UNCHANGED <<files, database, lock, memory, tx, txState>>
     ELSE Fail(p)

CreateTable(p, t) ==
  /\ IF transactionalDDL
     THEN created' = [created EXCEPT ![p] = @ \union {t}] /\ UNCHANGED tables
     ELSE tables' = tables \union {t} /\ UNCHANGED created
  /\ UNCHANGED <<files, transactionalDDL, config, meta, rows, lock, memory, own>>

(* BeginTx, the system schema and the tables of the system namespaces; the *)
(* first statement fixes the transaction's snapshot.                       *)
Begin(p) ==
  /\ pc[p] = "begin"
  /\ Goto(p, "config")
  /\ tx' = [tx EXCEPT ![p] = "active"]
  /\ seen' = [seen EXCEPT ![p] = {q \in Importers : tx[q] = "committed"}]
  /\ snap' = [snap EXCEPT ![p] = [config |-> config, meta |-> meta, rows |-> rows]]
  /\ CreateTable(p, System)

(* As EnsureConfig: a conflicting row is replaced; the row is not locked;   *)
(* rows are compared as bytes only.                                        *)
EnsureConfigVariant(p, accepted, locks) ==
  /\ pc[p] = "config"
  /\ lock = NoOne
  /\ IF config = snap[p].config /\ accepted
     THEN /\ Goto(p, "create")
          /\ lock' = IF locks THEN p ELSE lock
          /\ snap' = [snap EXCEPT ![p].config = [value |-> MyPlan(p).envelope, version |-> 0]]
          /\ UNCHANGED <<files, database, memory, tx, seen, created, own>>
     ELSE Fail(p)

EnsureConfigReplacing(p) == EnsureConfigVariant(p, TRUE, TRUE)

EnsureConfigUnlocked(p) ==
  EnsureConfigVariant(p, config = NoRow \/ SameConfig(config, MyPlan(p).envelope), FALSE)

EnsureConfigBytewise(p) ==
  EnsureConfigVariant(p, config \in {NoRow, [value |-> MyPlan(p).envelope, version |-> 0]}, TRUE)

(* ensureEntry for the row of _config: its INSERT and SELECT ... FOR       *)
(* UPDATE wait for whoever has inserted or locked the row, and fail on a   *)
(* row changed since the snapshot.  A row with the same configuration is   *)
(* accepted and stored in this run's encoding.                             *)
EnsureConfig(p) ==
  /\ pc[p] = "config"
  /\ lock = NoOne
  /\ IF /\ config = snap[p].config
        /\ config = NoRow \/ SameConfig(config, MyPlan(p).envelope)
     THEN /\ Goto(p, "create")
          /\ lock' = p
          /\ snap' = [snap EXCEPT ![p].config = [value |-> MyPlan(p).envelope, version |-> 0]]
          /\ UNCHANGED <<files, database, memory, tx, seen, created, own>>
     ELSE Fail(p)

(* One iteration of the loop over the target namespaces: the table, then   *)
(* the emptiness check and the entry in _meta.                             *)
CreateNamespace(p) ==
  /\ pc[p] = "create"
  /\ CreateTable(p, MyPlan(p).targets[pos[p]])
  /\ pc' = [pc EXCEPT ![p] = "ensure"]
  /\ UNCHANGED <<pos, tx, seen, snap>>

HasRows(p, t) == \E r \in snap[p].rows : r.ns = t

(* As EnsureNamespace, with a conflicting entry of _meta replaced.         *)
EnsureNamespaceReplacing(p) ==
  /\ pc[p] = "ensure"
  /\ LET t == MyPlan(p).targets[pos[p]]
     IN IF ~HasRows(p, t)
        THEN /\ snap' = [snap EXCEPT ![p].meta[t] = [value |-> MyPlan(p).policies[t], version |-> 0]]
             /\ IF pos[p] < Len(MyPlan(p).targets)
                THEN pos' = [pos EXCEPT ![p] = @ + 1] /\ pc' = [pc EXCEPT ![p] = "create"]
                ELSE Goto(p, "stream")
             /\ UNCHANGED <<files, database, lock, memory, tx, seen, created, own>>
        ELSE Fail(p)

EnsureNamespace(p) ==
  /\ pc[p] = "ensure"
  /\ LET t == MyPlan(p).targets[pos[p]]
         entry == [value |-> MyPlan(p).policies[t], version |-> 0]
     IN IF /\ ~HasRows(p, t)
           /\ MyPlan(p).policies[t] # NoPolicy
           /\ meta[t] = snap[p].meta[t]
           /\ meta[t] \in {NoRow, entry}
        THEN /\ snap' = [snap EXCEPT ![p].meta[t] = entry]
             /\ IF pos[p] < Len(MyPlan(p).targets)
                THEN pos' = [pos EXCEPT ![p] = @ + 1] /\ pc' = [pc EXCEPT ![p] = "create"]
                ELSE Goto(p, "stream")
             /\ UNCHANGED <<files, database, lock, memory, tx, seen, created, own>>
        ELSE Fail(p)
-----------------------------------------------------------------------------
(* stateBatch.flush inserts the batch in one statement; the primary key    *)
(* sees rows of other transactions, too.                                   *)
BatchRows(b) == {RowFor(b.target, b.records[i].key, b.records[i].value) : i \in DOMAIN b.records}

Insertable(p, b) ==
  /\ \A i, j \in DOMAIN b.records : b.records[i].key = b.records[j].key => i = j
  /\ \A r \in own[p] \union rows, n \in BatchRows(b) : r.ns # n.ns \/ r.key # n.key

(* The callback of the second walk, for one record.                        *)
Yield(p, target, record, agreed) ==
  LET old == batch[p]
      switch == old.target \notin {NoOne, target}
      new == [target |-> target,
              records |-> Append(IF switch THEN <<>> ELSE old.records, record)]
      full == Len(new.records) = BatchSize
      inserts == (IF switch THEN {old} ELSE {}) \union (IF full THEN {new} ELSE {})
  IN IF \A b \in inserts : Insertable(p, b)
     THEN /\ own' = [own EXCEPT ![p] = @ \union UNION {BatchRows(b) : b \in inserts}]
          /\ batch' = [batch EXCEPT ![p] = [target |-> target, records |-> IF full THEN <<>> ELSE new.records]]
          /\ dirty' = [dirty EXCEPT ![p] = @ \/ ~agreed]
          /\ pos' = [pos EXCEPT ![p] = @ + 1]
          /\ UNCHANGED <<files, database, lock, pc, held, todo, tx, seen, snap, created, counted>>
     ELSE Fail(p)

(* One record of the second walk.  How many records a namespace has and    *)
(* where they go is fixed by metadata checked before the walk; the record  *)
(* comes from a data file that is checked only at its end.  A file that    *)
(* was changed at some time may still show it through an open handle.      *)
CurrentItem(p) == MyPlan(p).stream[pos[p]]

Deliver(p) ==
  /\ pc[p] = "stream"
  /\ CurrentItem(p).kind = "record"
  /\ \E k \in Keys, v \in Values :
       LET agreed == k = CurrentItem(p).key /\ v = CurrentItem(p).value
       IN /\ CurrentItem(p).file \notin touched => agreed
          /\ Yield(p, CurrentItem(p).target, [key |-> k, value |-> v], agreed)

(* As EndOfFile, without the comparison.                                   *)
EndOfFileUnchecked(p) ==
  /\ pc[p] = "stream"
  /\ CurrentItem(p).kind = "end"
  /\ Loop(p, Len(MyPlan(p).stream), "flush")
  /\ UNCHANGED <<files, database, lock, memory, tx, txState>>

(* The end of a data file: the digest of the bytes read is compared.       *)
EndOfFile(p) ==
  /\ pc[p] = "stream"
  /\ CurrentItem(p).kind = "end"
  /\ IF dirty[p]
     THEN Fail(p)
     ELSE /\ Loop(p, Len(MyPlan(p).stream), "flush")
          /\ UNCHANGED <<files, database, lock, memory, tx, txState>>

(* A changed file can fail the walk anywhere: malformed, out of order, of  *)
(* the wrong length.                                                       *)
WalkFails(p) ==
  /\ pc[p] = "stream"
  /\ CurrentItem(p).file \in touched
  /\ Fail(p)

(* As FlushLast, with the records left in the batch.                       *)
FlushLastForgotten(p) ==
  /\ pc[p] = "flush"
  /\ Goto(p, "verify")
  /\ UNCHANGED <<files, database, lock, memory, tx, txState>>

FlushLast(p) ==
  /\ pc[p] = "flush"
  /\ IF Insertable(p, batch[p])
     THEN /\ Goto(p, "verify")
          /\ own' = [own EXCEPT ![p] = @ \union BatchRows(batch[p])]
          /\ batch' = [batch EXCEPT ![p].records = <<>>]
          /\ UNCHANGED <<files, database, lock, held, todo, tx, seen, snap, created, dirty, counted>>
     ELSE Fail(p)

(* The counts of the report are what the transaction finds in the tables.  *)
Found(p, t) == {r \in own[p] \union snap[p].rows : r.ns = t}

Verify(p) ==
  /\ pc[p] = "verify"
  /\ IF \A t \in TargetsOf(MyPlan(p)) :
          /\ Cardinality(Found(p, t)) = MyPlan(p).counts[t]
          /\ \A r \in Found(p, t) : r.version = 0
     THEN /\ Goto(p, "revalidate")
          /\ todo' = [todo EXCEPT ![p] = FilesOf(p)]
          /\ counted' = [counted EXCEPT ![p] =
               [t \in Targets |-> IF t \in TargetsOf(MyPlan(p)) THEN Cardinality(Found(p, t)) ELSE 0]]
          /\ UNCHANGED <<files, database, lock, held, tx, txState, batch, dirty>>
     ELSE Fail(p)

SendCommit(p) ==
  /\ pc[p] = "commit"
  /\ Goto(p, "committing")
  /\ tx' = [tx EXCEPT ![p] = "deciding"]
  /\ UNCHANGED <<files, database, lock, memory, txState>>

(* As CommitReturned, with the error of Commit dropped.                    *)
CommitErrorDropped(p) ==
  /\ pc[p] = "committing"
  /\ tx[p] \in {"committed", "aborted"}
  /\ Goto(p, "report")
  /\ UNCHANGED <<files, database, lock, memory, tx, txState>>

CommitReturned(p) ==
  /\ pc[p] = "committing"
  /\ \/ tx[p] = "committed" /\ Goto(p, "report")
     \/ tx[p] = "aborted" /\ Goto(p, "failed")
  /\ UNCHANGED <<files, database, lock, memory, tx, txState>>

(* The command prints the result that Import returned.                     *)
WriteReport(p) ==
  /\ pc[p] = "report"
  /\ Goto(p, "succeeded")
  /\ UNCHANGED <<files, database, lock, memory, tx, txState>>
-----------------------------------------------------------------------------
(* The database.  Two transactions that each read a table the other wrote  *)
(* to, neither seeing the other's rows, are not serializable; this is the  *)
(* least that isolation level Serializable rules out.                      *)
Written(p) == {r.ns : r \in own[p]}

(* As SerializationConflict, at isolation level Repeatable Read.           *)
ConflictsAllowed(p) == FALSE

SerializationConflict(p) ==
  \E q \in Importers \ (seen[p] \union {p}) :
    /\ tx[q] = "committed"
    /\ Written(q) \intersect TargetsOf(MyPlan(p)) # {}
    /\ Written(p) \intersect TargetsOf(MyPlan(q)) # {}

ServerCommits(p) ==
  /\ tx[p] = "deciding"
  /\ ~SerializationConflict(p)
  /\ tx' = [tx EXCEPT ![p] = "committed"]
  /\ Release(p)
  /\ rows' = rows \union own[p]
  /\ config' = snap[p].config
  /\ meta' = [t \in Targets |->
       IF t \in TargetsOf(MyPlan(p)) THEN snap[p].meta[t] ELSE meta[t]]
  /\ tables' = tables \union created[p]
  /\ UNCHANGED <<files, transactionalDDL, pc, pos, memory, txState>>

ServerRejects(p) ==
  /\ tx[p] = "deciding"
  /\ Faulty \/ SerializationConflict(p)
  /\ Discard(p)
  /\ UNCHANGED <<files, database, pc, pos, memory>>

(* As ServerAborts, with dead clients never noticed.                       *)
ServerWaits(p) == FALSE

(* The server notices that the client of a transaction is gone.            *)
ServerAborts(p) ==
  /\ tx[p] = "active"
  /\ pc[p] \in Ended
  /\ Discard(p)
  /\ UNCHANGED <<files, database, pc, pos, memory>>
-----------------------------------------------------------------------------
(* Faults.  A step reports an error or the caller cancels the run: Import  *)
(* returns and rolls back.                                                 *)
ReportError(p) == Faulty /\ pc[p] \in Running /\ Fail(p)

(* The connection is lost, even between COMMIT and its answer: an error is *)
(* returned, Rollback reaches nobody and the server is left to itself.     *)
LoseConnection(p) ==
  /\ Faulty
  /\ tx[p] \in {"active", "deciding", "committed", "aborted"}
  /\ pc[p] \in Running \union {"committing"}
  /\ Stop(p, "failed")
  /\ UNCHANGED <<lock, tx, txState>>

(* The report cannot be written (internal/cmd/main.go).                    *)
ReportLost(p) ==
  /\ Faulty
  /\ pc[p] = "report"
  /\ Stop(p, "failed")
  /\ UNCHANGED <<lock, tx, txState>>

Crash(p) ==
  /\ Faulty
  /\ pc[p] \notin Ended
  /\ Stop(p, "crashed")
  /\ UNCHANGED <<lock, tx, txState>>

(* The operator changes an input file, perhaps back to what it was.        *)
ChangeInput(f) ==
  /\ \E v \in Versions \ {disk[f]} : disk' = [disk EXCEPT ![f] = v]
  /\ touched' = touched \union {f}
  /\ UNCHANGED <<database, lock, pc, pos, memory, tx, txState>>

Step(p) ==
  \/ ReadInput(p) \/ Preflight(p) \/ RevalidateBefore(p) \/ CheckDatabase(p) \/ Begin(p)
  \/ EnsureConfig(p) \/ CreateNamespace(p) \/ EnsureNamespace(p)
  \/ Deliver(p) \/ EndOfFile(p) \/ WalkFails(p) \/ FlushLast(p)
  \/ Verify(p) \/ RevalidateAfter(p) \/ SendCommit(p) \/ CommitReturned(p) \/ WriteReport(p)

Server(p) == ServerCommits(p) \/ ServerRejects(p) \/ ServerAborts(p)

Fault(p) == ReportError(p) \/ LoseConnection(p) \/ ReportLost(p) \/ Crash(p)

Terminated ==
  /\ \A p \in Importers : pc[p] \in Ended /\ tx[p] \notin {"active", "deciding"}
  /\ UNCHANGED vars

Next ==
  \/ \E p \in Importers : Step(p) \/ Server(p) \/ Fault(p)
  \/ \E f \in Changeable : ChangeInput(f)
  \/ Terminated

Spec == Init /\ [][Next]_vars

(* A run makes progress while it can, the database answers every COMMIT    *)
(* and ends the transactions of clients that are gone.  Nothing is assumed *)
(* of faults and of the operator.                                          *)
Fairness == \A p \in Importers : WF_vars(Step(p)) /\ WF_vars(Server(p))

FairSpec == Spec /\ Fairness
-----------------------------------------------------------------------------
(***************************************************************************)
(* A committed import has put exactly the agreed records, at version 0,    *)
(* into every namespace it wrote to, and nobody adds to them later:        *)
(* through changed files, batches, other imports and retries               *)
(* (README.md:198-207).                                                    *)
(***************************************************************************)
RowsOf(S, t) == {r \in S : r.ns = t}

ExactImport ==
  \A p \in Importers : tx[p] = "committed" =>
    \A r \in AllRows(MyPlan(p)) : RowsOf(rows, r.ns) = RowsOf(AllRows(MyPlan(p)), r.ns)

(***************************************************************************)
(* All committed imports, in whatever order, agree on the network          *)
(* configuration with the one row of _config, and each finds its policy    *)
(* for each of its namespaces in _meta (import.go:196-215).                *)
(***************************************************************************)
BoundTogether ==
  \A p \in Importers : tx[p] = "committed" =>
    /\ config # NoRow /\ SameConfig(config, MyPlan(p).envelope)
    /\ \A t \in TargetsOf(MyPlan(p)) :
         /\ t \in tables
         /\ meta[t] = [value |-> MyPlan(p).policies[t], version |-> 0]

(***************************************************************************)
(* The database changes when a COMMIT takes effect and at no other step:   *)
(* no table, entry or row of a run that fails, is cancelled or crashes     *)
(* survives it, on either kind of database (README.md:199, import.go:177). *)
(***************************************************************************)
NoTraceWithoutCommit ==
  [][database' # database =>
       \E p \in Importers : tx[p] = "deciding" /\ tx'[p] = "committed"]_vars

(***************************************************************************)
(* "The normal configuration row serializes imports" (import.go:196): two  *)
(* transactions never have application tables or rows pending at the same  *)
(* time, also when a client has died and its transaction lingers.          *)
(***************************************************************************)
HasPendingWrites(p) ==
  /\ tx[p] \in {"active", "deciding"}
  /\ own[p] # {} \/ created[p] \intersect Targets # {}

ImportsSerialized ==
  \A p, q \in Importers : HasPendingWrites(p) /\ HasPendingWrites(q) => p = q

(***************************************************************************)
(* A report that was or may yet be printed is about a transaction that is  *)
(* committed, and its counts are the numbers of rows in the database.      *)
(***************************************************************************)
TruthfulReport ==
  \A p \in Importers : pc[p] \in {"report", "succeeded"} =>
    /\ tx[p] = "committed"
    /\ \A t \in Targets :
         counted[p][t] = IF t \in Written(p) THEN Cardinality(RowsOf(rows, t)) ELSE 0

(***************************************************************************)
(* The comparison of counts before the commit (import.go:243-250) is a     *)
(* second line of defence: buffering and flushing lose and add nothing, so *)
(* that it never has a reason to fail.                                     *)
(***************************************************************************)
CountCheckRedundant ==
  \A p \in Importers : pc[p] = "verify" =>
    \A t \in TargetsOf(MyPlan(p)) : Cardinality(Found(p, t)) = MyPlan(p).counts[t]

(***************************************************************************)
(* "rechecks all source files, configuration, and mappings for changes"    *)
(* (README.md:201): a file that differs from what the run read when the    *)
(* counts are verified, and stays so, keeps the run from committing.       *)
(***************************************************************************)
ChangeAtVerifyDetected ==
  \A p \in Importers : \A f \in FilesOf(p) :
    []((pc[p] = "verify" /\ [](disk[f] # held[p][f])) => [](pc[p] # "committing"))

(***************************************************************************)
(* Every run comes to an end and so does its transaction: a run waiting    *)
(* for the configuration row is not kept waiting by one that failed, was   *)
(* cut off or crashed while it held the row.                               *)
(***************************************************************************)
EveryRunEnds ==
  \A p \in Importers : <>[](pc[p] \in Ended /\ tx[p] \notin {"active", "deciding"})

(* The database has room for an import of the files as they are.          *)
RoomFor(plan) ==
  /\ transactionalDDL
  /\ config = NoRow \/ SameConfig(config, plan.envelope)
  /\ \A t \in TargetsOf(plan) :
       /\ plan.policies[t] # NoPolicy
       /\ meta[t] \in {NoRow, [value |-> plan.policies[t], version |-> 0]}
       /\ RowsOf(rows, t) = {}

Admissible(p) ==
  LET plan == PlanOf(p, [f \in FilesOf(p) |-> disk[f]])
  IN plan # Rejected /\ RoomFor(plan)

(***************************************************************************)
(* README.md:199, "Errors roll back all changes made by that transaction": *)
(* a run that returns an error has changed nothing.                        *)
(***************************************************************************)
ErrorsRollBack == \A p \in Importers : pc[p] = "failed" => tx[p] # "committed"

(***************************************************************************)
(* The runs together implement AtomicImport.                               *)
(***************************************************************************)
Outcome(p) == IF tx[p] \in {"committed", "aborted"} THEN tx[p] ELSE "pending"

Abstract == INSTANCE AtomicImport WITH outcome <- [p \in Importers |-> Outcome(p)]

ImplementsAtomicImport == Abstract!ASpec
=============================================================================
