-------------------------- MODULE ImportInvariant --------------------------
(***************************************************************************)
(* The inductive invariant of Import: what a run knows at each of its      *)
(* steps, about its inputs, its transaction and the database.  It is what  *)
(* the proofs in ImportProofs rest on.                                     *)
(***************************************************************************)
EXTENDS Import

BeforeTx == {"open", "preflight", "recheck", "connect", "begin"}
Writing == {"stream", "flush", "verify", "revalidate", "commit"}
InTx == {"config", "create", "ensure"} \union Writing

(* The inputs that have been read, and the plan they were accepted with.   *)
InputsRead(p) ==
  /\ pc[p] = "open" =>
       /\ pos[p] <= Len(InputsOf(p))
       /\ \A i \in 1..(pos[p] - 1) : held[p][InputsOf(p)[i]] \in Versions
  /\ pc[p] \notin {"open", "failed", "crashed"} \/ tx[p] # "none" =>
       held[p] \in [FilesOf(p) -> Versions]

PlanAccepted(p) ==
  pc[p] \notin {"open", "preflight", "failed", "crashed"} \/ tx[p] # "none" =>
    MyPlan(p) # Rejected

IndexInLoop(p) ==
  /\ pc[p] \in {"create", "ensure"} => pos[p] <= Len(MyPlan(p).targets)
  /\ pc[p] = "stream" => pos[p] <= Len(MyPlan(p).stream)

(* The server's side of the transaction follows the run, unless the run    *)
(* has lost it.                                                            *)
Transaction(p) ==
  /\ pc[p] \in BeforeTx => tx[p] = "none"
  /\ pc[p] \in InTx => tx[p] = "active" /\ transactionalDDL
  /\ pc[p] = "begin" => transactionalDDL
  /\ pc[p] = "committing" => tx[p] \in {"deciding", "committed", "aborted"}
  /\ pc[p] \in {"report", "succeeded"} => tx[p] = "committed"

(* Between its ensureEntry and its end a transaction holds the row of      *)
(* _config, and nobody who is not in a transaction holds it.               *)
HoldsConfig(p) ==
  /\ pc[p] \in {"create", "ensure"} \union Writing \/ tx[p] = "deciding" => lock = p
  /\ lock = p => tx[p] \in {"active", "deciding"}

(* The database is what the transaction's snapshot shows, plus what was    *)
(* committed since.                                                        *)
CommittedSince(p) == {q \in Importers \ seen[p] : tx[q] = "committed"}

SnapshotOfRows(p) ==
  /\ seen[p] \subseteq {q \in Importers : tx[q] = "committed"}
  /\ tx[p] \in {"active", "deciding"} =>
       rows = snap[p].rows \union UNION {own[q] : q \in CommittedSince(p)}

(* What the run has bound and created, for the first targets of its plan.  *)
BoundFor(p, t) ==
  LET entry == [value |-> MyPlan(p).policies[t], version |-> 0]
  IN /\ ~HasRows(p, t)
     /\ MyPlan(p).policies[t] # NoPolicy
     /\ meta[t] \in {NoRow, entry}
     /\ snap[p].meta[t] = entry
     /\ t \in created[p]

Targeted(p, n) == {MyPlan(p).targets[i] : i \in 1..n}

NetworkBound(p) ==
  /\ config = NoRow \/ SameConfig(config, MyPlan(p).envelope)
  /\ snap[p].config = [value |-> MyPlan(p).envelope, version |-> 0]

Prepared(p) ==
  /\ pc[p] \in InTx \/ tx[p] = "deciding" => System \in created[p]
  /\ pc[p] \in {"create", "ensure"} =>
       /\ NetworkBound(p)
       /\ \A t \in Targeted(p, pos[p] - 1) : BoundFor(p, t)
       /\ pc[p] = "ensure" => MyPlan(p).targets[pos[p]] \in created[p]
  /\ pc[p] \in Writing \/ tx[p] = "deciding" =>
       /\ NetworkBound(p)
       /\ \A t \in TargetsOf(MyPlan(p)) : BoundFor(p, t)

CreatesOwnTables(p) ==
  /\ tx[p] = "none" => created[p] = {}
  /\ tx[p] \in {"active", "deciding"} => created[p] \subseteq TargetsOf(MyPlan(p)) \union {System}

(* Only a batch without records has no target.                             *)
BatchHasTarget(p) == batch[p].target = NoOne => batch[p].records = <<>>

(* No record is lost or made up between the stream and the transaction:    *)
(* as long as the bytes read are the agreed ones, the inserted rows and    *)
(* the batch together are the records delivered so far.                    *)
RecordsAccounted(p) ==
  /\ pc[p] \in BeforeTx \union {"config", "create", "ensure"} =>
       own[p] = {} /\ batch[p] = NoBatch /\ ~dirty[p]
  /\ pc[p] = "stream" /\ ~dirty[p] =>
       own[p] \union BatchRows(batch[p]) = RowsUpTo(MyPlan(p), pos[p] - 1)
  /\ pc[p] = "flush" => own[p] \union BatchRows(batch[p]) = AllRows(MyPlan(p))
  /\ pc[p] \in {"verify", "revalidate", "commit"} \/ tx[p] \in {"deciding", "committed"} =>
       own[p] = AllRows(MyPlan(p))

(***************************************************************************)
(* The invariant.                                                          *)
(***************************************************************************)
RunInv(p) ==
  /\ InputsRead(p)
  /\ PlanAccepted(p)
  /\ IndexInLoop(p)
  /\ Transaction(p)
  /\ HoldsConfig(p)
  /\ SnapshotOfRows(p)
  /\ Prepared(p)
  /\ CreatesOwnTables(p)
  /\ BatchHasTarget(p)
  /\ RecordsAccounted(p)

IInv == TypeOK /\ (\A p \in Importers : RunInv(p)) /\ ExactImport
=============================================================================
