---------------------------- MODULE AtomicImport ----------------------------
(***************************************************************************)
(* What the runs of an import promise together: each either changes        *)
(* nothing or, in one step, brings exactly the records of one agreed set   *)
(* of inputs into namespaces that are empty until then, and binds the      *)
(* network configuration and the namespace policies without changing what  *)
(* an earlier import or the committer's operator bound.                    *)
(***************************************************************************)
EXTENDS ImportPlan

VARIABLES tables, config, meta, rows, outcome

avars == <<tables, config, meta, rows, outcome>>

AInit ==
  /\ \E d \in Databases :
       tables = d.tables /\ config = d.config /\ meta = d.meta /\ rows = d.rows
  /\ outcome = [p \in Importers |-> "pending"]

Entry(value) == [value |-> value, version |-> 0]

Apply(p, plan) ==
  /\ \A r \in rows, n \in AllRows(plan) : r.ns # n.ns
  /\ config = NoRow \/ SameConfig(config, plan.envelope)
  /\ \A t \in TargetsOf(plan) :
       plan.policies[t] # NoPolicy /\ meta[t] \in {NoRow, Entry(plan.policies[t])}
  /\ tables' = tables \union TargetsOf(plan) \union {System}
  /\ config' = Entry(plan.envelope)
  /\ meta' = [t \in Targets |-> IF t \in TargetsOf(plan) THEN Entry(plan.policies[t]) ELSE meta[t]]
  /\ rows' = rows \union AllRows(plan)
  /\ outcome' = [outcome EXCEPT ![p] = "committed"]

ACommit(p) ==
  /\ outcome[p] = "pending"
  /\ \E h \in [FilesOf(p) -> Versions] : PlanOf(p, h) # Rejected /\ Apply(p, PlanOf(p, h))

AAbort(p) ==
  /\ outcome[p] = "pending"
  /\ outcome' = [outcome EXCEPT ![p] = "aborted"]
  /\ UNCHANGED <<tables, config, meta, rows>>

ANext == \E p \in Importers : ACommit(p) \/ AAbort(p)

ASpec == AInit /\ [][ANext]_avars
=============================================================================
