--------------------------- MODULE Organizations ---------------------------
(***************************************************************************)
(* Several organizations run the same import, each with its own database   *)
(* and its own copies of the input files, and compare the reports before   *)
(* they start services (README.md:30-35).  What one run does to one        *)
(* database while others use it is the subject of module Import; here an   *)
(* import is a single step that succeeds or changes nothing, and the       *)
(* question is what equal reports say about the databases.                 *)
(*                                                                         *)
(* The Importers of ImportPlan are the organizations.  Any of them may     *)
(* import several times, after other imports, from other files, and into   *)
(* a database that the committer or its operator has prepared.             *)
(***************************************************************************)
EXTENDS ImportPlan

CONSTANTS
  SourcesOf(_, _),   \* the sources and the mapping a report names: Result.Sources, .Mapping
  NoReport,
  MaxImports         \* bound on the imports of one organization

ASSUME BoundAssumption == MaxImports \in Nat

Contents(o) == [FilesOf(o) -> Versions]

(* The hashes in a report stand for the contents of the snapshot and of    *)
(* the source configuration.  The target configuration is not an input the *)
(* report names: only what became of it is reported.                       *)
ASSUME SourcesAssumption ==
  \A o1, o2 \in Importers : \A h1 \in Contents(o1), h2 \in Contents(o2) :
    LET plan1 == PlanOf(o1, h1)
        plan2 == PlanOf(o2, h2)
    IN /\ plan1 # Rejected
       /\ plan2 # Rejected
       /\ SourcesOf(o1, h1) = SourcesOf(o2, h2)
       => /\ plan1.targets = plan2.targets
          /\ AllRows(plan1) = AllRows(plan2)

VARIABLES
  db,        \* the database of an organization
  last,      \* the report of its last import, NoReport when the report was lost
  saved,     \* all reports it ever got
  imports    \* the number of its imports

vars == <<db, last, saved, imports>>

(***************************************************************************)
(* The guards of Import, and what it leaves in the database.               *)
(***************************************************************************)
Entry(value) == [value |-> value, version |-> 0]

RowsIn(rows, targets) == {r \in rows : r.ns \in targets}

(* Primary keys: no two records of the walk go to one key of a namespace.  *)
KeysDistinct(plan) ==
  \A i, j \in {k \in DOMAIN plan.stream : plan.stream[k].kind = "record"} :
    /\ plan.stream[i].target = plan.stream[j].target
    /\ plan.stream[i].key = plan.stream[j].key
    => i = j

(* As Accepts, with an entry of _meta that differs taken for a match.      *)
AcceptsOtherPolicy(d, plan) ==
  /\ plan # Rejected
  /\ d.transactionalDDL
  /\ d.config # NoRow => SameConfig(d.config, plan.envelope)
  /\ RowsIn(d.rows, TargetsOf(plan)) = {}
  /\ \A t \in TargetsOf(plan) : plan.policies[t] # NoPolicy
  /\ KeysDistinct(plan)
  /\ \A t \in TargetsOf(plan) : Cardinality(RowsIn(AllRows(plan), {t})) = plan.counts[t]

Accepts(d, plan) ==
  /\ plan # Rejected
  /\ d.transactionalDDL
  /\ d.config # NoRow => SameConfig(d.config, plan.envelope)
  /\ RowsIn(d.rows, TargetsOf(plan)) = {}
  /\ \A t \in TargetsOf(plan) :
       /\ plan.policies[t] # NoPolicy
       /\ d.meta[t] \in {NoRow, Entry(plan.policies[t])}
  /\ KeysDistinct(plan)
  /\ \A t \in TargetsOf(plan) : Cardinality(RowsIn(AllRows(plan), {t})) = plan.counts[t]

(* As After, with the configuration row left alone when it agrees.         *)
AfterConfigKept(d, plan) ==
  [d EXCEPT !.tables = @ \union TargetsOf(plan) \union {System},
            !.config = IF @ = NoRow THEN Entry(plan.envelope) ELSE @,
            !.meta = [t \in Targets |->
                        IF t \in TargetsOf(plan) THEN Entry(plan.policies[t]) ELSE @[t]],
            !.rows = @ \union AllRows(plan)]

(* The configuration row holds the envelope of the import, also when it    *)
(* held an equal configuration before.                                     *)
After(d, plan) ==
  [d EXCEPT !.tables = @ \union TargetsOf(plan) \union {System},
            !.config = Entry(plan.envelope),
            !.meta = [t \in Targets |->
                        IF t \in TargetsOf(plan) THEN Entry(plan.policies[t]) ELSE @[t]],
            !.rows = @ \union AllRows(plan)]

(* Result.  The count of a namespace is the database's, which Accepts      *)
(* compares with the plan's.                                               *)
Report(o, h) ==
  LET plan == PlanOf(o, h)
  IN [sources |-> SourcesOf(o, h),
      envelope |-> plan.envelope,
      targets |-> plan.targets,
      counts |-> [t \in TargetsOf(plan) |-> plan.counts[t]],
      policies |-> [t \in TargetsOf(plan) |-> plan.policies[t]]]

(***************************************************************************)
(* One run of one organization.  A run that is refused or fails changes    *)
(* nothing.  After the commit the report may be lost: the answer to COMMIT *)
(* does not arrive, or the result cannot be written.                       *)
(***************************************************************************)
Init ==
  /\ db \in [Importers -> Databases]
  /\ last = [o \in Importers |-> NoReport]
  /\ saved = [o \in Importers |-> {}]
  /\ imports = [o \in Importers |-> 0]

Import(o, h) ==
  /\ imports[o] < MaxImports
  /\ Accepts(db[o], PlanOf(o, h))
  /\ db' = [db EXCEPT ![o] = After(db[o], PlanOf(o, h))]
  /\ imports' = [imports EXCEPT ![o] = @ + 1]

Reported(o) ==
  \E h \in Contents(o) :
    /\ Import(o, h)
    /\ last' = [last EXCEPT ![o] = Report(o, h)]
    /\ saved' = [saved EXCEPT ![o] = @ \union {Report(o, h)}]

Unreported(o) ==
  \E h \in Contents(o) :
    /\ Import(o, h)
    /\ last' = [last EXCEPT ![o] = NoReport]
    /\ UNCHANGED saved

Next == \E o \in Importers : Reported(o) \/ Unreported(o)

Spec == Init /\ [][Next]_vars

(***************************************************************************)
(* Properties.                                                             *)
(***************************************************************************)
ReportedTargets(report) == {report.targets[i] : i \in DOMAIN report.targets}

(* Equal reports of two organizations' last imports mean equal databases   *)
(* as far as the reports reach: the bytes of the configuration row, the    *)
(* policies, and every key, value and version of the namespaces            *)
(* (README.md:33, import.go:286).  This must hold although counts and      *)
(* policies are all that reports say of the rows, although the files may   *)
(* differ where reports do not tell, and whatever was prepared or imported *)
(* before.                                                                 *)
EqualReportsEqualRows ==
  \A o1, o2 \in Importers :
    last[o1] = last[o2] /\ last[o1] # NoReport =>
      LET targets == ReportedTargets(last[o1])
      IN /\ db[o1].config = db[o2].config
         /\ \A t \in targets : db[o1].meta[t] = db[o2].meta[t]
         /\ RowsIn(db[o1].rows, targets) = RowsIn(db[o2].rows, targets)

(* Old reports stay true: what an organization imported earlier is as two  *)
(* equal reports say it is, through later imports of other mappings.       *)
(* Exempt are namespaces reported with no records: they still count as     *)
(* empty, and a later import may fill them (import.go:206).                *)
OldReportsHold ==
  \A o1, o2 \in Importers : \A report \in saved[o1] \intersect saved[o2] :
    /\ ConfigOf(db[o1].config.value) = ConfigOf(db[o2].config.value)
    /\ \A t \in ReportedTargets(report) :
         /\ db[o1].meta[t] = db[o2].meta[t]
         /\ report.counts[t] > 0 => RowsIn(db[o1].rows, {t}) = RowsIn(db[o2].rows, {t})
=============================================================================
