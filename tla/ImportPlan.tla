----------------------------- MODULE ImportPlan -----------------------------
(***************************************************************************)
(* What the runs of an import share with their specification: the inputs a *)
(* run reads, the plan they determine, and the rows and entries a database *)
(* is made of.                                                             *)
(*                                                                         *)
(* PlanOf(p, h) stands for what Import computes before it connects, when   *)
(* run p finds the contents h in its input files; module MigrationPlan     *)
(* defines the part that comes from mappings and snapshots.                *)
(***************************************************************************)
EXTENDS Naturals, Sequences, FiniteSets

CONSTANTS
  Importers,     \* runs of the program
  InputsOf(_),   \* the input files of a run, in the order it reads them
  Versions,      \* contents an input file may have
  Targets,       \* application namespaces of the target network
  Keys, Values,  \* keys and values of records
  Envelopes,     \* resolved target configurations, as bytes
  Policies,      \* encoded namespace policies
  PlanOf(_, _),  \* the plan of a run for given input versions, or Rejected
  ConfigOf(_),   \* what decodeChannelConfig makes of an envelope
  Disks,         \* the contents the input files may be found with
  Databases,     \* the states the database may be found in
  System,        \* stands for the system tables and their functions
  NoVersion, NoRow, NoPolicy, NoOne, Rejected

FilesOf(p) == {InputsOf(p)[i] : i \in DOMAIN InputsOf(p)}

Files == UNION {FilesOf(p) : p \in Importers}

Item == [kind: {"record"}, file: Files, target: Targets, key: Keys, value: Values]
        \union [kind: {"end"}, file: Files]

Plan == [envelope: Envelopes,
         targets: Seq(Targets),       \* sortedKeys(counts)
         counts: [Targets -> Nat],
         policies: [Targets -> Policies \union {NoPolicy}],
         stream: Seq(Item)]

Row == [ns: Targets, key: Keys, value: Values, version: Nat]

EntryOrNone(S) == [value: S, version: Nat] \union {NoRow}

TargetsOf(plan) == {plan.targets[i] : i \in DOMAIN plan.targets}

Database ==
  [transactionalDDL: BOOLEAN,
   tables: SUBSET (Targets \union {System}),
   config: EntryOrNone(Envelopes),
   meta: [Targets -> EntryOrNone(Policies)],
   rows: SUBSET Row]

(* The rows the first n items of a plan's stream stand for.                *)
RowFor(target, key, value) == [ns |-> target, key |-> key, value |-> value, version |-> 0]

RowsUpTo(plan, n) ==
  {RowFor(plan.stream[i].target, plan.stream[i].key, plan.stream[i].value) :
     i \in {j \in 1..n : plan.stream[j].kind = "record"}}

AllRows(plan) == RowsUpTo(plan, Len(plan.stream))

(* The items among the first n that go to a target.                        *)
ItemsTo(plan, n, t) == {i \in 1..n : plan.stream[i].kind = "record" /\ plan.stream[i].target = t}

(* A configuration row that agrees with a resolved target configuration;   *)
(* signatures and the encoding of the envelope do not count.               *)
SameConfig(entry, envelope) ==
  entry.version = 0 /\ ConfigOf(entry.value) = ConfigOf(envelope)

ASSUME InputAssumption ==
  \A p \in Importers : InputsOf(p) \in Seq(FilesOf(p)) /\ InputsOf(p) # <<>>

ASSUME SentinelAssumption ==
  /\ NoVersion \notin Versions
  /\ NoOne \notin Importers \union Targets
  /\ System \notin Targets
  /\ NoPolicy \notin Policies
  /\ NoRow \notin [value: Envelopes \union Policies, version: {0, 1}]

(* An accepted plan has somewhere to write to, sends every record to one   *)
(* of its targets and ends with the digest check of the last file.         *)
ASSUME PlanAssumption ==
  \A p \in Importers : \A h \in [FilesOf(p) -> Versions] :
    LET plan == PlanOf(p, h)
    IN plan # Rejected =>
         /\ plan \in Plan
         /\ plan.targets # <<>>
         /\ plan.stream # <<>>
         /\ plan.stream[Len(plan.stream)].kind = "end"
         /\ \A i \in DOMAIN plan.stream :
              /\ plan.stream[i].file \in FilesOf(p)
              /\ plan.stream[i].kind = "record" => plan.stream[i].target \in TargetsOf(plan)

(* The counts of an accepted plan, which come from metadata, are those of  *)
(* its stream.                                                             *)
ASSUME CountAssumption ==
  \A p \in Importers : \A h \in [FilesOf(p) -> Versions] :
    LET plan == PlanOf(p, h)
    IN plan # Rejected =>
         \A t \in TargetsOf(plan) :
           plan.counts[t] = Cardinality(ItemsTo(plan, Len(plan.stream), t))

ASSUME StartAssumption == Disks \subseteq [Files -> Versions] /\ Databases \subseteq Database
=============================================================================
