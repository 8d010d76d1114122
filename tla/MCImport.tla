------------------------------ MODULE MCImport ------------------------------
(***************************************************************************)
(* Instances of Import.  The runs' plans are what MigrationPlan makes of   *)
(* mapping files and snapshots; contents of files are numbered versions.   *)
(*                                                                         *)
(* Every run has a mapping file of its own, which stands for its target    *)
(* configuration, too; all runs read one snapshot, of channel 1.           *)
(***************************************************************************)
EXTENDS ImportInvariant, TLC

CONSTANTS p1, p2, m1, m2, snapshot, e1, e2, e3, pol1, pol2

VARIABLE faultless    \* there are no faults in this behaviour

Plans == INSTANCE MigrationPlan WITH
  NoHashNamespace <- 0, SystemSources <- {"_lifecycle"}, ReservedTargets <- {9}

MappingFile(p) == IF p = p1 THEN m1 ELSE m2

MCInputsOf(p) == <<MappingFile(p), snapshot>>

MCTargets == {1, 2}
MCKeys == {"a", "b", "c", "d"}
MCValues == {"x", "y"}

(* e1 and e2 encode one configuration.                                     *)
MCConfigOf(e) == IF e = e2 THEN e1 ELSE e

To(namespace, target) ==
  [channel |-> 1, namespace |-> namespace, target |-> target, hashTarget |-> 0]

Agreed(v) ==
  CASE v = 1 -> [mappings |-> <<To("basic", 1)>>, envelope |-> e1]
    [] v = 2 -> [mappings |-> <<To("other", 1)>>, envelope |-> e2]
    [] v = 3 -> [mappings |-> <<To("basic", 1), To("other", 2)>>, envelope |-> e1]
    [] v = 4 -> [mappings |-> <<To("other", 2)>>, envelope |-> e3]
    [] v = 5 -> [mappings |-> <<To("absent", 1)>>, envelope |-> e1]

Rec(k, v) == [key |-> k, value |-> v, metadata |-> FALSE]

Snapshots(v) ==
  1 :> [public |-> <<[name |-> "_lifecycle", records |-> <<Rec("a", "x")>>],
                     [name |-> "basic", records |-> <<Rec("a", IF v = 1 THEN "x" ELSE "y"),
                                                      Rec("b", "x"), Rec("c", "x")>>],
                     [name |-> "other", records |-> <<Rec("d", "x")>>]>>,
        hashes |-> <<>>]

PlanFor(v, w) ==
  LET pre == Plans!Preflight(Agreed(v).mappings, Snapshots(w))
  IN IF pre = Rejected THEN Rejected
     ELSE [envelope |-> Agreed(v).envelope,
           targets |-> Plans!SortedKeys(DOMAIN pre.counts),
           counts |-> [t \in Targets |-> IF t \in DOMAIN pre.counts THEN pre.counts[t] ELSE 0],
           policies |-> [t \in Targets |-> IF t \in DOMAIN pre.counts THEN pol1 ELSE NoPolicy],
           stream |-> [i \in DOMAIN pre.stream |-> [pre.stream[i] EXCEPT !.file = snapshot]]]

PlanTable == [v \in 1..5, w \in 1..2 |-> PlanFor(v, w)]

MCPlanOf(p, h) == PlanTable[h[MappingFile(p)], IF h[snapshot] = 1 THEN 1 ELSE 2]

(* Both runs with every mapping file, on one snapshot.                     *)
ConcurrentDisks == {(m1 :> v) @@ (m2 :> w) @@ (snapshot :> 1) : v \in {1, 3}, w \in {1, 2, 4, 5}}

OneRunDisks == {(m1 :> v) @@ (snapshot :> 1) : v \in {1, 3}}

Fresh == [transactionalDDL |-> TRUE, tables |-> {}, config |-> NoRow,
          meta |-> [t \in Targets |-> NoRow], rows |-> {}]

(* The committer has set up its tables, the configuration and namespace 1. *)
PreparedDatabase == [Fresh EXCEPT !.tables = {System, 1}, !.config = [value |-> e2, version |-> 0],
                          !.meta[1] = [value |-> pol1, version |-> 0]]

OtherNetwork == [PreparedDatabase EXCEPT !.config.value = e3]
UpdatedConfig == [PreparedDatabase EXCEPT !.config.version = 1]
OtherPolicy == [PreparedDatabase EXCEPT !.meta[1].value = pol2]
InUse == [PreparedDatabase EXCEPT !.rows = {[ns |-> 1, key |-> "b", value |-> "y", version |-> 1]}]
PartialDDL == [Fresh EXCEPT !.transactionalDDL = FALSE]

MCDatabases == {Fresh, PreparedDatabase, OtherNetwork, UpdatedConfig, OtherPolicy, InUse, PartialDDL}
RoomyDatabases == {Fresh, PreparedDatabase}
-----------------------------------------------------------------------------
(* What happens without faults; the database rejects a COMMIT only if the  *)
(* transaction is not serializable.                                        *)
Orderly ==
  \/ \E p \in Importers :
       \/ Step(p) \/ ServerCommits(p) \/ ServerAborts(p)
       \/ ServerRejects(p) /\ SerializationConflict(p)
  \/ \E f \in Changeable : ChangeInput(f)
  \/ Terminated

MCInit == Init /\ faultless \in {TRUE, ~Faulty}

MCNext ==
  /\ \/ faultless /\ Orderly
     \/ ~faultless /\ Next
  /\ UNCHANGED faultless

MCSpec == MCInit /\ [][MCNext]_<<vars, faultless>>

MCFairSpec == MCSpec /\ Fairness

(***************************************************************************)
(* Contention alone fails no more than it must: if there are no faults and *)
(* runs whose inputs are accepted start on a database that has room for    *)
(* them, some run succeeds.                                                *)
(***************************************************************************)
SomeImportSucceeds ==
  faultless /\ (\A p \in Importers : Admissible(p)) =>
    <>(\E p \in Importers : pc[p] = "succeeded")
=============================================================================
