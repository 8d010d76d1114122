--------------------------- MODULE MCOrganizations ---------------------------
(***************************************************************************)
(* Two organizations with files "mapping", "target" and "snapshot", whose  *)
(* contents are numbered.  The plans are computed by MigrationPlan.        *)
(***************************************************************************)
EXTENDS Organizations, TLC

CONSTANTS o1, o2, e1, e2, e3, pol1, pol2

Plans == INSTANCE MigrationPlan WITH
  NoHashNamespace <- 0, SystemSources <- {"_lifecycle"}, ReservedTargets <- {9}

MCInputsOf(o) == <<"mapping", "target", "snapshot">>

MCTargets == {1, 2}
MCKeys == {"a", "b", "h"}
MCValues == {"x", "y"}

(* e1 and e2 encode one configuration.                                     *)
MCConfigOf(e) == IF e = e2 THEN e1 ELSE e

To(namespace, target, hashTarget) ==
  [channel |-> 1, namespace |-> namespace, target |-> target, hashTarget |-> hashTarget]

(* 4 orders the mappings of 3 differently; 2 has hashes only, which leave  *)
(* namespace 1 without records.                                            *)
MappingFile(v) ==
  CASE v = 1 -> <<To("basic", 1, 0)>>
    [] v = 2 -> <<To("private", 1, 2)>>
    [] v = 3 -> <<To("basic", 1, 0), To("private", 2, 0)>>
    [] v = 4 -> <<To("private", 2, 0), To("basic", 1, 0)>>

TargetFile == (1 :> e1) @@ (2 :> e2) @@ (3 :> e3)

Rec(k, v) == [key |-> k, value |-> v, metadata |-> FALSE]

(* Snapshots 1 and 2 have as many records; 3 is damaged.  The definitions  *)
(* in 1 and 2 differ in a policy, as well.                                 *)
Snapshots(w) ==
  1 :> [public |-> <<[name |-> "basic", records |-> <<Rec("a", IF w = 1 THEN "x" ELSE "y"), Rec("b", "x")>>]>>,
        hashes |-> <<[namespace |-> "private", collection |-> "c", records |-> <<Rec("h", "x")>>]>>]

PolicyIn(w) == IF w = 1 THEN pol1 ELSE pol2

PlanFor(m, c, w) ==
  LET pre == Plans!Preflight(MappingFile(m), Snapshots(w))
  IN IF c > 3 \/ w > 2 \/ pre = Rejected THEN Rejected
     ELSE [envelope |-> TargetFile[c],
           targets |-> Plans!SortedKeys(DOMAIN pre.counts),
           counts |-> [t \in Targets |-> IF t \in DOMAIN pre.counts THEN pre.counts[t] ELSE 0],
           policies |-> [t \in Targets |-> IF t \in DOMAIN pre.counts THEN PolicyIn(w) ELSE NoPolicy],
           stream |-> [i \in DOMAIN pre.stream |-> [pre.stream[i] EXCEPT !.file = "snapshot"]]]

PlanTable == [m \in 1..4, c \in 1..4, w \in 1..4 |-> PlanFor(m, c, w)]

MCPlanOf(o, h) == PlanTable[h["mapping"], h["target"], h["snapshot"]]

MCSourcesOf(o, h) == [mapping |-> Plans!ReadMappings(MappingFile(h["mapping"])), snapshot |-> h["snapshot"]]

MCDisks == {}

Fresh == [transactionalDDL |-> TRUE, tables |-> {}, config |-> NoRow,
          meta |-> [t \in Targets |-> NoRow], rows |-> {}]

Prepared == [Fresh EXCEPT !.tables = {System, 1}, !.config = [value |-> e2, version |-> 0],
                          !.meta[1] = [value |-> pol1, version |-> 0]]

MCDatabases == {Fresh, Prepared}
=============================================================================
