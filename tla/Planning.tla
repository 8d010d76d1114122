------------------------------ MODULE Planning ------------------------------
(***************************************************************************)
(* The preflight of an import, for a mapping file and the snapshots that   *)
(* have been opened: one choice of inputs, followed by one evaluation of   *)
(* Preflight (MigrationPlan).                                              *)
(***************************************************************************)
EXTENDS MigrationPlan

CONSTANTS
  MappingFiles,   \* mappings, in file order
  Supplied,       \* the opened snapshots, by channel
  Pending         \* the preflight has not run

VARIABLES
  file,         \* the mappings in file order
  snapshots,    \* the opened snapshot of every supplied channel
  plan          \* what Preflight returned

vars == <<file, snapshots, plan>>

(***************************************************************************)
(* The names of the namespaces in a snapshot are strictly ordered          *)
(* (stream.go:158), so none comes twice; the name of a hash namespace is   *)
(* made of its namespace and its collection.                               *)
(***************************************************************************)
WellFormed(snapshot) ==
  /\ IsSequence(snapshot.public)
  /\ IsSequence(snapshot.hashes)
  /\ \A ns \in ToSet(snapshot.public) \union ToSet(snapshot.hashes) : IsSequence(ns.records)
  /\ \A i, j \in DOMAIN snapshot.public :
       snapshot.public[i].name = snapshot.public[j].name => i = j
  /\ \A i, j \in DOMAIN snapshot.hashes :
       /\ snapshot.hashes[i].namespace = snapshot.hashes[j].namespace
       /\ snapshot.hashes[i].collection = snapshot.hashes[j].collection
       => i = j

ASSUME PlanningAssumption ==
  /\ \A f \in MappingFiles : IsSequence(f)
  /\ \A s \in Supplied :
       /\ DOMAIN s \subseteq Nat
       /\ IsFiniteSet(DOMAIN s)
       /\ \A c \in DOMAIN s : WellFormed(s[c])

Init ==
  /\ file \in MappingFiles
  /\ snapshots \in Supplied
  /\ plan = Pending

RunPreflight ==
  /\ plan = Pending
  /\ plan' = Preflight(file, snapshots)
  /\ UNCHANGED <<file, snapshots>>

Done == plan # Pending /\ UNCHANGED vars

Next == RunPreflight \/ Done

Spec == Init /\ [][Next]_vars
-----------------------------------------------------------------------------
Accepted == plan \notin {Pending, Rejected}

RecordItems == {i \in DOMAIN plan.stream : plan.stream[i].kind = "record"}

(***************************************************************************)
(* What the number of inserted rows is later compared with (import.go:248) *)
(* is computed from namespace metadata, the rows come from the walk: the   *)
(* two must agree for every target, and the walk may produce no record for *)
(* a target that is not counted, since its table is never created.         *)
(***************************************************************************)
CountsMatchWalk ==
  Accepted =>
    /\ \A i \in RecordItems : plan.stream[i].target \in DOMAIN plan.counts
    /\ \A t \in DOMAIN plan.counts :
         plan.counts[t] = Cardinality({i \in RecordItems : plan.stream[i].target = t})

(***************************************************************************)
(* Against a definition without loops: the walk yields exactly the public  *)
(* records of the mapped namespaces, to their target, and exactly the hash *)
(* records of their collections, to the hash target (README: "Consolidate  *)
(* channels"), even when both channels use one namespace name.             *)
(***************************************************************************)
RowsTo(target, namespaces, channel) ==
  {[file |-> channel, target |-> target, key |-> r.key, value |-> r.value] :
     r \in UNION {ToSet(ns.records) : ns \in namespaces}}

WalkIsTheSelection ==
  Accepted =>
    {[file |-> plan.stream[i].file, target |-> plan.stream[i].target,
      key |-> plan.stream[i].key, value |-> plan.stream[i].value] : i \in RecordItems}
    = UNION {RowsTo(m.target, PublicOf(m, snapshots), m.channel)
             \union RowsTo(HashTarget(m), HashesOf(m, snapshots), m.channel) : m \in ToSet(file)}

(***************************************************************************)
(* Whatever the mapping file says, only application state that can be      *)
(* represented is imported: no lifecycle or other system state, nothing    *)
(* into a namespace of the committer, and no record, public or hashed,     *)
(* whose key-level endorsement rule would be lost (README.md:151-154).     *)
(***************************************************************************)
ApplicationRecord(m, item) ==
  \E ns \in PublicOf(m, snapshots) \union HashesOf(m, snapshots) : \E r \in ToSet(ns.records) :
    ~r.metadata /\ item.key = r.key /\ item.value = r.value

OnlyApplicationState ==
  Accepted => \A i \in RecordItems :
    /\ plan.stream[i].target \notin ReservedTargets
    /\ \E m \in ToSet(file) :
         /\ m.channel = plan.stream[i].file
         /\ m.namespace \notin SystemSources
         /\ ApplicationRecord(m, plan.stream[i])
=============================================================================
