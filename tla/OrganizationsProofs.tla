------------------------ MODULE OrganizationsProofs ------------------------
(***************************************************************************)
(* Proofs about Organizations.  The invariant ties every report to the     *)
(* contents it was made from: the last report describes the database       *)
(* exactly (Describes), an old one as far as later imports cannot change   *)
(* it (StillHolds).  Two reports that are equal then describe the same     *)
(* rows, by SourcesAssumption.                                             *)
(***************************************************************************)
EXTENDS Organizations, FiniteSetTheorems, TLAPS

Accepted(o) == {h \in Contents(o) : PlanOf(o, h) # Rejected}

Describes(plan, d) ==
  /\ d.config = Entry(plan.envelope)
  /\ \A t \in TargetsOf(plan) : d.meta[t] = Entry(plan.policies[t])
  /\ RowsIn(d.rows, TargetsOf(plan)) = AllRows(plan)

StillHolds(plan, d) ==
  /\ d.config # NoRow
  /\ ConfigOf(d.config.value) = ConfigOf(plan.envelope)
  /\ \A t \in TargetsOf(plan) :
       /\ plan.policies[t] # NoPolicy
       /\ d.meta[t] = Entry(plan.policies[t])
       /\ plan.counts[t] > 0 =>
            /\ RowsIn(d.rows, {t}) = RowsIn(AllRows(plan), {t})
            /\ RowsIn(d.rows, {t}) # {}

Functions ==
  /\ db = [o \in Importers |-> db[o]]
  /\ last = [o \in Importers |-> last[o]]
  /\ saved = [o \in Importers |-> saved[o]]
  /\ \A o \in Importers : db[o] \in Database

LastTrue(o) ==
  last[o] # NoReport =>
    \E h \in Accepted(o) : last[o] = Report(o, h) /\ Describes(PlanOf(o, h), db[o])

SavedTrue(o) ==
  \A report \in saved[o] :
    \E h \in Accepted(o) : report = Report(o, h) /\ StillHolds(PlanOf(o, h), db[o])

RInv == Functions /\ \A o \in Importers : LastTrue(o) /\ SavedTrue(o)

(***************************************************************************)
(* Plans.                                                                  *)
(***************************************************************************)

(* An accepted plan has the parts Plan says.                               *)
LEMMA AcceptedPlan ==
  ASSUME NEW o \in Importers, NEW h \in Accepted(o)
  PROVE  LET plan == PlanOf(o, h)
         IN /\ plan # Rejected
            /\ plan \in Plan
            /\ TargetsOf(plan) \subseteq Targets
            /\ \A i \in DOMAIN plan.stream :
                 plan.stream[i].kind = "record" => plan.stream[i].target \in TargetsOf(plan)
  <1>1. PlanOf(o, h) # Rejected /\ PlanOf(o, h) \in Plan
    BY PlanAssumption DEF Accepted, Contents
  <1>2. TargetsOf(PlanOf(o, h)) \subseteq Targets
    BY <1>1 DEF Plan, TargetsOf
  <1> QED
    BY <1>1, <1>2, PlanAssumption DEF Accepted, Contents

(* The rows of an accepted plan are rows, of its targets.                  *)
LEMMA RowsOfPlan ==
  ASSUME NEW o \in Importers, NEW h \in Accepted(o)
  PROVE  /\ AllRows(PlanOf(o, h)) \subseteq Row
         /\ \A r \in AllRows(PlanOf(o, h)) : r.ns \in TargetsOf(PlanOf(o, h))
  <1> DEFINE plan == PlanOf(o, h)
  <1>1. /\ plan.stream \in Seq(Item)
        /\ TargetsOf(plan) \subseteq Targets
        /\ \A i \in DOMAIN plan.stream :
             plan.stream[i].kind = "record" => plan.stream[i].target \in TargetsOf(plan)
    BY AcceptedPlan DEF Plan
  <1>2. SUFFICES ASSUME NEW i \in 1..Len(plan.stream), plan.stream[i].kind = "record"
                 PROVE  LET r == RowFor(plan.stream[i].target, plan.stream[i].key, plan.stream[i].value)
                        IN r \in Row /\ r.ns \in TargetsOf(plan)
    BY Zenon DEF AllRows, RowsUpTo
  <1>3. i \in DOMAIN plan.stream /\ plan.stream[i] \in Item
    BY <1>1, <1>2
  <1>4. plan.stream[i].key \in Keys /\ plan.stream[i].value \in Values
    BY <1>2, <1>3 DEF Item
  <1> QED
    BY <1>1, <1>2, <1>3, <1>4 DEF RowFor, Row

(* An import leaves a database that its plan describes, and a database of  *)
(* the right type.                                                         *)
LEMMA AfterDescribes ==
  ASSUME NEW o \in Importers, NEW h \in Accepted(o), NEW d \in Database, Accepts(d, PlanOf(o, h))
  PROVE  /\ After(d, PlanOf(o, h)) \in Database
         /\ Describes(PlanOf(o, h), After(d, PlanOf(o, h)))
         /\ StillHolds(PlanOf(o, h), After(d, PlanOf(o, h)))
  <1> DEFINE plan == PlanOf(o, h)
             e == After(d, plan)
  <1>1. plan \in Plan /\ TargetsOf(plan) \subseteq Targets
    BY AcceptedPlan
  <1>2. /\ plan.envelope \in Envelopes
        /\ plan.policies \in [Targets -> Policies \union {NoPolicy}]
        /\ plan.counts \in [Targets -> Nat]
    BY <1>1 DEF Plan
  <1>3. /\ d.meta \in [Targets -> EntryOrNone(Policies)]
        /\ d.tables \subseteq Targets \union {System}
        /\ d.rows \subseteq Row
        /\ d.transactionalDDL \in BOOLEAN
    BY DEF Database
  <1>4. /\ RowsIn(d.rows, TargetsOf(plan)) = {}
        /\ \A t \in TargetsOf(plan) : plan.policies[t] # NoPolicy
        /\ \A t \in TargetsOf(plan) : Cardinality(RowsIn(AllRows(plan), {t})) = plan.counts[t]
    BY DEF Accepts
  <1>5. e = [transactionalDDL |-> d.transactionalDDL,
             tables |-> d.tables \union TargetsOf(plan) \union {System},
             config |-> Entry(plan.envelope),
             meta |-> [t \in Targets |-> IF t \in TargetsOf(plan) THEN Entry(plan.policies[t]) ELSE d.meta[t]],
             rows |-> d.rows \union AllRows(plan)]
    <2> DEFINE Meta == [t \in Targets |-> IF t \in TargetsOf(plan) THEN Entry(plan.policies[t]) ELSE d.meta[t]]
               Conf == Entry(plan.envelope)
               Tabs == d.tables \union TargetsOf(plan) \union {System}
               Rows == d.rows \union AllRows(plan)
    <2>1. e = [d EXCEPT !.tables = Tabs, !.config = Conf, !.meta = Meta, !.rows = Rows]
      BY DEF After
    <2> HIDE DEF Meta, Conf, Tabs, Rows, plan, e
    <2>2. e = [transactionalDDL |-> d.transactionalDDL, tables |-> Tabs, config |-> Conf,
               meta |-> Meta, rows |-> Rows]
      BY <2>1 DEF Database
    <2> QED
      BY <2>2 DEF Meta, Conf, Tabs, Rows
  <1>6. Entry(plan.envelope) \in EntryOrNone(Envelopes) /\ Entry(plan.envelope) # NoRow
    BY <1>2, SentinelAssumption DEF Entry, EntryOrNone
  <1>7. \A t \in TargetsOf(plan) : Entry(plan.policies[t]) \in EntryOrNone(Policies)
    BY <1>1, <1>2, <1>4 DEF Entry, EntryOrNone
  <1>8. e \in Database
    <2>1. e.meta \in [Targets -> EntryOrNone(Policies)]
      BY <1>3, <1>5, <1>7
    <2>2. e.rows \subseteq Row
      BY <1>3, <1>5, RowsOfPlan
    <2> QED
      BY <1>1, <1>3, <1>5, <1>6, <2>1, <2>2 DEF Database
  <1>9. /\ e.config = Entry(plan.envelope)
        /\ \A t \in TargetsOf(plan) : e.meta[t] = Entry(plan.policies[t])
    BY <1>1, <1>5
  <1>10. RowsIn(e.rows, TargetsOf(plan)) = AllRows(plan)
    BY <1>4, <1>5, RowsOfPlan DEF RowsIn
  <1>11. ASSUME NEW t \in TargetsOf(plan)
         PROVE  /\ RowsIn(e.rows, {t}) = RowsIn(AllRows(plan), {t})
                /\ plan.counts[t] > 0 => RowsIn(e.rows, {t}) # {}
    <2>1. RowsIn(e.rows, {t}) = RowsIn(AllRows(plan), {t})
      BY <1>4, <1>5 DEF RowsIn
    <2>2. plan.counts[t] > 0 => RowsIn(AllRows(plan), {t}) # {}
      <3>1. Cardinality(RowsIn(AllRows(plan), {t})) = plan.counts[t]
        BY <1>4
      <3>2. Cardinality({}) = 0
        BY FS_EmptySet
      <3> HIDE DEF plan, e
      <3> QED
        BY <3>1, <3>2
    <2> QED
      BY <2>1, <2>2
  <1>12. ConfigOf(e.config.value) = ConfigOf(plan.envelope) /\ e.config # NoRow
    BY <1>6, <1>9 DEF Entry
  <1>13. Describes(plan, e)
    BY <1>9, <1>10 DEF Describes
  <1>14. StillHolds(plan, e)
    BY <1>4, <1>9, <1>11, <1>12 DEF StillHolds
  <1> QED
    BY <1>8, <1>13, <1>14

(* What was imported and reported before an import is so after it.         *)
LEMMA AfterKeeps ==
  ASSUME NEW o \in Importers, NEW h \in Accepted(o), NEW g \in Accepted(o), NEW d \in Database,
         Accepts(d, PlanOf(o, h)), StillHolds(PlanOf(o, g), d)
  PROVE  StillHolds(PlanOf(o, g), After(d, PlanOf(o, h)))
  <1> DEFINE plan == PlanOf(o, h)
             old == PlanOf(o, g)
             e == After(d, plan)
  <1>1. /\ plan \in Plan /\ TargetsOf(plan) \subseteq Targets
        /\ old \in Plan /\ TargetsOf(old) \subseteq Targets
    BY AcceptedPlan
  <1>2. /\ plan.envelope \in Envelopes
        /\ old.policies \in [Targets -> Policies \union {NoPolicy}]
    BY <1>1 DEF Plan
  <1>3. /\ e.config = Entry(plan.envelope)
        /\ e.meta = [t \in Targets |-> IF t \in TargetsOf(plan) THEN Entry(plan.policies[t]) ELSE d.meta[t]]
        /\ e.rows = d.rows \union AllRows(plan)
    BY DEF After, Database
  <1>4. e.config # NoRow /\ ConfigOf(e.config.value) = ConfigOf(old.envelope)
    <2>1. Entry(plan.envelope) # NoRow
      BY <1>2, SentinelAssumption DEF Entry
    <2>2. ConfigOf(d.config.value) = ConfigOf(plan.envelope)
      BY DEF Accepts, SameConfig, StillHolds
    <2>3. ConfigOf(d.config.value) = ConfigOf(old.envelope)
      BY DEF StillHolds
    <2>4. Entry(plan.envelope).value = plan.envelope
      BY DEF Entry
    <2>5. e.config.value = plan.envelope
      BY <1>3, <2>4
    <2> QED
      BY <1>3, <2>1, <2>2, <2>3, <2>5
  <1>5. ASSUME NEW t \in TargetsOf(old)
        PROVE  /\ old.policies[t] # NoPolicy
               /\ e.meta[t] = Entry(old.policies[t])
    <2>1. old.policies[t] # NoPolicy /\ d.meta[t] = Entry(old.policies[t])
      BY DEF StillHolds
    <2>2. Entry(old.policies[t]) # NoRow
      BY <1>1, <1>2, <2>1, SentinelAssumption DEF Entry
    <2>3. t \in TargetsOf(plan) => d.meta[t] = Entry(plan.policies[t])
      BY <2>1, <2>2 DEF Accepts
    <2> QED
      BY <1>1, <1>3, <2>1, <2>3
  <1>6. ASSUME NEW t \in TargetsOf(old), old.counts[t] > 0
        PROVE  RowsIn(e.rows, {t}) = RowsIn(AllRows(old), {t}) /\ RowsIn(e.rows, {t}) # {}
    <2>1. RowsIn(d.rows, {t}) = RowsIn(AllRows(old), {t}) /\ RowsIn(d.rows, {t}) # {}
      BY <1>6 DEF StillHolds
    <2>2. t \notin TargetsOf(plan)
      BY <2>1 DEF Accepts, RowsIn
    <2>3. RowsIn(e.rows, {t}) = RowsIn(d.rows, {t})
      BY <1>3, <2>2, RowsOfPlan DEF RowsIn
    <2> QED
      BY <2>1, <2>3
  <1> QED
    BY <1>4, <1>5, <1>6 DEF StillHolds

(* Equal reports come from plans for the same rows.                        *)
LEMMA EqualReportsEqualPlans ==
  ASSUME NEW o1 \in Importers, NEW h1 \in Accepted(o1),
         NEW o2 \in Importers, NEW h2 \in Accepted(o2),
         Report(o1, h1) = Report(o2, h2)
  PROVE  LET plan1 == PlanOf(o1, h1)
             plan2 == PlanOf(o2, h2)
         IN /\ plan1.envelope = plan2.envelope
            /\ TargetsOf(plan1) = TargetsOf(plan2)
            /\ ReportedTargets(Report(o1, h1)) = TargetsOf(plan1)
            /\ AllRows(plan1) = AllRows(plan2)
            /\ \A t \in TargetsOf(plan1) :
                 /\ plan1.policies[t] = plan2.policies[t]
                 /\ plan1.counts[t] = plan2.counts[t]
                 /\ Report(o1, h1).counts[t] = plan1.counts[t]
  <1> DEFINE plan1 == PlanOf(o1, h1)
             plan2 == PlanOf(o2, h2)
  <1>1. /\ SourcesOf(o1, h1) = SourcesOf(o2, h2)
        /\ plan1.envelope = plan2.envelope
        /\ plan1.targets = plan2.targets
        /\ [t \in TargetsOf(plan1) |-> plan1.counts[t]] = [t \in TargetsOf(plan2) |-> plan2.counts[t]]
        /\ [t \in TargetsOf(plan1) |-> plan1.policies[t]] = [t \in TargetsOf(plan2) |-> plan2.policies[t]]
        /\ Report(o1, h1).targets = plan1.targets
        /\ Report(o1, h1).counts = [t \in TargetsOf(plan1) |-> plan1.counts[t]]
    BY DEF Report
  <1>2. TargetsOf(plan1) = TargetsOf(plan2) /\ ReportedTargets(Report(o1, h1)) = TargetsOf(plan1)
    BY <1>1 DEF TargetsOf, ReportedTargets
  <1>3. AllRows(plan1) = AllRows(plan2)
    BY <1>1, SourcesAssumption DEF Accepted
  <1>4. ASSUME NEW t \in TargetsOf(plan1)
        PROVE  /\ plan1.policies[t] = plan2.policies[t]
               /\ plan1.counts[t] = plan2.counts[t]
               /\ Report(o1, h1).counts[t] = plan1.counts[t]
    <2> DEFINE T == TargetsOf(plan1)
    <2>1. /\ [u \in T |-> plan1.counts[u]] = [u \in T |-> plan2.counts[u]]
          /\ [u \in T |-> plan1.policies[u]] = [u \in T |-> plan2.policies[u]]
          /\ Report(o1, h1).counts = [u \in T |-> plan1.counts[u]]
      BY <1>1, <1>2
    <2>2. t \in T
      OBVIOUS
    <2> HIDE DEF T
    <2>3. /\ [u \in T |-> plan1.counts[u]][t] = plan1.counts[t]
          /\ [u \in T |-> plan2.counts[u]][t] = plan2.counts[t]
          /\ [u \in T |-> plan1.policies[u]][t] = plan1.policies[t]
          /\ [u \in T |-> plan2.policies[u]][t] = plan2.policies[t]
      BY <2>2
    <2> QED
      BY <2>1, <2>3
  <1> QED
    BY <1>1, <1>2, <1>3, <1>4

(***************************************************************************)
(* The invariant.                                                          *)
(***************************************************************************)

(* One import keeps it, whatever becomes of the report.                    *)
LEMMA ImportKeeps ==
  ASSUME RInv, NEW o \in Importers, NEW h \in Contents(o), Import(o, h),
         \/ /\ last' = [last EXCEPT ![o] = Report(o, h)]
            /\ saved' = [saved EXCEPT ![o] = @ \union {Report(o, h)}]
         \/ /\ last' = [last EXCEPT ![o] = NoReport]
            /\ saved' = saved
  PROVE  RInv'
  <1> DEFINE plan == PlanOf(o, h)
  <1>1. h \in Accepted(o) /\ Accepts(db[o], plan) /\ db[o] \in Database
    BY DEF Import, Accepts, Accepted, RInv, Functions
  <1>2. /\ db' = [p \in Importers |-> IF p = o THEN After(db[o], plan) ELSE db[p]]
        /\ db'[o] = After(db[o], plan)
        /\ \A p \in Importers : p # o => db'[p] = db[p]
    <2>1. db' = [db EXCEPT ![o] = After(db[o], plan)]
      BY DEF Import
    <2> QED
      BY <2>1, Zenon DEF RInv, Functions
  <1>3. /\ last'[o] \in {NoReport, Report(o, h)}
        /\ saved'[o] \subseteq saved[o] \union {Report(o, h)}
        /\ \A p \in Importers : p # o => last'[p] = last[p] /\ saved'[p] = saved[p]
        /\ last' = [p \in Importers |-> last'[p]]
        /\ saved' = [p \in Importers |-> saved'[p]]
    <2>1. last = [p \in Importers |-> last[p]] /\ saved = [p \in Importers |-> saved[p]]
      BY DEF RInv, Functions
    <2>2. CASE /\ last' = [last EXCEPT ![o] = Report(o, h)]
               /\ saved' = [saved EXCEPT ![o] = @ \union {Report(o, h)}]
      BY <2>1, <2>2
    <2>3. CASE /\ last' = [last EXCEPT ![o] = NoReport]
               /\ saved' = saved
      BY <2>1, <2>3
    <2> QED
      BY <2>2, <2>3
  <1>4. Functions'
    <2>1. After(db[o], plan) \in Database
      BY <1>1, AfterDescribes
    <2>2. \A p \in Importers : db'[p] \in Database
      BY <1>2, <2>1 DEF RInv, Functions
    <2>3. db' = [p \in Importers |-> db'[p]]
      BY <1>2
    <2> QED
      BY <1>3, <2>2, <2>3 DEF Functions
  <1>5. ASSUME NEW p \in Importers, p # o
        PROVE  LastTrue(p)' /\ SavedTrue(p)'
    BY <1>2, <1>3, <1>5 DEF RInv, LastTrue, SavedTrue
  <1>6. LastTrue(o)'
    <2>1. Describes(plan, db'[o])
      BY <1>1, <1>2, AfterDescribes
    <2> QED
      BY <1>1, <1>3, <2>1 DEF LastTrue
  <1>7. SavedTrue(o)'
    <2>1. SUFFICES ASSUME NEW report \in saved'[o]
                   PROVE  \E g \in Accepted(o) : report = Report(o, g) /\ StillHolds(PlanOf(o, g), db'[o])
      BY DEF SavedTrue
    <2>2. CASE report = Report(o, h)
      BY <1>1, <1>2, <2>2, AfterDescribes
    <2>3. CASE report \in saved[o]
      <3>1. PICK g \in Accepted(o) : report = Report(o, g) /\ StillHolds(PlanOf(o, g), db[o])
        BY <2>3 DEF RInv, SavedTrue
      <3>2. StillHolds(PlanOf(o, g), db'[o])
        BY <1>1, <1>2, <3>1, AfterKeeps
      <3> QED
        BY <3>1, <3>2
    <2> QED
      BY <1>3, <2>1, <2>2, <2>3
  <1> QED
    BY <1>4, <1>5, <1>6, <1>7 DEF RInv

(* Every report was made from contents whose plan describes the database   *)
(* it was sent from: exactly when it is the last one, and as far as later  *)
(* imports cannot change it when it is an old one.                         *)
THEOREM ReportInvariant == Spec => []RInv
  <1>1. Init => RInv
    <2> SUFFICES ASSUME Init PROVE RInv
      OBVIOUS
    <2>1. Functions
      BY StartAssumption DEF Init, Functions
    <2>2. \A o \in Importers : LastTrue(o) /\ SavedTrue(o)
      BY DEF Init, LastTrue, SavedTrue
    <2> QED
      BY <2>1, <2>2 DEF RInv
  <1>2. RInv /\ [Next]_vars => RInv'
    <2> SUFFICES ASSUME RInv, [Next]_vars PROVE RInv'
      OBVIOUS
    <2>1. CASE Next
      <3>1. PICK o \in Importers : Reported(o) \/ Unreported(o)
        BY <2>1 DEF Next
      <3>2. CASE Reported(o)
        BY <3>2, ImportKeeps DEF Reported
      <3>3. CASE Unreported(o)
        BY <3>3, ImportKeeps DEF Unreported
      <3> QED
        BY <3>1, <3>2, <3>3
    <2>2. CASE UNCHANGED vars
      BY <2>2 DEF vars, RInv, Functions, LastTrue, SavedTrue
    <2> QED
      BY <2>1, <2>2
  <1> QED
    BY <1>1, <1>2, PTL DEF Spec

(* Organizations that compare the reports of their last imports and find   *)
(* them equal have equal configuration rows, policies and application rows *)
(* (README.md:33).                                                         *)
THEOREM EqualReports == Spec => []EqualReportsEqualRows
  <1>1. RInv => EqualReportsEqualRows
    <2> SUFFICES ASSUME RInv, NEW o1 \in Importers, NEW o2 \in Importers,
                        last[o1] = last[o2], last[o1] # NoReport
                 PROVE  LET targets == ReportedTargets(last[o1])
                        IN /\ db[o1].config = db[o2].config
                           /\ \A t \in targets : db[o1].meta[t] = db[o2].meta[t]
                           /\ RowsIn(db[o1].rows, targets) = RowsIn(db[o2].rows, targets)
      BY DEF EqualReportsEqualRows
    <2>1. PICK h1 \in Accepted(o1) : last[o1] = Report(o1, h1) /\ Describes(PlanOf(o1, h1), db[o1])
      BY DEF RInv, LastTrue
    <2>2. PICK h2 \in Accepted(o2) : last[o2] = Report(o2, h2) /\ Describes(PlanOf(o2, h2), db[o2])
      BY DEF RInv, LastTrue
    <2>3. Report(o1, h1) = Report(o2, h2)
      BY <2>1, <2>2
    <2> QED
      BY <2>1, <2>2, <2>3, EqualReportsEqualPlans DEF Describes
  <1> QED
    BY <1>1, ReportInvariant, PTL

(* What two equal reports say of namespaces with records stays true in     *)
(* both databases through all later imports.                               *)
THEOREM OldReports == Spec => []OldReportsHold
  <1>1. RInv => OldReportsHold
    <2> SUFFICES ASSUME RInv, NEW o1 \in Importers, NEW o2 \in Importers,
                        NEW report \in saved[o1] \intersect saved[o2]
                 PROVE  /\ ConfigOf(db[o1].config.value) = ConfigOf(db[o2].config.value)
                        /\ \A t \in ReportedTargets(report) :
                             /\ db[o1].meta[t] = db[o2].meta[t]
                             /\ report.counts[t] > 0 => RowsIn(db[o1].rows, {t}) = RowsIn(db[o2].rows, {t})
      BY DEF OldReportsHold
    <2>1. PICK h1 \in Accepted(o1) : report = Report(o1, h1) /\ StillHolds(PlanOf(o1, h1), db[o1])
      BY DEF RInv, SavedTrue
    <2>2. PICK h2 \in Accepted(o2) : report = Report(o2, h2) /\ StillHolds(PlanOf(o2, h2), db[o2])
      BY DEF RInv, SavedTrue
    <2>3. Report(o1, h1) = Report(o2, h2)
      BY <2>1, <2>2
    <2>4. /\ ReportedTargets(report) = TargetsOf(PlanOf(o1, h1))
          /\ TargetsOf(PlanOf(o1, h1)) = TargetsOf(PlanOf(o2, h2))
          /\ PlanOf(o1, h1).envelope = PlanOf(o2, h2).envelope
          /\ AllRows(PlanOf(o1, h1)) = AllRows(PlanOf(o2, h2))
      BY <2>1, <2>3, EqualReportsEqualPlans
    <2>5. ASSUME NEW t \in ReportedTargets(report)
          PROVE  /\ db[o1].meta[t] = db[o2].meta[t]
                 /\ report.counts[t] > 0 => RowsIn(db[o1].rows, {t}) = RowsIn(db[o2].rows, {t})
      <3>1. /\ PlanOf(o1, h1).policies[t] = PlanOf(o2, h2).policies[t]
            /\ PlanOf(o1, h1).counts[t] = PlanOf(o2, h2).counts[t]
            /\ report.counts[t] = PlanOf(o1, h1).counts[t]
        BY <2>1, <2>3, <2>4, EqualReportsEqualPlans
      <3> QED
        BY <2>1, <2>2, <2>4, <3>1 DEF StillHolds
    <2> QED
      BY <2>1, <2>2, <2>4, <2>5 DEF StillHolds
  <1> QED
    BY <1>1, ReportInvariant, PTL
=============================================================================
