---------------------- MODULE ChaincodePoliciesProofs ----------------------
(***************************************************************************)
(* Proofs of the properties of ChaincodePolicies, for any snapshots,       *)
(* mappings and configurations, and any order of the definitions.          *)
(*                                                                         *)
(* The invariant follows what has been read (FieldsInv, DefinitionsInv)    *)
(* and which mappings are behind the loops (Passed): each of them has its  *)
(* policies in the result (AddedInv), and nothing else is in there         *)
(* (ResultInv).                                                            *)
(***************************************************************************)
EXTENDS ChaincodePolicies, WellFoundedInduction, TLAPS

TypeInv ==
  /\ input \in Inputs
  /\ pc \in {"begin", "channel", "walk", "definitions", "hashes", "done", "failed"}
  /\ left \subseteq DOMAIN input.snapshots
  /\ pc \in {"walk", "definitions", "hashes"} => left # {}
  /\ pc = "begin" => left = DOMAIN input.snapshots
  /\ pc = "done" => left = {}
  /\ changed \in BOOLEAN

(* While records are read: the fields that are kept are those of the       *)
(* records so far, unless one of them was changed.                         *)
RecordsRead == PublicRecords(Snapshot)

Taken == {i \in 1..read : Wanted(RecordsRead[i], input.mappings, Channel)}

Place(record) == <<record.namespace, record.key>>

FieldsInv ==
  pc = "walk" =>
    /\ read \in 0..Len(RecordsRead)
    /\ ~changed =>
         /\ fields = [k \in DOMAIN fields |-> fields[k]]
         /\ DOMAIN fields = {Place(RecordsRead[i]) : i \in Taken}
         /\ \A i \in Taken : fields[Place(RecordsRead[i])] = RecordsRead[i].value

Agreed(namespace) == DefinitionOf(AgreedFields(Channel), namespace)

DefinitionsInv ==
  /\ pc \in {"definitions", "hashes"} =>
       /\ DOMAIN definitions \subseteq Mapped(input.mappings, Channel)
       /\ \A n \in DOMAIN definitions : definitions[n] = Agreed(n)
       /\ \A n \in Mapped(input.mappings, Channel) : Agreed(n) # Rejected
  /\ pc = "hashes" =>
       /\ current.namespace \in Mapped(input.mappings, Channel) \ DOMAIN definitions
       /\ current.definition = Agreed(current.namespace)
       /\ hashAt \in 0..Len(Snapshot.hashes)

(* The mappings whose public policy has been added, and the one of them    *)
(* whose hashes are being added.                                           *)
Passed(m) ==
  \/ m.channel \in DOMAIN input.snapshots \ left
  \/ /\ pc \in {"definitions", "hashes"}
     /\ m.channel = Channel
     /\ m.namespace \notin DOMAIN definitions

Current(m) == pc = "hashes" /\ m.channel = Channel /\ m.namespace = current.namespace

PublicAdded(m) ==
  /\ m.target \in DOMAIN result
  /\ result[m.target] = Resolve(AgreedDefinition(m).application, input.bundles[m.channel])

HashesOfSource(m) == input.snapshots[m.channel].hashes

HashesAddedAt(m, i) ==
  /\ HashTarget(m) \in DOMAIN result
  /\ \E p \in HashPolicies(m, HashesOfSource(m)[i]) :
       result[HashTarget(m)] = Resolve(p, input.bundles[m.channel])

AddedInv ==
  \A m \in input.mappings :
    Passed(m) =>
      /\ AgreedDefinition(m) # Rejected
      /\ PublicAdded(m)
      /\ \A i \in DOMAIN HashesOfSource(m) :
           HashesOfSource(m)[i].namespace = m.namespace /\ (Current(m) => i <= hashAt)
             => HashesAddedAt(m, i)

Graph(f) == {<<t, f[t]>> : t \in DOMAIN f}

Contributes(m, target, policy) ==
  /\ AgreedDefinition(m) # Rejected
  /\ \/ /\ target = m.target
        /\ policy = Resolve(AgreedDefinition(m).application, input.bundles[m.channel])
     \/ /\ target = HashTarget(m)
        /\ \E hashes \in HashesOf(m, input.snapshots) : \E p \in HashPolicies(m, hashes) :
             policy = Resolve(p, input.bundles[m.channel])

ResultInv ==
  /\ result = [t \in DOMAIN result |-> result[t]]
  /\ \A t \in DOMAIN result : \E m \in input.mappings : Contributes(m, t, result[t])

FailedInv == pc = "failed" => changed \/ ~Consistent

(* Organizations of a source channel that share an MSP have policies that  *)
(* are converted to the same one.                                          *)
OwnersAgree ==
  \A x \in Inputs : \A c \in DOMAIN x.snapshots :
    LET bundle == x.bundles[c]
    IN \A o, p \in DOMAIN bundle.orgs :
         bundle.orgs[o] = bundle.orgs[p] =>
           Resolve(OwnerPolicy(o, bundle), bundle) = Resolve(OwnerPolicy(p, bundle), bundle)

(* As when no two of them share one.                                       *)
DistinctOwners ==
  \A x \in Inputs : \A c \in DOMAIN x.snapshots :
    \A o, p \in DOMAIN x.bundles[c].orgs : x.bundles[c].orgs[o] = x.bundles[c].orgs[p] => o = p

EarlierInv ==
  OwnersAgree =>
    \A e \in earlier : e = [t \in DOMAIN e |-> e[t]] /\ Graph(e) = Contributions

PoliciesInv ==
  TypeInv /\ FieldsInv /\ DefinitionsInv /\ AddedInv /\ ResultInv /\ FailedInv /\ EarlierInv
-----------------------------------------------------------------------------
(* Induction, as the principle of the smallest counterexample.             *)
LEMMA SmallestNat ==
  ASSUME NEW S \in SUBSET Nat, S # {}
  PROVE  \E x \in S : \A y \in S : x <= y
<1> DEFINE R == OpToRel(<, Nat)
<1>1. IsWellFoundedOn(R, Nat)
  BY NatLessThanWellFounded
<1>2. \A x, y \in Nat : y < x => <<y, x>> \in R
  BY DEF OpToRel
<1> HIDE DEF R
<1>3. PICK x \in S : \A y \in S : ~(<<y, x>> \in R)
  BY <1>1, WFMin
<1>4. \A y \in S : ~(y < x)
  BY <1>2, <1>3
<1> QED
  BY <1>4

(* Channels are numbers: of those left there is a least one.               *)
LEMMA LeastLeft ==
  ASSUME TypeInv, left # {}
  PROVE  Channel \in left /\ Channel \in DOMAIN input.snapshots
<1>1. left \in SUBSET Nat /\ left \subseteq DOMAIN input.snapshots
  BY InputsAssumption DEF TypeInv
<1>2. \E c \in left : \A d \in left : c <= d
  BY <1>1, SmallestNat
<1> QED
  BY <1>1, <1>2 DEF Channel

(***************************************************************************)
(* The records of a channel are one sequence: FlattenSeq, by the smallest  *)
(* number of sequences for which its recursive function is missing.        *)
(***************************************************************************)
Flattens(f, ss, n) == f = [i \in 1..n |-> IF i = 1 THEN ss[i] ELSE f[i - 1] \o ss[i]]

LEMMA FlattenExists ==
  ASSUME NEW S, NEW ss \in Seq(Seq(S)), NEW n \in 1..Len(ss)
  PROVE  \E f \in [1..n -> Seq(S)] : Flattens(f, ss, n)
<1> DEFINE Without == {k \in 1..Len(ss) : ~\E f \in [1..k -> Seq(S)] : Flattens(f, ss, k)}
<1> SUFFICES ASSUME Without # {} PROVE FALSE
  OBVIOUS
<1>1. PICK k \in Without : \A m \in Without : k <= m
  <2>1. Without \in SUBSET Nat
    OBVIOUS
  <2> HIDE DEF Without
  <2> QED
    BY <2>1, SmallestNat
<1>2. k \in 1..Len(ss) /\ ~\E f \in [1..k -> Seq(S)] : Flattens(f, ss, k)
  BY <1>1
<1>3. ss[k] \in Seq(S)
  BY <1>2
<1>4. k # 1
  <2> SUFFICES ASSUME k = 1 PROVE FALSE
    OBVIOUS
  <2> DEFINE g == [i \in 1..1 |-> ss[i]]
  <2>1. g \in [1..1 -> Seq(S)]
    BY <1>3
  <2>2. Flattens(g, ss, 1)
    BY DEF Flattens
  <2> QED
    BY <1>2, <2>1, <2>2
<1>5. k - 1 \in 1..Len(ss) /\ k - 1 \notin Without
  <2>1. k \in Nat /\ k - 1 \in 1..Len(ss) /\ ~(k <= k - 1)
    BY <1>2, <1>4
  <2> HIDE DEF Without
  <2> QED
    BY <1>1, <2>1
<1>6. PICK f \in [1..(k - 1) -> Seq(S)] : Flattens(f, ss, k - 1)
  BY <1>5, Zenon
<1> DEFINE g == [i \in 1..k |-> IF i = k THEN f[k - 1] \o ss[k] ELSE f[i]]
<1>7. g \in [1..k -> Seq(S)]
  <2>1. f[k - 1] \in Seq(S)
    BY <1>2, <1>4
  <2>2. f[k - 1] \o ss[k] \in Seq(S)
    BY <1>3, <2>1
  <2> QED
    BY <1>2, <2>2
<1>8. ASSUME NEW i \in 1..k
      PROVE  g[i] = IF i = 1 THEN ss[i] ELSE g[i - 1] \o ss[i]
  <2>1. CASE i = k
    <3>1. g[k] = f[k - 1] \o ss[k]
      BY <2>1, Zenon
    <3>2. k - 1 \in 1..k /\ k - 1 # k
      BY <1>2, <1>4
    <3>3. g[k - 1] = f[k - 1]
      BY <3>2
    <3> QED
      BY <1>4, <2>1, <3>1, <3>3
  <2>2. CASE i # k
    <3>1. i \in 1..(k - 1) /\ g[i] = f[i]
      BY <1>2, <2>2
    <3>2. f[i] = IF i = 1 THEN ss[i] ELSE f[i - 1] \o ss[i]
      BY <1>6, <3>1 DEF Flattens
    <3>3. i # 1 => g[i - 1] = f[i - 1]
      BY <1>2, <2>2
    <3> QED
      BY <3>1, <3>2, <3>3
  <2> QED
    BY <2>1, <2>2
<1>9. Flattens(g, ss, k)
  BY <1>8, Zenon DEF Flattens
<1> QED
  BY <1>2, <1>7, <1>9

LEMMA FlattenIsSequence ==
  ASSUME NEW S, NEW ss \in Seq(Seq(S))
  PROVE  FlattenSeq(ss) \in Seq(S)
<1>1. CASE Len(ss) = 0
  BY <1>1 DEF FlattenSeq
<1>2. CASE Len(ss) # 0
  <2> DEFINE F == CHOOSE f : Flattens(f, ss, Len(ss))
  <2>1. FlattenSeq(ss) = F[Len(ss)]
    BY <1>2 DEF FlattenSeq, Flattens
  <2>2. Flattens(F, ss, Len(ss))
    <3>1. \E f : Flattens(f, ss, Len(ss))
      BY <1>2, FlattenExists
    <3> QED
      BY <3>1
  <2>3. PICK g \in [1..Len(ss) -> Seq(S)] : Flattens(g, ss, Len(ss))
    BY <1>2, FlattenExists
  <2> HIDE DEF F
  <2> DEFINE Apart == {i \in 1..Len(ss) : F[i] # g[i]}
  <2>4. Apart = {}
    <3> SUFFICES ASSUME Apart # {} PROVE FALSE
      OBVIOUS
    <3>1. PICK k \in Apart : \A m \in Apart : k <= m
      <4>1. Apart \in SUBSET Nat
      OBVIOUS
    <4> HIDE DEF Apart
    <4> QED
      BY <4>1, SmallestNat
    <3>2. F[k] = IF k = 1 THEN ss[k] ELSE F[k - 1] \o ss[k]
      BY <2>2, <3>1 DEF Flattens
    <3>3. g[k] = IF k = 1 THEN ss[k] ELSE g[k - 1] \o ss[k]
      BY <2>3, <3>1 DEF Flattens
    <3>4. k # 1 => F[k - 1] = g[k - 1]
      BY <3>1
    <3> QED
      BY <3>1, <3>2, <3>3, <3>4
  <2>5. Len(ss) \in 1..Len(ss)
    BY <1>2
  <2>6. F[Len(ss)] = g[Len(ss)] /\ g[Len(ss)] \in Seq(S)
    BY <2>3, <2>4, <2>5
  <2> QED
    BY <2>1, <2>6
<1> QED
  BY <1>1, <1>2

LEMMA RecordsAreSequence ==
  ASSUME NEW x \in Inputs, NEW c \in DOMAIN x.snapshots
  PROVE  LET records == PublicRecords(x.snapshots[c])
         IN DOMAIN records = 1..Len(records) /\ Len(records) \in Nat
<1> DEFINE public == x.snapshots[c].public
           Made(i, j) == [namespace |-> public[i].name, key |-> public[i].records[j].key,
                          value |-> public[i].records[j].value]
           S == UNION {{Made(i, j) : j \in DOMAIN public[i].records} : i \in DOMAIN public}
           ss == [i \in DOMAIN public |-> [j \in DOMAIN public[i].records |-> Made(i, j)]]
<1>1. IsSequence(public) /\ \A i \in DOMAIN public : IsSequence(public[i].records)
  BY InputsAssumption
<1>2. DOMAIN public = 1..Len(public) /\ Len(public) \in Nat
  BY <1>1 DEF IsSequence
<1>3. ASSUME NEW i \in DOMAIN public
      PROVE  [j \in DOMAIN public[i].records |-> Made(i, j)] \in Seq(S)
  <2> DEFINE n == Len(public[i].records)
  <2>1. DOMAIN public[i].records = 1..n /\ n \in Nat
    BY <1>1 DEF IsSequence
  <2>2. ASSUME NEW j \in 1..n PROVE Made(i, j) \in S
    <3>1. j \in DOMAIN public[i].records
      BY <2>1
    <3> HIDE DEF Made
    <3>2. Made(i, j) \in {Made(i, k) : k \in DOMAIN public[i].records}
      BY <3>1
    <3> QED
      BY <3>2
  <2> HIDE DEF S, Made, n
  <2> QED
    BY <2>1, <2>2
<1>4. PublicRecords(x.snapshots[c]) = FlattenSeq(ss)
  BY DEF PublicRecords
<1> HIDE DEF S, Made
<1>5. ss \in Seq(Seq(S))
  BY <1>2, <1>3
<1> HIDE DEF ss
<1>6. PublicRecords(x.snapshots[c]) \in Seq(S)
  BY <1>4, <1>5, FlattenIsSequence
<1> QED
  BY <1>6
-----------------------------------------------------------------------------
(* The predicates on inputs depend on nothing else.                        *)
LEMMA InputsOnly ==
  ASSUME UNCHANGED input
  PROVE  /\ \A c : AgreedFields(c)' = AgreedFields(c)
         /\ \A m : AgreedDefinition(m)' = AgreedDefinition(m)
         /\ \A m : HashesOfSource(m)' = HashesOfSource(m)
         /\ \A m, h : HashPolicies(m, h)' = HashPolicies(m, h)
         /\ \A m, t, p : Contributes(m, t, p)' = Contributes(m, t, p)
         /\ Contributions' = Contributions
         /\ Consistent' = Consistent
<1>1. /\ \A c : AgreedFields(c)' = AgreedFields(c)
      /\ \A m : AgreedDefinition(m)' = AgreedDefinition(m)
      /\ \A m : HashesOfSource(m)' = HashesOfSource(m)
  BY DEF AgreedFields, AgreedDefinition, HashesOfSource
<1>2. \A m, h : HashPolicies(m, h)' = HashPolicies(m, h)
  BY <1>1 DEF HashPolicies
<1>3. \A m, t, p : Contributes(m, t, p)' = Contributes(m, t, p)
  BY <1>1, <1>2 DEF Contributes
<1>4. Contributions' = Contributions
  BY <1>1, <1>2 DEF Contributions
<1>5. Consistent' = Consistent
  BY <1>1, <1>2, <1>4 DEF Consistent, DefinitionsCommitted
<1> QED
  BY <1>1, <1>2, <1>3, <1>4, <1>5

LEMMA SameChannel ==
  ASSUME UNCHANGED <<input, left>>
  PROVE  /\ Channel' = Channel /\ Snapshot' = Snapshot /\ Bundle' = Bundle
         /\ RecordsRead' = RecordsRead
         /\ \A n : Agreed(n)' = Agreed(n)
<1>1. Channel' = Channel
  BY DEF Channel
<1>2. Snapshot' = Snapshot /\ Bundle' = Bundle
  BY <1>1 DEF Snapshot, Bundle
<1>3. RecordsRead' = RecordsRead
  BY <1>2 DEF RecordsRead
<1> QED
  BY <1>1, <1>2, <1>3, InputsOnly DEF Agreed

(* Sources are mapped once.                                                *)
LEMMA UniqueMapping ==
  ASSUME TypeInv, NEW m \in input.mappings
  PROVE  MappingFor(input.mappings, m.channel, m.namespace) = m
BY InputsAssumption DEF TypeInv, MappingFor

LEMMA MappedHasMapping ==
  ASSUME NEW n \in Mapped(input.mappings, Channel)
  PROVE  \E m \in input.mappings : m.channel = Channel /\ m.namespace = n
BY DEF Mapped

LEMMA AgreedOfMapping ==
  ASSUME NEW m, m.channel = Channel
  PROVE  AgreedDefinition(m) = Agreed(m.namespace)
BY DEF AgreedDefinition, Agreed

(* Once everything is read, what is kept is what was agreed.               *)
LEMMA FieldsAgreed ==
  ASSUME TypeInv, FieldsInv, pc = "walk", ~changed, read = Len(RecordsRead)
  PROVE  fields = AgreedFields(Channel)
<1> DEFINE wanted == {r \in ToSet(RecordsRead) : Wanted(r, input.mappings, Channel)}
           agreed == [k \in {Place(r) : r \in wanted} |-> (CHOOSE r \in wanted : Place(r) = k).value]
<1>1. Channel \in DOMAIN input.snapshots /\ input \in Inputs
  BY LeastLeft DEF TypeInv
<1>2. DOMAIN RecordsRead = 1..Len(RecordsRead) /\ Len(RecordsRead) \in Nat
  BY <1>1, RecordsAreSequence DEF RecordsRead, Snapshot
<1>3. KeysDiffer(RecordsRead)
  BY <1>1, InputsAssumption DEF RecordsRead, Snapshot
<1>4. AgreedFields(Channel) = agreed
  BY DEF AgreedFields, RecordsRead, Snapshot, Place
<1>5. wanted = {RecordsRead[i] : i \in Taken}
  BY <1>2 DEF Taken, ToSet
<1>6. DOMAIN fields = {Place(r) : r \in wanted}
  BY <1>5 DEF FieldsInv
<1>7. ASSUME NEW r \in wanted
      PROVE  fields[Place(r)] = r.value /\ (CHOOSE s \in wanted : Place(s) = Place(r)) = r
  <2>1. PICK i \in Taken : r = RecordsRead[i]
    BY <1>5
  <2>2. ASSUME NEW s \in wanted, Place(s) = Place(r) PROVE s = r
    <3>1. PICK j \in Taken : s = RecordsRead[j]
      BY <1>5
    <3>2. i \in DOMAIN RecordsRead /\ j \in DOMAIN RecordsRead
      BY <1>2 DEF Taken
    <3>3. RecordsRead[i].namespace = RecordsRead[j].namespace /\ RecordsRead[i].key = RecordsRead[j].key
      BY <2>1, <2>2, <3>1 DEF Place
    <3> QED
      BY <1>3, <2>1, <3>1, <3>2, <3>3 DEF KeysDiffer
  <2>3. fields[Place(r)] = r.value
    BY <2>1 DEF FieldsInv
  <2> HIDE DEF wanted
  <2> QED
    BY <2>2, <2>3
<1>8. \A k \in DOMAIN fields : fields[k] = agreed[k]
  <2> SUFFICES ASSUME NEW k \in DOMAIN fields PROVE fields[k] = agreed[k]
    OBVIOUS
  <2>1. PICK r \in wanted : k = Place(r)
    BY <1>6
  <2> HIDE DEF wanted
  <2>2. agreed[k] = (CHOOSE s \in wanted : Place(s) = k).value
    BY <2>1
  <2> QED
    BY <1>7, <2>1, <2>2
<1>9. fields = [k \in DOMAIN fields |-> fields[k]]
  BY DEF FieldsInv
<1> HIDE DEF wanted
<1>10. fields = agreed
  BY <1>6, <1>8, <1>9
<1> QED
  BY <1>4, <1>10
-----------------------------------------------------------------------------
LEMMA ContributionsAre ==
  ASSUME NEW m \in input.mappings, NEW t, NEW p, Contributes(m, t, p)
  PROVE  <<t, p>> \in Contributions
<1>1. CASE t = m.target /\ p = Resolve(AgreedDefinition(m).application, input.bundles[m.channel])
  BY <1>1 DEF Contributions
<1>2. ASSUME NEW h \in HashesOf(m, input.snapshots), NEW q \in HashPolicies(m, h),
             t = HashTarget(m), p = Resolve(q, input.bundles[m.channel])
      PROVE  <<t, p>> \in Contributions
  <2> DEFINE hashed(n, g) == {<<HashTarget(n), Resolve(x, input.bundles[n.channel])>> : x \in HashPolicies(n, g)}
  <2>1. <<t, p>> \in hashed(m, h)
    BY <1>2
  <2>2. <<t, p>> \in UNION {hashed(m, g) : g \in HashesOf(m, input.snapshots)}
    BY <2>1
  <2>3. <<t, p>> \in UNION {UNION {hashed(n, g) : g \in HashesOf(n, input.snapshots)} : n \in input.mappings}
    BY <2>2
  <2> QED
    BY <2>3 DEF Contributions
<1> QED
  BY <1>1, <1>2 DEF Contributes

(* The closure `add` refuses what is not consistent.                       *)
LEMMA RefusedPolicy ==
  ASSUME PoliciesInv, NEW m \in input.mappings, NEW t, NEW p, Contributes(m, t, p), ~Acceptable(t, p)
  PROVE  ~Consistent
<1>1. <<t, p>> \in Contributions
  BY ContributionsAre
<1> SUFFICES ASSUME p # Rejected, Verifiable(p) PROVE ~Consistent
  BY <1>1 DEF Consistent
<1>2. t \in DOMAIN result /\ result[t] # p
  BY DEF Acceptable
<1>3. PICK n \in input.mappings : Contributes(n, t, result[t])
  BY <1>2 DEF PoliciesInv, ResultInv
<1>4. <<t, result[t]>> \in Contributions
  BY <1>3, ContributionsAre
<1> QED
  BY <1>1, <1>2, <1>4 DEF Consistent

(* What `add` does to the invariant.                                       *)
LEMMA PolicyAdded ==
  ASSUME PoliciesInv, UNCHANGED <<input, earlier>>,
         NEW m \in input.mappings, NEW t, NEW p, Contributes(m, t, p),
         Acceptable(t, p), result' = Put(result, t, p)
  PROVE  /\ ResultInv' /\ EarlierInv'
         /\ t \in DOMAIN result' /\ result'[t] = p
         /\ \A n : PublicAdded(n) => PublicAdded(n)'
         /\ \A n, i : HashesAddedAt(n, i) => HashesAddedAt(n, i)'
<1>1. /\ DOMAIN result' = DOMAIN result \union {t}
      /\ result'[t] = p
      /\ \A x \in DOMAIN result : result'[x] = result[x]
      /\ result' = [x \in DOMAIN result' |-> result'[x]]
  BY DEF Acceptable, Put
<1>2. ResultInv'
  <2>1. ASSUME NEW x \in DOMAIN result' PROVE \E n \in input.mappings : Contributes(n, x, result'[x])
    BY <1>1, <2>1 DEF PoliciesInv, ResultInv
  <2> QED
    BY <1>1, <2>1, InputsOnly DEF ResultInv
<1>3. EarlierInv'
  BY InputsOnly DEF PoliciesInv, EarlierInv, Graph
<1>4. \A n : PublicAdded(n) => PublicAdded(n)'
  BY <1>1, InputsOnly DEF PublicAdded
<1>5. \A n, i : HashesAddedAt(n, i) => HashesAddedAt(n, i)'
  BY <1>1, InputsOnly DEF HashesAddedAt
<1> QED
  BY <1>1, <1>2, <1>3, <1>4, <1>5

(* Steps that add nothing.                                                 *)
LEMMA NothingAdded ==
  ASSUME PoliciesInv, UNCHANGED <<input, result, earlier>>,
         \A m \in input.mappings : Passed(m)' => Passed(m),
         \A m \in input.mappings : Passed(m)' /\ Current(m) => Current(m)' /\ hashAt' = hashAt
  PROVE  AddedInv' /\ ResultInv' /\ EarlierInv'
<1>1. ResultInv' /\ EarlierInv'
  BY InputsOnly DEF PoliciesInv, ResultInv, EarlierInv, Graph
<1>2. ASSUME NEW m \in input.mappings, Passed(m)'
      PROVE  /\ AgreedDefinition(m)' # Rejected
             /\ PublicAdded(m)'
             /\ \A i \in DOMAIN HashesOfSource(m)' :
                  HashesOfSource(m)'[i].namespace = m.namespace /\ (Current(m)' => i <= hashAt')
                    => HashesAddedAt(m, i)'
  <2>1. Passed(m) /\ (Current(m) => Current(m)' /\ hashAt' = hashAt)
    BY <1>2
  <2>2. AgreedDefinition(m)' # Rejected /\ PublicAdded(m)'
    BY <2>1, InputsOnly DEF PoliciesInv, AddedInv, PublicAdded
  <2>3. \A i : HashesAddedAt(m, i) => HashesAddedAt(m, i)'
    BY InputsOnly DEF HashesAddedAt
  <2> QED
    BY <2>1, <2>2, <2>3, InputsOnly DEF PoliciesInv, AddedInv
<1>3. AddedInv'
  BY <1>2 DEF AddedInv
<1> QED
  BY <1>1, <1>3

LEMMA Failing ==
  ASSUME PoliciesInv, Fail, changed \/ ~Consistent
  PROVE  PoliciesInv'
<1> USE DEF Fail, walkVars
<1>1. TypeInv' /\ FieldsInv' /\ DefinitionsInv'
  BY DEF PoliciesInv, TypeInv, FieldsInv, DefinitionsInv
<1>2. FailedInv'
  BY InputsOnly DEF FailedInv
<1>3. \A m : (Passed(m)' => Passed(m)) /\ (Passed(m)' /\ Current(m) => Current(m)' /\ hashAt' = hashAt)
  <2> SUFFICES ASSUME NEW m, Passed(m)' PROVE Passed(m) /\ ~Current(m)
    OBVIOUS
  <2>1. m.channel \in DOMAIN input.snapshots \ left
    BY DEF Passed
  <2>2. Channel \in left \/ left = {}
    BY LeastLeft DEF PoliciesInv
  <2> QED
    BY <2>1, <2>2 DEF Passed, Current, PoliciesInv, TypeInv
<1> QED
  BY <1>1, <1>2, <1>3, NothingAdded DEF PoliciesInv
-----------------------------------------------------------------------------
LEMMA InitPolicies == Init => PoliciesInv
<1> SUFFICES ASSUME Init PROVE PoliciesInv
  OBVIOUS
<1>1. \A m \in input.mappings : ~Passed(m)
  BY DEF Init, Passed
<1>2. DOMAIN result = {} /\ result = [t \in DOMAIN result |-> result[t]]
  BY DEF Init
<1> QED
  BY <1>1, <1>2 DEF Init, PoliciesInv, TypeInv, FieldsInv, DefinitionsInv, AddedInv, ResultInv, FailedInv, EarlierInv

LEMMA BeginKeeps == PoliciesInv /\ Begin => PoliciesInv'
<1> SUFFICES ASSUME PoliciesInv, Begin PROVE PoliciesInv'
  OBVIOUS
<1>1. CASE ~input.accepted /\ Fail
  BY <1>1, Failing DEF Consistent
<1>2. CASE pc' = "channel" /\ UNCHANGED <<input, left, walkVars, definitions, current, hashAt, result, earlier>>
  <2>1. TypeInv' /\ FieldsInv' /\ DefinitionsInv' /\ FailedInv'
    BY <1>2 DEF Begin, PoliciesInv, TypeInv, FieldsInv, DefinitionsInv, FailedInv, walkVars
  <2>2. \A m : (Passed(m)' => Passed(m)) /\ ~Current(m)
    BY <1>2 DEF Begin, Passed, Current
  <2> QED
    BY <1>2, <2>1, <2>2, NothingAdded DEF PoliciesInv
<1> QED
  BY <1>1, <1>2 DEF Begin

LEMMA NextChannelKeeps == PoliciesInv /\ NextChannel => PoliciesInv'
<1> SUFFICES ASSUME PoliciesInv, NextChannel PROVE PoliciesInv'
  OBVIOUS
<1>1. Channel \in DOMAIN input.snapshots /\ input \in Inputs
  BY LeastLeft DEF NextChannel, PoliciesInv, TypeInv
<1>2. CASE (~Bundle.valid \/ input.version < Bundle.version) /\ Fail
  <2>1. input.version \in Nat /\ Bundle.version \in Nat
    BY <1>1, InputsAssumption DEF Bundle
  <2>2. ~(input.bundles[Channel].valid /\ input.bundles[Channel].version <= input.version)
    BY <1>2, <2>1 DEF Bundle
  <2> QED
    BY <1>1, <1>2, <2>2, Failing DEF Consistent
<1>3. CASE /\ pc' = "walk" /\ read' = 0 /\ changed' = FALSE /\ fields' = <<>>
           /\ UNCHANGED <<input, left, definitions, current, hashAt, result, earlier>>
  <2>1. TypeInv' /\ DefinitionsInv' /\ FailedInv'
    BY <1>3 DEF NextChannel, PoliciesInv, TypeInv, DefinitionsInv, FailedInv
  <2>2. FieldsInv'
    <3>1. DOMAIN fields' = {} /\ fields' = [k \in DOMAIN fields' |-> fields'[k]]
      BY <1>3
    <3>2. Taken' = {}
      BY <1>3 DEF Taken
    <3>3. RecordsRead' = RecordsRead
      BY <1>3, SameChannel
    <3>4. Len(RecordsRead) \in Nat
      BY <1>1, RecordsAreSequence DEF RecordsRead, Snapshot
    <3> QED
      BY <1>3, <3>1, <3>2, <3>3, <3>4 DEF FieldsInv
  <2>3. \A m : (Passed(m)' => Passed(m)) /\ ~Current(m)
    BY <1>3 DEF NextChannel, Passed, Current
  <2> QED
    BY <1>3, <2>1, <2>2, <2>3, NothingAdded DEF PoliciesInv
<1> QED
  BY <1>2, <1>3 DEF NextChannel

LEMMA FinishKeeps == PoliciesInv /\ Finish => PoliciesInv'
<1> SUFFICES ASSUME PoliciesInv, Finish PROVE PoliciesInv'
  OBVIOUS
<1>1. TypeInv' /\ FieldsInv' /\ DefinitionsInv' /\ FailedInv'
  BY DEF Finish, PoliciesInv, TypeInv, FieldsInv, DefinitionsInv, FailedInv, walkVars
<1>2. \A m : (Passed(m)' => Passed(m)) /\ ~Current(m)
  BY DEF Finish, Passed, Current
<1> QED
  BY <1>1, <1>2, NothingAdded DEF Finish, PoliciesInv

LEMMA DeliverKeeps == PoliciesInv /\ Deliver => PoliciesInv'
<1> SUFFICES ASSUME PoliciesInv, Deliver PROVE PoliciesInv'
  OBVIOUS
<1> DEFINE record == RecordsRead[read + 1]
<1>1. /\ pc = "walk" /\ read < Len(RecordsRead) /\ read' = read + 1
      /\ UNCHANGED <<input, pc, left, definitions, current, hashAt, result, earlier>>
  BY DEF Deliver, RecordsRead
<1>2. changed' = TRUE \/ (UNCHANGED changed /\ Keep(record))
  BY DEF Deliver, RecordsRead
<1>3. TypeInv' /\ DefinitionsInv' /\ FailedInv'
  BY <1>1, <1>2 DEF PoliciesInv, TypeInv, DefinitionsInv, FailedInv
<1>4. FieldsInv'
  <2>1. Channel \in DOMAIN input.snapshots /\ input \in Inputs
    BY <1>1, LeastLeft DEF PoliciesInv, TypeInv
  <2>2. Len(RecordsRead) \in Nat /\ DOMAIN RecordsRead = 1..Len(RecordsRead) /\ KeysDiffer(RecordsRead)
    BY <2>1, RecordsAreSequence, InputsAssumption DEF RecordsRead, Snapshot
  <2>3. RecordsRead' = RecordsRead /\ Channel' = Channel
    BY <1>1, SameChannel
  <2>4. read \in Nat /\ read' \in 0..Len(RecordsRead)
    BY <1>1, <2>2 DEF PoliciesInv, FieldsInv
  <2> SUFFICES ASSUME ~changed'
               PROVE  /\ fields' = [k \in DOMAIN fields' |-> fields'[k]]
                      /\ DOMAIN fields' = {Place(RecordsRead[i]) : i \in Taken'}
                      /\ \A i \in Taken' : fields'[Place(RecordsRead[i])] = RecordsRead[i].value
    BY <2>3, <2>4 DEF FieldsInv
  <2>5. ~changed /\ Keep(record)
    BY <1>2
  <2>6. /\ fields = [k \in DOMAIN fields |-> fields[k]]
        /\ DOMAIN fields = {Place(RecordsRead[i]) : i \in Taken}
        /\ \A i \in Taken : fields[Place(RecordsRead[i])] = RecordsRead[i].value
    BY <1>1, <2>5 DEF PoliciesInv, FieldsInv
  <2>7. CASE Wanted(record, input.mappings, Channel)
    <3>1. fields' = Put(fields, Place(record), record.value)
      BY <2>5, <2>7 DEF Keep, Place
    <3>2. Taken' = Taken \union {read + 1}
      BY <1>1, <2>3, <2>4, <2>7 DEF Taken
    <3>3. \A i \in Taken : Place(RecordsRead[i]) # Place(record)
      <4> SUFFICES ASSUME NEW i \in Taken, Place(RecordsRead[i]) = Place(record) PROVE FALSE
        OBVIOUS
      <4>1. i \in DOMAIN RecordsRead /\ read + 1 \in DOMAIN RecordsRead /\ i # read + 1
        BY <1>1, <2>2, <2>4 DEF Taken
      <4>2. RecordsRead[i].namespace = record.namespace /\ RecordsRead[i].key = record.key
        BY DEF Place
      <4> QED
        BY <2>2, <4>1, <4>2 DEF KeysDiffer
    <3>4. DOMAIN fields' = DOMAIN fields \union {Place(record)}
      BY <3>1 DEF Put
    <3>5. fields'[Place(record)] = record.value
      BY <3>1 DEF Put
    <3>6. \A i \in Taken : fields'[Place(RecordsRead[i])] = RecordsRead[i].value
      BY <2>6, <3>1, <3>3 DEF Put
    <3>7. fields' = [k \in DOMAIN fields' |-> fields'[k]]
      BY <3>1 DEF Put
    <3>8. DOMAIN fields' = {Place(RecordsRead[i]) : i \in Taken'}
      BY <2>6, <3>2, <3>4
    <3> QED
      BY <3>2, <3>5, <3>6, <3>7, <3>8
  <2>8. CASE ~Wanted(record, input.mappings, Channel)
    <3>1. fields' = fields
      BY <2>5, <2>8 DEF Keep
    <3>2. Taken' = Taken
      BY <1>1, <2>3, <2>4, <2>8 DEF Taken
    <3> QED
      BY <2>6, <3>1, <3>2
  <2> QED
    BY <2>7, <2>8
<1>5. \A m : (Passed(m)' => Passed(m)) /\ ~Current(m)
  BY <1>1, SameChannel DEF Passed, Current
<1> QED
  BY <1>1, <1>3, <1>4, <1>5, NothingAdded DEF PoliciesInv

LEMMA WalkEndsKeeps == PoliciesInv /\ WalkEnds => PoliciesInv'
<1> SUFFICES ASSUME PoliciesInv, WalkEnds PROVE PoliciesInv'
  OBVIOUS
<1> DEFINE namespaces == Mapped(input.mappings, Channel)
<1>1. pc = "walk" /\ read = Len(RecordsRead)
  BY DEF WalkEnds, RecordsRead
<1>2. ASSUME ~changed, NEW n PROVE DefinitionOf(fields, n) = Agreed(n)
  BY <1>1, <1>2, FieldsAgreed DEF PoliciesInv, Agreed
<1>3. CASE changed \/ \E n \in namespaces : DefinitionOf(fields, n) = Rejected
  <2>1. Fail
    BY <1>3 DEF WalkEnds
  <2>2. ASSUME ~changed PROVE ~Consistent
    <3>1. PICK n \in namespaces : Agreed(n) = Rejected
      BY <1>2, <1>3, <2>2
    <3>2. PICK m \in input.mappings : m.channel = Channel /\ m.namespace = n
      BY <3>1, MappedHasMapping
    <3> QED
      BY <3>1, <3>2, AgreedOfMapping DEF Consistent, DefinitionsCommitted
  <2> QED
    BY <2>1, <2>2, Failing
<1>4. CASE ~(changed \/ \E n \in namespaces : DefinitionOf(fields, n) = Rejected)
  <2>1. /\ pc' = "definitions"
        /\ definitions' = [n \in namespaces |-> DefinitionOf(fields, n)]
        /\ UNCHANGED <<input, left, walkVars, current, hashAt, result, earlier>>
    BY <1>4 DEF WalkEnds
  <2>2. TypeInv' /\ FieldsInv' /\ FailedInv'
    BY <1>1, <2>1 DEF PoliciesInv, TypeInv, FieldsInv, FailedInv, walkVars
  <2>3. Channel' = Channel /\ \A n : Agreed(n)' = Agreed(n)
    BY <2>1, SameChannel
  <2>4. DefinitionsInv'
    BY <1>2, <1>4, <2>1, <2>3 DEF DefinitionsInv
  <2>5. \A m \in input.mappings : (Passed(m)' => Passed(m)) /\ ~Current(m)
    BY <1>1, <2>1, <2>3 DEF Passed, Current, Mapped
  <2> QED
    BY <2>1, <2>2, <2>4, <2>5, NothingAdded DEF PoliciesInv
<1> QED
  BY <1>3, <1>4

LEMMA AddPublicKeeps ==
  ASSUME PoliciesInv, NEW namespace \in DOMAIN definitions, AddPublic(namespace)
  PROVE  PoliciesInv'
<1> DEFINE policy == Resolve(definitions[namespace].application, Bundle)
           target == MappingFor(input.mappings, Channel, namespace).target
<1>1. /\ pc = "definitions" /\ TypeInv
      /\ namespace \in Mapped(input.mappings, Channel)
      /\ definitions[namespace] = Agreed(namespace) /\ Agreed(namespace) # Rejected
  BY DEF AddPublic, PoliciesInv, DefinitionsInv
<1>2. PICK m \in input.mappings : m.channel = Channel /\ m.namespace = namespace
  BY <1>1, MappedHasMapping
<1>3. MappingFor(input.mappings, Channel, namespace) = m
  BY <1>1, <1>2, UniqueMapping
<1>4. AgreedDefinition(m) = definitions[namespace] /\ AgreedDefinition(m) # Rejected
  BY <1>1, <1>2, AgreedOfMapping
<1>5. target = m.target /\ policy = Resolve(AgreedDefinition(m).application, input.bundles[m.channel])
  BY <1>2, <1>3, <1>4 DEF Bundle
<1>6. Contributes(m, target, policy)
  BY <1>4, <1>5 DEF Contributes
<1>7. CASE ~Acceptable(target, policy) /\ Fail
  BY <1>6, <1>7, RefusedPolicy, Failing
<1>8. CASE /\ Acceptable(target, policy)
           /\ result' = Put(result, target, policy)
           /\ current' = [namespace |-> namespace, definition |-> definitions[namespace]]
           /\ definitions' = [n \in DOMAIN definitions \ {namespace} |-> definitions[n]]
           /\ hashAt' = 0
           /\ pc' = "hashes"
           /\ UNCHANGED <<input, left, walkVars, earlier>>
  <2> HIDE DEF policy, target
  <2>1. TypeInv' /\ FieldsInv' /\ FailedInv'
    BY <1>1, <1>8 DEF PoliciesInv, TypeInv, FieldsInv, FailedInv, walkVars
  <2>2. Channel' = Channel /\ Snapshot' = Snapshot /\ \A n : Agreed(n)' = Agreed(n)
    BY <1>8, SameChannel
  <2>3. DefinitionsInv'
    <3>1. DOMAIN definitions' = DOMAIN definitions \ {namespace}
          /\ \A n \in DOMAIN definitions' : definitions'[n] = definitions[n]
      BY <1>8
    <3>2. Len(Snapshot.hashes) \in Nat
      <4>1. Channel \in DOMAIN input.snapshots /\ input \in Inputs
        BY <1>1, LeastLeft DEF TypeInv
      <4> QED
        BY <4>1, InputsAssumption DEF Snapshot, IsSequence
    <3> QED
      BY <1>1, <1>8, <2>2, <3>1, <3>2 DEF PoliciesInv, DefinitionsInv
  <2>4. /\ ResultInv' /\ EarlierInv'
        /\ target \in DOMAIN result' /\ result'[target] = policy
        /\ \A n : PublicAdded(n) => PublicAdded(n)'
        /\ \A n, i : HashesAddedAt(n, i) => HashesAddedAt(n, i)'
    BY <1>6, <1>8, PolicyAdded
  <2>5. AddedInv'
    <3>1. ASSUME NEW n \in input.mappings, Passed(n)'
          PROVE  /\ AgreedDefinition(n) # Rejected
                 /\ PublicAdded(n)'
                 /\ \A i \in DOMAIN HashesOfSource(n) :
                      HashesOfSource(n)[i].namespace = n.namespace /\ (Current(n)' => i <= hashAt')
                        => HashesAddedAt(n, i)'
      <4>1. CASE n = m
        <5>1. PublicAdded(m)'
          BY <1>5, <1>8, <2>4, InputsOnly DEF PublicAdded
        <5>2. Current(m)'
          BY <1>2, <1>8, <2>2 DEF Current
        <5>3. \A i \in DOMAIN HashesOfSource(m) : ~(i <= hashAt')
          <6>1. input \in Inputs /\ m.channel \in DOMAIN input.snapshots
            BY <1>1, <1>2, LeastLeft DEF TypeInv
          <6>2. IsSequence(HashesOfSource(m))
            BY <6>1, InputsAssumption DEF HashesOfSource
          <6> QED
            BY <1>8, <6>2 DEF IsSequence
        <5> QED
          BY <1>4, <4>1, <5>1, <5>2, <5>3
      <4>2. CASE n # m
        <5>1. ~(n.channel = Channel /\ n.namespace = namespace)
          BY <1>1, <1>2, <4>2, InputsAssumption DEF TypeInv
        <5>2. Passed(n) /\ ~Current(n)
          BY <1>1, <1>8, <2>2, <3>1, <5>1 DEF Passed, Current
        <5> QED
          BY <2>4, <5>2 DEF PoliciesInv, AddedInv
      <4> QED
        BY <4>1, <4>2
    <3> QED
      BY <1>8, <3>1, InputsOnly DEF AddedInv
  <2> QED
    BY <2>1, <2>3, <2>4, <2>5 DEF PoliciesInv
<1> QED
  BY <1>7, <1>8 DEF AddPublic

LEMMA ChannelAddedKeeps == PoliciesInv /\ ChannelAdded => PoliciesInv'
<1> SUFFICES ASSUME PoliciesInv, ChannelAdded PROVE PoliciesInv'
  OBVIOUS
<1>1. TypeInv' /\ FieldsInv' /\ DefinitionsInv' /\ FailedInv'
  BY DEF ChannelAdded, PoliciesInv, TypeInv, FieldsInv, DefinitionsInv, FailedInv, walkVars
<1>2. \A m : (Passed(m)' => Passed(m)) /\ ~Current(m)
  BY DEF ChannelAdded, Passed, Current
<1> QED
  BY <1>1, <1>2, NothingAdded DEF ChannelAdded, PoliciesInv

LEMMA HashPolicyKeeps == PoliciesInv /\ HashPolicy => PoliciesInv'
<1> SUFFICES ASSUME PoliciesInv, HashPolicy PROVE PoliciesInv'
  OBVIOUS
<1> DEFINE hashes == Snapshot.hashes[hashAt + 1]
           target == HashTarget(MappingFor(input.mappings, Channel, current.namespace))
           effective == EffectivePolicies(current.definition, hashes.collection, Bundle)
<1>1. /\ pc = "hashes" /\ TypeInv /\ hashAt < Len(Snapshot.hashes)
      /\ hashes.namespace = current.namespace
      /\ current.namespace \in Mapped(input.mappings, Channel) \ DOMAIN definitions
      /\ current.definition = Agreed(current.namespace)
      /\ Agreed(current.namespace) # Rejected
      /\ hashAt \in 0..Len(Snapshot.hashes)
  BY DEF HashPolicy, HashesLeft, PoliciesInv, DefinitionsInv
<1>2. PICK m \in input.mappings : m.channel = Channel /\ m.namespace = current.namespace
  BY <1>1, MappedHasMapping
<1>3. target = HashTarget(m)
  BY <1>1, <1>2, UniqueMapping
<1>4. AgreedDefinition(m) = current.definition /\ AgreedDefinition(m) # Rejected
  BY <1>1, <1>2, AgreedOfMapping
<1>5. effective = HashPolicies(m, hashes)
  BY <1>2, <1>4 DEF HashPolicies, Bundle
<1>6. Channel \in DOMAIN input.snapshots /\ input \in Inputs
  BY <1>1, LeastLeft DEF TypeInv
<1>7. DOMAIN Snapshot.hashes = 1..Len(Snapshot.hashes) /\ Len(Snapshot.hashes) \in Nat
  BY <1>6, InputsAssumption DEF Snapshot, IsSequence
<1>8. HashesOfSource(m) = Snapshot.hashes /\ hashAt + 1 \in DOMAIN Snapshot.hashes
  BY <1>1, <1>2, <1>7 DEF HashesOfSource, Snapshot
<1>9. hashes \in HashesOf(m, input.snapshots)
  BY <1>1, <1>2, <1>8 DEF HashesOf, HashesOfSource, ToSet
<1>10. CASE effective = {} /\ Fail
  <2>1. ~Consistent
    BY <1>5, <1>9, <1>10 DEF Consistent
  <2> QED
    BY <1>10, <2>1, Failing
<1>11. ASSUME NEW p \in effective,
              \/ /\ ~Acceptable(target, Resolve(p, Bundle))
                 /\ Fail
              \/ /\ Acceptable(target, Resolve(p, Bundle))
                 /\ result' = Put(result, target, Resolve(p, Bundle))
                 /\ hashAt' = hashAt + 1
                 /\ UNCHANGED <<input, pc, left, walkVars, definitions, current, earlier>>
       PROVE  PoliciesInv'
  <2> DEFINE policy == Resolve(p, Bundle)
  <2>1. policy = Resolve(p, input.bundles[m.channel])
    BY <1>2 DEF Bundle
  <2>2. Contributes(m, target, policy)
    BY <1>3, <1>4, <1>5, <1>9, <2>1 DEF Contributes
  <2>3. CASE ~Acceptable(target, policy) /\ Fail
    BY <2>2, <2>3, RefusedPolicy, Failing
  <2>4. CASE /\ Acceptable(target, policy)
             /\ result' = Put(result, target, policy)
             /\ hashAt' = hashAt + 1
             /\ UNCHANGED <<input, pc, left, walkVars, definitions, current, earlier>>
    <3>1. p \in HashPolicies(m, hashes)
      BY <1>5
    <3> HIDE DEF policy, target, hashes, effective
    <3>2. TypeInv' /\ FieldsInv' /\ FailedInv'
      BY <1>1, <2>4 DEF PoliciesInv, TypeInv, FieldsInv, FailedInv, walkVars
    <3>3. Channel' = Channel /\ Snapshot' = Snapshot /\ \A n : Agreed(n)' = Agreed(n)
      BY <2>4, SameChannel
    <3>4. DefinitionsInv'
      BY <1>1, <1>7, <2>4, <3>3 DEF PoliciesInv, DefinitionsInv
    <3>5. /\ ResultInv' /\ EarlierInv'
          /\ target \in DOMAIN result' /\ result'[target] = policy
          /\ \A n : PublicAdded(n) => PublicAdded(n)'
          /\ \A n, i : HashesAddedAt(n, i) => HashesAddedAt(n, i)'
      BY <2>2, <2>4, PolicyAdded
    <3>6. ASSUME NEW i, i = hashAt + 1 PROVE HashesAddedAt(m, i)'
      <4>1. HashesOfSource(m)[i] = hashes
        BY <1>8, <3>6 DEF hashes
      <4>2. HashesOfSource(m)' = HashesOfSource(m)
        BY <2>4, InputsOnly
      <4>3. p \in HashPolicies(m, HashesOfSource(m)[i])'
        BY <2>4, <3>1, <4>1, <4>2, InputsOnly
      <4>4. result'[HashTarget(m)] = Resolve(p, input'.bundles[m.channel]) /\ HashTarget(m) \in DOMAIN result'
        BY <1>3, <2>1, <2>4, <3>5
      <4> QED
        BY <4>3, <4>4 DEF HashesAddedAt
    <3>7. ASSUME NEW n \in input.mappings, Passed(n)'
          PROVE  /\ AgreedDefinition(n) # Rejected
                 /\ PublicAdded(n)'
                 /\ \A i \in DOMAIN HashesOfSource(n) :
                      HashesOfSource(n)[i].namespace = n.namespace /\ (Current(n)' => i <= hashAt')
                        => HashesAddedAt(n, i)'
      <4>1. Passed(n) /\ (Current(n)' <=> Current(n))
        BY <2>4, <3>3, <3>7 DEF Passed, Current
      <4>2. AgreedDefinition(n) # Rejected /\ PublicAdded(n)'
        BY <3>5, <4>1 DEF PoliciesInv, AddedInv
      <4>3. ASSUME NEW i \in DOMAIN HashesOfSource(n), HashesOfSource(n)[i].namespace = n.namespace,
                   Current(n) => i <= hashAt'
            PROVE  HashesAddedAt(n, i)'
        <5>1. CASE Current(n) => i <= hashAt
          BY <3>5, <4>1, <4>3, <5>1 DEF PoliciesInv, AddedInv
        <5>2. CASE Current(n) /\ ~(i <= hashAt)
          <6>1. n = m
            BY <1>1, <1>2, <1>6, <5>2, InputsAssumption DEF Current
          <6>2. i = hashAt + 1
            BY <1>1, <1>7, <1>8, <2>4, <4>3, <5>2, <6>1
          <6> QED
            BY <3>6, <6>1, <6>2
        <5> QED
          BY <5>1, <5>2
      <4> QED
        BY <4>1, <4>2, <4>3
    <3>8. AddedInv'
      BY <2>4, <3>7, InputsOnly DEF AddedInv
    <3> QED
      BY <3>2, <3>4, <3>5, <3>8 DEF PoliciesInv
  <2> QED
    BY <1>11, <2>3, <2>4
<1> QED
  BY <1>10, <1>11 DEF HashPolicy

LEMMA OtherHashesKeeps == PoliciesInv /\ OtherHashes => PoliciesInv'
<1> SUFFICES ASSUME PoliciesInv, OtherHashes PROVE PoliciesInv'
  OBVIOUS
<1>1. /\ pc = "hashes" /\ TypeInv /\ hashAt < Len(Snapshot.hashes)
      /\ Snapshot.hashes[hashAt + 1].namespace # current.namespace
      /\ hashAt' = hashAt + 1
      /\ UNCHANGED <<input, pc, left, walkVars, definitions, current, result, earlier>>
  BY DEF OtherHashes, HashesLeft, PoliciesInv
<1>2. Channel \in DOMAIN input.snapshots /\ input \in Inputs
  BY <1>1, LeastLeft DEF TypeInv
<1>3. DOMAIN Snapshot.hashes = 1..Len(Snapshot.hashes) /\ Len(Snapshot.hashes) \in Nat
  BY <1>2, InputsAssumption DEF Snapshot, IsSequence
<1>4. TypeInv' /\ FieldsInv' /\ FailedInv'
  BY <1>1 DEF PoliciesInv, TypeInv, FieldsInv, FailedInv, walkVars
<1>5. Channel' = Channel /\ Snapshot' = Snapshot /\ \A n : Agreed(n)' = Agreed(n)
  BY <1>1, SameChannel
<1>6. DefinitionsInv'
  BY <1>1, <1>3, <1>5 DEF PoliciesInv, DefinitionsInv
<1>7. ResultInv' /\ EarlierInv'
  BY <1>1, InputsOnly DEF PoliciesInv, ResultInv, EarlierInv, Graph
<1>8. ASSUME NEW m \in input.mappings, Passed(m)'
      PROVE  /\ AgreedDefinition(m) # Rejected
             /\ PublicAdded(m)'
             /\ \A i \in DOMAIN HashesOfSource(m) :
                  HashesOfSource(m)[i].namespace = m.namespace /\ (Current(m)' => i <= hashAt')
                    => HashesAddedAt(m, i)'
  <2>1. Passed(m) /\ (Current(m)' <=> Current(m))
    BY <1>1, <1>5, <1>8 DEF Passed, Current
  <2>2. /\ PublicAdded(m) => PublicAdded(m)'
        /\ \A i : HashesAddedAt(m, i) => HashesAddedAt(m, i)'
    BY <1>1, InputsOnly DEF PublicAdded, HashesAddedAt
  <2>3. ASSUME NEW i \in DOMAIN HashesOfSource(m), HashesOfSource(m)[i].namespace = m.namespace,
               Current(m), i <= hashAt'
        PROVE  i <= hashAt
    <3>1. HashesOfSource(m) = Snapshot.hashes /\ m.namespace = current.namespace
      BY <2>3 DEF Current, HashesOfSource, Snapshot
    <3> QED
      BY <1>1, <1>3, <2>3, <3>1 DEF PoliciesInv, DefinitionsInv
  <2> QED
    BY <2>1, <2>2, <2>3 DEF PoliciesInv, AddedInv
<1>9. AddedInv'
  BY <1>1, <1>8, InputsOnly DEF AddedInv
<1> QED
  BY <1>4, <1>6, <1>7, <1>9 DEF PoliciesInv

LEMMA HashesAddedKeeps == PoliciesInv /\ HashesAdded => PoliciesInv'
<1> SUFFICES ASSUME PoliciesInv, HashesAdded PROVE PoliciesInv'
  OBVIOUS
<1>1. /\ pc = "hashes" /\ TypeInv /\ ~(hashAt < Len(Snapshot.hashes))
      /\ pc' = "definitions"
      /\ UNCHANGED <<input, left, walkVars, definitions, current, hashAt, result, earlier>>
  BY DEF HashesAdded, HashesLeft, PoliciesInv
<1>2. Channel \in DOMAIN input.snapshots /\ input \in Inputs
  BY <1>1, LeastLeft DEF TypeInv
<1>3. DOMAIN Snapshot.hashes = 1..Len(Snapshot.hashes) /\ Len(Snapshot.hashes) \in Nat
  BY <1>2, InputsAssumption DEF Snapshot, IsSequence
<1>4. TypeInv' /\ FieldsInv' /\ FailedInv'
  BY <1>1 DEF PoliciesInv, TypeInv, FieldsInv, FailedInv, walkVars
<1>5. Channel' = Channel /\ \A n : Agreed(n)' = Agreed(n)
  BY <1>1, SameChannel
<1>6. DefinitionsInv'
  BY <1>1, <1>5 DEF PoliciesInv, DefinitionsInv
<1>7. ResultInv' /\ EarlierInv'
  BY <1>1, InputsOnly DEF PoliciesInv, ResultInv, EarlierInv, Graph
<1>8. ASSUME NEW m \in input.mappings, Passed(m)'
      PROVE  /\ AgreedDefinition(m) # Rejected
             /\ PublicAdded(m)'
             /\ \A i \in DOMAIN HashesOfSource(m) :
                  HashesOfSource(m)[i].namespace = m.namespace => HashesAddedAt(m, i)'
  <2>1. Passed(m)
    BY <1>1, <1>5, <1>8 DEF Passed
  <2>2. /\ PublicAdded(m) => PublicAdded(m)'
        /\ \A i : HashesAddedAt(m, i) => HashesAddedAt(m, i)'
    BY <1>1, InputsOnly DEF PublicAdded, HashesAddedAt
  <2>3. ASSUME NEW i \in DOMAIN HashesOfSource(m), Current(m)
        PROVE  i <= hashAt
    <3>1. HashesOfSource(m) = Snapshot.hashes
      BY <2>3 DEF Current, HashesOfSource, Snapshot
    <3> QED
      BY <1>1, <1>3, <2>3, <3>1 DEF PoliciesInv, DefinitionsInv
  <2> QED
    BY <2>1, <2>2, <2>3 DEF PoliciesInv, AddedInv
<1>9. AddedInv'
  BY <1>1, <1>8, InputsOnly DEF AddedInv
<1> QED
  BY <1>4, <1>6, <1>7, <1>9 DEF PoliciesInv
-----------------------------------------------------------------------------
LEMMA DistinctOwnersAgree == DistinctOwners => OwnersAgree
BY DEF DistinctOwners, OwnersAgree

(* Where owners agree there is one policy for a collection.                *)
LEMMA OnePolicy ==
  ASSUME OwnersAgree, input \in Inputs, NEW m \in input.mappings, NEW hashes,
         NEW p \in HashPolicies(m, hashes), NEW q \in HashPolicies(m, hashes)
  PROVE  Resolve(p, input.bundles[m.channel]) = Resolve(q, input.bundles[m.channel])
<1> DEFINE bundle == input.bundles[m.channel]
           definition == AgreedDefinition(m)
<1>1. m.channel \in DOMAIN input.snapshots
  BY InputsAssumption
<1>2. ASSUME NEW msp, NEW a \in OwnerPolicies(msp, bundle), NEW b \in OwnerPolicies(msp, bundle)
      PROVE  Resolve(a, bundle) = Resolve(b, bundle)
  BY <1>1 DEF OwnersAgree, OwnerPolicies
<1>3. p \in EffectivePolicies(definition, hashes.collection, bundle)
      /\ q \in EffectivePolicies(definition, hashes.collection, bundle)
  BY DEF HashPolicies
<1> HIDE DEF bundle, definition
<1>4. CASE p \in OwnerPolicies(hashes.collection.org, bundle) /\ q \in OwnerPolicies(hashes.collection.org, bundle)
  BY <1>2, <1>4 DEF bundle
<1>5. CASE p \in StaticPolicies(definition, hashes.collection) /\ q \in StaticPolicies(definition, hashes.collection)
  BY <1>5 DEF StaticPolicies
<1> QED
  BY <1>3, <1>4, <1>5 DEF EffectivePolicies

(* When the loop is through, the policies are those that were to be added. *)
LEMMA ResultIsContributions ==
  ASSUME PoliciesInv, pc = "done", OwnersAgree
  PROVE  Graph(result) = Contributions
<1>1. \A m \in input.mappings : Passed(m) /\ ~Current(m)
  BY InputsAssumption DEF PoliciesInv, TypeInv, Passed, Current
<1>2. \A x \in Graph(result) : x \in Contributions
  BY ContributionsAre DEF PoliciesInv, ResultInv, Graph
<1>3. ASSUME NEW m \in input.mappings
      PROVE  /\ <<m.target, Resolve(AgreedDefinition(m).application, input.bundles[m.channel])>> \in Graph(result)
             /\ \A hashes \in HashesOf(m, input.snapshots) : \A p \in HashPolicies(m, hashes) :
                  <<HashTarget(m), Resolve(p, input.bundles[m.channel])>> \in Graph(result)
  <2>1. PublicAdded(m)
    BY <1>1 DEF PoliciesInv, AddedInv
  <2>2. ASSUME NEW hashes \in HashesOf(m, input.snapshots), NEW p \in HashPolicies(m, hashes)
        PROVE  <<HashTarget(m), Resolve(p, input.bundles[m.channel])>> \in Graph(result)
    <3>1. m.channel \in DOMAIN input.snapshots /\ input \in Inputs
      BY InputsAssumption DEF PoliciesInv, TypeInv
    <3>2. DOMAIN HashesOfSource(m) = 1..Len(HashesOfSource(m))
      BY <3>1, InputsAssumption DEF HashesOfSource, IsSequence
    <3>3. PICK i \in DOMAIN HashesOfSource(m) :
            hashes = HashesOfSource(m)[i] /\ HashesOfSource(m)[i].namespace = m.namespace
      BY <3>2 DEF HashesOf, HashesOfSource, ToSet
    <3>4. HashesAddedAt(m, i)
      BY <1>1, <3>3 DEF PoliciesInv, AddedInv
    <3>5. PICK q \in HashPolicies(m, hashes) :
            /\ HashTarget(m) \in DOMAIN result
            /\ result[HashTarget(m)] = Resolve(q, input.bundles[m.channel])
      BY <3>3, <3>4 DEF HashesAddedAt
    <3>6. Resolve(p, input.bundles[m.channel]) = Resolve(q, input.bundles[m.channel])
      BY <3>1, OnePolicy
    <3> QED
      BY <3>5, <3>6 DEF Graph
  <2> QED
    BY <2>1, <2>2 DEF PublicAdded, Graph
<1>4. Contributions \subseteq Graph(result)
  <2> SUFFICES ASSUME NEW x \in Contributions PROVE x \in Graph(result)
    OBVIOUS
  <2>1. CASE \E m \in input.mappings :
               x = <<m.target, Resolve(AgreedDefinition(m).application, input.bundles[m.channel])>>
    BY <1>3, <2>1
  <2>2. CASE \E m \in input.mappings : \E hashes \in HashesOf(m, input.snapshots) :
               \E p \in HashPolicies(m, hashes) : x = <<HashTarget(m), Resolve(p, input.bundles[m.channel])>>
    BY <1>3, <2>2
  <2> QED
    BY <2>1, <2>2 DEF Contributions
<1> QED
  BY <1>2, <1>4

LEMMA GraphDetermines ==
  ASSUME NEW f, NEW g, f = [t \in DOMAIN f |-> f[t]], g = [t \in DOMAIN g |-> g[t]], Graph(f) = Graph(g)
  PROVE  f = g
<1>1. ASSUME NEW t \in DOMAIN f PROVE t \in DOMAIN g /\ f[t] = g[t]
  <2>1. <<t, f[t]>> \in Graph(g)
    BY DEF Graph
  <2> QED
    BY <2>1 DEF Graph
<1>2. ASSUME NEW t \in DOMAIN g PROVE t \in DOMAIN f
  <2>1. <<t, g[t]>> \in Graph(f)
    BY DEF Graph
  <2> QED
    BY <2>1 DEF Graph
<1> QED
  BY <1>1, <1>2

LEMMA AgainKeeps == PoliciesInv /\ Again => PoliciesInv'
<1> SUFFICES ASSUME PoliciesInv, Again PROVE PoliciesInv'
  OBVIOUS
<1>1. TypeInv' /\ FieldsInv' /\ DefinitionsInv' /\ FailedInv'
  BY DEF Again, PoliciesInv, TypeInv, FieldsInv, DefinitionsInv, FailedInv, walkVars
<1>2. AddedInv'
  BY DEF Again, AddedInv, Passed
<1>3. ResultInv'
  BY DEF Again, ResultInv
<1>4. EarlierInv'
  <2> SUFFICES ASSUME OwnersAgree, NEW e \in earlier'
               PROVE  e = [t \in DOMAIN e |-> e[t]] /\ Graph(e) = Contributions'
    BY DEF EarlierInv, Graph
  <2>1. e = result
    BY DEF Again
  <2> QED
    BY <2>1, ResultIsContributions, InputsOnly DEF Again, PoliciesInv, ResultInv
<1> QED
  BY <1>1, <1>2, <1>3, <1>4 DEF PoliciesInv

LEMMA StutterKeeps == PoliciesInv /\ UNCHANGED vars => PoliciesInv'
<1> SUFFICES ASSUME PoliciesInv, UNCHANGED vars PROVE PoliciesInv'
  OBVIOUS
<1> USE DEF vars, walkVars
<1>1. RecordsRead' = RecordsRead /\ Channel' = Channel /\ Snapshot' = Snapshot /\ \A n : Agreed(n)' = Agreed(n)
  BY SameChannel
<1>2. TypeInv' /\ DefinitionsInv' /\ FailedInv'
  BY <1>1, InputsOnly DEF PoliciesInv, TypeInv, DefinitionsInv, FailedInv
<1>3. Taken' = Taken
  BY <1>1 DEF Taken
<1>4. FieldsInv'
  BY <1>1, <1>3 DEF PoliciesInv, FieldsInv
<1>5. \A m : (Passed(m)' => Passed(m)) /\ (Current(m) => Current(m)')
  BY <1>1 DEF Passed, Current
<1> QED
  BY <1>2, <1>4, <1>5, NothingAdded DEF PoliciesInv

(***************************************************************************)
(* What has been read and what has been added, whatever the order in which *)
(* the definitions are taken and whatever a changed file makes the reader  *)
(* yield.                                                                  *)
(***************************************************************************)
THEOREM PoliciesInvariant == Spec => []PoliciesInv
<1>1. ASSUME PoliciesInv, [Next]_vars PROVE PoliciesInv'
  BY <1>1, BeginKeeps, NextChannelKeeps, FinishKeeps, DeliverKeeps, WalkEndsKeeps, AddPublicKeeps,
     ChannelAddedKeeps, HashPolicyKeeps, OtherHashesKeeps, HashesAddedKeeps, AgainKeeps, StutterKeeps
     DEF Next
<1> QED
  BY <1>1, InitPolicies, PTL DEF Spec

(***************************************************************************)
(* The policies a run ends with are those of every chaincode and every     *)
(* collection, if organizations of a source channel that share an MSP have *)
(* policies that are converted to the same one.  Otherwise the policy of   *)
(* an implicit collection is that of any of them (config.go:561-571), and  *)
(* the theorem does not hold.                                              *)
(***************************************************************************)
THEOREM PoliciesAreAgreed == ASSUME OwnersAgree PROVE Spec => []PoliciesAgreed
<1>1. PoliciesInv => PoliciesAgreed
  BY ResultIsContributions DEF PoliciesAgreed, Graph
<1> QED
  BY <1>1, PoliciesInvariant, PTL

(***************************************************************************)
(* Under the same hypothesis a second run gives the policies of the first, *)
(* so the organizations of an import arrive at one configuration.          *)
(***************************************************************************)
THEOREM RunsAgree == ASSUME OwnersAgree PROVE Spec => []RepeatedRunsAgree
<1>1. ASSUME PoliciesInv, pc = "done", NEW e \in earlier PROVE e = result
  <2>1. e = [t \in DOMAIN e |-> e[t]] /\ Graph(e) = Contributions
    BY <1>1 DEF PoliciesInv, EarlierInv
  <2>2. result = [t \in DOMAIN result |-> result[t]] /\ Graph(result) = Contributions
    BY <1>1, ResultIsContributions DEF PoliciesInv, ResultInv
  <2> QED
    BY <2>1, <2>2, GraphDetermines
<1>2. PoliciesInv => RepeatedRunsAgree
  BY <1>1 DEF RepeatedRunsAgree
<1> QED
  BY <1>2, PoliciesInvariant, PTL

(***************************************************************************)
(* Unchanged files are refused only for what they are.                     *)
(***************************************************************************)
THEOREM RefusalsAreJustified == Spec => []RefusalJustified
<1>1. PoliciesInv => RefusalJustified
  BY DEF PoliciesInv, FailedInv, RefusalJustified
<1> QED
  BY <1>1, PoliciesInvariant, PTL

(***************************************************************************)
(* The definitions that are used are those of the agreed bytes.            *)
(***************************************************************************)
THEOREM DefinitionsAreAgreed == Spec => []AgreedDefinitionsOnly
<1>1. PoliciesInv => AgreedDefinitionsOnly
  BY DEF PoliciesInv, DefinitionsInv, AgreedDefinitionsOnly, Agreed
<1> QED
  BY <1>1, PoliciesInvariant, PTL

(* A field of the agreed snapshot is the value of its record.              *)
LEMMA AgreedFieldOf ==
  ASSUME input \in Inputs, NEW m \in input.mappings, NEW r \in ToSet(PublicRecords(input.snapshots[m.channel])),
         Wanted(r, input.mappings, m.channel), NEW empty
  PROVE  Field(AgreedFields(m.channel), r.namespace, r.key, empty) = r.value
<1> DEFINE records == PublicRecords(input.snapshots[m.channel])
           wanted == {s \in ToSet(records) : Wanted(s, input.mappings, m.channel)}
<1>1. m.channel \in DOMAIN input.snapshots
  BY InputsAssumption
<1>2. KeysDiffer(records) /\ DOMAIN records = 1..Len(records)
  BY <1>1, InputsAssumption, RecordsAreSequence
<1>3. ASSUME NEW s \in wanted, Place(s) = Place(r) PROVE s = r
  <2>1. PICK i \in DOMAIN records : r = records[i]
    BY <1>2 DEF ToSet
  <2>2. PICK j \in DOMAIN records : s = records[j]
    BY <1>2 DEF ToSet
  <2> QED
    BY <1>2, <1>3, <2>1, <2>2 DEF KeysDiffer, Place
<1>4. r \in wanted
  OBVIOUS
<1>5. AgreedFields(m.channel) = [k \in {Place(s) : s \in wanted} |-> (CHOOSE s \in wanted : Place(s) = k).value]
  BY DEF AgreedFields, Place
<1> HIDE DEF wanted
<1>6. AgreedFields(m.channel)[Place(r)] = r.value /\ Place(r) \in DOMAIN AgreedFields(m.channel)
  BY <1>3, <1>4, <1>5
<1> QED
  BY <1>6 DEF Field, Place

(***************************************************************************)
(* Where a chaincode has a lifecycle definition, its policy is the one in  *)
(* that definition, whatever lscc still holds of it.                       *)
(***************************************************************************)
THEOREM LifecycleDecides == Spec => []LifecycleSupersedes
<1>1. ASSUME PoliciesInv, pc = "done", NEW m \in input.mappings,
             NEW r \in ToSet(PublicRecords(input.snapshots[m.channel])),
             NEW d \in ToSet(PublicRecords(input.snapshots[m.channel])),
             r.namespace = "_lifecycle", r.key = <<"ValidationInfo", m.namespace>>,
             d.namespace = "_lifecycle", d.key = <<"metadata", m.namespace>>, d.value # ""
      PROVE  result[m.target] = Resolve(r.value.policy, input.bundles[m.channel])
  <2> DEFINE f == AgreedFields(m.channel)
             none == [plugin |-> "", policy |-> NoPolicy]
  <2>1. input \in Inputs /\ Passed(m)
    BY <1>1, InputsAssumption DEF PoliciesInv, TypeInv, Passed
  <2>2. AgreedDefinition(m) # Rejected
        /\ result[m.target] = Resolve(AgreedDefinition(m).application, input.bundles[m.channel])
    BY <1>1, <2>1 DEF PoliciesInv, AddedInv, PublicAdded
  <2>3. m.namespace \in Mapped(input.mappings, m.channel)
    BY DEF Mapped
  <2>4. Wanted(r, input.mappings, m.channel) /\ Wanted(d, input.mappings, m.channel)
    <3> DEFINE lifecycle == {"metadata", "Sequence", "ValidationInfo", "Collections"} \X Mapped(input.mappings, m.channel)
    <3>1. r.key \in lifecycle /\ d.key \in lifecycle
      <4>1. <<"ValidationInfo", m.namespace>> \in lifecycle /\ <<"metadata", m.namespace>> \in lifecycle
        BY <2>3
      <4> HIDE DEF lifecycle
      <4> QED
        BY <1>1, <4>1
    <3> HIDE DEF lifecycle
    <3>2. <<r.namespace, r.key>> \in {"_lifecycle"} \X lifecycle /\ <<d.namespace, d.key>> \in {"_lifecycle"} \X lifecycle
      BY <1>1, <3>1
    <3>3. FieldKeys(Mapped(input.mappings, m.channel))
          = {"lscc"} \X ({"chaincode", "collection"} \X Mapped(input.mappings, m.channel))
            \union {"_lifecycle"} \X lifecycle
      BY DEF FieldKeys, lifecycle
    <3> QED
      BY <3>2, <3>3 DEF Wanted
  <2>5. Field(f, "_lifecycle", <<"metadata", m.namespace>>, "") = d.value
    BY <1>1, <2>1, <2>4, AgreedFieldOf
  <2>6. Field(f, "_lifecycle", <<"ValidationInfo", m.namespace>>, none) = r.value
    BY <1>1, <2>1, <2>4, AgreedFieldOf
  <2> HIDE DEF f
  <2>7. DefinitionOf(f, m.namespace) = LifecycleDefinition(f, m.namespace)
    BY <1>1, <2>5 DEF DefinitionOf
  <2>8. LifecycleDefinition(f, m.namespace) # Rejected
        => LifecycleDefinition(f, m.namespace).application = r.value.policy
    BY <2>6 DEF LifecycleDefinition
  <2>9. AgreedDefinition(m) = LifecycleDefinition(f, m.namespace)
    BY <2>7 DEF AgreedDefinition, f
  <2> QED
    BY <2>2, <2>8, <2>9
<1>2. PoliciesInv => LifecycleSupersedes
  BY <1>1 DEF LifecycleSupersedes
<1> QED
  BY <1>2, PoliciesInvariant, PTL
=============================================================================
