-------------------------- MODULE MembershipProofs --------------------------
(***************************************************************************)
(* Proofs of the properties of Membership, for any organizations in any    *)
(* target and any number of channels.                                      *)
(*                                                                         *)
(* The invariant describes both maps of the loops by what they have been   *)
(* filled from (TargetInv, SourcesInv), the resolved organizations by the  *)
(* maps (GroupsInv), and remembers in the second round what the first one  *)
(* has established (RoundInv).                                             *)
(***************************************************************************)
EXTENDS Membership, TLAPS

Read == DOMAIN given \ unread

TypeInv ==
  /\ pc \in {"target", "sources", "done", "failed"}
  /\ offered \in Seq([name: Names, group: Groups])
  /\ next \in Nat \ {0}
  /\ round \in {1, 2}
  /\ DOMAIN given \subseteq Names
  /\ unread \subseteq DOMAIN given
  /\ DOMAIN groups \subseteq Names

TargetInv ==
  pc = "target" =>
    /\ groups = given
    /\ next = 1
    /\ DOMAIN byID = {IdOf(given[n]) : n \in Read}
    /\ \A n \in Read : byID[IdOf(given[n])] = MspOf(given[n]) /\ PublicOnly(given[n])
    /\ \A m, n \in Read : IdOf(given[m]) = IdOf(given[n]) => m = n
    /\ DOMAIN byName = Read

GroupsInv ==
  pc \in {"sources", "done"} =>
    /\ DOMAIN byName = DOMAIN groups
    /\ DOMAIN byID = {IdOf(groups[n]) : n \in DOMAIN groups}
    /\ \A n \in DOMAIN groups : byID[IdOf(groups[n])] = MspOf(groups[n]) /\ PublicOnly(groups[n])
    /\ \A m, n \in DOMAIN groups : IdOf(groups[m]) = IdOf(groups[n]) => m = n

SourcesInv ==
  pc \in {"sources", "done"} =>
    /\ TargetAcceptable
    /\ \A k \in 1..(next - 1) : k \in DOMAIN offered /\ OfferAcceptable(k)
    /\ DOMAIN byID = TargetIDs \union {IdOf(offered[j].group) : j \in 1..(next - 1)}
    /\ \A j \in 1..(next - 1) : byID[IdOf(offered[j].group)] = MspOf(offered[j].group)
    /\ \A n \in DOMAIN given : byID[IdOf(given[n])] = MspOf(given[n])
    /\ DOMAIN groups = DOMAIN given \union {offered[j].name : j \in {i \in 1..(next - 1) : New(i)}}
    /\ pc = "done" => next \notin DOMAIN offered

FailedInv == pc = "failed" => ~(TargetAcceptable /\ \A k \in DOMAIN offered : OfferAcceptable(k))

RoundInv ==
  round = 2 =>
    /\ pc # "failed"
    /\ groups = given
    /\ TargetAcceptable
    /\ \A k \in DOMAIN offered :
         /\ PublicOnly(offered[k].group)
         /\ \E n \in DOMAIN given : /\ IdOf(given[n]) = IdOf(offered[k].group)
                                    /\ MspOf(given[n]) = MspOf(offered[k].group)

MembershipInv ==
  TypeInv /\ TargetInv /\ GroupsInv /\ SourcesInv /\ FailedInv /\ RoundInv /\ OnlyAdditions
-----------------------------------------------------------------------------
LEMMA PutAt ==
  ASSUME NEW f, NEW key, NEW value
  PROVE  /\ DOMAIN Put(f, key, value) = DOMAIN f \union {key}
         /\ Put(f, key, value)[key] = value
         /\ \A x \in DOMAIN f : x # key => Put(f, key, value)[x] = f[x]
BY DEF Put

LEMMA OfferedAt ==
  ASSUME TypeInv, NEW k \in DOMAIN offered
  PROVE  /\ offered[k] \in [name: Names, group: Groups]
         /\ offered[k].name \in Names
         /\ k \in Nat \ {0}
         /\ 1..(k - 1) \subseteq DOMAIN offered
<1> DEFINE Org == [name: Names, group: Groups]
<1>1. offered \in Seq(Org) BY DEF TypeInv
<1> HIDE DEF Org
<1>2. DOMAIN offered = 1..Len(offered) /\ Len(offered) \in Nat BY <1>1
<1>3. offered[k] \in Org BY <1>1, <1>2
<1>4. offered[k].name \in Names BY <1>3 DEF Org
<1>5. k \in Nat \ {0} /\ 1..(k - 1) \subseteq DOMAIN offered BY <1>2
<1> QED BY <1>3, <1>4, <1>5 DEF Org

(***************************************************************************)
(* The predicates on inputs depend on nothing else.                        *)
(***************************************************************************)
LEMMA InputsOnly ==
  ASSUME UNCHANGED <<given, offered>>
  PROVE  /\ TargetIDs' = TargetIDs
         /\ TargetAcceptable' = TargetAcceptable
         /\ \A k : OfferAcceptable(k)' = OfferAcceptable(k) /\ New(k)' = New(k)
BY DEF TargetIDs, TargetAcceptable, OfferAcceptable, New

LEMMA StartsWell == ASSUME Init PROVE MembershipInv
<1> USE MembershipAssumption
<1>1. /\ given \in UNION {[S -> Groups] : S \in SUBSET Names}
      /\ offered \in Seq([name: Names, group: Groups])
  BY DEF Init
<1>2. DOMAIN given \subseteq Names BY <1>1
<1>3. DOMAIN byID = {} /\ DOMAIN byName = {} /\ Read = {} BY DEF Init, Read
<1> QED BY <1>1, <1>2, <1>3 DEF Init, MembershipInv, TypeInv, TargetInv, GroupsInv, SourcesInv,
                               FailedInv, RoundInv, OnlyAdditions

LEMMA FailKeeps ==
  ASSUME MembershipInv, Fail, round = 1,
         ~(TargetAcceptable /\ \A k \in DOMAIN offered : OfferAcceptable(k))
  PROVE  MembershipInv'
<1>1. pc' = "failed" /\ UNCHANGED <<given, offered, unread, next, byID, byName, groups, round>> BY DEF Fail
<1>2. FailedInv' BY <1>1, InputsOnly DEF FailedInv
<1>3. TypeInv' BY <1>1 DEF MembershipInv, TypeInv
<1>4. OnlyAdditions' BY <1>1 DEF MembershipInv, OnlyAdditions
<1> QED BY <1>1, <1>2, <1>3, <1>4 DEF MembershipInv, TargetInv, GroupsInv, SourcesInv, RoundInv

LEMMA ReadTargetKeeps ==
  ASSUME MembershipInv, NEW name \in Names, ReadTarget(name)
  PROVE  MembershipInv'
<1> DEFINE group == given[name]
<1>1. /\ pc = "target" /\ name \in unread /\ unread \subseteq DOMAIN given
      /\ UNCHANGED <<given, offered, next, groups, round>>
  BY DEF ReadTarget, Fail, MembershipInv, TypeInv
<1>2. /\ DOMAIN byID = {IdOf(given[n]) : n \in Read}
      /\ \A n \in Read : byID[IdOf(given[n])] = MspOf(given[n]) /\ PublicOnly(given[n])
      /\ \A m, n \in Read : IdOf(given[m]) = IdOf(given[n]) => m = n
      /\ DOMAIN byName = Read /\ groups = given /\ next = 1
  BY <1>1 DEF MembershipInv, TargetInv
<1>3. name \in DOMAIN given /\ name \notin Read BY <1>1 DEF Read
<1>4. CASE ~PublicOnly(group) \/ IdOf(group) \in DOMAIN byID
  <2>1. Fail BY <1>4 DEF ReadTarget
  <2>2. ~TargetAcceptable
    <3>1. CASE ~PublicOnly(group) BY <3>1, <1>3 DEF TargetAcceptable
    <3>2. CASE IdOf(group) \in DOMAIN byID
      <4>1. PICK n \in Read : IdOf(given[n]) = IdOf(group) BY <3>2, <1>2
      <4>2. n \in DOMAIN given /\ n # name BY <1>3 DEF Read
      <4> QED BY <4>1, <4>2, <1>3 DEF TargetAcceptable
    <3> QED BY <3>1, <3>2, <1>4
  <2>3. round = 1 BY <2>2 DEF MembershipInv, RoundInv, TypeInv
  <2> QED BY <2>1, <2>2, <2>3, FailKeeps
<1>5. CASE PublicOnly(group) /\ IdOf(group) \notin DOMAIN byID
  <2>1. /\ byID' = Put(byID, IdOf(group), MspOf(group))
        /\ byName' = Put(byName, name, IdOf(group))
        /\ unread' = unread \ {name} /\ pc' = pc
    BY <1>5 DEF ReadTarget
  <2>2. Read' = Read \union {name} BY <2>1, <1>1, <1>3 DEF Read
  <2>3. DOMAIN byID' = DOMAIN byID \union {IdOf(group)}
        /\ byID'[IdOf(group)] = MspOf(group)
        /\ \A x \in DOMAIN byID : byID'[x] = byID[x]
    BY <2>1, <1>5 DEF Put
  <2>4. DOMAIN byName' = DOMAIN byName \union {name} BY <2>1, PutAt
  <2>5. TargetInv'
    <3>1. DOMAIN byID' = {IdOf(given'[n]) : n \in Read'} BY <2>2, <2>3, <1>1, <1>2
    <3>2. \A n \in Read' : byID'[IdOf(given'[n])] = MspOf(given'[n]) /\ PublicOnly(given'[n])
      BY <2>2, <2>3, <1>1, <1>2, <1>5
    <3>3. \A m, n \in Read' : IdOf(given'[m]) = IdOf(given'[n]) => m = n
      BY <2>2, <1>1, <1>2, <1>5
    <3> QED BY <3>1, <3>2, <3>3, <2>2, <2>4, <1>1, <1>2 DEF TargetInv
  <2>6. TypeInv' BY <1>1, <2>1 DEF MembershipInv, TypeInv
  <2>7. RoundInv' BY <1>1, <2>1, InputsOnly DEF MembershipInv, RoundInv
  <2>8. OnlyAdditions' BY <1>1 DEF MembershipInv, OnlyAdditions
  <2> QED BY <1>1, <2>1, <2>5, <2>6, <2>7, <2>8
          DEF MembershipInv, GroupsInv, SourcesInv, FailedInv
<1> QED BY <1>4, <1>5

LEMMA TargetReadKeeps ==
  ASSUME MembershipInv, TargetRead
  PROVE  MembershipInv'
<1>1. /\ pc = "target" /\ unread = {} /\ pc' = "sources"
      /\ UNCHANGED <<given, offered, unread, next, byID, byName, groups, round>>
  BY DEF TargetRead
<1>2. Read = DOMAIN given BY <1>1 DEF Read
<1>3. /\ DOMAIN byID = {IdOf(given[n]) : n \in DOMAIN given}
      /\ \A n \in DOMAIN given : byID[IdOf(given[n])] = MspOf(given[n]) /\ PublicOnly(given[n])
      /\ \A m, n \in DOMAIN given : IdOf(given[m]) = IdOf(given[n]) => m = n
      /\ DOMAIN byName = DOMAIN given /\ groups = given /\ next = 1
  BY <1>1, <1>2 DEF MembershipInv, TargetInv
<1>4. TargetAcceptable BY <1>3 DEF TargetAcceptable
<1>5. SourcesInv'
  <2>1. 1..(next - 1) = {} BY <1>3
  <2>2. DOMAIN byID = TargetIDs BY <1>3 DEF TargetIDs
  <2> QED BY <1>1, <1>3, <1>4, <2>1, <2>2, InputsOnly DEF SourcesInv
<1>6. GroupsInv' BY <1>1, <1>3 DEF GroupsInv
<1>7. RoundInv' BY <1>1, InputsOnly DEF MembershipInv, RoundInv
<1>8. TypeInv' BY <1>1 DEF MembershipInv, TypeInv
<1>9. OnlyAdditions' BY <1>1 DEF MembershipInv, OnlyAdditions
<1> QED BY <1>1, <1>5, <1>6, <1>7, <1>8, <1>9 DEF MembershipInv, TargetInv, FailedInv

(***************************************************************************)
(* An offer: what the maps say about it is what its acceptability asks.    *)
(***************************************************************************)
LEMMA OfferMeaning ==
  ASSUME MembershipInv, pc = "sources", next \in DOMAIN offered
  PROVE  LET name == offered[next].name
             group == offered[next].group
             known == IdOf(group) \in DOMAIN byID
         IN /\ known <=> ~New(next)
            /\ OfferAcceptable(next) <=>
                 /\ PublicOnly(group)
                 /\ known => byID[IdOf(group)] = MspOf(group)
                 /\ known \/ name \notin DOMAIN byName
<1> DEFINE name == offered[next].name
           group == offered[next].group
           known == IdOf(group) \in DOMAIN byID
<1>1. /\ DOMAIN byID = TargetIDs \union {IdOf(offered[j].group) : j \in 1..(next - 1)}
      /\ \A j \in 1..(next - 1) : byID[IdOf(offered[j].group)] = MspOf(offered[j].group)
      /\ \A n \in DOMAIN given : byID[IdOf(given[n])] = MspOf(given[n])
      /\ DOMAIN groups = DOMAIN given \union {offered[j].name : j \in {i \in 1..(next - 1) : New(i)}}
      /\ DOMAIN byName = DOMAIN groups
  BY DEF MembershipInv, SourcesInv, GroupsInv
<1>2. known <=> ~New(next) BY <1>1 DEF New
<1>3. known => \/ \E n \in DOMAIN given : IdOf(given[n]) = IdOf(group)
              \/ \E j \in 1..(next - 1) : IdOf(offered[j].group) = IdOf(group)
  BY <1>1 DEF TargetIDs
<1>4. ASSUME OfferAcceptable(next), known PROVE byID[IdOf(group)] = MspOf(group)
  BY <1>1, <1>3, <1>4 DEF OfferAcceptable
<1>5. ASSUME OfferAcceptable(next), ~known PROVE name \notin DOMAIN byName
  BY <1>1, <1>2, <1>5 DEF OfferAcceptable
<1>6. ASSUME PublicOnly(group), known => byID[IdOf(group)] = MspOf(group), known \/ name \notin DOMAIN byName
      PROVE  OfferAcceptable(next)
  <2>1. \A n \in DOMAIN given : IdOf(given[n]) = IdOf(group) => MspOf(given[n]) = MspOf(group)
    BY <1>1, <1>6 DEF TargetIDs
  <2>2. \A j \in 1..(next - 1) : IdOf(offered[j].group) = IdOf(group) => MspOf(offered[j].group) = MspOf(group)
    BY <1>1, <1>6
  <2>3. New(next) => /\ name \notin DOMAIN given
                     /\ \A j \in 1..(next - 1) : New(j) => offered[j].name # name
    BY <1>1, <1>2, <1>6
  <2> QED BY <1>6, <2>1, <2>2, <2>3 DEF OfferAcceptable
<1>7. OfferAcceptable(next) => PublicOnly(group) BY DEF OfferAcceptable
<1> QED BY <1>2, <1>4, <1>5, <1>6, <1>7

(***************************************************************************)
(* In the second round everything offered is known.                        *)
(***************************************************************************)
LEMMA SecondRound ==
  ASSUME MembershipInv, pc = "sources", next \in DOMAIN offered, round = 2
  PROVE  LET group == offered[next].group
         IN /\ PublicOnly(group)
            /\ IdOf(group) \in DOMAIN byID
            /\ byID[IdOf(group)] = MspOf(group)
<1> DEFINE group == offered[next].group
<1>1. PICK n \in DOMAIN given : IdOf(given[n]) = IdOf(group) /\ MspOf(given[n]) = MspOf(group)
  BY DEF MembershipInv, RoundInv
<1>2. PublicOnly(group) BY DEF MembershipInv, RoundInv
<1>3. IdOf(given[n]) \in DOMAIN byID /\ byID[IdOf(given[n])] = MspOf(given[n])
  BY DEF MembershipInv, SourcesInv, TargetIDs
<1> QED BY <1>1, <1>2, <1>3

LEMMA OfferKeeps ==
  ASSUME MembershipInv, Offer
  PROVE  MembershipInv'
<1> DEFINE name == offered[next].name
           group == offered[next].group
           known == IdOf(group) \in DOMAIN byID
           refused == \/ ~PublicOnly(group)
                      \/ known /\ byID[IdOf(group)] # MspOf(group)
                      \/ ~known /\ name \in DOMAIN byName
<1>1. pc = "sources" /\ next \in DOMAIN offered BY DEF Offer
<1>2. (known <=> ~New(next)) /\ (OfferAcceptable(next) <=> ~refused) BY <1>1, OfferMeaning
<1>3. CASE refused
  <2>1. Fail BY <1>3 DEF Offer
  <2>2. ~(TargetAcceptable /\ \A k \in DOMAIN offered : OfferAcceptable(k)) BY <1>1, <1>2, <1>3
  <2>3. round = 1 BY <1>1, <1>3, SecondRound DEF MembershipInv, TypeInv
  <2> QED BY <2>1, <2>2, <2>3, FailKeeps
<1>4. CASE ~refused
  <2>1. /\ UNCHANGED <<given, offered, pc, unread, round>> /\ next' = next + 1
        /\ IF known THEN UNCHANGED <<groups, byID, byName>> ELSE Add(name, group)
    BY <1>4 DEF Offer
  <2>2. next \in Nat \ {0} /\ next' \in Nat \ {0} /\ 1..(next' - 1) = 1..(next - 1) \union {next}
        /\ name \in Names
    BY <1>1, <2>1, OfferedAt DEF MembershipInv
  <2>3. /\ TargetAcceptable
        /\ \A k \in 1..(next - 1) : k \in DOMAIN offered /\ OfferAcceptable(k)
        /\ DOMAIN byID = TargetIDs \union {IdOf(offered[j].group) : j \in 1..(next - 1)}
        /\ \A j \in 1..(next - 1) : byID[IdOf(offered[j].group)] = MspOf(offered[j].group)
        /\ \A n \in DOMAIN given : byID[IdOf(given[n])] = MspOf(given[n])
        /\ DOMAIN groups = DOMAIN given \union {offered[j].name : j \in {i \in 1..(next - 1) : New(i)}}
    BY <1>1 DEF MembershipInv, SourcesInv
  <2>4. /\ DOMAIN byName = DOMAIN groups
        /\ DOMAIN byID = {IdOf(groups[n]) : n \in DOMAIN groups}
        /\ \A n \in DOMAIN groups : byID[IdOf(groups[n])] = MspOf(groups[n]) /\ PublicOnly(groups[n])
        /\ \A m, n \in DOMAIN groups : IdOf(groups[m]) = IdOf(groups[n]) => m = n
    BY <1>1 DEF MembershipInv, GroupsInv
  <2>5. /\ TargetAcceptable' = TargetAcceptable /\ TargetIDs' = TargetIDs
        /\ \A k : OfferAcceptable(k)' = OfferAcceptable(k) /\ New(k)' = New(k)
    BY <2>1, InputsOnly
  <2>6. \A k \in 1..(next' - 1) : k \in DOMAIN offered' /\ OfferAcceptable(k)'
    BY <1>1, <1>2, <1>4, <2>1, <2>2, <2>3, <2>5
  <2>7. CASE known
    <3>1. UNCHANGED <<groups, byID, byName>> BY <2>1, <2>7
    <3>2. {offered[j].name : j \in {i \in 1..(next' - 1) : New(i)}}
          = {offered[j].name : j \in {i \in 1..(next - 1) : New(i)}}
      BY <2>2, <2>7, <1>2
    <3>3. DOMAIN groups' = DOMAIN given' \union {offered'[j].name : j \in {i \in 1..(next' - 1) : New(i)'}}
      BY <2>1, <2>3, <2>5, <3>1, <3>2
    <3>4. DOMAIN byID' = TargetIDs' \union {IdOf(offered'[j].group) : j \in 1..(next' - 1)}
      BY <2>1, <2>2, <2>3, <2>5, <2>7, <3>1
    <3>5. \A j \in 1..(next' - 1) : byID'[IdOf(offered'[j].group)] = MspOf(offered'[j].group)
      BY <1>4, <2>1, <2>2, <2>3, <2>7, <3>1
    <3>6. SourcesInv' BY <1>1, <2>1, <2>3, <2>5, <2>6, <3>1, <3>3, <3>4, <3>5 DEF SourcesInv
    <3>7. GroupsInv' BY <2>4, <3>1 DEF GroupsInv
    <3>8. TypeInv' BY <2>1, <2>2, <3>1 DEF MembershipInv, TypeInv
    <3>9. RoundInv' BY <2>1, <3>1, InputsOnly DEF MembershipInv, RoundInv
    <3>10. OnlyAdditions' BY <2>1, <3>1 DEF MembershipInv, OnlyAdditions
    <3> QED BY <1>1, <2>1, <3>6, <3>7, <3>8, <3>9, <3>10 DEF MembershipInv, TargetInv, FailedInv
  <2>8. CASE ~known
    <3>1. /\ name \notin DOMAIN groups /\ PublicOnly(group) /\ New(next)
      BY <1>2, <1>4, <2>4, <2>8
    <3>2. /\ groups' = Put(groups, name, group)
          /\ byID' = Put(byID, IdOf(group), MspOf(group))
          /\ byName' = Put(byName, name, IdOf(group))
      BY <2>1, <2>8 DEF Add
    <3>3. /\ DOMAIN groups' = DOMAIN groups \union {name}
          /\ groups'[name] = group
          /\ \A n \in DOMAIN groups : groups'[n] = groups[n]
      BY <3>1, <3>2 DEF Put
    <3>4. /\ DOMAIN byID' = DOMAIN byID \union {IdOf(group)}
          /\ byID'[IdOf(group)] = MspOf(group)
          /\ \A x \in DOMAIN byID : byID'[x] = byID[x]
      BY <2>8, <3>2 DEF Put
    <3>5. DOMAIN byName' = DOMAIN byName \union {name} BY <3>2 DEF Put
    <3>6. {offered[j].name : j \in {i \in 1..(next' - 1) : New(i)}}
          = {offered[j].name : j \in {i \in 1..(next - 1) : New(i)}} \union {name}
      BY <2>2, <3>1
    <3>7. DOMAIN groups' = DOMAIN given' \union {offered'[j].name : j \in {i \in 1..(next' - 1) : New(i)'}}
      <4>1. {offered'[j].name : j \in {i \in 1..(next' - 1) : New(i)'}}
            = {offered[j].name : j \in {i \in 1..(next' - 1) : New(i)}}
        BY <2>1, <2>5
      <4>2. DOMAIN groups' = DOMAIN given \union {offered[j].name : j \in {i \in 1..(next - 1) : New(i)}}
                             \union {name}
        BY <2>3, <3>3
      <4> QED BY <2>1, <3>6, <4>1, <4>2
    <3>8. DOMAIN byID' = TargetIDs' \union {IdOf(offered'[j].group) : j \in 1..(next' - 1)}
      BY <2>1, <2>2, <2>3, <2>5, <3>4
    <3>9. \A j \in 1..(next' - 1) : byID'[IdOf(offered'[j].group)] = MspOf(offered'[j].group)
      <4>1. \A j \in 1..(next - 1) : IdOf(offered[j].group) \in DOMAIN byID BY <2>3
      <4> QED BY <2>1, <2>2, <2>3, <3>4, <4>1
    <3>10. \A n \in DOMAIN given' : byID'[IdOf(given'[n])] = MspOf(given'[n])
      <4>1. \A n \in DOMAIN given : IdOf(given[n]) \in DOMAIN byID BY <2>3 DEF TargetIDs
      <4> QED BY <2>1, <2>3, <3>4, <4>1
    <3>11. SourcesInv' BY <1>1, <2>1, <2>3, <2>5, <2>6, <3>7, <3>8, <3>9, <3>10 DEF SourcesInv
    <3>12. GroupsInv'
      <4>1. \A n \in DOMAIN groups : IdOf(groups[n]) \in DOMAIN byID /\ IdOf(groups[n]) # IdOf(group)
        BY <2>4, <2>8
      <4>2. DOMAIN byID' = {IdOf(groups'[n]) : n \in DOMAIN groups'} BY <2>4, <3>3, <3>4
      <4>3. \A n \in DOMAIN groups' : byID'[IdOf(groups'[n])] = MspOf(groups'[n]) /\ PublicOnly(groups'[n])
        BY <2>4, <3>1, <3>3, <3>4, <4>1
      <4>4. \A m, n \in DOMAIN groups' : IdOf(groups'[m]) = IdOf(groups'[n]) => m = n
        BY <2>4, <3>3, <4>1
      <4>5. DOMAIN byName' = DOMAIN groups' BY <2>4, <3>3, <3>5
      <4> QED BY <4>2, <4>3, <4>4, <4>5 DEF GroupsInv
    <3>13. TypeInv' BY <2>1, <2>2, <3>3 DEF MembershipInv, TypeInv
    <3>14. round = 1 BY <1>1, <2>8, SecondRound DEF MembershipInv, TypeInv
    <3>15. OnlyAdditions'
      <4>1. offered[next] = [name |-> name, group |-> group] BY <1>1, OfferedAt DEF MembershipInv
      <4>2. OnlyAdditions BY DEF MembershipInv
      <4>3. \A n \in DOMAIN given' : n \in DOMAIN groups' /\ groups'[n] = given'[n]
        BY <2>1, <3>3, <4>2 DEF OnlyAdditions
      <4>4. \A n \in DOMAIN groups' \ DOMAIN given' :
              /\ PublicOnly(groups'[n])
              /\ \E k \in DOMAIN offered' : offered'[k] = [name |-> n, group |-> groups'[n]]
        BY <1>1, <2>1, <3>1, <3>3, <4>1, <4>2 DEF OnlyAdditions
      <4> QED BY <4>3, <4>4 DEF OnlyAdditions
    <3> QED BY <1>1, <2>1, <3>11, <3>12, <3>13, <3>14, <3>15
            DEF MembershipInv, TargetInv, FailedInv, RoundInv
  <2> QED BY <2>7, <2>8
<1> QED BY <1>3, <1>4

LEMMA FinishKeeps ==
  ASSUME MembershipInv, Finish
  PROVE  MembershipInv'
<1>1. /\ pc = "sources" /\ next \notin DOMAIN offered /\ pc' = "done"
      /\ UNCHANGED <<given, offered, unread, next, byID, byName, groups, round>>
  BY DEF Finish
<1>2. TypeInv' BY <1>1 DEF MembershipInv, TypeInv
<1>3. GroupsInv' BY <1>1 DEF MembershipInv, GroupsInv
<1>4. SourcesInv' BY <1>1, InputsOnly DEF MembershipInv, SourcesInv
<1>5. RoundInv' BY <1>1, InputsOnly DEF MembershipInv, RoundInv
<1>6. OnlyAdditions' BY <1>1 DEF MembershipInv, OnlyAdditions
<1> QED BY <1>1, <1>2, <1>3, <1>4, <1>5, <1>6 DEF MembershipInv, TargetInv, FailedInv

(***************************************************************************)
(* At the end the loop has reached everything offered.                     *)
(***************************************************************************)
LEMMA AllReached ==
  ASSUME MembershipInv, pc = "done"
  PROVE  DOMAIN offered = 1..(next - 1)
<1>1. next \in Nat \ {0} /\ next \notin DOMAIN offered /\ 1..(next - 1) \subseteq DOMAIN offered
  BY DEF MembershipInv, TypeInv, SourcesInv
<1>2. DOMAIN offered = 1..Len(offered) /\ Len(offered) \in Nat BY DEF MembershipInv, TypeInv
<1>3. next - 1 \in 0..Len(offered) /\ next > Len(offered)
  <2>1. next > Len(offered) BY <1>1, <1>2
  <2>2. next - 1 = 0 \/ next - 1 \in 1..(next - 1) BY <1>1
  <2> QED BY <1>1, <1>2, <2>1, <2>2
<1> QED BY <1>1, <1>2, <1>3

LEMMA EveryOfferResolved ==
  ASSUME MembershipInv, pc = "done", NEW k \in DOMAIN offered
  PROVE  /\ PublicOnly(offered[k].group)
         /\ \E n \in DOMAIN groups : /\ IdOf(groups[n]) = IdOf(offered[k].group)
                                     /\ MspOf(groups[n]) = MspOf(offered[k].group)
<1>1. k \in 1..(next - 1) BY AllReached
<1>2. /\ OfferAcceptable(k)
      /\ IdOf(offered[k].group) \in DOMAIN byID
      /\ byID[IdOf(offered[k].group)] = MspOf(offered[k].group)
  BY <1>1 DEF MembershipInv, SourcesInv
<1>3. PICK n \in DOMAIN groups : IdOf(groups[n]) = IdOf(offered[k].group)
  BY <1>2 DEF MembershipInv, GroupsInv
<1>4. byID[IdOf(groups[n])] = MspOf(groups[n]) BY DEF MembershipInv, GroupsInv
<1> QED BY <1>2, <1>3, <1>4 DEF OfferAcceptable

LEMMA AgainKeeps ==
  ASSUME MembershipInv, Again
  PROVE  MembershipInv'
<1>1. /\ pc = "done" /\ round = 1 /\ round' = 2 /\ offered' = offered
      /\ given' = groups /\ groups' = groups /\ pc' = "target" /\ unread' = DOMAIN groups
      /\ next' = 1 /\ byID' = <<>> /\ byName' = <<>>
  BY DEF Again, Start
<1>2. TypeInv' BY <1>1 DEF MembershipInv, TypeInv
<1>3. DOMAIN byID' = {} /\ DOMAIN byName' = {} /\ Read' = {} BY <1>1 DEF Read
<1>4. TargetInv' BY <1>1, <1>3 DEF TargetInv
<1>5. TargetAcceptable' BY <1>1 DEF MembershipInv, GroupsInv, TargetAcceptable
<1>6. RoundInv' BY <1>1, <1>5, EveryOfferResolved DEF RoundInv
<1>7. OnlyAdditions' BY <1>1 DEF OnlyAdditions
<1> QED BY <1>1, <1>2, <1>4, <1>6, <1>7 DEF MembershipInv, GroupsInv, SourcesInv, FailedInv

LEMMA StutterKeeps == ASSUME MembershipInv, UNCHANGED vars PROVE MembershipInv'
<1>1. UNCHANGED <<given, offered, pc, unread, next, byID, byName, groups, round>> BY DEF vars
<1>2. Read' = Read BY <1>1 DEF Read
<1>3. TypeInv' BY <1>1 DEF MembershipInv, TypeInv
<1>4. TargetInv' BY <1>1, <1>2 DEF MembershipInv, TargetInv
<1>5. GroupsInv' BY <1>1 DEF MembershipInv, GroupsInv
<1>6. SourcesInv' BY <1>1, InputsOnly DEF MembershipInv, SourcesInv
<1>7. FailedInv' BY <1>1, InputsOnly DEF MembershipInv, FailedInv
<1>8. RoundInv' BY <1>1, InputsOnly DEF MembershipInv, RoundInv
<1>9. OnlyAdditions' BY <1>1 DEF MembershipInv, OnlyAdditions
<1> QED BY <1>3, <1>4, <1>5, <1>6, <1>7, <1>8, <1>9 DEF MembershipInv
-----------------------------------------------------------------------------
(***************************************************************************)
(* The invariant of reuseMSPs (config.go:129-167).                         *)
(***************************************************************************)
THEOREM MembershipInvariant == Spec => []MembershipInv
<1>1. Init => MembershipInv BY StartsWell
<1>2. MembershipInv /\ [Next]_vars => MembershipInv'
  <2> SUFFICES ASSUME MembershipInv, [Next]_vars PROVE MembershipInv'
    OBVIOUS
  <2>1. ASSUME NEW name \in Names, ReadTarget(name) PROVE MembershipInv' BY <2>1, ReadTargetKeeps
  <2>2. CASE TargetRead BY <2>2, TargetReadKeeps
  <2>3. CASE Offer BY <2>3, OfferKeeps
  <2>4. CASE Finish BY <2>4, FinishKeeps
  <2>5. CASE Again BY <2>5, AgainKeeps
  <2>6. CASE UNCHANGED vars BY <2>6, StutterKeeps
  <2> QED BY <2>1, <2>2, <2>3, <2>4, <2>5, <2>6 DEF Next
<1> QED BY <1>1, <1>2, PTL DEF Spec

(***************************************************************************)
(* Whatever the target and the sources: if reuseMSPs succeeds, every       *)
(* source organization's MSP is defined once in the target.                *)
(***************************************************************************)
THEOREM EveryMemberOnce == Spec => []MembersResolved
<1>1. MembershipInv => MembersResolved
  BY EveryOfferResolved DEF MembersResolved, MembershipInv, GroupsInv
<1> QED BY <1>1, MembershipInvariant, PTL

(***************************************************************************)
(* The target's own organizations are never touched, and only whole public *)
(* groups of the sources are added.                                        *)
(***************************************************************************)
THEOREM TargetKept == Spec => []OnlyAdditions
<1>1. MembershipInv => OnlyAdditions BY DEF MembershipInv
<1> QED BY <1>1, MembershipInvariant, PTL

(***************************************************************************)
(* No map order decides whether reuseMSPs succeeds.                        *)
(***************************************************************************)
THEOREM MapOrderIrrelevant == Spec => []OutcomeDetermined
<1>1. MembershipInv => OutcomeDetermined
  <2>1. ASSUME MembershipInv, pc = "done"
        PROVE  TargetAcceptable /\ \A k \in DOMAIN offered : OfferAcceptable(k)
    BY <2>1, AllReached DEF MembershipInv, SourcesInv
  <2> QED BY <2>1 DEF MembershipInv, FailedInv, OutcomeDetermined
<1> QED BY <1>1, MembershipInvariant, PTL

(***************************************************************************)
(* Repeating an import with the configuration it resolved changes nothing. *)
(***************************************************************************)
THEOREM ResolvingTwice == Spec => []ResolvedIsStable
<1>1. MembershipInv => ResolvedIsStable BY DEF MembershipInv, RoundInv, ResolvedIsStable
<1> QED BY <1>1, MembershipInvariant, PTL
=============================================================================
