----------------------------- MODULE Membership -----------------------------
(***************************************************************************)
(* reuseMSPs (internal/migrate/config.go:129-167): the organizations of    *)
(* all source channels are added to the target configuration unless it     *)
(* has their MSP already.                                                  *)
(*                                                                         *)
(* The organizations of the target are read in the order of a Go map, that *)
(* is in any order; those of the sources are offered channel by channel,   *)
(* sorted by name.  A group is the configuration of one organization.      *)
(***************************************************************************)
EXTENDS Naturals, Sequences

CONSTANTS
  Names,          \* names of organization groups
  Groups,         \* organization groups
  IdOf(_),        \* the MSP ID in a group's MSP definition
  MspOf(_),       \* the group's MSP definition
  PublicOnly(_),  \* publicMSP accepts it: a supported type, no signing key
  Targets,        \* the organizations a target configuration may have
  Offers          \* the organizations of the sources, in the order of the loops

VARIABLES
  given,    \* the organizations of the target configuration: name -> group
  offered,  \* sequence of [name, group]
  pc,       \* "target", "sources", "done" or "failed"
  unread,   \* target organizations the first loop has not reached
  next,     \* the next organization that is offered
  byID,     \* MSP ID -> MSP definition
  byName,   \* organization name -> MSP ID
  groups,   \* the organizations of the resolved configuration
  round     \* 2 when the result is used as the target of another import

vars == <<given, offered, pc, unread, next, byID, byName, groups, round>>

ASSUME MembershipAssumption ==
  /\ Targets \subseteq UNION {[S -> Groups] : S \in SUBSET Names}
  /\ Offers \subseteq Seq([name: Names, group: Groups])

Put(f, key, value) == [x \in DOMAIN f \union {key} |-> IF x = key THEN value ELSE f[x]]

Start(target) ==
  /\ given' = target
  /\ groups' = target
  /\ pc' = "target"
  /\ unread' = DOMAIN target
  /\ next' = 1
  /\ byID' = <<>>
  /\ byName' = <<>>

Init ==
  /\ given \in Targets
  /\ offered \in Offers
  /\ groups = given
  /\ pc = "target"
  /\ unread = DOMAIN given
  /\ next = 1
  /\ byID = <<>>
  /\ byName = <<>>
  /\ round = 1

Fail ==
  /\ pc' = "failed"
  /\ UNCHANGED <<given, offered, unread, next, byID, byName, groups, round>>

(***************************************************************************)
(* The first loop: one organization of the target.                         *)
(***************************************************************************)
ReadTarget(name) ==
  LET group == given[name]
  IN /\ pc = "target"
     /\ name \in unread
     /\ \/ /\ ~PublicOnly(group) \/ IdOf(group) \in DOMAIN byID
           /\ Fail
        \/ /\ PublicOnly(group)
           /\ IdOf(group) \notin DOMAIN byID
           /\ byID' = Put(byID, IdOf(group), MspOf(group))
           /\ byName' = Put(byName, name, IdOf(group))
           /\ unread' = unread \ {name}
           /\ UNCHANGED <<given, offered, pc, next, groups, round>>

TargetRead ==
  /\ pc = "target"
  /\ unread = {}
  /\ pc' = "sources"
  /\ UNCHANGED <<given, offered, unread, next, byID, byName, groups, round>>

(***************************************************************************)
(* The second loop: one organization of one source channel.                *)
(***************************************************************************)
Add(name, group) ==
  /\ groups' = Put(groups, name, group)
  /\ byID' = Put(byID, IdOf(group), MspOf(group))
  /\ byName' = Put(byName, name, IdOf(group))

(* As Offer, with an organization of a known name taken for known.         *)
OfferByName ==
  LET name == offered[next].name
      group == offered[next].group
  IN /\ pc = "sources"
     /\ next \in DOMAIN offered
     /\ \/ /\ ~PublicOnly(group) \/ (IdOf(group) \in DOMAIN byID /\ byID[IdOf(group)] # MspOf(group))
           /\ Fail
        \/ /\ PublicOnly(group)
           /\ IF name \in DOMAIN byName \/ IdOf(group) \in DOMAIN byID
              THEN UNCHANGED <<groups, byID, byName>> ELSE Add(name, group)
           /\ next' = next + 1
           /\ UNCHANGED <<given, offered, pc, unread, round>>

(* As Offer, with the name looked up before the MSP ID.                    *)
OfferNameFirst ==
  LET name == offered[next].name
      group == offered[next].group
  IN /\ pc = "sources"
     /\ next \in DOMAIN offered
     /\ \/ /\ ~PublicOnly(group) \/ name \in DOMAIN byName
           /\ Fail
        \/ /\ PublicOnly(group)
           /\ name \notin DOMAIN byName
           /\ IF IdOf(group) \in DOMAIN byID THEN UNCHANGED <<groups, byID, byName>> ELSE Add(name, group)
           /\ next' = next + 1
           /\ UNCHANGED <<given, offered, pc, unread, round>>

(* As Offer, with the name unchecked.                                      *)
OfferReplacing ==
  LET name == offered[next].name
      group == offered[next].group
  IN /\ pc = "sources"
     /\ next \in DOMAIN offered
     /\ \/ /\ ~PublicOnly(group) \/ (IdOf(group) \in DOMAIN byID /\ byID[IdOf(group)] # MspOf(group))
           /\ Fail
        \/ /\ PublicOnly(group)
           /\ IF IdOf(group) \in DOMAIN byID THEN UNCHANGED <<groups, byID, byName>> ELSE Add(name, group)
           /\ next' = next + 1
           /\ UNCHANGED <<given, offered, pc, unread, round>>

Offer ==
  LET name == offered[next].name
      group == offered[next].group
      known == IdOf(group) \in DOMAIN byID
      refused == \/ ~PublicOnly(group)
                 \/ known /\ byID[IdOf(group)] # MspOf(group)
                 \/ ~known /\ name \in DOMAIN byName
  IN /\ pc = "sources"
     /\ next \in DOMAIN offered
     /\ \/ refused /\ Fail
        \/ /\ ~refused
           /\ IF known THEN UNCHANGED <<groups, byID, byName>> ELSE Add(name, group)
           /\ next' = next + 1
           /\ UNCHANGED <<given, offered, pc, unread, round>>

Finish ==
  /\ pc = "sources"
  /\ next \notin DOMAIN offered
  /\ pc' = "done"
  /\ UNCHANGED <<given, offered, unread, next, byID, byName, groups, round>>

(* The import is repeated with the configuration it has resolved.          *)
Again ==
  /\ pc = "done"
  /\ round = 1
  /\ round' = 2
  /\ Start(groups)
  /\ UNCHANGED offered

Next == (\E name \in Names : ReadTarget(name)) \/ TargetRead \/ Offer \/ Finish \/ Again

Spec == Init /\ [][Next]_vars
-----------------------------------------------------------------------------
(***************************************************************************)
(* A resolved configuration has, for every organization of every source    *)
(* channel, its MSP definition, under exactly one organization; no MSP ID  *)
(* is defined twice (config.go:137,150; README.md:71).                     *)
(***************************************************************************)
MembersResolved ==
  pc = "done" =>
    /\ \A k \in DOMAIN offered : \E n \in DOMAIN groups : MspOf(groups[n]) = MspOf(offered[k].group)
    /\ \A m, n \in DOMAIN groups : IdOf(groups[m]) = IdOf(groups[n]) => m = n

(***************************************************************************)
(* At every moment the organizations the target was given are in it as     *)
(* they were, and what has been added is the whole group of a source's     *)
(* organization, of the same name and without a signing key                *)
(* (config.go:111,120,162).                                                *)
(***************************************************************************)
OnlyAdditions ==
  /\ \A n \in DOMAIN given : n \in DOMAIN groups /\ groups[n] = given[n]
  /\ \A n \in DOMAIN groups \ DOMAIN given :
       /\ PublicOnly(groups[n])
       /\ \E k \in DOMAIN offered : offered[k] = [name |-> n, group |-> groups[n]]

(***************************************************************************)
(* Whether reuseMSPs succeeds does not depend on the order in which the    *)
(* target's map is read: it is a condition on the inputs alone.  An        *)
(* organization is new if nobody before it, in the target or among those   *)
(* offered, has its MSP ID.                                                *)
(***************************************************************************)
TargetIDs == {IdOf(given[n]) : n \in DOMAIN given}

New(k) ==
  /\ IdOf(offered[k].group) \notin TargetIDs
  /\ \A j \in 1..(k - 1) : IdOf(offered[j].group) # IdOf(offered[k].group)

TargetAcceptable ==
  \A m \in DOMAIN given :
    /\ PublicOnly(given[m])
    /\ \A n \in DOMAIN given : IdOf(given[m]) = IdOf(given[n]) => m = n

OfferAcceptable(k) ==
  /\ PublicOnly(offered[k].group)
  /\ \A n \in DOMAIN given :
       IdOf(given[n]) = IdOf(offered[k].group) => MspOf(given[n]) = MspOf(offered[k].group)
  /\ \A j \in 1..(k - 1) :
       IdOf(offered[j].group) = IdOf(offered[k].group) => MspOf(offered[j].group) = MspOf(offered[k].group)
  /\ New(k) => /\ offered[k].name \notin DOMAIN given
               /\ \A j \in 1..(k - 1) : New(j) => offered[j].name # offered[k].name

OutcomeDetermined ==
  /\ pc = "done" => TargetAcceptable /\ \A k \in DOMAIN offered : OfferAcceptable(k)
  /\ pc = "failed" => ~(TargetAcceptable /\ \A k \in DOMAIN offered : OfferAcceptable(k))

(***************************************************************************)
(* A resolved configuration is accepted as the target of the same import   *)
(* and resolves to itself (config_test.go:58 repeats it on one target).    *)
(***************************************************************************)
ResolvedIsStable == round = 2 => pc # "failed" /\ groups = given
=============================================================================
