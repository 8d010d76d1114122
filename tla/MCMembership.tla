---------------------------- MODULE MCMembership ----------------------------
(***************************************************************************)
(* Two channels and a target with up to two organizations each, of two MSP *)
(* IDs, one of which is defined in two ways; one group carries a signing   *)
(* key.                                                                    *)
(***************************************************************************)
EXTENDS Membership

Group(id, msp) == [id |-> id, msp |-> msp, private |-> FALSE]

MCNames == {1, 2}
MCGroups == {Group(1, "a"), Group(1, "b"), Group(2, "c"), [id |-> 2, msp |-> "d", private |-> TRUE]}
MCIdOf(g) == g.id
MCMspOf(g) == g.msp
MCPublicOnly(g) == ~g.private

MCTargets == UNION {[S -> MCGroups] : S \in SUBSET MCNames}

(* The groups of a channel, sorted by name.                                *)
Sorted(f) ==
  IF DOMAIN f = {} THEN <<>>
  ELSE IF DOMAIN f = {1, 2}
  THEN <<[name |-> 1, group |-> f[1]], [name |-> 2, group |-> f[2]]>>
  ELSE LET n == CHOOSE n \in DOMAIN f : TRUE IN <<[name |-> n, group |-> f[n]]>>

MCOffers == {Sorted(f) \o Sorted(g) : f, g \in MCTargets}

Stopped == pc = "failed" \/ (pc = "done" /\ round = 2)

MCNext == Next \/ (Stopped /\ UNCHANGED vars)

MCSpec == Init /\ [][MCNext]_vars
=============================================================================
