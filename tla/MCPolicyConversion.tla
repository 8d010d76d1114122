------------------------- MODULE MCPolicyConversion -------------------------
(***************************************************************************)
(* Two organizations resolve one application policy independently.  The    *)
(* policy manager of each has collected the subpolicies of every           *)
(* implicit-meta policy from a Go map, hence in an order of its own.       *)
(***************************************************************************)
EXTENDS PolicyConversion, TLC

CONSTANTS Orgs, Pending

VARIABLES
  application,   \* the application endorsement policy of a chaincode
  resolved       \* per organization: what resolvePolicy returned

vars == <<application, resolved>>

Principal(kind, msp, role) == [kind |-> kind, msp |-> msp, role |-> role]
Role(msp, role) == Principal("role", msp, role)

MCPrincipals == <<Role(1, "member"), Role(2, "member"), Role(1, "peer"), Role(2, "peer"),
                  Role(1, "admin"), Principal("unit", 1, "client")>>

MCPrincipalBytes(p) == CHOOSE i \in DOMAIN MCPrincipals : MCPrincipals[i] = p

Envelope(identities, rule) == [identities |-> identities, rule |-> rule]
Single(p) == Envelope(<<p>>, SignedBy(1))
Wrapped(p) == Envelope(<<p>>, NOutOf(1, <<SignedBy(1)>>))
Pair(n, p, q) == Envelope(<<p, q>>, NOutOf(n, <<SignedBy(1), SignedBy(2)>>))

(* The endorsement policies of organizations.                              *)
Own == <<Single(Role(1, "peer")), Wrapped(Role(1, "peer")), Wrapped(Role(1, "member")),
         Single(Role(2, "member")), Pair(2, Role(1, "peer"), Role(1, "member")),
         Pair(1, Role(2, "peer"), Role(1, "peer")), Single(Role(1, "admin"))>>

Odd == <<Wrapped(Principal("unit", 1, "client")), Envelope(<<>>, NOutOf(0, <<>>)),
         Pair(1, Role(1, "member"), Role(1, "peer"))>>

(* Explicit policies: order, repetitions, nesting, and flaws.              *)
Explicit ==
  {Own[i] : i \in DOMAIN Own} \union {Odd[i] : i \in DOMAIN Odd} \union
  {Pair(2, p, q) : p, q \in {Role(1, "peer"), Role(1, "member"), Role(2, "peer")}} \union
  {Envelope(<<Role(1, "peer"), Role(1, "member"), Role(2, "peer")>>, rule) :
     rule \in {NOutOf(2, <<SignedBy(3), NOutOf(2, <<SignedBy(1), SignedBy(2)>>)>>),
               NOutOf(2, <<SignedBy(3), NOutOf(2, <<SignedBy(2), SignedBy(1)>>)>>),
               NOutOf(2, <<SignedBy(2), SignedBy(2), SignedBy(1)>>),
               NOutOf(3, <<SignedBy(1), SignedBy(2)>>), SignedBy(4), NoRule,
               NOutOf(1, <<SignedBy(1), NoRule>>)}}

Signature(envelope) == [kind |-> "signature", envelope |-> envelope]
Implicit(n, subs) == [kind |-> "implicit", threshold |-> n, subs |-> subs]

(* Bags of subpolicies: their order is chosen when they are collected.     *)
Bags(S, max) == {s \in BoundedSeq(S, max) : \A i \in 1..(Len(s) - 1) : s[i] <= s[i + 1]}

Subs(bag) == [i \in DOMAIN bag |-> Signature(IF bag[i] <= Len(Own) THEN Own[bag[i]] ELSE Odd[bag[i] - Len(Own)])]

Flat == {Implicit(0, <<>>)} \union
        UNION {{Implicit(n, Subs(bag)) : n \in 1..Len(bag)} : bag \in Bags(1..10, 3) \ {<<>>}}

Nested == {Implicit(n, <<Implicit(m, Subs(bag)), Signature(Own[i])>>) :
             n \in {1, 2}, m \in {1, 2}, bag \in Bags(1..5, 2) \ Bags(1..5, 1), i \in 3..6}
          \union {Implicit(2, <<Implicit(1, Subs(a)), Implicit(2, Subs(b))>>) :
             a \in Bags(1..4, 2) \ Bags(1..4, 1), b \in Bags(1..4, 2) \ Bags(1..4, 1)}

Mixed == {Implicit(n, <<Implicit(m, Subs(bag)), Signature(Own[i]), Signature(Own[j])>>) :
            n \in 1..3, m \in {1, 2}, bag \in Bags(1..4, 2) \ Bags(1..4, 1), i \in {1, 3}, j \in 4..6}

Unusable == {Implicit(1, <<Signature(Own[1]), [kind |-> "opaque"]>>), [kind |-> "opaque"],
             [kind |-> "missing"]}

Applications ==
  {Signature(e) : e \in Explicit} \union {[kind |-> "none"]} \union
  {[kind |-> "reference", policy |-> p] :
     p \in Flat \union Nested \union Mixed \union Unusable \union {Signature(Own[i]) : i \in DOMAIN Own}}

(* The forms in which the policy manager may hold a policy.                *)
RECURSIVE Collected(_)
Collected(policy) ==
  IF policy.kind # "implicit" THEN {policy}
  ELSE LET n == Len(policy.subs)
       IN {[policy EXCEPT !.subs = s] :
             s \in UNION {{f \in [1..n -> UNION {Collected(policy.subs[i]) : i \in 1..n}] :
                             \A i \in 1..n : f[i] \in Collected(policy.subs[order[i]])} :
                            order \in Permutations(1..n)}}

Forms(a) ==
  IF a.kind # "reference" THEN {a} ELSE {[a EXCEPT !.policy = p] : p \in Collected(a.policy)}

Init ==
  /\ application \in Applications
  /\ resolved = [o \in Orgs |-> Pending]

Resolve(o) ==
  /\ resolved[o] = Pending
  /\ \E form \in Forms(application) : resolved' = [resolved EXCEPT ![o] = ResolvePolicy(form)]
  /\ UNCHANGED application

Done == (\A o \in Orgs : resolved[o] # Pending) /\ UNCHANGED vars

Next == (\E o \in Orgs : Resolve(o)) \/ Done

Spec == Init /\ [][Next]_vars
-----------------------------------------------------------------------------
Results == {resolved[o] : o \in Orgs} \ {Pending}

MCEndorsers == {[id |-> 1, msp |-> 1, role |-> "peer"], [id |-> 2, msp |-> 1, role |-> "peer"],
                [id |-> 3, msp |-> 1, role |-> "client"], [id |-> 4, msp |-> 2, role |-> "peer"],
                [id |-> 5, msp |-> 2, role |-> "client"]}

Endorsements == {s \in BoundedSeq(MCEndorsers, 3) : \A i, j \in DOMAIN s : i # j => s[i] # s[j]}

EndorsementAccepted(a, s) ==
  IF a.kind = "signature" THEN Accepts(a.envelope, s) ELSE SourceAccepts(a.policy, s)

(***************************************************************************)
(* Whatever the order in which each organization's policy manager has      *)
(* collected subpolicies, at any level, they resolve a policy to the same  *)
(* bytes or both reject it (config.go:353, README.md:183).                 *)
(***************************************************************************)
OrganizationsAgree ==
  \A o, u \in Orgs : Pending \notin {resolved[o], resolved[u]} => resolved[o] = resolved[u]

(***************************************************************************)
(* The rewrites keep the meaning: a resolved policy accepts exactly the    *)
(* endorsements, in exactly the orders, that the source channel's policy   *)
(* accepts (config.go:325, README.md:162-192), although the one consumes   *)
(* endorsers and branches of the other share them.                         *)
(***************************************************************************)
AcceptsAsSource ==
  \A r \in Results \ {Rejected} :
    \A s \in Endorsements : Accepts(r, s) <=> EndorsementAccepted(application, s)

(***************************************************************************)
(* Conversion is as complete as documented (README.md:166-185): an         *)
(* implicit-meta policy over role policies of distinct MSPs is never       *)
(* rejected, nor is one whose subpolicies become such by dropping          *)
(* duplicates under ALL and ANY, whatever a subpolicy asks of its own MSP. *)
(***************************************************************************)
OwnMsps(p) == {p.envelope.identities[i].msp : i \in DOMAIN p.envelope.identities}

RolesOnly(p) == \A i \in DOMAIN p.envelope.identities : p.envelope.identities[i].kind = "role"

Supported(policy) ==
  /\ policy.kind = "implicit"
  /\ \A i \in DOMAIN policy.subs : policy.subs[i].kind = "signature" /\ RolesOnly(policy.subs[i])
  /\ \A i, j \in DOMAIN policy.subs :
       \/ i = j
       \/ policy.threshold \in {1, Len(policy.subs)} /\ policy.subs[i] = policy.subs[j]
       \/ OwnMsps(policy.subs[i]) \intersect OwnMsps(policy.subs[j]) = {}

SupportedIsConverted ==
  Rejected \in Results => ~(application.kind = "reference" /\ Supported(application.policy))

=============================================================================
