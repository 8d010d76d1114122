-------------------------- MODULE PolicyConversion --------------------------
(***************************************************************************)
(* How an endorsement policy of a source channel becomes the policy of a   *)
(* target namespace (internal/migrate/config.go:178-387).                  *)
(*                                                                         *)
(* A rule of a signature policy is [kind |-> "by", by |-> i], which names  *)
(* the i-th principal of its envelope, or                                  *)
(* [kind |-> "nOutOf", n, rules]; NoRule stands for anything else a rule   *)
(* may decode to, nothing included.  An envelope is [identities, rule].  A *)
(* principal is [kind, msp, role]; kind "role" is the one the import can   *)
(* decode, an organizational unit, for instance, is of another.            *)
(*                                                                         *)
(* A policy of a source channel is                                         *)
(*   [kind |-> "signature", envelope]                                      *)
(*   [kind |-> "implicit", threshold, subs |-> sequence of policies]       *)
(*   [kind |-> "opaque"], which has no signature form, or "missing".       *)
(***************************************************************************)
EXTENDS Naturals, Sequences, FiniteSets, SequencesExt, FiniteSetsExt

CONSTANTS
  PrincipalBytes(_),   \* a number per principal: the order of encodings
  Rejected             \* the error return of the functions below

LOCAL T == INSTANCE TLC    \* SortSeq

SignedBy(i) == [kind |-> "by", by |-> i]

NoRule == [kind |-> "none"]

NOutOf(n, rules) == [kind |-> "nOutOf", n |-> n, rules |-> rules]

(***************************************************************************)
(* canonicalPolicy: principals become the sorted set of those of the       *)
(* envelope, and the rule names them by their new positions.               *)
(***************************************************************************)
RECURSIVE ValidRule(_, _)
ValidRule(rule, principals) ==
  /\ rule # NoRule
  /\ rule.kind = "by" => rule.by \in 1..principals
  /\ rule.kind = "nOutOf" =>
       /\ rule.n <= Len(rule.rules)
       /\ \A i \in DOMAIN rule.rules : ValidRule(rule.rules[i], principals)

Position(x, s) == CHOOSE i \in DOMAIN s : s[i] = x

RECURSIVE Renumber(_, _, _)
Renumber(rule, from, to) ==
  IF rule.kind = "by" THEN SignedBy(Position(from[rule.by], to))
  ELSE NOutOf(rule.n, [i \in DOMAIN rule.rules |-> Renumber(rule.rules[i], from, to)])

CanonicalPolicy(envelope) ==
  LET principals == SetToSortSeq(ToSet(envelope.identities),
                                 LAMBDA a, b : PrincipalBytes(a) < PrincipalBytes(b))
  IN IF ~ValidRule(envelope.rule, Len(envelope.identities)) THEN Rejected
     ELSE [identities |-> principals, rule |-> Renumber(envelope.rule, envelope.identities, principals)]

(***************************************************************************)
(* independentRules: no MSP has roles in two branches, and there is        *)
(* nothing but roles.                                                      *)
(***************************************************************************)
RECURSIVE Leaves(_)
Leaves(rule) ==
  IF rule.kind = "by" THEN {rule.by}
  ELSE UNION {Leaves(rule.rules[i]) : i \in DOMAIN rule.rules}

MspsOf(rule, identities) == {identities[i].msp : i \in Leaves(rule)}

(* As IndependentRules, with principals compared in the place of MSPs.     *)
DistinctPrincipals(rules, identities) ==
  \A i, j \in DOMAIN rules : i # j => Leaves(rules[i]) \intersect Leaves(rules[j]) = {}

(* As IndependentRules, with a role owned by the rule and not its branch.  *)
EveryLeafIndependent(rules, identities) ==
  \A i, j \in DOMAIN rules :
    /\ Cardinality(Leaves(rules[i])) = Cardinality(MspsOf(rules[i], identities))
    /\ i # j => MspsOf(rules[i], identities) \intersect MspsOf(rules[j], identities) = {}

IndependentRules(rules, identities) ==
  /\ \A i \in DOMAIN rules : \A leaf \in Leaves(rules[i]) : identities[leaf].kind = "role"
  /\ \A i, j \in DOMAIN rules :
       i # j => MspsOf(rules[i], identities) \intersect MspsOf(rules[j], identities) = {}

(***************************************************************************)
(* peerImpliesMember; singlePolicyRole unwraps 1-of-1 rules.               *)
(***************************************************************************)
RECURSIVE SinglePolicyRole(_, _)
SinglePolicyRole(rule, identities) ==
  IF rule.kind = "by" THEN identities[rule.by]
  ELSE IF rule.n = 1 /\ Len(rule.rules) = 1 THEN SinglePolicyRole(rule.rules[1], identities)
  ELSE [kind |-> "none"]

PeerImpliesMember(peer, member, identities) ==
  LET p == SinglePolicyRole(peer, identities)
      m == SinglePolicyRole(member, identities)
  IN /\ p.kind = "role" /\ m.kind = "role"
     /\ p.msp = m.msp /\ p.role = "peer" /\ m.role = "member"

(***************************************************************************)
(* normalizeImplicitMeta.  Rules are sorted by their encodings; a sequence *)
(* of numbers that determines the rule stands for its encoding.            *)
(***************************************************************************)
RECURSIVE RuleBytes(_)
RuleBytes(rule) ==
  IF rule.kind = "by" THEN <<1, rule.by>>
  ELSE <<2, rule.n, Len(rule.rules)>>
       \o FlattenSeq([i \in DOMAIN rule.rules |-> RuleBytes(rule.rules[i])])

Before(s, t) ==
  \/ Len(s) < Len(t) /\ IsPrefix(s, t)
  \/ \E i \in DOMAIN s \intersect DOMAIN t :
       s[i] < t[i] /\ \A j \in 1..(i - 1) : s[j] = t[j]

Sorted(rules) == T!SortSeq(rules, LAMBDA a, b : Before(RuleBytes(a), RuleBytes(b)))

Redundant(i, all, rules, identities) ==
  \E j \in DOMAIN rules :
    \/ j < i /\ rules[j] = rules[i]
    \/ all /\ PeerImpliesMember(rules[j], rules[i], identities)

Merged(all, rules, identities) ==
  LET kept == SetToSortSeq({i \in DOMAIN rules : ~Redundant(i, all, rules, identities)}, <)
  IN [k \in DOMAIN kept |-> rules[kept[k]]]

(* As NormalizeBranches, with the branches left in the order of the map.   *)
BranchesUnsorted(n, branches, identities) ==
  LET all    == n = Len(branches)
      merges == all \/ n = 1
      rules  == IF merges THEN Merged(all, branches, identities) ELSE branches
  IN IF merges /\ Len(rules) = 1 THEN rules[1]
     ELSE IF ~IndependentRules(rules, identities) THEN Rejected
     ELSE NOutOf(IF all THEN Len(rules) ELSE n, rules)

NormalizeBranches(n, branches, identities) ==
  LET all    == n = Len(branches)
      merges == all \/ n = 1
      rules  == IF merges THEN Merged(all, branches, identities) ELSE branches
  IN IF merges /\ Len(rules) = 1 THEN rules[1]
     ELSE IF ~IndependentRules(rules, identities) THEN Rejected
     ELSE NOutOf(IF all THEN Len(rules) ELSE n, Sorted(rules))

(* Upstream's Convert yields one branch per subpolicy.                     *)
RECURSIVE NormalizeImplicitMeta(_, _, _)
NormalizeImplicitMeta(policy, rule, identities) ==
  IF policy.kind # "implicit" THEN rule
  ELSE LET branches == [i \in DOMAIN policy.subs |->
                          NormalizeImplicitMeta(policy.subs[i], rule.rules[i], identities)]
       IN IF Rejected \in ToSet(branches) THEN Rejected
          ELSE NormalizeBranches(rule.n, branches, identities)

(***************************************************************************)
(* Upstream (policies.Converter): the signature form of a policy is a      *)
(* threshold over those of its subpolicies, in the order in which the      *)
(* policy manager has collected them, with one list of principals.         *)
(***************************************************************************)
RECURSIVE Convertible(_)
Convertible(policy) ==
  \/ policy.kind = "signature"
  \/ policy.kind = "implicit" /\ \A i \in DOMAIN policy.subs : Convertible(policy.subs[i])

RECURSIVE Principals(_)
Principals(policy) ==
  IF policy.kind = "signature" THEN policy.envelope.identities
  ELSE FlattenSeq([i \in DOMAIN policy.subs |-> Principals(policy.subs[i])])

RECURSIVE Shift(_, _)
Shift(rule, by) ==
  IF rule.kind = "by" THEN SignedBy(rule.by + by)
  ELSE NOutOf(rule.n, [i \in DOMAIN rule.rules |-> Shift(rule.rules[i], by)])

RECURSIVE ConvertRule(_)
ConvertRule(policy) ==
  IF policy.kind = "signature" THEN policy.envelope.rule
  ELSE LET before(i) == Len(FlattenSeq([j \in 1..(i - 1) |-> Principals(policy.subs[j])]))
       IN NOutOf(policy.threshold,
                 [i \in DOMAIN policy.subs |-> Shift(ConvertRule(policy.subs[i]), before(i))])

Convert(policy) == [identities |-> Principals(policy), rule |-> ConvertRule(policy)]

(***************************************************************************)
(* resolvePolicy: an application policy is an explicit signature policy    *)
(* or a reference to a policy of the source channel.                       *)
(***************************************************************************)
ResolveExplicit(envelope) == CanonicalPolicy(envelope)

ResolveReference(policy) ==
  LET canonical == CanonicalPolicy(Convert(policy))
      rule      == NormalizeImplicitMeta(policy, canonical.rule, canonical.identities)
  IN IF ~Convertible(policy) \/ canonical = Rejected THEN Rejected
     ELSE IF rule = Rejected THEN Rejected
     ELSE [canonical EXCEPT !.rule = rule]

ResolvePolicy(application) ==
  CASE application.kind = "signature" -> ResolveExplicit(application.envelope)
    [] application.kind = "reference" -> ResolveReference(application.policy)
    [] OTHER -> Rejected
-----------------------------------------------------------------------------
(***************************************************************************)
(* What policies accept (external: Fabric's cauthdsl and policies).  The   *)
(* endorsers are a sequence without repetitions of [id, msp, role].  A     *)
(* rule consumes endorsers in order: a leaf takes the first that is not    *)
(* used and satisfies its principal; a branch that fails takes none.       *)
(* Branches of an implicit-meta policy see all endorsers.                  *)
(***************************************************************************)
Satisfies(endorser, principal) ==
  endorser.msp = principal.msp /\ principal.role \in {"member", endorser.role}

RECURSIVE Consume(_, _, _, _)
Consume(rule, identities, endorsers, used) ==
  IF rule.kind = "by"
  THEN LET fit == {i \in DOMAIN endorsers \ used : Satisfies(endorsers[i], identities[rule.by])}
       IN [ok |-> fit # {}, used |-> used \union (IF fit = {} THEN {} ELSE {Min(fit)})]
  ELSE LET step(acc, child) ==
             LET r == Consume(child, identities, endorsers, acc.used)
             IN IF r.ok THEN [count |-> acc.count + 1, used |-> r.used] ELSE acc
           all == FoldLeft(step, [count |-> 0, used |-> used], rule.rules)
       IN [ok |-> all.count >= rule.n, used |-> all.used]

Accepts(envelope, endorsers) == Consume(envelope.rule, envelope.identities, endorsers, {}).ok

RECURSIVE SourceAccepts(_, _)
SourceAccepts(policy, endorsers) ==
  IF policy.kind = "signature" THEN Accepts(policy.envelope, endorsers)
  ELSE Cardinality({i \in DOMAIN policy.subs : SourceAccepts(policy.subs[i], endorsers)}) >= policy.threshold
=============================================================================
