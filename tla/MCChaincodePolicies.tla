------------------------ MODULE MCChaincodePolicies ------------------------
(***************************************************************************)
(* Two chaincodes "a" and "b", in one channel or in two.  The policies P   *)
(* and Q are signature policies, R a reference to a policy that is the     *)
(* same as P in channel 1 and another in channel 2, X one that cannot be   *)
(* resolved and V one the verifier refuses.                                *)
(***************************************************************************)
EXTENDS ChaincodePolicies

CONSTANTS P, Q, R, X, V, NotStatic

MCResolve(policy, bundle) ==
  CASE policy \in {P, Q, V} -> policy
    [] policy = R -> IF bundle.name = 1 THEN P ELSE Q
    [] policy \in {X, NoPolicy} -> Rejected
    [] OTHER -> <<policy.kind, policy.to>>

MCVerifiable(policy) == policy # V

Kv(key, value) == [key |-> key, value |-> value, metadata |-> FALSE]

Lscc(chaincode, name, vscc, policy) ==
  <<Kv(<<"chaincode", chaincode>>, [name |-> name, vscc |-> vscc, policy |-> policy])>>

Declared(collections) == [i \in DOMAIN collections |->
  [static |-> collections[i] # NotStatic, name |-> [name |-> "c"], policy |-> collections[i]]]

Lifecycle(chaincode, sequence, plugin, policy, collections) ==
  <<Kv(<<"metadata", chaincode>>, "ChaincodeDefinition"),
    Kv(<<"Sequence", chaincode>>, sequence),
    Kv(<<"ValidationInfo", chaincode>>, [plugin |-> plugin, policy |-> policy]),
    Kv(<<"Collections", chaincode>>, Declared(collections))>>

Of(lifecycle, lscc) == [lifecycle |-> lifecycle, lscc |-> lscc]

(* What a channel may say of one chaincode.                                *)
Committed(c, policy, collections) == Of(Lifecycle(c, 1, "vscc", policy, collections), <<>>)

Chosen(c) ==
  {Committed(c, P, <<>>),
   Committed(c, R, <<NoPolicy>>),
   Committed(c, Q, <<P>>),
   Of(<<>>, Lscc(c, c, "vscc", P) \o <<Kv(<<"collection", c>>, Declared(<<Q>>))>>),
   Of(Lifecycle(c, 2, "vscc", Q, <<NoPolicy>>), Lscc(c, c, "vscc", P))}

Odd(c) ==
  {Of(<<>>, <<>>),
   Of(<<>>, Lscc(c, "b", "vscc", P)),
   Of(<<>>, Lscc(c, c, "vscc", NoPolicy)),
   Of(<<>>, <<Kv(<<"chaincode", c>>, Malformed)>>),
   Of(<<Kv(<<"metadata", c>>, "Other")>>, Lscc(c, c, "vscc", P)),
   Of(<<Kv(<<"metadata", c>>, Malformed)>>, <<>>),
   Of(Lifecycle(c, 0, "vscc", P, <<>>), <<>>),
   Of(Lifecycle(c, 1, "custom", P, <<>>), <<>>),
   Committed(c, X, <<>>),
   Committed(c, V, <<>>),
   Committed(c, P, <<Q, NoPolicy>>),
   Committed(c, P, <<NotStatic>>)}

Hash(chaincode, collection) ==
  [namespace |-> chaincode, collection |-> collection,
   records |-> <<Kv(<<"k", chaincode>>, "h")>>]

HashLists(c) ==
  {<<>>, <<Hash(c, [name |-> "c"])>>, <<Hash(c, [org |-> "M"])>>,
   <<Hash(c, [name |-> "c"]), Hash(c, [org |-> "M"])>>, <<Hash(c, [name |-> "unknown"])>>}

(* The snapshot of a channel, of the definitions and hashes of chaincodes. *)
Ns(name, records) == [name |-> name, records |-> records]

SnapshotOf(chaincodes, hashes) ==
  [public |-> <<Ns("_lifecycle", FlattenSeq([i \in DOMAIN chaincodes |-> chaincodes[i].lifecycle])),
                Ns("a", <<Kv(<<"metadata", "a">>, Malformed)>>),
                Ns("b", <<Kv(<<"k", "b">>, "v")>>),
                Ns("lscc", FlattenSeq([i \in DOMAIN chaincodes |-> chaincodes[i].lscc]))>>,
   hashes |-> hashes]

BundleOf(name, orgs, endorsement) ==
  [name |-> name, valid |-> TRUE, version |-> 1, application |-> TRUE,
   orgs |-> orgs, endorsement |-> endorsement]

OneOwner(name) == BundleOf(name, ("org" :> "M") @@ ("other" :> "N"), {"org"})

Map(channel, namespace, target, hashTarget) ==
  [channel |-> channel, namespace |-> namespace, target |-> target, hashTarget |-> hashTarget]

Run(mappings, snapshots, bundles) ==
  [mappings |-> mappings, snapshots |-> snapshots, bundles |-> bundles, version |-> 1, accepted |-> TRUE]

(* Both chaincodes in one channel: in one namespace, or in two of which    *)
(* the hashes of one share the other.                                      *)
OneChannel ==
  {Run(mappings, 1 :> SnapshotOf(<<a, b>>, h), 1 :> OneOwner(1)) :
     a \in Chosen("a"), b \in Chosen("b"), h \in HashLists("a"),
     mappings \in {{Map(1, "a", 10, NoHashNamespace), Map(1, "b", 10, NoHashNamespace)},
                   {Map(1, "a", 10, 11), Map(1, "b", 11, NoHashNamespace)}}}

(* One chaincode of each of two channels, sharing a namespace for public   *)
(* state, for hashes or for both.                                          *)
TwoChannels ==
  {Run({Map(1, "a", 10, 11), Map(2, "a", t, 11)},
       1 :> SnapshotOf(<<a>>, h) @@ 2 :> SnapshotOf(<<b>>, h), 1 :> OneOwner(1) @@ 2 :> OneOwner(2)) :
     a \in Chosen("a"), b \in Chosen("a"), h \in HashLists("a"), t \in {10, 12}}

(* Definitions that are missing, malformed or unsupported.                 *)
Unsupported ==
  {Run({Map(1, "a", 10, hashTarget)}, 1 :> SnapshotOf(<<a>>, h), 1 :> bundle) :
     a \in Odd("a"), h \in HashLists("a"), hashTarget \in {NoHashNamespace, 11},
     bundle \in {OneOwner(1), BundleOf(1, "org" :> "M", {}), BundleOf(1, "org" :> "N", {}),
                 [BundleOf(1, <<>>, {}) EXCEPT !.application = FALSE]}}

(* A target configuration that is not accepted or is a downgrade, and a    *)
(* second channel whose configuration is not valid.                        *)
Refused ==
  LET one == CHOOSE r \in OneChannel : TRUE
      two == CHOOSE r \in TwoChannels : TRUE
  IN {[one EXCEPT !.accepted = FALSE], [one EXCEPT !.version = 0], [two EXCEPT !.bundles[2].valid = FALSE]}

(* Two organizations of a channel with one MSP: their policies are either  *)
(* those of the channel, which may differ, or made from the MSP.           *)
Twins(endorsement) ==
  {Run({Map(1, "a", 10, 11)}, 1 :> SnapshotOf(<<a>>, <<Hash("a", [org |-> "M"])>>),
       1 :> BundleOf(1, ("org" :> "M") @@ ("twin" :> "M"), endorsement)) : a \in Chosen("a")}

TwinOwners == Twins({"org", "twin"})

MCInputs == OneChannel \union TwoChannels \union Unsupported \union Refused \union Twins({})

(* A changed file may hold another definition of the same chaincode.       *)
MCForgeries(record) ==
  IF record.namespace \in {"_lifecycle", "lscc"}
  THEN {Malformed}
       \union (IF record.key[1] = "ValidationInfo" THEN {[plugin |-> "vscc", policy |-> Q]} ELSE {})
       \union (IF record.key[1] = "chaincode" THEN {[name |-> record.key[2], vscc |-> "vscc", policy |-> Q]} ELSE {})
  ELSE {}
=============================================================================
