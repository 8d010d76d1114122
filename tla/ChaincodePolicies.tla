------------------------- MODULE ChaincodePolicies -------------------------
(***************************************************************************)
(* preparePolicies and readChaincodePolicies                               *)
(* (internal/migrate/config.go:389-584): the endorsement policy of every   *)
(* target namespace, from the chaincode definitions in the snapshots.      *)
(*                                                                         *)
(* The public records of a channel are walked once; the fields of the      *)
(* mapped chaincodes are kept and used when the digest of the bytes that   *)
(* were read is the agreed one.  The definitions are then taken in the     *)
(* order of a Go map, that is in any order.                                *)
(*                                                                         *)
(* A snapshot is one of MigrationPlan.  Keys of "_lifecycle" and "lscc"    *)
(* are pairs <<field, chaincode>>, their values what decoding the bytes    *)
(* gives, or Malformed.  A bundle is the configuration of a source         *)
(* channel: whether it is valid, its MSP version, whether it has an        *)
(* application group, the MSP ID of each organization and the              *)
(* organizations with an Endorsement policy of their own.                  *)
(***************************************************************************)
EXTENDS MigrationPlan

CONSTANTS
  Inputs,                 \* [mappings, snapshots, bundles, version, accepted]
  Malformed,              \* bytes that do not decode
  NoPolicy,               \* an endorsement policy left out
  Forgeries(_),           \* what a record may hold once the file is changed
  Resolve(_, _),          \* resolvePolicy(policy, bundle), or Rejected
  Verifiable(_)           \* CreateNamespaceVerifier accepts the encoded policy

VARIABLES
  input,
  pc,           \* "begin", "channel", "walk", "definitions", "hashes", "done", "failed"
  left,         \* the channels the loop has not been through
  read,         \* records of the channel the walk has yielded
  changed,      \* one of them was not the agreed one
  fields,       \* as in readChaincodePolicies: <<namespace, key>> -> value
  definitions,  \* what is left to add of the result of readChaincodePolicies
  current,      \* [namespace, definition] whose policies are added
  hashAt,       \* hash namespaces of the channel the inner loop has passed
  result,       \* target namespace -> encoded policy
  earlier       \* the results of earlier runs on the same inputs

vars == <<input, pc, left, read, changed, fields, definitions, current, hashAt, result, earlier>>

walkVars == <<read, changed, fields>>

Put(f, key, value) == [x \in DOMAIN f \union {key} |-> IF x = key THEN value ELSE f[x]]

(* sortedKeys: the least of the channels that are left.                    *)
Channel == CHOOSE c \in left : \A d \in left : c <= d
Snapshot == input.snapshots[Channel]
Bundle == input.bundles[Channel]

Init ==
  /\ input \in Inputs
  /\ pc = "begin"
  /\ left = DOMAIN input.snapshots
  /\ read = 0
  /\ changed = FALSE
  /\ fields = <<>>
  /\ definitions = <<>>
  /\ current = <<>>
  /\ hashAt = 0
  /\ result = <<>>
  /\ earlier = {}

Fail ==
  /\ pc' = "failed"
  /\ UNCHANGED <<input, left, walkVars, definitions, current, hashAt, result, earlier>>

(***************************************************************************)
(* reuseMSPs (Membership), target.encode, ValidateConfigTx and             *)
(* target.bundle accept the target configuration or they do not.           *)
(***************************************************************************)
Begin ==
  /\ pc = "begin"
  /\ \/ /\ ~input.accepted
        /\ Fail
     \/ /\ input.accepted
        /\ pc' = "channel"
        /\ UNCHANGED <<input, left, walkVars, definitions, current, hashAt, result, earlier>>

(***************************************************************************)
(* The loop over the channels: the bundle of the source channel, which     *)
(* there may be none of, and the capability check, or the end.             *)
(***************************************************************************)
NextChannel ==
  /\ pc = "channel"
  /\ left # {}
  /\ \/ /\ ~Bundle.valid \/ input.version < Bundle.version
        /\ Fail
     \/ /\ Bundle.valid /\ input.version >= Bundle.version
        /\ pc' = "walk"
        /\ read' = 0
        /\ changed' = FALSE
        /\ fields' = <<>>
        /\ UNCHANGED <<input, left, definitions, current, hashAt, result, earlier>>

Finish ==
  /\ pc = "channel"
  /\ left = {}
  /\ pc' = "done"
  /\ UNCHANGED <<input, left, walkVars, definitions, current, hashAt, result, earlier>>
-----------------------------------------------------------------------------
(***************************************************************************)
(* The walk of readChaincodePolicies.                                      *)
(***************************************************************************)
PublicRecords(snapshot) ==
  FlattenSeq([i \in DOMAIN snapshot.public |->
    [j \in DOMAIN snapshot.public[i].records |->
      [namespace |-> snapshot.public[i].name, key |-> snapshot.public[i].records[j].key,
       value |-> snapshot.public[i].records[j].value]]])

(***************************************************************************)
(* The snapshots of an import have been opened, and its mappings accepted  *)
(* and counted: each source is mapped once, from a snapshot there is       *)
(* (MigrationPlan), and no two records of a namespace have the same key    *)
(* (SnapshotStream).                                                       *)
(***************************************************************************)
KeysDiffer(records) ==
  \A i, j \in DOMAIN records :
    records[i].namespace = records[j].namespace /\ records[i].key = records[j].key => i = j

ASSUME InputsAssumption ==
  \A x \in Inputs :
    /\ DOMAIN x.snapshots \subseteq Nat
    /\ x.version \in Nat
    /\ \A c \in DOMAIN x.snapshots :
         /\ x.bundles[c].version \in Nat
         /\ IsSequence(x.snapshots[c].hashes)
         /\ IsSequence(x.snapshots[c].public)
         /\ \A i \in DOMAIN x.snapshots[c].public : IsSequence(x.snapshots[c].public[i].records)
         /\ KeysDiffer(PublicRecords(x.snapshots[c]))
    /\ \A m \in x.mappings : m.channel \in DOMAIN x.snapshots
    /\ \A m, n \in x.mappings : m.channel = n.channel /\ m.namespace = n.namespace => m = n

Mapped(mappings, channel) == {m.namespace : m \in {n \in mappings : n.channel = channel}}

FieldKeys(namespaces) ==
  {"lscc"} \X ({"chaincode", "collection"} \X namespaces)
  \union {"_lifecycle"} \X ({"metadata", "Sequence", "ValidationInfo", "Collections"} \X namespaces)

Wanted(record, mappings, channel) ==
  <<record.namespace, record.key>> \in FieldKeys(Mapped(mappings, channel))

Keep(record) ==
  fields' = IF Wanted(record, input.mappings, Channel)
            THEN Put(fields, <<record.namespace, record.key>>, record.value) ELSE fields

Deliver ==
  LET record == PublicRecords(Snapshot)[read + 1]
  IN /\ pc = "walk"
     /\ read < Len(PublicRecords(Snapshot))
     /\ read' = read + 1
     /\ \/ /\ Keep(record)
           /\ UNCHANGED changed
        \/ \E value \in Forgeries(record) \ {record.value} :
             /\ ~changed                      \* bound: one changed record in a walk
             /\ Keep([record EXCEPT !.value = value])
             /\ changed' = TRUE
     /\ UNCHANGED <<input, pc, left, definitions, current, hashAt, result, earlier>>
-----------------------------------------------------------------------------
(***************************************************************************)
(* The definition of one chaincode, from the fields that were kept.  A     *)
(* field that is missing decodes to an empty message.                      *)
(***************************************************************************)
Field(f, namespace, key, empty) ==
  IF <<namespace, key>> \in DOMAIN f THEN f[<<namespace, key>>] ELSE empty

LegacyDefinition(f, chaincode) ==
  LET legacy == f[<<"lscc", <<"chaincode", chaincode>>>>]
      collections == Field(f, "lscc", <<"collection", chaincode>>, <<>>)
  IN IF \/ legacy = Malformed
        \/ legacy.name # chaincode
        \/ legacy.vscc # "vscc"
        \/ legacy.policy = NoPolicy
        \/ collections = Malformed
     THEN Rejected
     ELSE [application |-> legacy.policy, collections |-> collections]

LifecycleDefinition(f, chaincode) ==
  LET metadata == Field(f, "_lifecycle", <<"metadata", chaincode>>, "")
      sequence == Field(f, "_lifecycle", <<"Sequence", chaincode>>, 0)
      validation == Field(f, "_lifecycle", <<"ValidationInfo", chaincode>>, [plugin |-> "", policy |-> NoPolicy])
      collections == Field(f, "_lifecycle", <<"Collections", chaincode>>, <<>>)
  IN IF \/ metadata # "ChaincodeDefinition"
        \/ sequence = Malformed \/ sequence <= 0
        \/ validation = Malformed \/ validation.plugin # "vscc" \/ validation.policy = Malformed
        \/ collections = Malformed
     THEN Rejected
     ELSE [application |-> validation.policy, collections |-> collections]

(* As DefinitionOf, with the record of "lscc" preferred.                   *)
DefinitionOfLegacyFirst(f, chaincode) ==
  IF <<"lscc", <<"chaincode", chaincode>>>> \in DOMAIN f
  THEN LegacyDefinition(f, chaincode)
  ELSE LifecycleDefinition(f, chaincode)

DefinitionOf(f, chaincode) ==
  IF /\ Field(f, "_lifecycle", <<"metadata", chaincode>>, "") = ""
     /\ <<"lscc", <<"chaincode", chaincode>>>> \in DOMAIN f
  THEN LegacyDefinition(f, chaincode)
  ELSE LifecycleDefinition(f, chaincode)

(* As WalkEnds, with the digest unchecked.                                 *)
WalkEndsUnchecked ==
  LET namespaces == Mapped(input.mappings, Channel)
  IN /\ pc = "walk"
     /\ read = Len(PublicRecords(Snapshot))
     /\ IF \E n \in namespaces : DefinitionOf(fields, n) = Rejected
        THEN Fail
        ELSE /\ pc' = "definitions"
             /\ definitions' = [n \in namespaces |-> DefinitionOf(fields, n)]
             /\ UNCHANGED <<input, left, walkVars, current, hashAt, result, earlier>>

WalkEnds ==
  LET namespaces == Mapped(input.mappings, Channel)
  IN /\ pc = "walk"
     /\ read = Len(PublicRecords(Snapshot))
     /\ IF changed \/ \E n \in namespaces : DefinitionOf(fields, n) = Rejected
        THEN Fail
        ELSE /\ pc' = "definitions"
             /\ definitions' = [n \in namespaces |-> DefinitionOf(fields, n)]
             /\ UNCHANGED <<input, left, walkVars, current, hashAt, result, earlier>>
-----------------------------------------------------------------------------
(***************************************************************************)
(* The closure `add`.  Accepts is its check, Add its effect.               *)
(***************************************************************************)
(* As Acceptable, with another policy of the namespace replaced.           *)
AcceptableReplacing(target, policy) == policy # Rejected /\ Verifiable(policy)

(* As Acceptable, with a namespace that has its policy refused.            *)
AcceptableOnce(target, policy) ==
  /\ policy # Rejected
  /\ target \notin DOMAIN result
  /\ Verifiable(policy)

Acceptable(target, policy) ==
  /\ policy # Rejected
  /\ target \in DOMAIN result => result[target] = policy
  /\ Verifiable(policy)

(* The public policy of one of the definitions that are left.              *)
AddPublic(namespace) ==
  LET policy == Resolve(definitions[namespace].application, Bundle)
      target == MappingFor(input.mappings, Channel, namespace).target
  IN /\ pc = "definitions"
     /\ namespace \in DOMAIN definitions
     /\ \/ /\ ~Acceptable(target, policy)
           /\ Fail
        \/ /\ Acceptable(target, policy)
           /\ result' = Put(result, target, policy)
           /\ current' = [namespace |-> namespace, definition |-> definitions[namespace]]
           /\ definitions' = [n \in DOMAIN definitions \ {namespace} |-> definitions[n]]
           /\ hashAt' = 0
           /\ pc' = "hashes"
           /\ UNCHANGED <<input, left, walkVars, earlier>>

ChannelAdded ==
  /\ pc = "definitions"
  /\ DOMAIN definitions = {}
  /\ pc' = "channel"
  /\ left' = left \ {Channel}
  /\ UNCHANGED <<input, walkVars, definitions, current, hashAt, result, earlier>>
-----------------------------------------------------------------------------
(***************************************************************************)
(* The policies a collection's hashes may get: none if it is unknown, more *)
(* than one if several organizations of the channel have the MSP ID an     *)
(* implicit collection names.  A collection is [org] if it is implicit.    *)
(***************************************************************************)
Implicit(collection) == "org" \in DOMAIN collection

StaticPolicies(definition, collection) ==
  LET own == SelectSeq(definition.collections, LAMBDA c : c.name = collection)
      stated == SelectSeq(own, LAMBDA c : c.policy # NoPolicy)
  IN IF own = <<>> THEN {}
     ELSE IF stated = <<>> THEN {definition.application}
     ELSE {Last(stated).policy}

OwnerPolicy(org, bundle) ==
  IF org \in bundle.endorsement
  THEN [kind |-> "reference", to |-> org]
  ELSE [kind |-> "members", to |-> bundle.orgs[org]]

OwnerPolicies(msp, bundle) == {OwnerPolicy(o, bundle) : o \in {x \in DOMAIN bundle.orgs : bundle.orgs[x] = msp}}

EffectivePolicies(definition, collection, bundle) ==
  IF \E i \in DOMAIN definition.collections : ~definition.collections[i].static THEN {}
  ELSE IF Implicit(collection) /\ bundle.application /\ OwnerPolicies(collection.org, bundle) # {}
  THEN OwnerPolicies(collection.org, bundle)
  ELSE IF Implicit(collection) /\ ~bundle.application THEN {}
  ELSE StaticPolicies(definition, collection)

HashesLeft == hashAt < Len(Snapshot.hashes)

(* As HashPolicy, with the hashes under the public target.                 *)
HashPolicyToPublic ==
  LET hashes == Snapshot.hashes[hashAt + 1]
      target == MappingFor(input.mappings, Channel, current.namespace).target
      effective == EffectivePolicies(current.definition, hashes.collection, Bundle)
  IN /\ pc = "hashes"
     /\ HashesLeft
     /\ hashes.namespace = current.namespace
     /\ \/ /\ effective = {}
           /\ Fail
        \/ \E policy \in effective :
             LET encoded == Resolve(policy, Bundle)
             IN \/ /\ ~Acceptable(target, encoded)
                   /\ Fail
                \/ /\ Acceptable(target, encoded)
                   /\ result' = Put(result, target, encoded)
                   /\ hashAt' = hashAt + 1
                   /\ UNCHANGED <<input, pc, left, walkVars, definitions, current, earlier>>

HashPolicy ==
  LET hashes == Snapshot.hashes[hashAt + 1]
      target == HashTarget(MappingFor(input.mappings, Channel, current.namespace))
      effective == EffectivePolicies(current.definition, hashes.collection, Bundle)
  IN /\ pc = "hashes"
     /\ HashesLeft
     /\ hashes.namespace = current.namespace
     /\ \/ /\ effective = {}
           /\ Fail
        \/ \E policy \in effective :
             LET encoded == Resolve(policy, Bundle)
             IN \/ /\ ~Acceptable(target, encoded)
                   /\ Fail
                \/ /\ Acceptable(target, encoded)
                   /\ result' = Put(result, target, encoded)
                   /\ hashAt' = hashAt + 1
                   /\ UNCHANGED <<input, pc, left, walkVars, definitions, current, earlier>>

OtherHashes ==
  /\ pc = "hashes"
  /\ HashesLeft
  /\ Snapshot.hashes[hashAt + 1].namespace # current.namespace
  /\ hashAt' = hashAt + 1
  /\ UNCHANGED <<input, pc, left, walkVars, definitions, current, result, earlier>>

HashesAdded ==
  /\ pc = "hashes"
  /\ ~HashesLeft
  /\ pc' = "definitions"
  /\ UNCHANGED <<input, left, walkVars, definitions, current, hashAt, result, earlier>>
-----------------------------------------------------------------------------
(* The same inputs once more, in a map of its own.                         *)
Again ==
  /\ pc = "done"
  /\ earlier = {}
  /\ earlier' = {result}
  /\ pc' = "begin"
  /\ left' = DOMAIN input.snapshots
  /\ result' = <<>>
  /\ UNCHANGED <<input, walkVars, definitions, current, hashAt>>

Next ==
  \/ Begin \/ NextChannel \/ Finish \/ Deliver \/ WalkEnds
  \/ \E namespace \in DOMAIN definitions : AddPublic(namespace)
  \/ ChannelAdded \/ HashPolicy \/ OtherHashes \/ HashesAdded \/ Again

Spec == Init /\ [][Next]_vars
-----------------------------------------------------------------------------
(***************************************************************************)
(* What the agreed snapshots say, for the properties.                      *)
(***************************************************************************)
AgreedFields(channel) ==
  LET records == {r \in ToSet(PublicRecords(input.snapshots[channel])) : Wanted(r, input.mappings, channel)}
  IN [k \in {<<r.namespace, r.key>> : r \in records} |->
        (CHOOSE r \in records : <<r.namespace, r.key>> = k).value]

AgreedDefinition(m) == DefinitionOf(AgreedFields(m.channel), m.namespace)

DefinitionsCommitted == \A m \in input.mappings : AgreedDefinition(m) # Rejected

HashPolicies(m, hashes) ==
  EffectivePolicies(AgreedDefinition(m), hashes.collection, input.bundles[m.channel])

(* The policies the target namespaces are to have, as <<target, policy>>.  *)
Contributions ==
  {<<m.target, Resolve(AgreedDefinition(m).application, input.bundles[m.channel])>> : m \in input.mappings}
  \union
  UNION {UNION {{<<HashTarget(m), Resolve(p, input.bundles[m.channel])>> : p \in HashPolicies(m, hashes)}
                : hashes \in HashesOf(m, input.snapshots)} : m \in input.mappings}

Consistent ==
  /\ input.accepted
  /\ \A c \in DOMAIN input.snapshots : input.bundles[c].valid /\ input.bundles[c].version <= input.version
  /\ DefinitionsCommitted
  /\ \A m \in input.mappings : \A hashes \in HashesOf(m, input.snapshots) : HashPolicies(m, hashes) # {}
  /\ \A x \in Contributions : x[2] # Rejected /\ Verifiable(x[2])
  /\ \A x, y \in Contributions : x[1] = y[1] => x = y

(***************************************************************************)
(* The policy of a target namespace is the policy of every chaincode and   *)
(* of every collection whose state it receives, whatever the order in      *)
(* which they were met (config.go:504-508).                                *)
(***************************************************************************)
PoliciesAgreed == pc = "done" => {<<t, result[t]>> : t \in DOMAIN result} = Contributions

(***************************************************************************)
(* Inputs are refused only for what they are: a target configuration that  *)
(* is not accepted, an invalid source configuration, a downgrade, a        *)
(* definition that is missing or unsupported, a policy that cannot be      *)
(* resolved or two that disagree; not for an order of the maps.            *)
(***************************************************************************)
RefusalJustified == pc = "failed" /\ ~changed => ~Consistent

(***************************************************************************)
(* A policy is taken from a definition only if every byte of the file that *)
(* was read is the agreed one, also the bytes read after the definition    *)
(* (config.go:396-420; stream.go walkRecords).                             *)
(***************************************************************************)
AgreedDefinitionsOnly ==
  /\ pc = "definitions" =>
       \A n \in DOMAIN definitions : definitions[n] = DefinitionOf(AgreedFields(Channel), n)
  /\ pc = "hashes" => current.definition = DefinitionOf(AgreedFields(Channel), current.namespace)

(***************************************************************************)
(* The record a chaincode has left in lscc from before its lifecycle       *)
(* definition never decides about its state (config.go:431-436).  Metadata *)
(* without a datatype is no definition.                                    *)
(***************************************************************************)
LifecycleSupersedes ==
  pc = "done" =>
    \A m \in input.mappings :
      LET records == ToSet(PublicRecords(input.snapshots[m.channel]))
      IN \A r \in records :
           r.namespace = "_lifecycle" /\ r.key = <<"ValidationInfo", m.namespace>>
             /\ (\E d \in records : d.namespace = "_lifecycle" /\ d.key = <<"metadata", m.namespace>> /\ d.value # "")
             => result[m.target] = Resolve(r.value.policy, input.bundles[m.channel])

(***************************************************************************)
(* A second run on the same inputs gives the policies of the first         *)
(* (config_test.go:58-61).  The runs of several organizations have to:     *)
(* each compares its policies with those the first has stored.             *)
(***************************************************************************)
RepeatedRunsAgree == pc = "done" => earlier \subseteq {result}
=============================================================================
