--------------------------- MODULE MigrationPlan ---------------------------
(***************************************************************************)
(* What an import will do, as a function of its agreed inputs              *)
(* (internal/migrate/inputs.go and the `walk` closure of import.go): which *)
(* mapping files are accepted, how many records each target namespace is   *)
(* to receive, and the order in which the records are streamed.            *)
(*                                                                         *)
(* Channels and target namespaces are numbers: < on them stands for the    *)
(* byte order by which sort.Strings orders names.                          *)
(*                                                                         *)
(* A mapping is a record                                                   *)
(*   [channel, namespace, target, hashTarget].                             *)
(* A snapshot (what an opened SnapshotStream yields) is a record           *)
(*   [public |-> sequence of [name, records],                              *)
(*    hashes |-> sequence of [namespace, collection, records]]             *)
(* whose records are sequences of [key, value, metadata]; a hash namespace *)
(* is the pair SplitHashNamespace makes of "namespace$$hcollection".       *)
(***************************************************************************)
EXTENDS Naturals, Sequences, SequencesExt, FiniteSetsExt

CONSTANTS
  NoHashNamespace,    \* target_hash_namespace left out of a mapping
  SystemSources,      \* source namespaces that hold no application state
  ReservedTargets,    \* target namespaces of the committer itself
  Rejected            \* the error return of the functions below

IsSequence(s) == s \in Seq(ToSet(s))

(***************************************************************************)
(* Mapping.hashTarget and mappingFor.                                      *)
(***************************************************************************)
HashTarget(m) == IF m.hashTarget # NoHashNamespace THEN m.hashTarget ELSE m.target

Selected(mappings, channel, namespace) ==
  \E m \in mappings : m.channel = channel /\ m.namespace = namespace

(* As MappingFor, with the channel forgotten in the comparison.            *)
MappingForAnyChannel(mappings, channel, namespace) ==
  CHOOSE m \in mappings : m.namespace = namespace

MappingFor(mappings, channel, namespace) ==
  CHOOSE m \in mappings : m.channel = channel /\ m.namespace = namespace

(***************************************************************************)
(* readMappings.  An accepted file maps every source at most once, so the  *)
(* sorted slice the function returns is determined by the set of mappings. *)
(***************************************************************************)
(* As InvalidMapping, with the hash target unchecked.                      *)
InvalidPublicMapping(m) == m.namespace \in SystemSources \/ m.target \in ReservedTargets

InvalidMapping(m) ==
  \/ m.namespace \in SystemSources
  \/ m.target \in ReservedTargets
  \/ m.hashTarget # NoHashNamespace /\ m.hashTarget \in ReservedTargets

SourceMappedTwice(file) ==
  \E i, j \in DOMAIN file :
    /\ i < j
    /\ file[i].channel = file[j].channel
    /\ file[i].namespace = file[j].namespace

ReadMappings(file) ==
  IF \/ file = <<>>
     \/ SourceMappedTwice(file)
     \/ \E i \in DOMAIN file : InvalidMapping(file[i])
  THEN Rejected
  ELSE ToSet(file)

(***************************************************************************)
(* mappingCounts: the records every target namespace must end up with, or  *)
(* Rejected.  A mapping's public target always has an entry, its hash      *)
(* target only when the snapshot has hashes of the source namespace.       *)
(***************************************************************************)
PublicOf(m, snapshots) == {ns \in ToSet(snapshots[m.channel].public) : ns.name = m.namespace}

HashesOf(m, snapshots) == {ns \in ToSet(snapshots[m.channel].hashes) : ns.namespace = m.namespace}

RecordsIn(namespaces) == SumFunction([ns \in namespaces |-> Len(ns.records)])

(* As CountFor, with hashes counted for the public target.                 *)
CountForPublicTarget(target, mappings, snapshots) ==
  SumFunction([m \in mappings |->
    IF m.target = target
    THEN RecordsIn(PublicOf(m, snapshots)) + RecordsIn(HashesOf(m, snapshots)) ELSE 0])

CountFor(target, mappings, snapshots) ==
  SumFunction([m \in mappings |->
    (IF m.target = target THEN RecordsIn(PublicOf(m, snapshots)) ELSE 0)
    + (IF HashTarget(m) = target THEN RecordsIn(HashesOf(m, snapshots)) ELSE 0)])

CountedTargets(mappings, snapshots) ==
  {m.target : m \in mappings}
  \union {HashTarget(m) : m \in {n \in mappings : HashesOf(n, snapshots) # {}}}

MappingCounts(mappings, snapshots) ==
  IF \E m \in mappings :
       \/ m.channel \notin DOMAIN snapshots
       \/ PublicOf(m, snapshots) \union HashesOf(m, snapshots) = {}
  THEN Rejected
  ELSE [t \in CountedTargets(mappings, snapshots) |-> CountFor(t, mappings, snapshots)]

(***************************************************************************)
(* The walk closure of Import: for every channel in sorted order the       *)
(* selected public records, then the selected hash records.  The stream is *)
(* a sequence of items, one per record yielded and one for the end of each *)
(* walkRecords call, where the reader compares the digest of the bytes it  *)
(* has read.                                                               *)
(***************************************************************************)
SortedKeys(S) ==
  CHOOSE s \in [1..Cardinality(S) -> S] : \A i, j \in 1..Cardinality(S) : i < j => s[i] < s[j]

RecordItem(channel, target, record) ==
  [kind |-> "record", file |-> channel, target |-> target, key |-> record.key, value |-> record.value]

EndItem(channel) == [kind |-> "end", file |-> channel]

Yields(channel, target, records) ==
  [i \in DOMAIN records |-> RecordItem(channel, target, records[i])]

WalkPublicRecords(mappings, channel, snapshot) ==
  FlattenSeq([i \in DOMAIN snapshot.public |->
    LET ns == snapshot.public[i]
    IN IF Selected(mappings, channel, ns.name)
       THEN Yields(channel, MappingFor(mappings, channel, ns.name).target, ns.records)
       ELSE <<>>])

WalkPrivateHashRecords(mappings, channel, snapshot) ==
  FlattenSeq([i \in DOMAIN snapshot.hashes |->
    LET ns == snapshot.hashes[i]
    IN IF Selected(mappings, channel, ns.namespace)
       THEN Yields(channel, HashTarget(MappingFor(mappings, channel, ns.namespace)), ns.records)
       ELSE <<>>])

Walk(mappings, snapshots) ==
  LET channels == SortedKeys(DOMAIN snapshots)
  IN FlattenSeq([i \in DOMAIN channels |->
       LET c == channels[i]
       IN WalkPublicRecords(mappings, c, snapshots[c]) \o <<EndItem(c)>>
          \o WalkPrivateHashRecords(mappings, c, snapshots[c]) \o <<EndItem(c)>>])

(***************************************************************************)
(* The walk fails on key-level metadata of a selected record, which cannot *)
(* be preserved; Import finds that out in the walk before the transaction. *)
(***************************************************************************)
HasMetadata(namespaces) ==
  \E ns \in namespaces : \E i \in DOMAIN ns.records : ns.records[i].metadata

UnsupportedMetadata(mappings, snapshots) ==
  \E m \in mappings : HasMetadata(PublicOf(m, snapshots) \union HashesOf(m, snapshots))

(***************************************************************************)
(* The part of Import's preflight that depends on mappings and snapshots   *)
(* only: Rejected, or what is counted and what is streamed.                *)
(***************************************************************************)
Preflight(file, snapshots) ==
  LET mappings == ReadMappings(file)
  IN IF \/ mappings = Rejected
        \/ MappingCounts(mappings, snapshots) = Rejected
        \/ UnsupportedMetadata(mappings, snapshots)
     THEN Rejected
     ELSE [counts |-> MappingCounts(mappings, snapshots), stream |-> Walk(mappings, snapshots)]
=============================================================================
