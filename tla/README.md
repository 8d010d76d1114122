# Verification of fabric-x-migrate

TLA+ specifications of the program in `src/`: a command that imports Fabric
snapshots into the database of a Fabric-X committer. TLC checks them on small
instances, TLAPS proves the theorems listed below for all values of their
constants.

Paths in this file are relative to `src/`; `import.go`, `inputs.go`, `config.go`
are in `internal/migrate`, `stream.go` and `snapshot.go` in
`internal/fabricsnapshot`, `main.go` in `internal/cmd`.

## 1. Inventory

### 1.1 Components

| Component | State | Operations | What makes it correct | Module |
| --- | --- | --- | --- | --- |
| Import orchestration (`import.go`, `Import`) | open transaction, batch, agreed inputs, counts | read and agree on inputs, preflight, revalidate, open the transaction, bind configuration and policies, stream, verify, commit, report | atomic; exactly the agreed records in namespaces that were empty; serialized with other imports; a truthful report | `Import` |
| Mappings and counts (`inputs.go`) | none | `readMappings`, `mappingFor`, `hashTarget`, `mappingCounts` | counts from metadata equal what the walk yields; no system state selected | `MigrationPlan`, `Planning` |
| Record walk (`import.go:120`, `stream.go:191`) | position in a file, running digest | walk public records, walk hash records | yields exactly the mapped records; every record is followed by a digest check | `MigrationPlan`, `SnapshotStream` |
| Snapshot reader (`stream.go`, `snapshot.go`) | digests of all files fixed at opening | `OpenStream`, `readNamespaces`, `walkRecords`, `Revalidate` | a consumer whose walk succeeds has seen the bytes that were agreed on | `SnapshotStream` |
| Binary decoding (`snapshot.go:17`, `stream.go:280`) | offset, counts | varints, sized fields, heights, namespaces, records | total; stays in its data; allocates no more than the data can fill; accepts the encodings of values, as what they encode, and nothing else | `SnapshotFormat`, `SnapshotDecoding` |
| Membership reuse (`config.go:129`) | organizations by MSP ID and by name | `reuseMSPs` | one definition per MSP ID and per name, the target's untouched, whatever the order of maps | `Membership` |
| Policy conversion (`config.go:178-387`) | none | `canonicalPolicy`, `normalizeImplicitMeta`, `independentRules`, `resolvePolicy` | same accepted endorsements; same bytes for every map iteration order | `PolicyConversion` |
| Chaincode definitions and namespace policies (`config.go:389-584`) | collected lifecycle fields, policy per target | `readChaincodePolicies`, `preparePolicies` | one policy per target namespace, conflicts rejected, no definition from unverified bytes | `ChaincodePolicies` |
| Channel configuration codec (`config.go:33-94`) | none | `decodeChannelConfig`, `encode` | exactly one configuration of the right channel; what is written can be read again | `InputSelection` |
| Command line (`main.go`) | parsed paths | `Run`, `channelPaths.Set` | each channel once, each snapshot with its configuration; report after commit only | `InputSelection`, `Import` |
| Several organizations (`README.md:30`) | one database each | the same import, run independently | equal reports mean equal rows | `Organizations` |
| Target database (PostgreSQL, YugabyteDB; external) | tables, `_config`, `_meta`, rows, locks | DDL, insert, `SELECT ... FOR UPDATE`, commit, rollback | assumed, see 3.3 | `Import` |

Not modelled: the integration harness and the services, see section 5.

### 1.2 Interaction

`Run` parses flags, calls `Import` and prints its result. `Import` reads each
input once and keeps its bytes (or, for a snapshot, the digests of its files),
computes counts, policies and the resolved configuration from them, and then goes
through the records twice: once to validate, once, inside the transaction, to
insert. The walk calls back into `Import` for every record, before the digest of
the file the record came from is known. `preparePolicies` goes through the public
records a third time, for chaincode definitions. Runs of the program know nothing
of each other; they meet in the database, on the configuration row of `_config`.
Organizations do not even share a database: what they compare is the reports. The
operator may change input files while a run uses them.

### 1.3 Hard behaviour

- Runs against one database, concurrently or as retries: locks, snapshots and
  serializable commits interact (`import.go:183-215`).
- Bytes are used before they are verified (`stream.go:261`, `stream.go:274`).
- Inputs are revalidated by reading them again, twice (`import.go:157-172,254`).
- Records pass through a buffer that is flushed when it is full, when the target
  changes, and at the end (`import.go:216-242`).
- Databases whose DDL is not transactional (`import.go:177`).
- Failures at any point, a lost answer to COMMIT, a lost report, a crash while
  holding the configuration row.
- Counts and sizes are taken from the files, as unsigned 64-bit numbers that are
  then used as signed ones (`snapshot.go:25,101`, `stream.go:280`).
- Results that must be the same in every organization are computed from Go maps,
  which are visited in random order (`config.go:129-166,353,513-582`).
- Rules are merged, reordered and renumbered, and must still mean the same to an
  evaluation that consumes endorsers in order (`config.go:310-365`).

`PROJECT.json` lists these hazards at their lines, with the properties aimed at
each.

## 2. Modules

| Module | Content |
| --- | --- |
| `MigrationPlan` | `readMappings`, `mappingCounts` and the walk closure, as operators |
| `Planning` | the preflight, for a mapping file and opened snapshots |
| `ImportPlan` | inputs, plans, rows and databases, shared by `Import`, its specification and `Organizations`; the assumptions on constants |
| `AtomicImport` | abstract: an import is one atomic step or none |
| `Import` | the runs, the operator, the database and the faults; properties of imports |
| `ImportInvariant` | the inductive invariant of `Import` |
| `SnapshotStream`, `SnapshotStreamInvariant` | the snapshot reader in a directory that changes: opening, walks, revalidation; its inductive invariant |
| `SnapshotFormat` | what bytes encode: values as chains of consecutive pieces, apart from any decoder |
| `SnapshotDecoding` | the decoders, on arbitrary bytes, with arithmetic of bounded words |
| `Membership` | `reuseMSPs`, organization by organization |
| `PolicyConversion` | the rewriting of policies, as recursive operators |
| `ChaincodePolicies` | `preparePolicies` with the walk of `readChaincodePolicies` |
| `InputSelection` | flags, and the pairing of snapshots, configurations and mapping |
| `Organizations` | several organizations with a database each, comparing reports |
| `MC...` | one per specification: instances, and properties that only instances can state |
| `...Proofs` | proofs, one module for each of `Import`, `SnapshotStream`, `SnapshotDecoding`, `Planning`, `ChaincodePolicies`, `Membership`, `InputSelection`, `Organizations` |

How they compose: `MCImport` and `MCOrganizations` compute their plans with
`MigrationPlan`, from the snapshots and mappings they enumerate;
`ChaincodePolicies` extends `MigrationPlan` and takes `resolvePolicy` as an
operator that depends on policy and source channel only, which is what
`PolicyConversion` is checked for; `Organizations` takes an import as the one step
`AtomicImport` allows, which `Import` is proved to implement; `Import` takes from
`SnapshotStream` what its walks and revalidations promise (2.2), and that takes
from `SnapshotDecoding` that decoding is total and has one result.

Definitions with names such as `EndOfFileUnchecked` or `ConflictsAllowed` next
to a definition of the model are faulty variants of it. They are part of no
specification; each is named in `PROJECT.json` under `mutants` with the property
that fails when it takes the place of the original.

The lines `PROJECT.json` gives for a definition that stands for a kind of place,
such as every error return (`Fail`, `Stop`) or the way from one step to the next
(`Goto`), are those of one such place; a definition that only lists actions has the
line where the function begins.

### 2.1 `Import` and the code

A run `p` is one execution of `Run`. `pc[p]` names the next step:

| `pc` | Action | Code |
| --- | --- | --- |
| `open` | `ReadInput`, once per input | `import.go:55-106` |
| `preflight` | `Preflight` | `import.go:107-156` |
| `recheck` | `RevalidateBefore`, once per input | `import.go:157-172` |
| `connect` | `CheckDatabase` | `import.go:173-182` |
| `begin` | `Begin` | `import.go:183-195` |
| `config` | `EnsureConfig` | `import.go:196-200`, `ensureEntry` |
| `create`, `ensure` | `CreateNamespace`, `EnsureNamespace`, per target | `import.go:201-215` |
| `stream` | `Deliver` per record, `EndOfFile` per file, `WalkFails` | `import.go:216-239`, `stream.go:202-278` |
| `flush` | `FlushLast` | `import.go:240-242` |
| `verify` | `Verify` | `import.go:243-253` |
| `revalidate` | `RevalidateAfter`, once per input | `import.go:254-256` |
| `commit`, `committing` | `SendCommit`, `CommitReturned` | `import.go:257-260` |
| `report` | `WriteReport` | `main.go:47-49` |

Every error return is `Fail(p)`: the run forgets what it had in memory and the
deferred `Rollback` ends the transaction. Each action contains its own error
returns.

The input files are numbered contents ("versions"). `PlanOf(p, held)` is the
plan for the contents a run holds: resolved configuration, sorted targets,
counts, policies and the stream of the walk. In the instances it is computed by
`MigrationPlan!Preflight`; in the proofs it is any function that satisfies
`PlanAssumption` (targets exist, records go to targets, the stream ends with a
digest check) and `CountAssumption` (the counts are those of the stream). TLC
evaluates both assumptions on the plans of the instances, and the theorem
`PlansAreAsAssumed` (4.5) proves of every plan that `Preflight` returns what they
say about counts and stream.

What the walk delivers need not be what the plan says. Once a file has been
changed, its open handle may show any record (`Deliver`), the walk may fail
anywhere (`WalkFails`), and only `EndOfFile` finds out. How many records a
namespace has and where they go cannot change unnoticed, because
`readNamespaces` compares the digest of the metadata before it is used.

A file here is an input as a whole, a snapshot directory included, and its
revalidation is one step (`Compare`). In the code a directory is listed and its
files are hashed one after the other (`stream.go:167-189`); what may happen between
these steps, and what the result means nevertheless, is the subject of
`SnapshotStream` (`NoLastingDifference`).

### 2.2 `SnapshotStream` and the code

One reader performs one operation (`op`) after the other: `open`, then walks and
revalidations in any order. `pc` names the file or the loop it is at:

| `pc` | Actions | Code |
| --- | --- | --- |
| `signable`, `additional` | `ReadSignable`, `ReadAdditional` | `stream.go:38-84` |
| `list`, `digest` | `ListEntries`, `HashFile` | `stream.go:85-110` |
| `namespaces` | `OpenNamespaces`, `WalkNamespaces` | `readNamespaces`, and what follows it |
| `data` | `ReadFormat`, `ReadRecord`, `FinishWalk` | `walkRecords` |
| `ready` | `StartWalk`, `Revalidate` | calls of the import |
| `compare` | `CompareFile` | `stream.go:175-188` |

Every file is read in three steps or more: `Lstat`, `OpenFile` (Open, Stat and the
comparison of `openRegular`), and one or several reads. `ChangeEntry` may come
between any two of them. If it concerns the open file, the bytes read from then
on are arbitrary (`Bytes`, `NextAtoms`), which covers mixtures of old and new
content; a file that is replaced and therefore keeps its old content behind the
open handle is covered, too.

Contents are sequences of atoms (format byte, records, documents). Decoding and
hashing are constants; the hash is assumed to have no collisions. File names in the
metadata that are no names of directory entries are not considered, nor are
inodes that are used again between `Lstat` and `Stat`; a directory listing is
one step. The identity of files that `os.SameFile` compares is not kept: an entry
that was not replaced since `Lstat` is the same file, and one that was replaced may
be (the file has been moved away and back, or a link leads to where it is now), so
that `OpenFile` refuses it or opens it. Its bytes are arbitrary then, as are those
of any other file that changes while it is open.

`Import` relies on this reader where it lets a walk deliver any record in the place
of an agreed one, in the agreed namespace (`DeliversAsCounted`), and nothing but
the agreed records if the walk succeeds (`WalkAgreed`).

### 2.3 The database

`tables`, `config`, `meta`, `rows` are the committed state; `snap`, `own` and
`created` are what one transaction sees and has written; `lock` is the lock on
the configuration row. The rows of `_meta` need no lock of their own: they are
only touched by a transaction that holds the configuration row.

A transaction is `none`, `active`, `deciding` (COMMIT has been sent),
`committed` or `aborted`. A run can lose its transaction (`LoseConnection`,
`Crash`); it then goes on as the server decides (`ServerCommits`,
`ServerRejects`, `ServerAborts`).

### 2.4 `SnapshotDecoding`

A behaviour decodes one byte string: a metadata file of namespaces, a data file
of records, one record or one height.

| Action or operator | Code |
| --- | --- |
| `CountNamespaces`, `DecodeNamespace` | `decodeNamespaces`, `snapshot.go:17-45` |
| `OpenRecords`, `ReadRecord`, `ReadSized` | the loop of `walkRecords`, `stream.go:214-228`, and `readSized` |
| `CountedLoopEnds` | trailing bytes, in both |
| `DecodeField`, `FieldsEnd`, `Unsupported` | `protobufBytes`, `snapshot.go:51-69` |
| `DecodeHeight`, `OrderPreservingUint` | `snapshot.go:72-99` |
| `Sized`, `ConsumeUvarint` | `snapshot.go:101-122` |

A `uint64` is a word of `0..2*HalfWord-1`, an `int` one of the signed range;
`ToWord` and `ToInt` are the conversions the code writes as `uint64(x)` and
`int(x)`. The width is a constant: the instance scales it down so that every
overflow occurs on strings of a few bytes. `binary.Uvarint` and
`binary.BigEndian` are constants. The first has the contract Go's documentation
gives it (`UvarintAssumption`): it finds the varint at an offset if there is one.

`SnapshotFormat` says what a byte string encodes without saying how it is read. A
value is encoded by pieces (a varint, a byte string after its length, a namespace, a
field, a number with its digits) of which each begins where the one before it ends
(`Chains`), the first with the first byte and the last with the last. `Encodes`
holds of bytes and a value, whatever the order of the fields, and however many bytes
the varints take. Both directions of decoding are stated by it: `NothingIgnored` and
`WrittenIsRead`. The field `of` of an input holds a value that has been encoded as
the input; the instance writes its inputs with a writer of its own
(`MCSnapshotDecoding!Encoded`), and TLC finds what it writes to be encodings when it
evaluates `DecodingAssumption`.

### 2.5 `Membership`

`ReadTarget` is one iteration of the loop over the target's organizations, a Go
map, so any organization that is left may be next; `Offer` is one iteration of
the loop over the sources' organizations, which is sorted. `Again` takes the
result for the target of the same import: a repeated run, or a run with the
resolved configuration of the report. Where the code returns an error the module
stops in `failed`; the target group is changed in place by the code and not used
after an error.

### 2.6 `PolicyConversion`

Operators with the names of the functions: `CanonicalPolicy`
(`config.go:180-230`), `IndependentRules` (`232-261`), `ResolvePolicy`
(`263-308`), `NormalizeImplicitMeta` and `NormalizeBranches` (`310-365`),
`PeerImpliesMember` and `SinglePolicyRole` (`367-387`). External: `Convert`, the
upstream conversion of implicit-meta policies, which follows the order in which the
policy manager has collected subpolicies, and the evaluations `Accepts` and
`SourceAccepts`, against which the rewriting is checked. Encodings are abstracted to
a number per principal and to sequences of numbers per rule, both injective.

### 2.7 `ChaincodePolicies`

| `pc` | Actions | Code |
| --- | --- | --- |
| `begin` | `Begin` | `config.go:484-498` |
| `channel` | `NextChannel`, `Finish`; `left` holds the channels to come, `Channel` is the least of them | `513-527`; a bundle that is invalid or of a newer MSP version fails |
| `walk` | `Deliver`, `WalkEnds` | `readChaincodePolicies`, `394-481` |
| `definitions` | `AddPublic`, for any definition that is left; `ChannelAdded` | `528-532` |
| `hashes` | `HashPolicy`, `OtherHashes`, `HashesAdded` | `533-582` |

`Acceptable` and the assignment of `result` are the closure `add`
(`499-511`). One record of a walk may differ from the agreed one (`Forgeries`): the
file has been changed, and `WalkEnds` finds the digest different. Two places have
Go's map order: the definitions of a channel, and the organizations among which the
owner of an implicit collection is looked up (`EffectivePolicies` is a set).
`Again` runs the same inputs a second time. `InputsAssumption` is what opening the
snapshots, `readMappings` and `mappingCounts` have made sure of before: every mapping
is of a channel that was given and no source is mapped twice (`MigrationPlan`), and no
two records of a namespace have one key (`KeysDistinct`, 2.2).

### 2.8 `InputSelection`

`ParseArgument`, `ParsingFails`, `ParsingEnds` are the `flag` package and
`channelPaths.Set` as `Run` uses them; `ReadTarget` and `PairChannel` are
`import.go:55-106` with `decodeChannelConfig` (`Decodable` and `Decode`: whether it
succeeds and what it returns); `Encode` is `encode`; `NextChannel` is the loop over
`sortedKeys(options.Snapshots)`. A
configuration file is a sequence of envelopes, wrapped in a block or not; which of
the two the code takes bytes for is decided by the file, although protobuf bytes
can in principle be both. The headers of an envelope stand for themselves and
determine its type and channel (`FilesAssumption`). `Decode` takes for granted that wire bytes parse;
`bundle`, which validates a configuration, belongs to upstream.

### 2.9 `Organizations`

`Reported` and `Unreported` are one import each, of files chosen anew every time,
whose report arrives or does not. `Accepts` and `After` say in one expression what
`Import` does in its steps; `Report` is `Result` (`import.go:25-43`).

## 3. Checks

### 3.1 Runs

| Run | Instance | States | What it shows |
| --- | --- | --- | --- |
| `plan` | `MCMigrationPlan` | 93 130 | counts, walk and mappings agree; system state and key-level metadata are never dropped or copied silently |
| `imports` | `MCImport` | 48 413 | safety of two concurrent runs with faults, the refinement of `AtomicImport`, every run and its transaction end; without faults, some admissible run succeeds |
| `changed` | `MCImportChanged` | 18 508 | changing inputs: only agreed records are committed; a lasting change is found |
| `snapshot` | `MCSnapshotStream` | 352 476 | what is opened is one snapshot; walks that succeed yield its records, all walks attribute them as counted; lasting differences are found; links are not followed |
| `decoding` | `MCSnapshotDecoding` | 58 077 | decoders stay in their data, and accept what a writer writes and nothing else |
| `membership` | `MCMembership` | 70 184 | every member once, the target kept, one outcome for all orders |
| `policies` | `MCPolicyConversion` | 6 068 | converted policies accept what the source's accept, with the same bytes in every organization |
| `chaincode_policies` | `MCChaincodePolicies` | 62 514 | the policy of a namespace is that of everything it receives, inputs are refused only for a reason |
| `inputs` | `MCInputSelection` | 130 503 | what belongs together is accepted, in any order of flags, and nothing else |
| `organizations` | `MCOrganizations` | 4 900 | equal reports mean equal rows, now and later |
| `errors` | `MCImportErrors` | - | finding 3.5 |
| `twin_owners` | `MCTwinOwners` | - | finding 3.5 |

Properties of `Planning`:

- `CountsMatchWalk`: the counts the import checks before it commits, which come
  from metadata, are the numbers of records its walk selects per target.
- `WalkIsTheSelection`: what the walk yields is what the mappings say: the same
  records for the same targets, as sets. In which order they come it does not say;
  what the order does to the batches is the subject of `IInv` and
  `CountCheckRedundant`.
- `OnlyApplicationState`: an accepted plan takes no system namespace, no reserved
  target and no key-level metadata.

Properties of `Import`:

- `IInv`: the inductive invariant of the proofs, see 4.1.
- `ExactImport`: every namespace a committed import wrote to holds exactly the
  agreed records at version 0, from then on. The run that checks it (`changed`)
  has one import in a directory that changes; of several imports that overlap or
  are repeated, `IInv` says it, and the theorem `Exactness` (4.1) both together.
- `BoundTogether`: all committed imports agree with the one configuration row,
  and each finds its policy in `_meta` and its tables in place.
- `NoTraceWithoutCommit`: the committed database changes by a COMMIT only.
- `ImportsSerialized`: two transactions never have application tables or rows
  pending at the same time, lingering transactions of dead clients included.
- `TruthfulReport`: a report is about a committed transaction and its counts are
  those of the database.
- `CountCheckRedundant`: the count check before the commit never finds anything;
  the batches neither lose nor invent records.
- `ChangeAtVerifyDetected`: a change that is there at the last revalidation and
  lasts keeps the run from committing.
- `EveryRunEnds`, `SomeImportSucceeds`: liveness, see 3.4.
- `ImplementsAtomicImport`: the whole implements `AtomicImport`, with `outcome`
  mapped to the state of the transaction.

Properties of `SnapshotStream`:

- `SnapshotHashBindsAll`: the declared snapshot hash, which the reports of
  organizations are compared by, determines the digests of all files.
- `WalkAgreed`: a walk that succeeds has yielded exactly the agreed records.
- `DeliversAsCounted`: any walk attributes records to the namespaces they were
  counted for, at every moment.
- `KeysDistinct`: no key twice in a namespace, although each is compared with its
  predecessor only.
- `NoLastingDifference`: opening and revalidation succeed only if each entry is as
  agreed, or was changed while they were at work; no entry is missing or added.
- `LinksNotFollowed`: only regular files of the directory are read, also when
  entries are replaced between `Lstat` and Open.

Properties of `SnapshotDecoding`:

- `InBounds`: no offset leaves the data, whatever sizes the data claims.
- `Bounded`: what is allocated before it is read, and how often a loop runs, is
  bounded by the bytes that are there. It is about namespaces and records; that
  the buffer of one record grows with the bytes that arrive (`stream.go:287-288`)
  is not modelled, since `io.CopyN` is one step.
- `WrittenIsRead`: whatever encodes a value is accepted and is decoded to that
  value, varints of needless length included.
- `NothingIgnored`: what is accepted is an encoding of the result: no byte is
  skipped, read twice or left over.

Properties of the preparation of policies and membership:

- `MembersResolved`: every organization of a source has its MSP in the result, and
  no MSP is there twice.
- `OnlyAdditions`: at every moment the target's organizations are as they were, and
  whole public groups of sources are all that has been added.
- `OutcomeDetermined`: acceptance is a condition on the inputs alone, whatever the
  order in which the target's map is visited.
- `OrganizationsAgree`: two organizations that have collected subpolicies in
  different orders get equal bytes, or both an error.
- `AcceptsAsSource`: for every sequence of endorsers, the converted policy accepts
  it if and only if the source policy does.
- `SupportedIsConverted`: no policy `README.md:166-185` calls supported is refused.
- `PoliciesAgreed`: the policy of a target is that of every chaincode and
  collection whose state it receives; no other target has one.
- `RefusalJustified`: an error means that the inputs are at fault, not an order.
- `AgreedDefinitionsOnly`: no policy comes from bytes that have not been verified.
- `LifecycleSupersedes`: a legacy record is not used once there is a lifecycle
  definition.
- `RepeatedRunsAgree`: equal inputs give equal policies; fails for the inputs of
  `twin_owners`.

Properties of `InputSelection` and `Organizations`:

- `InputsBelongTogether`: acceptance is a condition on the set of arguments and
  the files, in both directions.
- `NoneIgnored`: all snapshots and source configurations that were given are used.
- `ResolvedIsReusable`: what `encode` writes is accepted as target configuration,
  decodes to what it was and is encoded to the same bytes; two envelopes that
  differ in signature or serialization only are encoded to the same bytes.
- `EqualReportsEqualRows`: equal last reports mean equal configuration rows,
  policies and application rows.
- `OldReportsHold`: what equal reports said of namespaces with records stays true
  in both databases.

### 3.2 Bounds

- Two runs: every property relates at most two transactions, and a run that
  starts after another has ended is a retry. The lock has one holder and the
  conflict test compares pairs. The proofs hold for any number.
- `BatchSize` is 2; namespaces have three and one selected records. The stream
  has a batch that fills in the middle, one that is flushed by a change of
  target and one left for the end. Four of the five mapping files are accepted,
  the fifth maps a namespace that is not in the snapshot.
- Databases: fresh; prepared by a committer with another encoding of the same
  configuration; another network; a configuration that has been updated; another
  policy; a namespace in use by rows of version 1; no transactional DDL.
- `changed` has one run, whose mapping file and snapshot change between two
  contents without a limit on how often. Runs do not share memory, so a second
  run adds nothing to what a run sees of its files.
- `snapshot`: in a behaviour either signable and additional metadata, public
  namespaces and public data alternate between two snapshots, or the public data,
  an ignored file, which may also vanish or become a link, and an entry of no
  snapshot do (`changing`), without a limit on how often. The first case is about
  mixtures of snapshots, the second about entries. Data files have up to three
  records; the two snapshots divide the same number of records among namespaces in
  different ways; six further snapshots have a flaw or no hashes.
- `plan`: all files of up to two mappings over two channels, including system
  namespaces, reserved targets, shared targets and hash targets, duplicate
  sources and namespaces with key-level metadata. More mappings interact only
  through shared targets and duplicate sources, which are relations of two.
- `decoding`: bytes of four bits, three of them payload of a varint, words of two
  bytes, so that a varint has up to three bytes and can overflow, a size can exceed
  `MaxInt`, and an end can wrap around, as ten bytes can in the original. All strings
  of up to four bytes over seven values, and everything a writer may write for
  lists of up to two namespaces or records, records of up to two fields, and
  heights at the edges of words.
- `membership`: two channels and a target of up to two organizations each, two MSP
  IDs, one of them with two definitions, one group with a signing key. Three
  parties suffice for every conflict the code distinguishes: target against
  source, source against source, name against MSP ID.
- `policies`: implicit-meta policies over bags of up to three of ten subpolicies,
  and of two levels; explicit rules with flaws; two organizations with an order of
  their own; endorsements are all sequences without repetitions of up to three of
  five endorsers. A rule with three leaves tells orders of consumption apart.
- `chaincode_policies`: two chaincodes that share a namespace, or of which one's
  hashes share the other's; one chaincode of each of two channels; 5 usable and 12
  unusable definitions; up to two hash namespaces; one forged record in a walk; two
  organizations with one MSP and no policies of their own; a target that is not
  accepted, a downgrade, and a second channel whose configuration is invalid.
- `inputs`: all sequences of up to four of ten flags about channels, and of up to
  four of the plain flags; files of every kind that is refused.
- `organizations`: two organizations, four mapping files (one with the order of
  another reversed), three target configurations and two usable snapshots of the
  same counts, up to two imports each (`MaxImports`). A third import of two
  targets is refused or concerns a namespace without records.

Deadlock is checked where every end of a behaviour is one the module names:
`Terminated` in `Import`, `Decided`, `Done`, `Stopped`. It is not checked where a
process simply ends: a failed reader (`snapshot`), a run that failed or has been
repeated (`chaincode_policies`, `twin_owners`), an organization after
`MaxImports`, a command after its inputs are paired or refused (`inputs`).

### 3.3 Assumptions about the database

External and modelled from what `import.go` asks of it: DDL is transactional
unless YugabyteDB says otherwise; a transaction sees the snapshot of its first
statement and its own writes; an insert meets the primary key of all committed
rows; `INSERT ... ON CONFLICT` and `SELECT ... FOR UPDATE` wait for the holder of
the row and fail when the row has changed since the snapshot; a serializable
commit fails at least when two transactions have each read a table the other
wrote to, without seeing it. The database may reject more (`Faulty`). Rejections
without such a reason are left out of the behaviours without faults: the
serializable isolation of real databases can produce false positives, and a system
that always does would never make progress. Concurrent `CREATE ... IF NOT EXISTS`
and `CREATE OR REPLACE FUNCTION` may wait for each other or fail in real databases;
the first is a delay, the second is a fault here.

No other writer is modelled: `README.md:27` requires them to be stopped.

### 3.4 Fairness

`Fairness` is weak fairness of each run's steps and of the server's treatment of
each transaction. A run is a single goroutine that is blocked only by the
configuration row, and the holder of that row always moves on: it is a run, or a
transaction whose client is gone and which the server ends (a closed connection,
or TCP keepalive for a lost one). Nothing is assumed of faults or the operator.
A WF on the disjunction of a run's steps suffices because a run has one step
enabled at a time, apart from the choices inside it. Inside `EnsureConfig` a
waiting run becomes enabled when the lock is free and no other run can take it
infinitely often, since a run takes it once.

`MCImport` has a variable `faultless`, chosen at the start: behaviours with faults
are those in which `EveryRunEnds` is hard, behaviours without are those of which
`SomeImportSucceeds` says that contention alone does not fail all runs.

The other components are sequential; that they end follows from `Bounded` and the
theorem `DecodingConsumes` for the decoders, and from loops over finite lists.

### 3.5 Findings

`ErrorsRollBack` states `README.md:199`, "Errors roll back all changes made by
that transaction". The `errors` run violates it: `Import` returns the error of
`tx.Commit` (`import.go:257-259`), which is also reported when the connection is
lost after the server committed; and after a commit the command fails when the
report cannot be written (`main.go:49`). In both cases the data stays, and a
repetition of the import is refused because the namespaces are not empty. What
does hold is that an import which did not commit leaves no trace
(`NoTraceWithoutCommit`).

`RepeatedRunsAgree` states `config_test.go:58-61`: equal inputs give equal
policies. The `twin_owners` run violates it. The policy of the hashes of
an implicit collection is that of the last organization with the collection's MSP
ID that the loop `for orgName, org := range application.Organizations()`
(`config.go:561`) happens to visit. A source channel may hold two application
organizations with one MSP (`reuseMSPs` takes the second for the first,
`config.go:150`) and different Endorsement policies; the policy that is written then
depends on the map order. Two organizations would see different policies in their
reports. For all other inputs the property holds (`chaincode_policies`).

## 4. Proofs

All proofs are checked to the last leaf by TLAPS, for any values of the constants
that satisfy the named assumptions. TLC evaluates every assumption on the
instances.

### 4.1 Imports

For any number of runs, any inputs and plans, any database, any batch size, with
and without faults and changes:

| Theorem | Statement |
| --- | --- |
| `TypeCorrect` | `Spec => []TypeOK` |
| `Invariant` | `Spec => []IInv` |
| `Exactness` | `Spec => []ExactImport` |
| `NoTrace` | `Spec => NoTraceWithoutCommit` |
| `Binding` | `Spec => []BoundTogether` |
| `Serialization` | `Spec => []ImportsSerialized` |
| `Truthfulness` | `Spec => []TruthfulReport` |
| `CountCheck` | `Spec => []CountCheckRedundant` |
| `ChangesDetected` | `Spec => ChangeAtVerifyDetected` |
| `Refinement` | `Spec => ImplementsAtomicImport` |

Assumptions: `InputAssumption`, `SentinelAssumption`, `PlanAssumption`,
`CountAssumption`, `StartAssumption` of `ImportPlan`, `BatchAssumption`,
`FaultAssumption` of `Import`.

The argument has three layers and, on top of them, one invariant per promise.

1. *Typing.* The types alone are not inductive: that an index stays inside its
   loop needs to know that the inputs read so far have contents and that the
   plan was accepted. `TInv` adds `InputsRead`, `PlanAccepted`, `IndexInLoop`,
   `Transaction` and `BatchHasTarget`. `Untouched` and the `...Local` lemmas say
   once that a step of one run leaves the variables of the others alone.
2. *Quiet steps.* All steps but `ServerCommits` leave the database and all
   committed transactions as they are (`QuietKeeps`), so that the knowledge of
   the other runs is kept (`OthersSafe`) and so is exactness (`ExactKept`). What
   is left is the run that moves: one lemma per action (`SafeBegin`,
   `SafeEnsureConfig`, ...). `YieldAccounts` is the heart of the streaming part:
   a record handed to the batch is in the batch or in the transaction
   afterwards, and so is everything that was there.
3. *The commit.* A run in doubt holds the configuration row, so nobody else has
   bound anything to lose (`SafeAfterCommit`). Exactness (`ExactAfterCommit`)
   rests on `CommitsIntoEmpty`: a row that is in the way was either in the
   transaction's snapshot, where the emptiness check would have found it, or was
   committed since, by an import that is then in conflict with this one.
   `SnapshotOfRows`, which splits the database into exactly these two parts, is
   the part of the invariant that the property by itself does not contain.
4. *The promises.*
   - `Binding`: `Bindings` strengthens the property by what runs that have passed
     `EnsureNamespace` know of the policies they will leave (`PoliciesKnown`); a
     commit replaces entries by equal ones.
   - `Serialization`: whoever has application tables or rows pending holds the
     configuration row (`WritersHoldConfig`), also when its client is gone, and the
     row has one holder.
   - `Truthfulness`: at `Verify` the targets were empty in the snapshot, so that
     what is counted is what the run wrote (`CountsReported`), and exactness keeps
     it after the commit.
   - `CountCheck`: rows in the transaction and records in the batch are, per
     target, as many as the items delivered (`Kept`), whatever bytes were
     delivered; two records that would become one row meet the primary key.
     `CountAssumption` turns the items into the agreed count.
   - `ChangesDetected`: from `Verify` on a run has the comparison of every file
     before it, or has given up (`WillCompare`), and while the file differs no step
     of anyone changes that.
   - `Refinement`: `CommitImplements` maps `ServerCommits` to the abstract step,
     with exactness for what it writes and `CommitsIntoEmpty` for where;
     `QuietImplements` maps every other step to an abort or a stutter.

### 4.2 Snapshot reader

For any directory and any changes, from the assumptions named in
`SnapshotStream`:

| Theorem | Statement |
| --- | --- |
| `ReaderInvariant` | `Spec => []SnapshotInv` |
| `WalksAgree` | `Spec => []WalkAgreed` |
| `WalksDeliverAsCounted` | `Spec => []DeliversAsCounted` |
| `LastingDifferencesFound` | `Spec => []NoLastingDifference` |
| `OneHashBindsAll` | `Spec => []SnapshotHashBindsAll` |
| `OnlyRegularFiles` | `Spec => []LinksNotFollowed` |
| `NoKeyTwice` | `Spec => []KeysDistinct` |

`SnapshotInv` says, step by step, what has been compared so far (`OpenInv`,
`RevalidateInv`), that the bytes yielded are the bytes that will be hashed
(`WalkInv`), and that whatever is decoded again is decoded from the same content
(`KnownInv`, with `HashAssumption`). `NoneMissing` is the argument for the count of
entries in `Revalidate`: entries that are all agreed and as many as agreed are all
of them.

`NoKeyTwice` has an invariant of its own beside `SnapshotInv`: `KeysInv`, that the
namespaces a walk reads from are in order and the keys it has yielded in each are
increasing. The code compares a record with its predecessor only, and only if both
are in one namespace, so the step needs that a walk never returns to a namespace it
has left (`LabelsGrow`: of two positions the later one is in the later namespace,
or the same). That is a statement about the recursive sum `RecordsUpTo`. It is
proved from the smallest counterexample (`SmallestNat`, from the well-foundedness
of the natural numbers) in the place of an induction, and `OrderAssumption` says
that keys are compared by a total order.

### 4.3 Decoders

For any bytes and any width of words, from `FormatAssumption` (a tag has room for the
wire type), `DecodingAssumption` (data shorter than the largest `int`, as in any Go
program; `of` holds values the data encodes) and `UvarintAssumption` (the contract
of `binary.Uvarint`). `BigEndian` and the bytes themselves are arbitrary.

| Theorem | Statement |
| --- | --- |
| `DecodingInvariant` | `Spec => []DecodingInv` |
| `DecodingInBounds` | `Spec => []InBounds` |
| `DecodingBounded` | `Spec => []Bounded` |
| `DecodingConsumes` | `Spec => Consumes` |
| `DecodingIgnoresNothing` | `Spec => []NothingIgnored` |
| `DecodingReadsWritten` | `Spec => []WrittenIsRead` |

`DecodingInv` relates the offset to the iterations that are left: every namespace
that has been promised and not decoded has two bytes at least. The lemmas about
`Sized`, `ReadSized` and `OrderPreservingUint` do the arithmetic: a size that is
compared as an unsigned word with what is left is a natural number when it is
used as an `int`.

The last two theorems rest on one lemma per reader (`VarintRead`, `SizedRead`,
`ReadSizedRead`, `UintRead`), which says both that what it returns is a piece of the
format and that a piece of the format is what it returns. For `NothingIgnored` the
invariant is `AccountInv`: the values decoded so far are encoded by a chain of pieces
that ends at the offset, and in the lists as many iterations are left as have been
announced and not yet decoded. Each step appends one link to the chain
(`NamespaceAppended`, `RecordAppended`, `FieldAppended`); for a record the chain
follows the order in which the fields were met. For `WrittenIsRead` it is `FollowInv`:
of an encoding of a value, the decoder stands at the end of the pieces of what it has
decoded, which is a part of the value, so that the next piece is there and can be
read; it cannot fail. Two arguments are not local. That the count of namespaces is
never refused needs that all pieces of a namespace together take two bytes or more
(`ChainWidth`, from the smallest counterexample), and that a field is not refused as a
repetition needs that an order names each field once (`NextField`).

### 4.4 Membership

For any target, any organizations offered in any order, from
`MembershipAssumption`:

| Theorem | Statement |
| --- | --- |
| `MembershipInvariant` | `Spec => []MembershipInv` |
| `EveryMemberOnce` | `Spec => []MembersResolved` |
| `TargetKept` | `Spec => []OnlyAdditions` |
| `MapOrderIrrelevant` | `Spec => []OutcomeDetermined` |
| `ResolvingTwice` | `Spec => []ResolvedIsStable` |

The invariant says that both maps describe exactly the groups that are in the
configuration so far: those read, in the first loop, all of them in the second.
`ResolvingTwice` is stated separately because it follows a run into the next.

### 4.5 Plans

For any mapping files and any snapshots, with any number of channels, namespaces and
records, from `PlanningAssumption`: channels can be ordered, and the snapshots are
such as `readNamespaces` accepts, with no namespace twice (`WellFormed`).

| Theorem | Statement |
| --- | --- |
| `PlanInvariant` | `Spec => []PlanInv` |
| `CountsAgree` | `Spec => []CountsMatchWalk` |
| `WalkSelects` | `Spec => []WalkIsTheSelection` |
| `ApplicationStateOnly` | `Spec => []OnlyApplicationState` |
| `PlansAreAsAssumed` | `Spec => [](Accepted => AsImportAssumes(plan, snapshots))` |

The invariant itself is short, a plan is what `Preflight` returns for the inputs; the
work is about its operators, which are folds and flattened sequences. The lemmas on
sums (`SumRemove`, `SumEqual`, `SumOfSums`, `SumBothWays`) and on flattened sequences
(`FlattenUnfolds`, `FlattenContents`, `FlattenHits`) are proved from the smallest
counterexample. They establish that the recursive functions behind the folds exist and
unfold. `CountByMapping` is the core: `mappingCounts` adds mapping by mapping, the walk
yields namespace by namespace, and both sum the same relation between the two, by
rows or by columns, because a source is mapped once and a namespace occurs once.
`PublicPart`, `HashPart`, `ChannelPart` and `WholeWalk` follow the nesting of the walk.

`PlansAreAsAssumed` connects this component with 4.1: an accepted plan has targets,
its stream ends with a digest check and reads the supplied snapshots only, its records
go to counted targets, and it has as many of them as were counted.

### 4.6 Chaincode policies

For any inputs that satisfy `InputsAssumption`, any `Resolve`, any order of
definitions and any forged records:

| Theorem | Statement |
| --- | --- |
| `PoliciesInvariant` | `Spec => []PoliciesInv` |
| `PoliciesAreAgreed` | `Spec => []PoliciesAgreed`, if `OwnersAgree` |
| `RunsAgree` | `Spec => []RepeatedRunsAgree`, if `OwnersAgree` |
| `RefusalsAreJustified` | `Spec => []RefusalJustified` |
| `DefinitionsAreAgreed` | `Spec => []AgreedDefinitionsOnly` |
| `LifecycleDecides` | `Spec => []LifecycleSupersedes` |

`PoliciesInv` says which records have been kept (`FieldsInv`, void once a record has
been changed, until the digest is compared), that definitions are those of the agreed
bytes (`DefinitionsInv`), which mappings are behind the loops and that each of those
has its policies in the result (`AddedInv`), that nothing else is in it (`ResultInv`)
and that a refusal has a reason (`FailedInv`). The last is the subtle one: a
definition that is refused in one order of the map is refused in all.

`OwnersAgree` says that organizations of a source channel which share an MSP have
Endorsement policies that are converted to the same one. The code does not make sure
of it; finding 3.5 is what happens otherwise, and the two theorems show that it is all
that can happen. The inputs of `chaincode_policies`, which include two organizations
with one MSP, satisfy it; those of `twin_owners` do not. Distinct MSPs are enough
(`DistinctOwnersAgree`).

### 4.7 Inputs

For command lines of any length, any number of channels and any files, from
`LinesAssumption`, `FilesAssumption` and `UnreadableAssumption` (what `encode` writes
can be read):

| Theorem | Statement |
| --- | --- |
| `SelectionInvariant` | `Spec => []SelectionInv` |
| `BelongTogether` | `Spec => []InputsBelongTogether` |
| `AllReported` | `Spec => []NoneIgnored` |
| `ResolvedReusable` | `Spec => []ResolvedIsReusable` |

`SelectionInv` says what the arguments read so far have left in `given`: a pair flag
has a path for each of its channels and has had each of them once, a plain flag has
its last value (`PairInv`, `PlainInv`); and that the target and each source paired so
far fit (`TargetInv`, `SourcesInv`). It also holds that a run that has failed had no
consistent command line, which needs for each step that what the step refuses is
refused of the whole line. That all snapshots are paired and as many source
configurations are given makes the channels of both flags equal (`AllFit`), which the
code never compares; with each of the flags counted once (`OncePerChannel`) nothing is
left out.

### 4.8 Organizations

For any number of organizations, of imports and of targets, from the assumptions of
`ImportPlan`, `BoundAssumption` and `SourcesAssumption` (equal sources and mapping
mean equal records: the hashes of the report have no collisions):

| Theorem | Statement |
| --- | --- |
| `ReportInvariant` | `Spec => []RInv` |
| `EqualReports` | `Spec => []EqualReportsEqualRows` |
| `OldReports` | `Spec => []OldReportsHold` |

Every report was made from contents whose plan describes the database. For the
last report the description is exact; for an older one it concerns namespaces with
records, into which no later import is accepted, policies, which may only be
repeated, and the configuration, which may only be replaced by an equal one.

### 4.9 Only model-checked

- `EveryRunEnds` and `SomeImportSucceeds`: liveness, `ENABLED` and fairness are outside
  the reach of the prover.
- `OrganizationsAgree`, `AcceptsAsSource` and `SupportedIsConverted`: the operators of
  `PolicyConversion` are recursive, and the prover has no induction over rules.

## 5. Not modelled

- The integration harness (`internal/integrationtest`, `hack`, `integration.go`) and
  CI: they start containers and drive peers, and contain no logic of the program.
- The committer and the ordering service: upstream, stopped during an import. The
  functions the import creates in the database are never called by it.
- Libraries: the evaluation and conversion of policies and the validation of
  configurations are external operators or constants; protobuf and JSON decoding
  happen before the models begin. Whether two encodings of one group or rule are
  equal is decided on abstract values, since the code marshals deterministically.
- `publicMSP` (`config.go:96-127`) as an algorithm: what it decodes and whether it
  accepts it are the constants `IdOf`, `MspOf` and `PublicOnly` of `Membership`.
- Contents of keys and values are opaque. Timeouts of the caller's context are
  `ReportError`.

No claim is made about two things the code leaves open. The first organization
with an MSP gives it its name in the target; whether another organization of that
name is then refused can depend on the order of channel names, which is the same
for everybody. And imports of two different mappings into one database, in
different orders in two organizations, may leave different encodings of one
configuration.

## 6. Plan

In this order:

1. `PolicyConversion` in the place of the constant `Resolve` of
   `ChaincodePolicies`, for a pair of channels.
2. `Import` with the reader of `SnapshotStream` in the place of its files, for one
   run.
