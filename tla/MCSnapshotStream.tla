-------------------------- MODULE MCSnapshotStream --------------------------
(***************************************************************************)
(* Snapshots of one channel that share a directory: files of one may take  *)
(* the place of files of another at any time.  A and B are proper          *)
(* snapshots; every other one has a flaw that its own digests do not show. *)
(*                                                                         *)
(* In a behaviour either the metadata and the public records change, or    *)
(* the public records, an ignored file and an entry of no snapshot.        *)
(***************************************************************************)
EXTENDS SnapshotStreamInvariant

VARIABLE changing    \* the entries that may change

MCFormatByte == [kind |-> "format"]
MCEndOfFile == [kind |-> "eof"]
Rec(key, block) == [kind |-> "record", key |-> key, block |-> block]
R1 == Rec(1, 1)
R2 == Rec(2, 1)
Late == Rec(2, 9)    \* younger than the snapshots

(* Files other than data files are one document each.                      *)
Snapshots == {"A", "B", "without hashes", "half a pair", "namespace twice", "key twice", "late record",
              "garbled"}
Doc(part, of) == [kind |-> "document", part |-> part, of |-> of]
Documents == {Doc(part, s) : part \in {"signable", "additional", "public", "hashes", "txids"}, s \in Snapshots}

PublicData == <<"public_state", "data">>
PublicMeta == <<"public_state", "metadata">>
HashData == <<"private_state_hashes", "data">>
HashMeta == <<"private_state_hashes", "metadata">>
Sig == <<"_snapshot_signable_metadata", "json">>
Add == <<"_snapshot_additional_metadata", "json">>
TxIds == <<"txids", "data">>        \* a file the import ignores
Stray == <<"left", "over">>         \* belongs to no snapshot
MCOthers == {TxIds, Stray}

MCRank(n) ==
  CHOOSE i \in 1..8 : <<Add, Sig, Stray, HashData, HashMeta, PublicData, PublicMeta, TxIds>>[i] = n

MCAtoms == {FormatByte, R1, R2, Late} \union Documents
MCContents == {<<>>, <<R1>>} \union {<<FormatByte>> \o s : s \in BoundedSeq({R1, R2, Late}, 3)}
              \union {<<d>> : d \in Documents}

MCHash(c) == [sha256 |-> c]
MCDigests == {MCHash(c) : c \in MCContents}

PublicRecords(s) ==
  CASE s = "B" -> <<R1, R2>>
    [] s = "namespace twice" -> <<R1, R1, R1>>
    [] s = "late record" -> <<R1, Late>>
    [] OTHER -> <<R1, R1>>

Space(name, records) == [name |-> name, records |-> records]

PublicNamespaces(s) ==
  CASE s = "namespace twice" -> <<Space(1, 1), Space(2, 1), Space(1, 1)>>
    [] s \in {"B", "key twice", "late record"} -> <<Space(1, 2), Space(2, 0)>>
    [] OTHER -> <<Space(1, 1), Space(2, 1)>>

FilesOf(s) ==
  CASE s = "without hashes" -> {PublicData, PublicMeta, TxIds}
    [] s = "half a pair" -> {PublicData, PublicMeta, TxIds, HashData}
    [] OTHER -> {PublicData, PublicMeta, TxIds, HashData, HashMeta}

(* The hashes of A and B are the same, sorted as CouchDB sorts them.       *)
FileOf(s, n) ==
  CASE n = PublicData -> <<FormatByte>> \o PublicRecords(s)
    [] n = PublicMeta -> <<Doc("public", s)>>
    [] n = HashData -> <<FormatByte, R2, R1>>
    [] n = HashMeta -> <<Doc("hashes", "A")>>
    [] n = TxIds -> <<Doc("txids", s)>>
    [] n = Sig -> <<Doc("signable", s)>>
    [] n = Add -> <<Doc("additional", s)>>

SnapshotsOf(c, part) == {s \in Snapshots : c = <<Doc(part, s)>>}

Decoded(c, part, Value(_)) ==
  IF SnapshotsOf(c, part) = {} THEN Rejected ELSE Value(CHOOSE s \in SnapshotsOf(c, part) : TRUE)

MCMetadataOf(c) ==
  Decoded(c, "signable", LAMBDA s :
    [files |-> [n \in FilesOf(s) |-> MCHash(FileOf(s, n))], stateDB |-> "CouchDB", lastBlock |-> 5])

MCDeclaredHash(c) == Decoded(c, "additional", LAMBDA s : MCHash(FileOf(s, Sig)))

MCNamespacesOf(c) ==
  IF SnapshotsOf(c, "hashes") # {} THEN <<Space(3, 2)>>
  ELSE IF SnapshotsOf(c, "public") = {"garbled"} THEN Rejected
  ELSE Decoded(c, "public", PublicNamespaces)

MCHashNamespaces == {3}

MCIsRecord(metadata, prefixOf, a) == a.kind = "record" /\ a.block <= metadata.lastBlock

MCKeyOf(a) == a.key

MCOrderKey(metadata, prefixOf, key) ==
  IF prefixOf = "private_state_hashes" /\ metadata.stateDB = "CouchDB" THEN 9 - key ELSE key

(* The directory with one snapshot in it.                                  *)
Directory(s) ==
  [n \in FilesOf(s) \union {Sig, Add} |-> FileOf(s, n)]
  @@ [n \in {HashData, HashMeta, TxIds, Stray} |-> Absent]

MCDirectories == {Directory(s) : s \in Snapshots}

MCChanges(n) ==
  CASE n = Stray -> {Absent, <<Doc("txids", "A")>>}
    [] n = TxIds -> {Absent, Link} \union {FileOf(s, n) : s \in {"A", "B"}}
    [] n \in {Sig, Add, PublicMeta, PublicData} -> {FileOf(s, n) : s \in {"A", "B"}}
    [] OTHER -> {}

ContentFiles == {Sig, Add, PublicMeta, PublicData}
OtherEntries == {PublicData, TxIds, Stray}

MCInit == Init /\ changing \in {ContentFiles, OtherEntries}

MCNext ==
  /\ Next
  /\ \A n \in Names \ changing : dir'[n] = dir[n]
  /\ UNCHANGED changing

MCSpec == MCInit /\ [][MCNext]_<<vars, changing>>
=============================================================================
