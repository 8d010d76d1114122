--------------------------- MODULE SnapshotStream ---------------------------
(***************************************************************************)
(* The snapshot reader (internal/fabricsnapshot/stream.go, snapshot.go):   *)
(* OpenStream, which agrees on the digest of every file of a snapshot, and *)
(* the walks and revalidations an import performs on the opened stream,    *)
(* while somebody changes the directory between any two of its system      *)
(* calls.                                                                  *)
(*                                                                         *)
(* The content of a file is a sequence of atoms: the format byte, records  *)
(* and documents.  What decoding makes of it is given by constants.  Bytes *)
(* read from a file that is changed while it is open may be any mixture.   *)
(***************************************************************************)
EXTENDS Naturals, FiniteSets, SequencesExt

CONSTANTS
  Others,              \* names of further directory entries
  Rank(_),             \* the place of a name in the order of names
  Atoms, Contents,     \* what files are made of; the contents considered
  FormatByte, EndOfFile,
  Digests, Hash(_),    \* SHA-256
  MetadataOf(_),       \* decoded and complete signable metadata, or Rejected
  DeclaredHash(_),     \* snapshot_hash of the additional metadata, or Rejected
  NamespacesOf(_),     \* decodeNamespaces: [name, records] in file order, or Rejected
  HashNamespaces,      \* names SplitHashNamespace accepts
  IsRecord(_, _, _),   \* a complete record of the given metadata and file kind,
                       \* not younger than the snapshot
  KeyOf(_),
  OrderKey(_, _, _),   \* a key as the state database sorts it (hashes: Base64 in CouchDB)
  Directories,         \* what the directory may hold at first
  Changes(_),          \* what may become of an entry
  Absent, Link,        \* no entry; an entry that is no regular file
  NoName, Nothing, Rejected

Public == "public_state"
Hashes == "private_state_hashes"
Parts == {Public, Hashes}

DataFile(p) == <<p, "data">>
MetaFile(p) == <<p, "metadata">>
Signable == <<"_snapshot_signable_metadata", "json">>
Additional == <<"_snapshot_additional_metadata", "json">>
Names == {DataFile(p) : p \in Parts} \union {MetaFile(p) : p \in Parts}
         \union {Signable, Additional} \union Others

Entries == Contents \union {Absent, Link}
Namespace == [name: Nat, records: Nat]    \* < on names is their byte order

ASSUME ContentAssumption ==
  /\ Contents \subseteq Seq(Atoms) /\ <<>> \in Contents
  /\ \A c \in Contents : \A n \in 0..Len(c) : SubSeq(c, 1, n) \in Contents
  /\ FormatByte \in Atoms /\ EndOfFile \notin Atoms
  /\ Absent \notin Contents /\ Link \notin Contents /\ Nothing \notin Contents

(* SHA-256 has no collisions.                                              *)
ASSUME HashAssumption ==
  /\ \A c \in Contents : Hash(c) \in Digests
  /\ \A c, d \in Contents : Hash(c) = Hash(d) => c = d

ASSUME DecodingAssumption ==
  \A c \in Contents :
    /\ NamespacesOf(c) # Rejected => NamespacesOf(c) \in Seq(Namespace)
    /\ MetadataOf(c) # Rejected =>
         /\ DOMAIN MetadataOf(c).files \subseteq Names
         /\ \A n \in DOMAIN MetadataOf(c).files : MetadataOf(c).files[n] \in Digests

(* The sort keys of records are strings; a number stands for the place of  *)
(* each in their byte order.                                               *)
ASSUME OrderAssumption ==
  \A c \in Contents : MetadataOf(c) # Rejected =>
    \A p \in Parts, a \in Atoms :
      IsRecord(MetadataOf(c), p, a) => OrderKey(MetadataOf(c), p, KeyOf(a)) \in Nat

ASSUME DirectoryAssumption ==
  /\ IsFiniteSet(Names) /\ NoName \notin Names
  /\ Directories \subseteq [Names -> Entries]
  /\ \A n \in Names : Changes(n) \subseteq Entries
-----------------------------------------------------------------------------
VARIABLES
  dir,        \* the entries of the directory
  touched,    \* entries changed since the current opening or revalidation began
  pc,         \* what the reader does next
  op,         \* the operation: "open", "walk" or "revalidate"
  prefix,     \* the pair of files being read
  file,       \* the file that is looked at or open
  todo,       \* files whose digests are yet to be compared
  entries,    \* what the revalidation found in the directory
  signable,   \* the signable metadata read by OpenStream
  agreed,     \* fileHashes: the digest of every file of the snapshot
  known,      \* PublicNamespaces and PrivateHashNamespaces
  spaces,     \* the namespaces the current walk goes through
  got,        \* what the current walk has read, and hashed, of its data file
  delivered   \* what the current walk has yielded

stream == <<signable, agreed, known>>
walk == <<spaces, got, delivered>>
vars == <<dir, touched, pc, op, prefix, file, todo, entries, signable, agreed, known,
          spaces, got, delivered>>

Stages == {"signable", "additional", "list", "digest", "namespaces", "ready",
           "data", "compare", "failed"}

FileState == [name: Names \union {NoName}, stage: {"closed", "seen", "open"}, changed: BOOLEAN]
Closed == [name |-> NoName, stage |-> "closed", changed |-> FALSE]

Delivery == [namespace: Nat, record: Atoms]

Init ==
  /\ dir \in Directories
  /\ touched = {}
  /\ pc = "signable" /\ op = "open" /\ prefix = Public
  /\ file = Closed
  /\ todo = {} /\ entries = {}
  /\ signable = Nothing
  /\ agreed = [n \in {} |-> n]
  /\ known = [p \in Parts |-> <<>>]
  /\ spaces = <<>> /\ got = <<>> /\ delivered = <<>>
-----------------------------------------------------------------------------
(* Somebody writes to a file, in place or by putting another entry under   *)
(* its name, or creates or removes it.  An open file then shows any bytes; *)
(* openRegular will find that the name stands for another file, if it is   *)
(* another one.                                                            *)
ChangeEntry(n) ==
  /\ pc # "failed"
  /\ \E e \in Changes(n) \ {dir[n]}, inPlace \in BOOLEAN :
       /\ inPlace => e \in Contents /\ dir[n] \in Contents
       /\ dir' = [dir EXCEPT ![n] = e]
       /\ touched' = IF op = "walk" THEN touched ELSE touched \union {n}
       /\ file' = [file EXCEPT !.changed = @ \/ (file.name = n /\ (file.stage = "open" \/ ~inPlace))]
       /\ UNCHANGED <<pc, op, prefix, todo, entries, stream, walk>>
-----------------------------------------------------------------------------
(* Any error: the operation fails, and the import with it.                 *)
Fail ==
  /\ pc' = "failed"
  /\ file' = Closed
  /\ todo' = {} /\ entries' = {}
  /\ spaces' = <<>> /\ got' = <<>> /\ delivered' = <<>>
  /\ UNCHANGED <<dir, touched, op, prefix, stream>>

(* An I/O error, or an error of the callback of a walk.                    *)
ReportError == pc \notin {"ready", "failed"} /\ Fail

(* openRegular: Lstat, then Open and Stat of what has been opened.  Every  *)
(* operation goes through its files one at a time and compares digests in  *)
(* the order of names (sort.Strings, os.ReadDir).                          *)
First(S) == {n \in S : \A m \in S : Rank(n) <= Rank(m)}

Wanted ==
  CASE pc = "signable" -> {Signable}
    [] pc = "additional" -> {Additional}
    [] pc \in {"digest", "compare"} -> First(todo)
    [] pc = "namespaces" -> {MetaFile(prefix)}
    [] pc = "data" -> {DataFile(prefix)}
    [] OTHER -> {}

Lstat(n) ==
  /\ file.stage = "closed"
  /\ n \in Wanted
  /\ IF dir[n] \in Contents /\ (pc = "compare" => n \in DOMAIN agreed)
     THEN /\ file' = [name |-> n, stage |-> "seen", changed |-> FALSE]
          /\ UNCHANGED <<dir, touched, pc, op, prefix, todo, entries, stream, walk>>
     ELSE Fail

(* As OpenFile, without the comparison of the two files.                   *)
OpenFileUnchecked ==
  /\ file.stage = "seen"
  /\ IF dir[file.name] # Absent
     THEN /\ file' = [file EXCEPT !.stage = "open", !.changed = FALSE]
          /\ UNCHANGED <<dir, touched, pc, op, prefix, todo, entries, stream, walk>>
     ELSE Fail

(* os.SameFile compares files, not names: what was put under the name may  *)
(* lead to the very file that was looked at, moved away and back or under  *)
(* a link, and is opened then.                                             *)
OpenFile ==
  /\ file.stage = "seen"
  /\ \/ /\ file.changed => dir[file.name] # Absent
        /\ file' = [file EXCEPT !.stage = "open"]
        /\ UNCHANGED <<dir, touched, pc, op, prefix, todo, entries, stream, walk>>
     \/ /\ file.changed
        /\ Fail

(* What reading all of the open file may return (readRegular and           *)
(* hashRegularFile close it afterwards).                                   *)
Bytes == IF file.changed THEN Contents ELSE {dir[file.name]}

Reading(stage) == pc = stage /\ file.stage = "open"
-----------------------------------------------------------------------------
(* OpenStream.                                                             *)
ReadSignable ==
  /\ Reading("signable")
  /\ signable' \in Bytes
  /\ pc' = "additional"
  /\ file' = Closed
  /\ UNCHANGED <<dir, touched, op, prefix, todo, entries, agreed, known, walk>>

Listed == DOMAIN MetadataOf(signable).files

(* As SnapshotAccepted, with the metadata's own digest unchecked.          *)
SnapshotUnsigned(additional) ==
  /\ MetadataOf(signable) # Rejected
  /\ DeclaredHash(additional) # Rejected
  /\ {DataFile(Public), MetaFile(Public)} \subseteq Listed
  /\ (DataFile(Hashes) \in Listed) = (MetaFile(Hashes) \in Listed)
  /\ {Signable, Additional} \intersect Listed = {}

SnapshotAccepted(additional) ==
  /\ MetadataOf(signable) # Rejected
  /\ DeclaredHash(additional) = Hash(signable)
  /\ {DataFile(Public), MetaFile(Public)} \subseteq Listed
  /\ (DataFile(Hashes) \in Listed) = (MetaFile(Hashes) \in Listed)
  /\ {Signable, Additional} \intersect Listed = {}

HashesOfFiles(additional) ==
  [n \in Listed \union {Signable, Additional} |->
     IF n = Signable THEN Hash(signable)
     ELSE IF n = Additional THEN Hash(additional)
     ELSE MetadataOf(signable).files[n]]

ReadAdditional ==
  /\ Reading("additional")
  /\ \E c \in Bytes :
       IF SnapshotAccepted(c)
       THEN /\ agreed' = HashesOfFiles(c)
            /\ pc' = "list"
            /\ file' = Closed
            /\ UNCHANGED <<dir, touched, op, prefix, todo, entries, signable, known, walk>>
       ELSE Fail

Present == {n \in Names : dir[n] # Absent}

ListEntries ==
  /\ pc = "list"
  /\ IF Present \subseteq DOMAIN agreed
     THEN /\ pc' = "digest"
          /\ todo' = Listed
          /\ UNCHANGED <<dir, touched, op, prefix, file, entries, stream, walk>>
     ELSE Fail

CompareDigest(stage, next) ==
  /\ Reading(stage)
  /\ \E c \in Bytes :
       IF Hash(c) = agreed[file.name]
       THEN /\ todo' = todo \ {file.name}
            /\ pc' = IF todo = {file.name} THEN next ELSE pc
            /\ file' = Closed
            /\ UNCHANGED <<dir, touched, op, prefix, entries, stream, walk>>
       ELSE Fail

HashFile == CompareDigest("digest", "namespaces")

(* readNamespaces: namespaces must be in strictly ascending order.         *)
StrictlyOrdered(ns) == \A i \in 2..Len(ns) : ns[i - 1].name < ns[i].name

(* As NamespacesAccepted: the digest of the file unchecked; the order of   *)
(* the namespaces unchecked.                                               *)
NamespacesUnhashed(c) ==
  /\ NamespacesOf(c) # Rejected
  /\ StrictlyOrdered(NamespacesOf(c))

NamespacesUnordered(c) ==
  /\ Hash(c) = agreed[MetaFile(prefix)]
  /\ NamespacesOf(c) # Rejected

NamespacesAccepted(c) ==
  /\ Hash(c) = agreed[MetaFile(prefix)]
  /\ NamespacesOf(c) # Rejected
  /\ StrictlyOrdered(NamespacesOf(c))

HasHashes == DataFile(Hashes) \in DOMAIN agreed

OpenNamespaces ==
  /\ Reading("namespaces") /\ op = "open"
  /\ \E c \in Bytes :
       IF /\ NamespacesAccepted(c)
          /\ prefix = Hashes =>
               \A i \in DOMAIN NamespacesOf(c) : NamespacesOf(c)[i].name \in HashNamespaces
       THEN /\ known' = [known EXCEPT ![prefix] = NamespacesOf(c)]
            /\ IF prefix = Public /\ HasHashes
               THEN prefix' = Hashes /\ UNCHANGED pc
               ELSE pc' = "ready" /\ UNCHANGED prefix
            /\ file' = Closed
            /\ UNCHANGED <<dir, touched, op, todo, entries, signable, agreed, walk>>
       ELSE Fail
-----------------------------------------------------------------------------
(* WalkPublicRecords and WalkPrivateHashRecords; a snapshot without hashes *)
(* has none to walk.                                                       *)
StartWalk(p) ==
  /\ pc = "ready"
  /\ op' = "walk"
  /\ prefix' = p
  /\ touched' = {}
  /\ pc' = IF p = Hashes /\ ~HasHashes THEN "ready" ELSE "namespaces"
  /\ spaces' = <<>> /\ got' = <<>> /\ delivered' = <<>>
  /\ UNCHANGED <<dir, file, todo, entries, stream>>

WalkNamespaces ==
  /\ Reading("namespaces") /\ op = "walk"
  /\ \E c \in Bytes :
       IF NamespacesAccepted(c)
       THEN /\ spaces' = NamespacesOf(c)
            /\ pc' = "data"
            /\ file' = Closed
            /\ UNCHANGED <<dir, touched, op, prefix, todo, entries, stream, got, delivered>>
       ELSE Fail

(* The namespaces follow each other in the data file, each with as many    *)
(* records as the metadata says: the k-th record is in the i-th namespace. *)
RecordsUpTo(ns, i) ==
  LET upTo[j \in 0..Len(ns)] == IF j = 0 THEN 0 ELSE upTo[j - 1] + ns[j].records
  IN upTo[i]

Within(ns, i, k) == RecordsUpTo(ns, i - 1) < k /\ k <= RecordsUpTo(ns, i)

HasRecord(ns, k) == \E i \in DOMAIN ns : Within(ns, i, k)

Label(ns, k) == ns[CHOOSE i \in DOMAIN ns : Within(ns, i, k)].name

(* What the next read from the open data file may return.                  *)
NextAtoms ==
  IF file.changed
  THEN {a \in Atoms : Append(got, a) \in Contents} \union {EndOfFile}
  ELSE {IF Len(got) < Len(dir[file.name]) THEN dir[file.name][Len(got) + 1] ELSE EndOfFile}

ReadFormat ==
  /\ Reading("data") /\ got = <<>>
  /\ \E a \in NextAtoms :
       IF a = FormatByte
       THEN /\ got' = <<a>>
            /\ UNCHANGED <<dir, touched, pc, op, prefix, file, todo, entries, stream, spaces, delivered>>
       ELSE Fail

(* A record must be complete and its key greater than the key before it in *)
(* the same namespace.                                                     *)
SortKey(a) == OrderKey(MetadataOf(signable), prefix, KeyOf(a))

Precedes(k, a) ==
  k > 1 /\ delivered[k - 1].namespace = Label(spaces, k) => SortKey(delivered[k - 1].record) < SortKey(a)

ReadRecord ==
  /\ Reading("data") /\ got # <<>>
  /\ LET k == Len(delivered) + 1
     IN /\ HasRecord(spaces, k)
        /\ \E a \in NextAtoms :
             IF /\ a # EndOfFile
                /\ IsRecord(MetadataOf(signable), prefix, a)
                /\ Precedes(k, a)
             THEN /\ got' = Append(got, a)
                  /\ delivered' = Append(delivered, [namespace |-> Label(spaces, k), record |-> a])
                  /\ UNCHANGED <<dir, touched, pc, op, prefix, file, todo, entries, stream, spaces>>
             ELSE Fail

(* The end of the data file and the digest of what has been read from it.  *)
(* As FinishWalk, with the digest computed from the file once more.        *)
FinishWalkRereading ==
  /\ Reading("data") /\ got # <<>>
  /\ ~HasRecord(spaces, Len(delivered) + 1)
  /\ \E a \in NextAtoms :
       IF a = EndOfFile /\ dir[file.name] \in Contents /\ Hash(dir[file.name]) = agreed[DataFile(prefix)]
       THEN /\ pc' = "ready"
            /\ file' = Closed
            /\ UNCHANGED <<dir, touched, op, prefix, todo, entries, stream, walk>>
       ELSE Fail

FinishWalk ==
  /\ Reading("data") /\ got # <<>>
  /\ ~HasRecord(spaces, Len(delivered) + 1)
  /\ \E a \in NextAtoms :
       IF a = EndOfFile /\ Hash(got) = agreed[DataFile(prefix)]
       THEN /\ pc' = "ready"
            /\ file' = Closed
            /\ UNCHANGED <<dir, touched, op, prefix, todo, entries, stream, walk>>
       ELSE Fail
-----------------------------------------------------------------------------
(* Revalidate: the number of entries, then every entry.  As Revalidate,    *)
(* without counting.                                                       *)
RevalidateUncounted ==
  /\ pc = "ready"
  /\ op' = "revalidate"
  /\ touched' = {}
  /\ pc' = "compare" /\ todo' = Present /\ entries' = Present
  /\ UNCHANGED <<dir, prefix, file, stream, walk>>

Revalidate ==
  /\ pc = "ready"
  /\ IF Cardinality(Present) = Cardinality(DOMAIN agreed)
     THEN /\ op' = "revalidate"
          /\ touched' = {}
          /\ pc' = "compare" /\ todo' = Present /\ entries' = Present
          /\ UNCHANGED <<dir, prefix, file, stream, walk>>
     ELSE Fail

CompareFile == CompareDigest("compare", "ready")
-----------------------------------------------------------------------------
Opens == ReadSignable \/ ReadAdditional \/ ListEntries \/ HashFile \/ OpenNamespaces

Walks == (\E p \in Parts : StartWalk(p)) \/ WalkNamespaces \/ ReadFormat \/ ReadRecord \/ FinishWalk

Next ==
  \/ \E n \in Names : ChangeEntry(n)
  \/ \E n \in Names : Lstat(n)
  \/ OpenFile
  \/ Opens
  \/ Walks
  \/ Revalidate \/ CompareFile
  \/ ReportError

Spec == Init /\ [][Next]_vars
-----------------------------------------------------------------------------
TypeOK ==
  /\ dir \in [Names -> Entries]
  /\ touched \subseteq Names
  /\ pc \in Stages
  /\ op \in {"open", "walk", "revalidate"}
  /\ prefix \in Parts
  /\ file \in FileState
  /\ todo \subseteq Names
  /\ entries \subseteq Names
  /\ signable \in Contents \union {Nothing}
  /\ DOMAIN agreed \subseteq Names /\ agreed \in [DOMAIN agreed -> Digests]
  /\ known \in [Parts -> Seq(Namespace)]
  /\ spaces \in Seq(Namespace)
  /\ got \in Contents
  /\ delivered \in Seq(Delivery)

(* The content that was agreed on under a name.                            *)
AgreedContent(n) == CHOOSE c \in Contents : Hash(c) = agreed[n]

(* The snapshot hash, by which organizations compare the sources of their  *)
(* imports, stands for all files: it is the digest of the metadata that    *)
(* lists the agreed digests (stream.go:60, import.go:105).                 *)
SnapshotHashBindsAll ==
  pc = "ready" =>
    /\ DeclaredHash(AgreedContent(Additional)) = agreed[Signable]
    /\ LET listed == MetadataOf(AgreedContent(Signable)).files
       IN /\ DOMAIN agreed = DOMAIN listed \union {Signable, Additional}
          /\ \A n \in DOMAIN listed : agreed[n] = listed[n]

(* What a walk has to yield: the records of the agreed data file, each     *)
(* with the namespace the agreed metadata gives it (stream.go:202).        *)
Expected(p) ==
  IF DataFile(p) \notin DOMAIN agreed THEN <<>>
  ELSE LET c == AgreedContent(DataFile(p))
       IN [k \in 1..(Len(c) - 1) |->
             [namespace |-> Label(NamespacesOf(AgreedContent(MetaFile(p))), k), record |-> c[k + 1]]]

(* A walk that succeeds has yielded the agreed records, whatever happened  *)
(* to the files since they were opened or while they were read             *)
(* (stream.go:274).                                                        *)
WalkAgreed == pc = "ready" /\ op = "walk" => delivered = Expected(prefix)

(* At every moment of a walk, also of one that will fail, the records      *)
(* yielded so far are attributed to namespaces as OpenStream's caller, who *)
(* has counted them from known, expects it (stream.go:203, 150).           *)
DeliversAsCounted ==
  pc \in {"data", "ready"} /\ op = "walk" =>
    \A k \in DOMAIN delivered :
      /\ HasRecord(known[prefix], k)
      /\ delivered[k].namespace = Label(known[prefix], k)

(* No walk yields two records of one namespace with the same key: each is  *)
(* compared with its predecessor only (stream.go:157, 248).                *)
KeysDistinct ==
  \A i, j \in DOMAIN delivered :
    /\ i < j
    /\ delivered[i].namespace = delivered[j].namespace
    => KeyOf(delivered[i].record) # KeyOf(delivered[j].record)

(* Opening and revalidation find every difference that lasts: unless it    *)
(* was changed meanwhile, an entry of the directory is the agreed file or, *)
(* if none was agreed on, absent (stream.go:89, 172).                      *)
AsAgreed(n) ==
  IF n \in DOMAIN agreed
  THEN dir[n] \in Contents /\ Hash(dir[n]) = agreed[n]
  ELSE dir[n] = Absent

NoLastingDifference ==
  pc = "ready" /\ op \in {"open", "revalidate"} => \A n \in Names \ touched : AsAgreed(n)

(* Nothing but regular files of the directory is ever read: what is open   *)
(* and has not changed since Lstat is still one, even if somebody replaces *)
(* entries between Lstat and Open (snapshot.go:146).                       *)
LinksNotFollowed == file.stage = "open" /\ ~file.changed => dir[file.name] \in Contents
=============================================================================
