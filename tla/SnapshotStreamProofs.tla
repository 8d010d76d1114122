------------------------ MODULE SnapshotStreamProofs ------------------------
(***************************************************************************)
(* Proofs about the snapshot reader, for any directory, any files and any  *)
(* changes: its inductive invariant, and that walks yield what was agreed. *)
(***************************************************************************)
EXTENDS SnapshotStreamInvariant, FiniteSetTheorems, WellFoundedInduction, TLAPS

(* Names of the files the reader gives a meaning to are names.             *)
LEMMA FileNames ==
  /\ Signable \in Names /\ Additional \in Names
  /\ \A p \in Parts : DataFile(p) \in Names /\ MetaFile(p) \in Names
  /\ Public \in Parts /\ Hashes \in Parts
BY DEF Names, Parts

LEMMA InitInv == Init => SnapshotInv
<1> SUFFICES ASSUME Init PROVE SnapshotInv
  OBVIOUS
<1>1. TypeOK
  <2>1. agreed = [n \in {} |-> n] /\ DOMAIN agreed = {}
    BY DEF Init
  <2>2. agreed \in [DOMAIN agreed -> Digests]
    BY <2>1
  <2>3. dir \in [Names -> Entries]
    BY DirectoryAssumption DEF Init
  <2>4. known \in [Parts -> Seq(Namespace)] /\ spaces \in Seq(Namespace) /\ delivered \in Seq(Delivery)
    BY DEF Init
  <2> QED
    BY <2>1, <2>2, <2>3, <2>4, FileNames, ContentAssumption DEF Init, TypeOK, Stages, FileState, Closed
<1>2. FileInv /\ StageInv /\ AgreedInv /\ KnownInv /\ WalkInv /\ ReadInv /\ OpenInv /\ RevalidateInv
  BY DEF Init, ReadInv, FileInv, StageInv, AgreedInv, Accepted, KnownInv, Loaded, WalkInv, OpenInv, RevalidateInv, Closed
<1> QED
  BY <1>1, <1>2 DEF SnapshotInv

(* A failure leaves nothing to be known but the digests.                   *)
LEMMA FailInv == SnapshotInv /\ Fail => SnapshotInv'
<1> SUFFICES ASSUME SnapshotInv, Fail PROVE SnapshotInv'
  OBVIOUS
<1>1. TypeOK'
  BY ContentAssumption DEF SnapshotInv, Fail, TypeOK, Stages, FileState, Closed, stream
<1>2. (FileInv /\ StageInv /\ AgreedInv /\ KnownInv /\ WalkInv /\ ReadInv /\ OpenInv /\ RevalidateInv)'
  BY DEF Fail, ReadInv, stream, FileInv, StageInv, AgreedInv, Accepted, KnownInv, Loaded, WalkInv, OpenInv,
         RevalidateInv, Closed
<1> QED
  BY <1>1, <1>2 DEF SnapshotInv

LEMMA ChangeEntryInv ==
  ASSUME SnapshotInv, NEW n \in Names, ChangeEntry(n)
  PROVE  SnapshotInv'
<1>1. PICK e \in Changes(n) \ {dir[n]}, inPlace \in BOOLEAN :
        /\ inPlace => e \in Contents /\ dir[n] \in Contents
        /\ dir' = [dir EXCEPT ![n] = e]
        /\ file' = [file EXCEPT !.changed = @ \/ (file.name = n /\ (file.stage = "open" \/ ~inPlace))]
  BY DEF ChangeEntry
<1>2. /\ UNCHANGED <<pc, op, prefix, todo, entries, signable, agreed, known, spaces, got, delivered>>
      /\ touched' = IF op = "walk" THEN touched ELSE touched \union {n}
      /\ pc # "failed"
  BY DEF ChangeEntry, stream, walk
<1>3. e \in Entries /\ dir \in [Names -> Entries] /\ file \in FileState /\ touched \subseteq Names
  BY DirectoryAssumption DEF SnapshotInv, TypeOK
<1>4. dir' \in [Names -> Entries] /\ file' \in FileState /\ touched' \subseteq Names
  BY <1>1, <1>2, <1>3 DEF FileState
<1>5. TypeOK'
  BY <1>2, <1>4 DEF SnapshotInv, TypeOK
<1>6. FileInv'
  <2>1. CASE file.stage = "closed"
    <3>1. file.name = NoName
      BY <2>1 DEF SnapshotInv, FileInv, Closed
    <3>2. file.name # n
      BY <3>1, DirectoryAssumption
    <3>3. file' = file
      BY <1>1, <1>3, <3>2 DEF FileState
    <3> QED
      BY <2>1, <3>3 DEF SnapshotInv, FileInv
  <2>2. CASE file.stage # "closed"
    <3>1. file'.stage = file.stage /\ file'.name = file.name
      BY <1>1, <1>3 DEF FileState
    <3>2. ~file'.changed => dir'[file.name] \in Contents
      BY <1>1, <1>3, <2>2 DEF SnapshotInv, FileInv, FileState
    <3>3. file'.changed /\ op # "walk" => file.name \in touched'
      BY <1>1, <1>2, <1>3, <2>2 DEF SnapshotInv, FileInv, FileState
    <3> QED
      BY <1>2, <2>2, <3>1, <3>2, <3>3 DEF SnapshotInv, FileInv
  <2> QED
    BY <2>1, <2>2
<1>7. (StageInv /\ AgreedInv /\ KnownInv /\ WalkInv)'
  BY <1>2 DEF SnapshotInv, StageInv, AgreedInv, Accepted, Listed, KnownInv, Loaded, WalkInv
<1>11. ReadInv'
  <2>1. CASE pc = "data" /\ file.stage = "open" /\ ~file'.changed
    <3>1. file'.stage = "open" /\ file'.name = file.name /\ ~file.changed /\ file.name # n
      BY <1>1, <1>3, <2>1 DEF FileState
    <3>2. dir'[file.name] = dir[file.name]
      BY <1>1, <1>3, <3>1, <2>1 DEF SnapshotInv, FileInv, Closed
    <3> QED
      BY <1>2, <2>1, <3>1, <3>2 DEF SnapshotInv, ReadInv
  <2>2. CASE ~(pc = "data" /\ file.stage = "open" /\ ~file'.changed)
    <3>1. file'.stage = file.stage
      BY <1>1, <1>3 DEF FileState
    <3> QED
      BY <1>2, <2>2, <3>1 DEF SnapshotInv, ReadInv
  <2> QED
    BY <2>1, <2>2
<1>8. ASSUME NEW S, S \subseteq Names, Confirmed(S), op # "walk" PROVE Confirmed(S)'
  <2>1. ASSUME NEW m \in S \ touched' PROVE AsAgreed(m)'
    <3>1. m \in S \ touched /\ m # n
      BY <1>2, <1>8, <2>1
    <3>2. dir'[m] = dir[m]
      BY <1>1, <1>3, <1>8, <3>1
    <3> QED
      BY <1>2, <1>8, <3>1, <3>2 DEF Confirmed, AsAgreed
  <2> QED
    BY <2>1 DEF Confirmed
<1>9. OpenInv'
  BY <1>1, <1>2, <1>3, <1>8, FileNames DEF SnapshotInv, TypeOK, AgreedInv, OpenInv, Accepted, Listed
<1>10. RevalidateInv'
  BY <1>1, <1>2, <1>3, <1>8 DEF SnapshotInv, TypeOK, RevalidateInv
<1> QED
  BY <1>5, <1>6, <1>7, <1>9, <1>10, <1>11 DEF SnapshotInv

LEMMA LstatInv ==
  ASSUME SnapshotInv, NEW n \in Names, Lstat(n)
  PROVE  SnapshotInv'
<1>1. CASE Fail
  BY <1>1, FailInv
<1>2. CASE /\ dir[n] \in Contents /\ (pc = "compare" => n \in DOMAIN agreed)
           /\ file' = [name |-> n, stage |-> "seen", changed |-> FALSE]
           /\ UNCHANGED <<dir, touched, pc, op, prefix, todo, entries, stream, walk>>
  <2>1. n \in Wanted
    BY DEF Lstat
  <2>2. FileInv'
    BY <1>2, <2>1, FileNames DEF SnapshotInv, TypeOK, Stages, FileInv, Wanted, First, stream
  <2>3. TypeOK'
    BY <1>2 DEF SnapshotInv, TypeOK, FileState, stream, walk
  <2>4. (StageInv /\ AgreedInv /\ KnownInv /\ WalkInv /\ OpenInv /\ RevalidateInv)'
    BY <1>2 DEF SnapshotInv, stream, walk, StageInv, AgreedInv, Accepted, Listed, KnownInv, Loaded, WalkInv,
                OpenInv, RevalidateInv, Confirmed, AsAgreed
  <2>5. ReadInv'
    BY <1>2 DEF SnapshotInv, ReadInv, Lstat, stream, walk
  <2> QED
    BY <2>2, <2>3, <2>4, <2>5 DEF SnapshotInv
<1> QED
  BY <1>1, <1>2 DEF Lstat

LEMMA OpenFileInv == SnapshotInv /\ OpenFile => SnapshotInv'
<1> SUFFICES ASSUME SnapshotInv, OpenFile PROVE SnapshotInv'
  OBVIOUS
<1>1. CASE Fail
  BY <1>1, FailInv
<1>2. CASE /\ file' = [file EXCEPT !.stage = "open"]
           /\ UNCHANGED <<dir, touched, pc, op, prefix, todo, entries, stream, walk>>
  <2>1. file \in FileState /\ file.stage = "seen"
    BY DEF SnapshotInv, TypeOK, OpenFile
  <2>2. file' \in FileState /\ file'.stage = "open" /\ file'.name = file.name /\ file'.changed = file.changed
    BY <1>2, <2>1 DEF FileState
  <2>3. FileInv'
    BY <1>2, <2>1, <2>2 DEF SnapshotInv, FileInv, stream
  <2>4. TypeOK'
    BY <1>2, <2>2 DEF SnapshotInv, TypeOK, stream, walk
  <2>5. (StageInv /\ AgreedInv /\ KnownInv /\ WalkInv /\ OpenInv /\ RevalidateInv)'
    BY <1>2 DEF SnapshotInv, stream, walk, StageInv, AgreedInv, Accepted, Listed, KnownInv, Loaded, WalkInv,
                OpenInv, RevalidateInv, Confirmed, AsAgreed
  <2>6. ReadInv'
    <3> SUFFICES ASSUME pc = "data", ~file.changed
                 PROVE  /\ Len(got) <= Len(dir[file.name])
                        /\ got = SubSeq(dir[file.name], 1, Len(got))
      BY <1>2, <2>2 DEF ReadInv, stream, walk
    <3>1. got = <<>>
      BY <2>1 DEF SnapshotInv, ReadInv
    <3>2. dir[file.name] \in Seq(Atoms)
      BY <2>1, ContentAssumption DEF SnapshotInv, FileInv
    <3> QED
      BY <3>1, <3>2
  <2> QED
    BY <2>3, <2>4, <2>5, <2>6 DEF SnapshotInv
<1> QED
  BY <1>1, <1>2 DEF OpenFile

(* What is read of a file is some content, and outside walks it is the     *)
(* content the file still has unless a change is on record.                *)
LEMMA BytesRead ==
  ASSUME SnapshotInv, file.stage = "open", NEW c \in Bytes
  PROVE  /\ c \in Contents
         /\ file.name \in Names
         /\ op # "walk" /\ file.name \notin touched => dir[file.name] = c
BY DEF SnapshotInv, FileInv, Bytes, Closed

LEMMA ReadSignableInv == SnapshotInv /\ ReadSignable => SnapshotInv'
<1> SUFFICES ASSUME SnapshotInv, ReadSignable PROVE SnapshotInv'
  OBVIOUS
<1>1. /\ pc = "signable" /\ pc' = "additional" /\ file' = Closed
      /\ UNCHANGED <<dir, touched, op, prefix, todo, entries, agreed, known, spaces, got, delivered>>
  BY DEF ReadSignable, Reading, walk
<1>2. signable' \in Contents /\ file.name = Signable
  BY <1>1, BytesRead DEF ReadSignable, Reading, SnapshotInv, FileInv, Closed
<1>3. op = "open" /\ prefix = Public /\ (Signable \notin touched => dir[Signable] = signable')
  BY <1>1, <1>2, BytesRead DEF ReadSignable, Reading, SnapshotInv, StageInv
<1>4. TypeOK'
  BY <1>1, <1>2 DEF SnapshotInv, TypeOK, Stages, FileState, Closed
<1>5. (FileInv /\ StageInv /\ AgreedInv /\ KnownInv /\ WalkInv /\ ReadInv /\ OpenInv /\ RevalidateInv)'
  BY <1>1, <1>2, <1>3 DEF FileInv, ReadInv, StageInv, AgreedInv, Accepted, KnownInv, Loaded, WalkInv, OpenInv,
                          RevalidateInv, Closed
<1> QED
  BY <1>4, <1>5 DEF SnapshotInv

LEMMA ReadAdditionalInv == SnapshotInv /\ ReadAdditional => SnapshotInv'
<1> SUFFICES ASSUME SnapshotInv, ReadAdditional, ~Fail PROVE SnapshotInv'
  BY FailInv
<1>1. PICK c \in Bytes : SnapshotAccepted(c) /\ agreed' = HashesOfFiles(c)
  BY DEF ReadAdditional
<1>2. /\ pc = "additional" /\ pc' = "list" /\ file' = Closed
      /\ UNCHANGED <<dir, touched, op, prefix, todo, entries, signable, known, spaces, got, delivered>>
  BY DEF ReadAdditional, Reading, walk
<1>3. /\ c \in Contents /\ file.name = Additional
      /\ signable \in Contents /\ op = "open" /\ prefix = Public
      /\ Additional \notin touched => dir[Additional] = c
      /\ Signable \notin touched => dir[Signable] = signable
  BY <1>2, BytesRead DEF ReadAdditional, Reading, SnapshotInv, FileInv, AgreedInv, StageInv, OpenInv, Closed
<1>4. Signable # Additional
  BY DEF Signable, Additional
<1>5. Listed \subseteq Names /\ \A n \in Listed : MetadataOf(signable).files[n] \in Digests
  BY <1>1, <1>3, DecodingAssumption DEF SnapshotAccepted, Listed
<1>6. /\ DOMAIN agreed' = Listed \union {Signable, Additional}
      /\ agreed' \in [DOMAIN agreed' -> Digests]
      /\ \A n \in Listed : agreed'[n] = MetadataOf(signable).files[n]
      /\ agreed'[Signable] = Hash(signable)
      /\ agreed'[Additional] = Hash(c)
  BY <1>1, <1>3, <1>4, <1>5, HashAssumption DEF HashesOfFiles, SnapshotAccepted
<1>7. TypeOK'
  BY <1>2, <1>5, <1>6, FileNames DEF SnapshotInv, TypeOK, Stages, FileState, Closed
<1>8. AgreedInv'
  BY <1>1, <1>2, <1>3, <1>6 DEF AgreedInv, SnapshotAccepted, Listed
<1>9. OpenInv'
  BY <1>2, <1>3, <1>6 DEF OpenInv, Confirmed, AsAgreed
<1>10. (FileInv /\ StageInv /\ KnownInv /\ WalkInv /\ ReadInv /\ RevalidateInv)'
  BY <1>2, <1>3 DEF FileInv, ReadInv, StageInv, KnownInv, Loaded, WalkInv, RevalidateInv, Closed
<1> QED
  BY <1>7, <1>8, <1>9, <1>10 DEF SnapshotInv

LEMMA ListEntriesInv == SnapshotInv /\ ListEntries => SnapshotInv'
<1> SUFFICES ASSUME SnapshotInv, ListEntries, ~Fail PROVE SnapshotInv'
  BY FailInv
<1>1. /\ pc = "list" /\ pc' = "digest" /\ op = "open"
      /\ Present \subseteq DOMAIN agreed
      /\ todo' = Listed
      /\ UNCHANGED <<dir, touched, op, prefix, file, entries, signable, agreed, known, spaces, got, delivered>>
  BY DEF ListEntries, stream, walk, SnapshotInv, StageInv
<1>2. Listed \subseteq Names
  BY <1>1, DecodingAssumption DEF SnapshotInv, AgreedInv, Accepted, Listed
<1>3. file = Closed
  BY <1>1 DEF SnapshotInv, FileInv
<1>4. TypeOK'
  BY <1>1, <1>2 DEF SnapshotInv, TypeOK, Stages
<1>5. Confirmed(Names \ DOMAIN agreed)
  BY <1>1 DEF Confirmed, AsAgreed, Present
<1>6. OpenInv'
  BY <1>1, <1>5 DEF SnapshotInv, OpenInv, Accepted, Confirmed, AsAgreed, Listed
<1>7. (FileInv /\ StageInv /\ AgreedInv /\ KnownInv /\ WalkInv /\ ReadInv /\ RevalidateInv)'
  BY <1>1, <1>3 DEF SnapshotInv, ReadInv, FileInv, StageInv, AgreedInv, Accepted, Listed, KnownInv, Loaded, WalkInv,
                    RevalidateInv, Closed
<1> QED
  BY <1>4, <1>6, <1>7 DEF SnapshotInv

(* One more digest is as agreed.                                           *)
LEMMA DigestCompared ==
  ASSUME SnapshotInv, NEW stage \in {"digest", "compare"}, NEW next \in Stages,
         CompareDigest(stage, next), ~Fail
  PROVE  /\ pc = stage /\ file' = Closed
         /\ file.name \in todo /\ file.name \in DOMAIN agreed
         /\ todo' = todo \ {file.name}
         /\ pc' = IF todo' = {} THEN next ELSE pc
         /\ file.name \notin touched => AsAgreed(file.name)
         /\ UNCHANGED <<dir, touched, op, prefix, entries, signable, agreed, known, spaces, got, delivered>>
<1>1. PICK c \in Bytes : Hash(c) = agreed[file.name]
  BY DEF CompareDigest
<1>2. /\ pc = stage /\ file.stage = "open" /\ file' = Closed
      /\ todo' = todo \ {file.name}
      /\ pc' = IF todo = {file.name} THEN next ELSE pc
      /\ UNCHANGED <<dir, touched, op, prefix, entries, signable, agreed, known, spaces, got, delivered>>
  BY DEF CompareDigest, Reading, stream, walk
<1>3. file.name \in todo /\ op # "walk"
  BY <1>2 DEF SnapshotInv, FileInv, StageInv, Closed
<1>4. todo' = {} <=> todo = {file.name}
  BY <1>2, <1>3
<1>5. c \in Contents /\ (file.name \notin touched => dir[file.name] = c)
  BY <1>2, <1>3, BytesRead
<1>6. file.name \in DOMAIN agreed
  BY <1>2, <1>3 DEF SnapshotInv, FileInv, StageInv, OpenInv, AgreedInv, Accepted, Closed
<1>7. file.name \notin touched => AsAgreed(file.name)
  BY <1>1, <1>5, <1>6 DEF AsAgreed
<1> QED
  BY <1>2, <1>3, <1>4, <1>6, <1>7

LEMMA HashFileInv == SnapshotInv /\ HashFile => SnapshotInv'
<1> SUFFICES ASSUME SnapshotInv, HashFile, ~Fail PROVE SnapshotInv'
  BY FailInv
<1> DEFINE n == file.name
<1>1. /\ pc = "digest" /\ file' = Closed /\ n \in todo /\ todo' = todo \ {n}
      /\ pc' = IF todo' = {} THEN "namespaces" ELSE pc
      /\ n \notin touched => AsAgreed(n)
      /\ UNCHANGED <<dir, touched, op, prefix, entries, signable, agreed, known, spaces, got, delivered>>
  BY DigestCompared DEF HashFile, Stages
<1>2. op = "open" /\ prefix = Public /\ todo \subseteq Listed
  BY <1>1 DEF SnapshotInv, StageInv, OpenInv
<1>3. TypeOK'
  BY <1>1 DEF SnapshotInv, TypeOK, Stages, FileState, Closed
<1>4. Confirmed(Listed \ todo')
  BY <1>1, <1>2 DEF SnapshotInv, OpenInv, Confirmed
<1>5. OpenInv'
  <2>1. Accepted' /\ Confirmed({Signable, Additional}) /\ Confirmed(Names \ DOMAIN agreed)
    BY <1>1, <1>2 DEF SnapshotInv, OpenInv, Accepted
  <2>2. \A S : Confirmed(S)' = Confirmed(S)
    BY <1>1 DEF Confirmed, AsAgreed
  <2>3. Listed' = Listed /\ (todo' = {} => Listed \ todo' = Listed)
    BY <1>1 DEF Listed
  <2> QED
    BY <1>1, <1>2, <1>4, <2>1, <2>2, <2>3 DEF OpenInv, Accepted
<1>6. (StageInv /\ AgreedInv)'
  BY <1>1, <1>2 DEF SnapshotInv, StageInv, AgreedInv, Accepted, Listed
<1>7. (FileInv /\ KnownInv /\ WalkInv /\ ReadInv /\ RevalidateInv)'
  BY <1>1, <1>2 DEF FileInv, ReadInv, KnownInv, Loaded, WalkInv, RevalidateInv, Public, Hashes, Closed
<1> QED
  BY <1>3, <1>5, <1>6, <1>7 DEF SnapshotInv

(* All listed entries are agreed files, and there are as many of them as   *)
(* agreed files: none is missing.                                          *)
LEMMA NoneMissing ==
  ASSUME SnapshotInv, entries \subseteq DOMAIN agreed,
         Cardinality(entries) = Cardinality(DOMAIN agreed)
  PROVE  entries = DOMAIN agreed
<1>1. IsFiniteSet(DOMAIN agreed)
  BY DirectoryAssumption, FS_Subset DEF SnapshotInv, TypeOK
<1> QED
  BY <1>1, FS_Subset

LEMMA CompareFileInv == SnapshotInv /\ CompareFile => SnapshotInv'
<1> SUFFICES ASSUME SnapshotInv, CompareFile, ~Fail PROVE SnapshotInv'
  BY FailInv
<1> DEFINE n == file.name
<1>1. /\ pc = "compare" /\ file' = Closed /\ n \in todo /\ n \in DOMAIN agreed /\ todo' = todo \ {n}
      /\ pc' = IF todo' = {} THEN "ready" ELSE pc
      /\ n \notin touched => AsAgreed(n)
      /\ UNCHANGED <<dir, touched, op, prefix, entries, signable, agreed, known, spaces, got, delivered>>
  BY DigestCompared DEF CompareFile, Stages
<1>2. op = "revalidate"
  BY <1>1 DEF SnapshotInv, StageInv
<1>3. TypeOK'
  BY <1>1 DEF SnapshotInv, TypeOK, Stages, FileState, Closed
<1>4. \A S : Confirmed(S)' = Confirmed(S)
  BY <1>1 DEF Confirmed, AsAgreed
<1>5. /\ entries \ todo' \subseteq DOMAIN agreed
      /\ Confirmed(entries \ todo')
  BY <1>1, <1>2 DEF SnapshotInv, RevalidateInv, Confirmed
<1>6. todo' = {} => Confirmed(Names)
  <2> SUFFICES ASSUME todo' = {}, NEW m \in Names \ touched PROVE AsAgreed(m)
    BY DEF Confirmed
  <2>1. entries = DOMAIN agreed
    BY <1>1, <1>2, <1>5, NoneMissing DEF SnapshotInv, RevalidateInv
  <2>2. m \notin entries => dir[m] = Absent
    BY <1>1, <1>2 DEF SnapshotInv, RevalidateInv
  <2> QED
    BY <1>5, <2>1, <2>2 DEF Confirmed, AsAgreed
<1>7. RevalidateInv'
  BY <1>1, <1>2, <1>4, <1>5, <1>6 DEF SnapshotInv, RevalidateInv
<1>8. (StageInv /\ AgreedInv /\ KnownInv)'
  BY <1>1, <1>2 DEF SnapshotInv, StageInv, AgreedInv, Accepted, Listed, KnownInv, Loaded
<1>9. (FileInv /\ WalkInv /\ ReadInv /\ OpenInv)'
  BY <1>1, <1>2 DEF FileInv, ReadInv, WalkInv, OpenInv, Closed
<1> QED
  BY <1>3, <1>7, <1>8, <1>9 DEF SnapshotInv

LEMMA OpenNamespacesInv == SnapshotInv /\ OpenNamespaces => SnapshotInv'
<1> SUFFICES ASSUME SnapshotInv, OpenNamespaces, ~Fail PROVE SnapshotInv'
  BY FailInv
<1>1. PICK c \in Bytes :
        /\ NamespacesAccepted(c)
        /\ known' = [known EXCEPT ![prefix] = NamespacesOf(c)]
  BY DEF OpenNamespaces
<1>2. /\ pc = "namespaces" /\ op = "open" /\ file.stage = "open" /\ file' = Closed
      /\ IF prefix = Public /\ HasHashes
         THEN prefix' = Hashes /\ pc' = pc
         ELSE pc' = "ready" /\ prefix' = prefix
      /\ UNCHANGED <<dir, touched, op, todo, entries, signable, agreed, spaces, got, delivered>>
  BY DEF OpenNamespaces, Reading, walk
<1>3. c \in Contents /\ Hash(c) = agreed[MetaFile(prefix)] /\ NamespacesOf(c) \in Seq(Namespace)
  BY <1>1, <1>2, BytesRead, DecodingAssumption DEF NamespacesAccepted
<1>4. prefix \in Parts /\ prefix' \in Parts /\ known \in [Parts -> Seq(Namespace)]
  BY <1>2 DEF SnapshotInv, TypeOK, Parts
<1>5. TypeOK'
  BY <1>1, <1>2, <1>3, <1>4 DEF SnapshotInv, TypeOK, Stages, FileState, Closed
<1>6. KnownInv'
  <2> SUFFICES ASSUME NEW p \in Parts, Loaded(p)', MetaFile(p) \in DOMAIN agreed
               PROVE  \E d \in Contents : Hash(d) = agreed[MetaFile(p)] /\ known'[p] = NamespacesOf(d)
    BY <1>2 DEF KnownInv
  <2>1. CASE p = prefix
    BY <1>1, <1>3, <1>4, <2>1
  <2>2. CASE p # prefix
    <3>1. known'[p] = known[p]
      BY <1>1, <1>4, <2>2
    <3>2. prefix = Hashes /\ p = Public
      <4>1. CASE prefix = Public /\ HasHashes
        BY <1>2, <2>2, <4>1 DEF Loaded, Parts
      <4>2. CASE prefix = Public /\ ~HasHashes
        BY <1>2, <2>2, <4>2 DEF SnapshotInv, AgreedInv, Accepted, HasHashes, Parts,
           MetaFile, DataFile, Signable, Additional, Hashes
      <4> QED
        BY <1>4, <2>2, <4>1, <4>2 DEF Parts
    <3> QED
      BY <1>2, <3>1, <3>2 DEF SnapshotInv, KnownInv, Loaded
  <2> QED
    BY <2>1, <2>2
<1>7. StageInv'
  <2>1. HasHashes => MetaFile(Hashes) \in DOMAIN agreed
    BY <1>2 DEF SnapshotInv, AgreedInv, Accepted, HasHashes, DataFile, Signable, Additional, Hashes
  <2> QED
    BY <1>2, <2>1 DEF StageInv
<1>8. AgreedInv'
  BY <1>2 DEF SnapshotInv, AgreedInv, Accepted, Listed
<1>9. OpenInv'
  BY <1>2 DEF SnapshotInv, OpenInv, Accepted, Confirmed, AsAgreed, Listed
<1>10. (FileInv /\ WalkInv /\ ReadInv /\ RevalidateInv)'
  BY <1>2 DEF FileInv, ReadInv, WalkInv, RevalidateInv, Closed
<1> QED
  BY <1>5, <1>6, <1>7, <1>8, <1>9, <1>10 DEF SnapshotInv

LEMMA StartWalkInv ==
  ASSUME SnapshotInv, NEW p \in Parts, StartWalk(p)
  PROVE  SnapshotInv'
<1>1. /\ pc = "ready" /\ op' = "walk" /\ prefix' = p /\ touched' = {}
      /\ pc' = IF p = Hashes /\ ~HasHashes THEN "ready" ELSE "namespaces"
      /\ spaces' = <<>> /\ got' = <<>> /\ delivered' = <<>>
      /\ UNCHANGED <<dir, file, todo, entries, signable, agreed, known>>
  BY DEF StartWalk, stream
<1>2. TypeOK'
  BY <1>1, ContentAssumption DEF SnapshotInv, TypeOK, Stages
<1>3. file = Closed
  BY <1>1 DEF SnapshotInv, FileInv
<1>4. pc' = "namespaces" => DataFile(p) \in DOMAIN agreed /\ MetaFile(p) \in DOMAIN agreed
  <2>1. CASE p = Public
    BY <1>1, <2>1 DEF SnapshotInv, AgreedInv, Accepted
  <2>2. CASE p = Hashes
    BY <1>1, <2>2 DEF SnapshotInv, AgreedInv, Accepted, HasHashes, DataFile, Signable, Additional, Hashes
  <2> QED
    BY <2>1, <2>2 DEF Parts
<1>5. pc' = "ready" => DataFile(p) \notin DOMAIN agreed
  BY <1>1 DEF HasHashes
<1>6. (StageInv /\ WalkInv)'
  BY <1>1, <1>4, <1>5 DEF StageInv, WalkInv
<1>7. (AgreedInv /\ KnownInv)'
  BY <1>1 DEF SnapshotInv, AgreedInv, Accepted, Listed, KnownInv, Loaded
<1>8. (FileInv /\ ReadInv /\ OpenInv /\ RevalidateInv)'
  BY <1>1, <1>3 DEF FileInv, ReadInv, OpenInv, RevalidateInv, Closed
<1> QED
  BY <1>2, <1>6, <1>7, <1>8 DEF SnapshotInv

(* The namespaces a walk goes through are those known since the opening:   *)
(* both are decoded from the one content with the agreed digest.           *)
LEMMA WalkNamespacesInv == SnapshotInv /\ WalkNamespaces => SnapshotInv'
<1> SUFFICES ASSUME SnapshotInv, WalkNamespaces, ~Fail PROVE SnapshotInv'
  BY FailInv
<1>1. PICK c \in Bytes : NamespacesAccepted(c) /\ spaces' = NamespacesOf(c)
  BY DEF WalkNamespaces
<1>2. /\ pc = "namespaces" /\ op = "walk" /\ file.stage = "open" /\ file' = Closed /\ pc' = "data"
      /\ UNCHANGED <<dir, touched, op, prefix, todo, entries, signable, agreed, known, got, delivered>>
  BY DEF WalkNamespaces, Reading, stream
<1>3. c \in Contents /\ Hash(c) = agreed[MetaFile(prefix)] /\ NamespacesOf(c) \in Seq(Namespace)
  BY <1>1, <1>2, BytesRead, DecodingAssumption DEF NamespacesAccepted
<1>4. prefix \in Parts /\ MetaFile(prefix) \in DOMAIN agreed
  BY <1>2 DEF SnapshotInv, TypeOK, StageInv
<1>5. spaces' = known[prefix]
  <2>1. PICK d \in Contents : Hash(d) = agreed[MetaFile(prefix)] /\ known[prefix] = NamespacesOf(d)
    BY <1>2, <1>4 DEF SnapshotInv, KnownInv, Loaded, Accepted
  <2> QED
    BY <1>1, <1>3, <2>1, HashAssumption
<1>6. TypeOK'
  BY <1>1, <1>2, <1>3 DEF SnapshotInv, TypeOK, Stages, FileState, Closed
<1>7. got = <<>> /\ delivered = <<>> /\ DataFile(prefix) \in DOMAIN agreed
  BY <1>2 DEF SnapshotInv, WalkInv
<1>8. WalkInv'
  BY <1>2, <1>5, <1>7 DEF WalkInv
<1>9. (StageInv /\ AgreedInv /\ KnownInv)'
  BY <1>2 DEF SnapshotInv, StageInv, AgreedInv, Accepted, Listed, KnownInv, Loaded
<1>10. (FileInv /\ ReadInv /\ OpenInv /\ RevalidateInv)'
  BY <1>2, <1>7 DEF FileInv, ReadInv, OpenInv, RevalidateInv, Closed
<1> QED
  BY <1>6, <1>8, <1>9, <1>10 DEF SnapshotInv

(* What a step on the data file leaves alone.                              *)
LEMMA DataStep ==
  ASSUME SnapshotInv, pc = "data", pc' \in {"data", "ready"},
         file' \in {file, Closed}, pc' = "ready" => file' = Closed,
         UNCHANGED <<dir, touched, op, prefix, todo, entries, signable, agreed, known, spaces>>
  PROVE  (FileInv /\ StageInv /\ AgreedInv /\ KnownInv /\ OpenInv /\ RevalidateInv)'
<1>1. op = "walk"
  BY DEF SnapshotInv, StageInv
<1>2. (StageInv /\ AgreedInv /\ KnownInv)'
  BY <1>1 DEF SnapshotInv, StageInv, AgreedInv, Accepted, Listed, KnownInv, Loaded
<1>3. FileInv'
  BY DEF SnapshotInv, FileInv, Closed
<1> QED
  BY <1>1, <1>2, <1>3 DEF OpenInv, RevalidateInv

(* The next atom read extends what has been read to some content, and to a *)
(* longer beginning of the file unless that has changed.                   *)
LEMMA NextAtomRead ==
  ASSUME SnapshotInv, Reading("data"), NEW a \in NextAtoms, a # EndOfFile
  PROVE  /\ a \in Atoms /\ Append(got, a) \in Contents
         /\ ~file.changed => /\ Len(got) + 1 <= Len(dir[file.name])
                             /\ Append(got, a) = SubSeq(dir[file.name], 1, Len(got) + 1)
<1>1. CASE file.changed
  BY <1>1 DEF NextAtoms
<1>2. CASE ~file.changed
  <2> DEFINE content == dir[file.name]
  <2>1. content \in Contents /\ content \in Seq(Atoms) /\ got \in Seq(Atoms)
    BY <1>2, ContentAssumption DEF SnapshotInv, TypeOK, FileInv, Reading, Closed
  <2>2. Len(got) < Len(content) /\ a = content[Len(got) + 1]
    BY <1>2, <2>1 DEF NextAtoms
  <2>3. got = SubSeq(content, 1, Len(got))
    BY <1>2 DEF SnapshotInv, ReadInv, Reading
  <2> HIDE DEF content
  <2>4. Append(got, a) = SubSeq(content, 1, Len(got) + 1)
    BY <2>1, <2>2, <2>3
  <2>5. Len(got) + 1 \in 0..Len(content)
    BY <2>1, <2>2
  <2>6. a \in Atoms /\ Append(got, a) \in Contents
    BY <2>1, <2>2, <2>4, <2>5, ContentAssumption
  <2> QED
    BY <2>1, <2>2, <2>4, <2>6 DEF content
<1> QED
  BY <1>1, <1>2

LEMMA ReadFormatInv == SnapshotInv /\ ReadFormat => SnapshotInv'
<1> SUFFICES ASSUME SnapshotInv, ReadFormat, ~Fail PROVE SnapshotInv'
  BY FailInv
<1>1. PICK a \in NextAtoms : a = FormatByte /\ got' = <<a>>
  BY DEF ReadFormat
<1>2. /\ pc = "data" /\ got = <<>> /\ file.stage = "open"
      /\ UNCHANGED <<dir, touched, pc, op, prefix, file, todo, entries, signable, agreed, known, spaces, delivered>>
  BY DEF ReadFormat, Reading, stream
<1>3. /\ got' \in Contents
      /\ ~file.changed => Len(got') <= Len(dir[file.name]) /\ got' = SubSeq(dir[file.name], 1, Len(got'))
  <2>1. a # EndOfFile
    BY <1>1, ContentAssumption
  <2>2. Append(got, a) = <<a>> /\ Len(got) = 0 /\ Len(got') = 1
    BY <1>1, <1>2
  <2> QED
    BY <1>1, <2>1, <2>2, NextAtomRead DEF ReadFormat
<1>4. TypeOK'
  BY <1>2, <1>3 DEF SnapshotInv, TypeOK
<1>5. WalkInv'
  <2>1. delivered = <<>>
    BY <1>2 DEF SnapshotInv, WalkInv, StageInv
  <2>2. Len(got') = 1 /\ got' # <<>>
    BY <1>1
  <2> QED
    BY <1>2, <2>1, <2>2 DEF SnapshotInv, WalkInv
<1>6. ReadInv'
  BY <1>2, <1>3 DEF ReadInv
<1> QED
  BY <1>2, <1>4, <1>5, <1>6, DataStep DEF SnapshotInv

LEMMA ReadRecordInv == SnapshotInv /\ ReadRecord => SnapshotInv'
<1> SUFFICES ASSUME SnapshotInv, ReadRecord, ~Fail PROVE SnapshotInv'
  BY FailInv
<1> DEFINE k == Len(delivered) + 1
<1>1. PICK a \in NextAtoms :
        /\ a # EndOfFile
        /\ got' = Append(got, a)
        /\ delivered' = Append(delivered, [namespace |-> Label(spaces, k), record |-> a])
  BY DEF ReadRecord
<1>2. /\ pc = "data" /\ got # <<>> /\ file.stage = "open" /\ HasRecord(spaces, k)
      /\ UNCHANGED <<dir, touched, pc, op, prefix, file, todo, entries, signable, agreed, known, spaces>>
  BY DEF ReadRecord, Reading, stream
<1>3. /\ a \in Atoms /\ got' \in Contents
      /\ ~file.changed => Len(got) + 1 <= Len(dir[file.name]) /\ got' = SubSeq(dir[file.name], 1, Len(got) + 1)
  BY <1>1, NextAtomRead DEF ReadRecord
<1>4. got \in Seq(Atoms) /\ delivered \in Seq(Delivery)
  BY ContentAssumption DEF SnapshotInv, TypeOK
<1>5. Len(got') = Len(got) + 1 /\ got' # <<>>
  BY <1>1, <1>4
<1>6. TypeOK'
  <2>1. spaces \in Seq(Namespace)
    BY DEF SnapshotInv, TypeOK
  <2>2. Label(spaces, k) \in Nat
    <3> DEFINE i == CHOOSE j \in DOMAIN spaces : Within(spaces, j, k)
    <3>1. i \in DOMAIN spaces
      BY <1>2 DEF HasRecord
    <3>2. spaces[i] \in Namespace
      BY <2>1, <3>1
    <3> QED
      BY <3>2 DEF Label, Namespace
  <2> QED
    BY <1>1, <1>2, <1>3, <1>4, <2>2 DEF SnapshotInv, TypeOK, Delivery
<1>7. WalkInv'
  <2>1. /\ op = "walk" /\ DataFile(prefix) \in DOMAIN agreed /\ spaces = known[prefix]
        /\ Len(got) = Len(delivered) + 1
        /\ \A j \in DOMAIN delivered :
             /\ HasRecord(spaces, j)
             /\ delivered[j] = [namespace |-> Label(spaces, j), record |-> got[j + 1]]
    BY <1>2 DEF SnapshotInv, WalkInv, StageInv
  <2>2. ASSUME NEW j \in DOMAIN delivered'
        PROVE  /\ HasRecord(spaces, j)
               /\ delivered'[j] = [namespace |-> Label(spaces, j), record |-> got'[j + 1]]
    <3>1. CASE j = k
      BY <1>1, <1>2, <1>4, <2>1, <3>1
    <3>2. CASE j # k
      <4>1. j \in DOMAIN delivered /\ delivered'[j] = delivered[j]
        BY <1>1, <1>4, <2>2, <3>2
      <4>2. j + 1 \in 1..Len(got) /\ got'[j + 1] = got[j + 1]
        BY <1>1, <1>4, <2>1, <4>1
      <4> QED
        BY <2>1, <4>1, <4>2
    <3> QED
      BY <3>1, <3>2
  <2>3. Len(got') = Len(delivered') + 1
    BY <1>1, <1>4, <2>1
  <2> QED
    BY <1>2, <1>5, <2>1, <2>2, <2>3 DEF WalkInv
<1>8. ReadInv'
  BY <1>2, <1>3, <1>5 DEF ReadInv
<1> QED
  BY <1>2, <1>6, <1>7, <1>8, DataStep DEF SnapshotInv

LEMMA FinishWalkInv == SnapshotInv /\ FinishWalk => SnapshotInv'
<1> SUFFICES ASSUME SnapshotInv, FinishWalk, ~Fail PROVE SnapshotInv'
  BY FailInv
<1>1. /\ pc = "data" /\ got # <<>> /\ pc' = "ready" /\ file' = Closed
      /\ Hash(got) = agreed[DataFile(prefix)]
      /\ UNCHANGED <<dir, touched, op, prefix, todo, entries, signable, agreed, known, spaces, got, delivered>>
  BY DEF FinishWalk, Reading, stream, walk
<1>2. TypeOK'
  BY <1>1 DEF SnapshotInv, TypeOK, Stages, FileState, Closed
<1>3. WalkInv' /\ ReadInv'
  BY <1>1 DEF SnapshotInv, WalkInv, ReadInv, StageInv
<1> QED
  BY <1>1, <1>2, <1>3, DataStep DEF SnapshotInv

LEMMA RevalidateStartInv == SnapshotInv /\ Revalidate => SnapshotInv'
<1> SUFFICES ASSUME SnapshotInv, Revalidate, ~Fail PROVE SnapshotInv'
  BY FailInv
<1>1. /\ pc = "ready" /\ op' = "revalidate" /\ touched' = {}
      /\ pc' = "compare" /\ todo' = Present /\ entries' = Present
      /\ Cardinality(Present) = Cardinality(DOMAIN agreed)
      /\ UNCHANGED <<dir, prefix, file, signable, agreed, known, spaces, got, delivered>>
  BY DEF Revalidate, stream, walk
<1>2. file = Closed
  BY <1>1 DEF SnapshotInv, FileInv
<1>3. TypeOK'
  BY <1>1 DEF SnapshotInv, TypeOK, Stages, Present
<1>4. RevalidateInv'
  BY <1>1 DEF RevalidateInv, Confirmed, Present
<1>5. (AgreedInv /\ KnownInv)'
  BY <1>1 DEF SnapshotInv, AgreedInv, Accepted, Listed, KnownInv, Loaded
<1>6. (FileInv /\ StageInv /\ WalkInv /\ ReadInv /\ OpenInv)'
  BY <1>1, <1>2 DEF FileInv, StageInv, WalkInv, ReadInv, OpenInv, Closed
<1> QED
  BY <1>3, <1>4, <1>5, <1>6 DEF SnapshotInv

LEMMA StutterInv == SnapshotInv /\ UNCHANGED vars => SnapshotInv'
BY DEF vars, SnapshotInv, TypeOK, FileInv, StageInv, AgreedInv, Accepted, Listed, KnownInv, Loaded, WalkInv,
       ReadInv, OpenInv, RevalidateInv, Confirmed, AsAgreed

LEMMA NextInv == SnapshotInv /\ [Next]_vars => SnapshotInv'
<1> SUFFICES ASSUME SnapshotInv, [Next]_vars PROVE SnapshotInv'
  OBVIOUS
<1>1. CASE \E n \in Names : ChangeEntry(n)
  BY <1>1, ChangeEntryInv
<1>2. CASE \E n \in Names : Lstat(n)
  BY <1>2, LstatInv
<1>3. CASE OpenFile
  BY <1>3, OpenFileInv
<1>4. CASE Opens
  BY <1>4, ReadSignableInv, ReadAdditionalInv, ListEntriesInv, HashFileInv, OpenNamespacesInv DEF Opens
<1>5. CASE Walks
  BY <1>5, StartWalkInv, WalkNamespacesInv, ReadFormatInv, ReadRecordInv, FinishWalkInv DEF Walks
<1>6. CASE Revalidate \/ CompareFile
  BY <1>6, RevalidateStartInv, CompareFileInv
<1>7. CASE ReportError
  BY <1>7, FailInv DEF ReportError
<1>8. CASE UNCHANGED vars
  BY <1>8, StutterInv
<1> QED
  BY <1>1, <1>2, <1>3, <1>4, <1>5, <1>6, <1>7, <1>8 DEF Next

(* What the reader knows at each of its steps (OpenStream, walkRecords and *)
(* Revalidate) holds however the directory changes.                        *)
THEOREM ReaderInvariant == Spec => []SnapshotInv
BY InitInv, NextInv, PTL DEF Spec

(* Every variable of the reader keeps its type.                            *)
THEOREM ReaderTypeCorrect == Spec => []TypeOK
<1>1. SnapshotInv => TypeOK
  BY DEF SnapshotInv
<1> QED
  BY <1>1, ReaderInvariant, PTL

(* Only one content can have been agreed on.                               *)
LEMMA AgreedContentUnique ==
  ASSUME NEW n, NEW c \in Contents, Hash(c) = agreed[n]
  PROVE  AgreedContent(n) = c
<1>1. AgreedContent(n) \in Contents /\ Hash(AgreedContent(n)) = agreed[n]
  BY DEF AgreedContent
<1> QED
  BY <1>1, HashAssumption

LEMMA WalkAgreedHolds == SnapshotInv => WalkAgreed
<1> SUFFICES ASSUME SnapshotInv, pc = "ready", op = "walk" PROVE delivered = Expected(prefix)
  BY DEF WalkAgreed
<1>1. CASE DataFile(prefix) \notin DOMAIN agreed
  BY <1>1 DEF SnapshotInv, WalkInv, Expected
<1>2. CASE DataFile(prefix) \in DOMAIN agreed
  <2>1. /\ got \in Contents /\ got # <<>> /\ Hash(got) = agreed[DataFile(prefix)]
        /\ prefix \in Parts /\ delivered \in Seq(Delivery)
    BY <1>2 DEF SnapshotInv, TypeOK, WalkInv
  <2>2. AgreedContent(DataFile(prefix)) = got
    BY <2>1, AgreedContentUnique
  <2>3. MetaFile(prefix) \in DOMAIN agreed
    BY <1>2, <2>1 DEF SnapshotInv, AgreedInv, Accepted, Parts, DataFile, Signable, Additional, Public, Hashes
  <2>4. PICK c \in Contents : Hash(c) = agreed[MetaFile(prefix)] /\ known[prefix] = NamespacesOf(c)
    BY <2>1, <2>3 DEF SnapshotInv, KnownInv, Loaded
  <2>5. NamespacesOf(AgreedContent(MetaFile(prefix))) = spaces
    BY <1>2, <2>4, AgreedContentUnique DEF SnapshotInv, WalkInv
  <2>6. Len(delivered) = Len(got) - 1
    BY <1>2, <2>1 DEF SnapshotInv, WalkInv
  <2>7. \A k \in 1..Len(delivered) : delivered[k] = [namespace |-> Label(spaces, k), record |-> got[k + 1]]
    BY <1>2, <2>1 DEF SnapshotInv, WalkInv
  <2>8. delivered = [k \in 1..(Len(got) - 1) |-> [namespace |-> Label(spaces, k), record |-> got[k + 1]]]
    <3>1. delivered = [k \in 1..Len(delivered) |-> delivered[k]]
      BY <2>1
    <3>2. @ = [k \in 1..Len(delivered) |-> [namespace |-> Label(spaces, k), record |-> got[k + 1]]]
      BY <2>7, Zenon
    <3> QED
      BY <2>6, <3>1, <3>2
  <2> QED
    BY <1>2, <2>2, <2>5, <2>8 DEF Expected
<1> QED
  BY <1>1, <1>2

(* A walk that succeeds has yielded the agreed records (walkRecords).      *)
THEOREM WalksAgree == Spec => []WalkAgreed
BY ReaderInvariant, WalkAgreedHolds, PTL

(* A walk attributes records as the caller has counted them.               *)
THEOREM WalksDeliverAsCounted == Spec => []DeliversAsCounted
<1>1. SnapshotInv => DeliversAsCounted
  <2> SUFFICES ASSUME SnapshotInv, pc \in {"data", "ready"}, op = "walk", NEW k \in DOMAIN delivered
               PROVE  HasRecord(known[prefix], k) /\ delivered[k].namespace = Label(known[prefix], k)
    BY DEF DeliversAsCounted
  <2>1. DataFile(prefix) \in DOMAIN agreed
    BY DEF SnapshotInv, WalkInv
  <2> QED
    BY <2>1 DEF SnapshotInv, WalkInv
<1> QED
  BY <1>1, ReaderInvariant, PTL

(* OpenStream and Revalidate miss no difference that lasts.                *)
THEOREM LastingDifferencesFound == Spec => []NoLastingDifference
<1>1. SnapshotInv => NoLastingDifference
  <2> SUFFICES ASSUME SnapshotInv, pc = "ready", op \in {"open", "revalidate"}, NEW n \in Names \ touched
               PROVE  AsAgreed(n)
    BY DEF NoLastingDifference
  <2>1. CASE op = "open"
    <3>1. DOMAIN agreed = Listed \union {Signable, Additional}
      BY DEF SnapshotInv, AgreedInv, Accepted
    <3>2. Confirmed({Signable, Additional}) /\ Confirmed(Listed) /\ Confirmed(Names \ DOMAIN agreed)
      BY <2>1 DEF SnapshotInv, OpenInv, Accepted
    <3> QED
      BY <3>1, <3>2 DEF Confirmed
  <2>2. CASE op = "revalidate"
    BY <2>2 DEF SnapshotInv, RevalidateInv, Confirmed
  <2> QED
    BY <2>1, <2>2
<1> QED
  BY <1>1, ReaderInvariant, PTL

(* The snapshot hash stands for the digests of all files.                  *)
THEOREM OneHashBindsAll == Spec => []SnapshotHashBindsAll
<1>1. SnapshotInv => SnapshotHashBindsAll
  <2> SUFFICES ASSUME SnapshotInv, pc = "ready"
               PROVE  /\ DeclaredHash(AgreedContent(Additional)) = agreed[Signable]
                      /\ LET listed == MetadataOf(AgreedContent(Signable)).files
                         IN /\ DOMAIN agreed = DOMAIN listed \union {Signable, Additional}
                            /\ \A n \in DOMAIN listed : agreed[n] = listed[n]
    BY DEF SnapshotHashBindsAll
  <2>1. /\ signable \in Contents /\ agreed[Signable] = Hash(signable)
        /\ DOMAIN agreed = Listed \union {Signable, Additional}
        /\ \A n \in Listed : agreed[n] = MetadataOf(signable).files[n]
    BY DEF SnapshotInv, AgreedInv, Accepted
  <2>2. PICK c \in Contents : agreed[Additional] = Hash(c) /\ DeclaredHash(c) = Hash(signable)
    BY DEF SnapshotInv, AgreedInv, Accepted
  <2>3. AgreedContent(Signable) = signable /\ AgreedContent(Additional) = c
    BY <2>1, <2>2, AgreedContentUnique
  <2> QED
    BY <2>1, <2>2, <2>3 DEF Listed
<1> QED
  BY <1>1, ReaderInvariant, PTL

(* openRegular: only regular files are read.                               *)
THEOREM OnlyRegularFiles == Spec => []LinksNotFollowed
<1>1. SnapshotInv => LinksNotFollowed
  BY DEF SnapshotInv, FileInv, LinksNotFollowed, Closed
<1> QED
  BY <1>1, ReaderInvariant, PTL
-----------------------------------------------------------------------------
(***************************************************************************)
(* Keys of one namespace are distinct.  Records are compared with their    *)
(* predecessors only; that suffices because the namespaces are in order,   *)
(* so that the records of each come one after the other.                   *)
(***************************************************************************)

(* Induction, as the principle of the smallest counterexample.             *)
LEMMA SmallestNat ==
  ASSUME NEW S \in SUBSET Nat, S # {}
  PROVE  \E x \in S : \A y \in S : x <= y
<1> DEFINE R == OpToRel(<, Nat)
<1>1. IsWellFoundedOn(R, Nat)
  BY NatLessThanWellFounded
<1>2. \A x, y \in Nat : y < x => <<y, x>> \in R
  BY DEF OpToRel
<1> HIDE DEF R
<1>3. PICK x \in S : \A y \in S : ~(<<y, x>> \in R)
  BY <1>1, WFMin
<1>4. \A y \in S : ~(y < x)
  BY <1>2, <1>3
<1> QED
  BY <1>4

(* The sums of record counts are what their recursive definition says.     *)

Sums(ns, f, n) == f = [j \in 0..n |-> IF j = 0 THEN 0 ELSE f[j - 1] + ns[j].records]

LEMMA SumsExist ==
  ASSUME NEW ns \in Seq(Namespace)
  PROVE  \E f : Sums(ns, f, Len(ns))
<1> DEFINE Without == {n \in 0..Len(ns) : ~\E f : Sums(ns, f, n)}
<1> SUFFICES ASSUME ~\E f : Sums(ns, f, Len(ns)) PROVE FALSE
  OBVIOUS
<1>0. Without # {}
  <2>1. Len(ns) \in 0..Len(ns)
    OBVIOUS
  <2>2. Len(ns) \in Without
    BY <2>1, Zenon
  <2> QED
    BY <2>2
<1>1. PICK n \in Without : \A m \in Without : n <= m
  <2>1. Without \in SUBSET Nat
    OBVIOUS
  <2> HIDE DEF Without
  <2> QED
    BY <1>0, <2>1, SmallestNat
<1>2. n \in 0..Len(ns) /\ ~\E f : Sums(ns, f, n)
  BY <1>1
<1>3. n # 0
  <2>1. Sums(ns, [j \in 0..0 |-> 0], 0)
    BY DEF Sums
  <2> QED
    BY <1>2, <2>1
<1>4. n - 1 \in 0..Len(ns) /\ n - 1 \notin Without
  BY <1>1, <1>2, <1>3
<1>5. PICK f : Sums(ns, f, n - 1)
  BY <1>4
<1> DEFINE g == [j \in 0..n |-> IF j = n THEN f[n - 1] + ns[n].records ELSE f[j]]
<1>6. ASSUME NEW j \in 0..n
      PROVE  g[j] = IF j = 0 THEN 0 ELSE g[j - 1] + ns[j].records
  <2>1. CASE j = n
    BY <1>2, <1>3, <2>1
  <2>2. CASE j # n
    <3>1. j \in 0..(n - 1) /\ g[j] = f[j]
      BY <1>2, <2>2
    <3>2. f[j] = IF j = 0 THEN 0 ELSE f[j - 1] + ns[j].records
      BY <1>5, <3>1 DEF Sums
    <3>3. j # 0 => g[j - 1] = f[j - 1]
      BY <1>2, <2>2
    <3> QED
      BY <3>2, <3>1, <3>3
  <2> QED
    BY <2>1, <2>2
<1>7. Sums(ns, g, n)
  BY <1>6, Zenon DEF Sums
<1> QED
  BY <1>2, <1>7

LEMMA RecordsUpToStep ==
  ASSUME NEW ns \in Seq(Namespace)
  PROVE  /\ RecordsUpTo(ns, 0) = 0
         /\ \A i \in 1..Len(ns) : RecordsUpTo(ns, i) = RecordsUpTo(ns, i - 1) + ns[i].records
<1> DEFINE upTo == CHOOSE f : Sums(ns, f, Len(ns))
<1>1. \A i : RecordsUpTo(ns, i) = upTo[i]
  BY DEF RecordsUpTo, Sums
<1>2. Sums(ns, upTo, Len(ns))
  BY SumsExist
<1> HIDE DEF upTo
<1>3. \A i \in 0..Len(ns) : upTo[i] = IF i = 0 THEN 0 ELSE upTo[i - 1] + ns[i].records
  BY <1>2 DEF Sums
<1> QED
  BY <1>1, <1>3

LEMMA NamespaceFields ==
  ASSUME NEW ns \in Seq(Namespace), NEW i \in 1..Len(ns)
  PROVE  ns[i].name \in Nat /\ ns[i].records \in Nat
<1>1. ns[i] \in Namespace
  OBVIOUS
<1> QED
  BY <1>1 DEF Namespace

LEMMA RecordsUpToNat ==
  ASSUME NEW ns \in Seq(Namespace), NEW n \in 0..Len(ns)
  PROVE  RecordsUpTo(ns, n) \in Nat
<1> DEFINE Bad == {i \in 0..Len(ns) : RecordsUpTo(ns, i) \notin Nat}
<1> SUFFICES ASSUME Bad # {} PROVE FALSE
  OBVIOUS
<1>1. PICK i \in Bad : \A j \in Bad : i <= j
  <2>1. Bad \in SUBSET Nat
    OBVIOUS
  <2> HIDE DEF Bad
  <2> QED
    BY <2>1, SmallestNat
<1>2. i # 0
  BY RecordsUpToStep
<1>3. i - 1 \in 0..Len(ns) /\ i \in 1..Len(ns) /\ i - 1 \notin Bad
  BY <1>1, <1>2
<1>4. ns[i].records \in Nat
  BY <1>3, NamespaceFields
<1>5. RecordsUpTo(ns, i) = RecordsUpTo(ns, i - 1) + ns[i].records
  BY <1>3, RecordsUpToStep
<1> QED
  BY <1>1, <1>3, <1>4, <1>5

LEMMA RecordsUpToGrows ==
  ASSUME NEW ns \in Seq(Namespace), NEW i \in 0..Len(ns), NEW j \in 0..Len(ns), i <= j
  PROVE  RecordsUpTo(ns, i) <= RecordsUpTo(ns, j)
<1> DEFINE Bad == {k \in i..Len(ns) : ~(RecordsUpTo(ns, i) <= RecordsUpTo(ns, k))}
<1> SUFFICES ASSUME Bad # {} PROVE FALSE
  OBVIOUS
<1>1. PICK k \in Bad : \A m \in Bad : k <= m
  <2>1. Bad \in SUBSET Nat
    OBVIOUS
  <2> HIDE DEF Bad
  <2> QED
    BY <2>1, SmallestNat
<1>2. k # i
  BY RecordsUpToNat
<1>3. k - 1 \in i..Len(ns) /\ k \in 1..Len(ns) /\ k - 1 \notin Bad
  BY <1>1, <1>2
<1>4. ns[k].records \in Nat
  BY <1>3, NamespaceFields
<1>5. RecordsUpTo(ns, k) = RecordsUpTo(ns, k - 1) + ns[k].records
  BY <1>3, RecordsUpToStep
<1>6. RecordsUpTo(ns, i) \in Nat /\ RecordsUpTo(ns, k - 1) \in Nat
  BY <1>3, RecordsUpToNat
<1> QED
  BY <1>1, <1>3, <1>4, <1>5, <1>6

(* Names that are in order from each to the next are in order.             *)
LEMMA NamesGrow ==
  ASSUME NEW ns \in Seq(Namespace), StrictlyOrdered(ns),
         NEW i \in DOMAIN ns, NEW j \in DOMAIN ns, i <= j
  PROVE  ns[i].name <= ns[j].name
<1> DEFINE Bad == {k \in i..Len(ns) : ~(ns[i].name <= ns[k].name)}
<1>0. \A k \in 1..Len(ns) : ns[k].name \in Nat
  BY NamespaceFields
<1> SUFFICES ASSUME Bad # {} PROVE FALSE
  OBVIOUS
<1>1. PICK k \in Bad : \A m \in Bad : k <= m
  <2>1. Bad \in SUBSET Nat
    OBVIOUS
  <2> HIDE DEF Bad
  <2> QED
    BY <2>1, SmallestNat
<1>2. k # i
  BY <1>0
<1>3. k - 1 \in i..Len(ns) /\ k \in 2..Len(ns) /\ k - 1 \notin Bad
  BY <1>1, <1>2
<1>4. ns[k - 1].name < ns[k].name
  BY <1>3 DEF StrictlyOrdered
<1>5. ns[i].name <= ns[k - 1].name
  BY <1>3
<1>6. ~(ns[i].name <= ns[k].name)
  BY <1>1
<1>7. ns[i].name \in Nat /\ ns[k - 1].name \in Nat /\ ns[k].name \in Nat
  BY <1>0, <1>3
<1> QED
  BY <1>4, <1>5, <1>6, <1>7

(* Later records are in later namespaces.                                  *)
LEMMA LabelsGrow ==
  ASSUME NEW ns \in Seq(Namespace), StrictlyOrdered(ns),
         NEW k \in Nat, NEW m \in Nat, k <= m, HasRecord(ns, k), HasRecord(ns, m)
  PROVE  Label(ns, k) \in Nat /\ Label(ns, m) \in Nat /\ Label(ns, k) <= Label(ns, m)
<1> DEFINE i == CHOOSE x \in DOMAIN ns : Within(ns, x, k)
           j == CHOOSE x \in DOMAIN ns : Within(ns, x, m)
<1>1. i \in DOMAIN ns /\ Within(ns, i, k) /\ j \in DOMAIN ns /\ Within(ns, j, m)
  BY DEF HasRecord
<1>2. Label(ns, k) = ns[i].name /\ Label(ns, m) = ns[j].name
  BY DEF Label
<1> HIDE DEF i, j
<1>3. i <= j
  <2> SUFFICES ASSUME j <= i - 1 PROVE FALSE
    BY <1>1
  <2>1. RecordsUpTo(ns, j) <= RecordsUpTo(ns, i - 1)
    BY <1>1, RecordsUpToGrows
  <2>2. RecordsUpTo(ns, j) \in Nat /\ RecordsUpTo(ns, i - 1) \in Nat
    BY <1>1, RecordsUpToNat
  <2> QED
    BY <1>1, <2>1, <2>2 DEF Within
<1>4. ns[i].name \in Nat /\ ns[j].name \in Nat
  BY <1>1, NamespaceFields
<1> QED
  BY <1>1, <1>2, <1>3, <1>4, NamesGrow

(* Steps that yield nothing and do not start to read data.                 *)
LEMMA KeysKept ==
  ASSUME KeysInv, UNCHANGED delivered, pc' = "data" => UNCHANGED <<pc, prefix, signable, spaces>>
  PROVE  KeysInv'
BY DEF KeysInv, KeysDistinct, SortKey

LEMMA KeysForgotten ==
  ASSUME delivered' = <<>>, pc' # "data"
  PROVE  KeysInv'
BY DEF KeysInv, KeysDistinct

LEMMA KeysFail == KeysInv /\ Fail => KeysInv'
BY KeysForgotten DEF Fail

LEMMA KeysWalkNamespaces == SnapshotInv /\ KeysInv /\ WalkNamespaces => KeysInv'
<1> SUFFICES ASSUME SnapshotInv, KeysInv, WalkNamespaces, ~Fail PROVE KeysInv'
  BY KeysFail
<1>1. PICK c \in Bytes : NamespacesAccepted(c) /\ spaces' = NamespacesOf(c)
  BY DEF WalkNamespaces
<1>2. pc = "namespaces" /\ op = "walk" /\ UNCHANGED delivered
  BY DEF WalkNamespaces, Reading
<1>3. delivered' = <<>>
  BY <1>2 DEF SnapshotInv, WalkInv
<1>4. StrictlyOrdered(spaces')
  BY <1>1 DEF NamespacesAccepted
<1> QED
  BY <1>3, <1>4 DEF KeysInv, KeysDistinct, StrictlyOrdered

LEMMA KeysReadRecord == SnapshotInv /\ KeysInv /\ ReadRecord => KeysInv'
<1> SUFFICES ASSUME SnapshotInv, KeysInv, ReadRecord, ~Fail PROVE KeysInv'
  BY KeysFail
<1> DEFINE k == Len(delivered) + 1
<1>1. PICK a \in NextAtoms :
        /\ a # EndOfFile /\ IsRecord(MetadataOf(signable), prefix, a) /\ Precedes(k, a)
        /\ delivered' = Append(delivered, [namespace |-> Label(spaces, k), record |-> a])
  BY DEF ReadRecord
<1>2. /\ pc = "data" /\ HasRecord(spaces, k)
      /\ UNCHANGED <<pc, prefix, signable, spaces>>
  BY DEF ReadRecord, Reading, stream
<1>3. a \in Atoms
  BY <1>1, NextAtomRead DEF ReadRecord
<1>4. delivered \in Seq(Delivery) /\ spaces \in Seq(Namespace) /\ prefix \in Parts
  BY DEF SnapshotInv, TypeOK
<1>5. signable \in Contents /\ MetadataOf(signable) # Rejected
  BY <1>2 DEF SnapshotInv, AgreedInv, Accepted
<1>6. \A i \in DOMAIN delivered :
        /\ delivered[i].record \in Atoms
        /\ HasRecord(spaces, i) /\ delivered[i].namespace = Label(spaces, i)
        /\ IsRecord(MetadataOf(signable), prefix, delivered[i].record)
  <2>1. DataFile(prefix) \in DOMAIN agreed /\ op = "walk"
    BY <1>2 DEF SnapshotInv, WalkInv, StageInv
  <2>2. \A i \in DOMAIN delivered : HasRecord(spaces, i) /\ delivered[i].namespace = Label(spaces, i)
    BY <1>2, <2>1 DEF SnapshotInv, WalkInv
  <2>3. ASSUME NEW i \in DOMAIN delivered PROVE delivered[i].record \in Atoms
    <3>1. delivered[i] \in Delivery
      BY <1>4
    <3> QED
      BY <3>1 DEF Delivery
  <2>4. \A i \in DOMAIN delivered : IsRecord(MetadataOf(signable), prefix, delivered[i].record)
    BY <1>2 DEF KeysInv
  <2> QED
    BY <2>2, <2>3, <2>4
<1>7. SortKey(a) \in Nat /\ \A i \in DOMAIN delivered : SortKey(delivered[i].record) \in Nat
  BY <1>1, <1>3, <1>4, <1>5, <1>6, OrderAssumption DEF SortKey
<1>8. ASSUME NEW i \in DOMAIN delivered, delivered[i].namespace = Label(spaces, k)
      PROVE  SortKey(delivered[i].record) < SortKey(a)
  <2>1. i \in 1..(k - 1) /\ k - 1 \in DOMAIN delivered /\ k > 1
    BY <1>4
  <2>2. Label(spaces, i) \in Nat /\ Label(spaces, k) \in Nat /\ Label(spaces, k - 1) \in Nat
        /\ Label(spaces, i) <= Label(spaces, k - 1) /\ Label(spaces, k - 1) <= Label(spaces, k)
    <3>1. StrictlyOrdered(spaces)
      BY <1>2 DEF KeysInv
    <3>2. HasRecord(spaces, i) /\ HasRecord(spaces, k - 1) /\ HasRecord(spaces, k)
      BY <1>2, <1>6, <2>1
    <3>3. i \in Nat /\ k \in Nat /\ k - 1 \in Nat /\ i <= k - 1 /\ k - 1 <= k
      BY <1>4, <2>1
    <3> HIDE DEF k
    <3> QED
      BY <1>4, <3>1, <3>2, <3>3, LabelsGrow
  <2>3. delivered[k - 1].namespace = Label(spaces, k)
    BY <1>6, <1>8, <2>1, <2>2
  <2>4. SortKey(delivered[k - 1].record) < SortKey(a)
    BY <1>1, <2>1, <2>3 DEF Precedes
  <2>5. i = k - 1 \/ SortKey(delivered[i].record) < SortKey(delivered[k - 1].record)
    BY <1>2, <1>8, <2>1, <2>3 DEF KeysInv
  <2> QED
    BY <1>7, <2>1, <2>4, <2>5
<1>9. /\ Len(delivered') = k
      /\ delivered'[k] = [namespace |-> Label(spaces, k), record |-> a]
      /\ \A i \in DOMAIN delivered : i \in DOMAIN delivered' /\ delivered'[i] = delivered[i]
      /\ DOMAIN delivered' = DOMAIN delivered \union {k}
  BY <1>1, <1>4
<1>10. \A x : SortKey(x)' = SortKey(x)
  BY <1>2 DEF SortKey
<1>11. ASSUME NEW i \in DOMAIN delivered', NEW j \in DOMAIN delivered', i < j,
              delivered'[i].namespace = delivered'[j].namespace
       PROVE  SortKey(delivered'[i].record) < SortKey(delivered'[j].record)
  <2>1. i \in DOMAIN delivered
    BY <1>4, <1>9, <1>11
  <2>2. CASE j = k
    BY <1>8, <1>9, <1>11, <2>1, <2>2
  <2>3. CASE j # k
    <3>1. j \in DOMAIN delivered
      BY <1>9, <2>3
    <3> QED
      BY <1>2, <1>9, <1>11, <2>1, <3>1 DEF KeysInv
  <2> QED
    BY <2>2, <2>3
<1>12. \A i \in DOMAIN delivered' : IsRecord(MetadataOf(signable), prefix, delivered'[i].record)
  BY <1>1, <1>6, <1>9
<1>13. \A i \in DOMAIN delivered' : SortKey(delivered'[i].record) \in Nat
  BY <1>7, <1>9
<1>14. KeysDistinct'
  <2> SUFFICES ASSUME NEW i \in DOMAIN delivered', NEW j \in DOMAIN delivered', i < j,
                      delivered'[i].namespace = delivered'[j].namespace,
                      KeyOf(delivered'[i].record) = KeyOf(delivered'[j].record)
               PROVE  FALSE
    BY DEF KeysDistinct
  <2>1. SortKey(delivered'[i].record) = SortKey(delivered'[j].record)
    BY DEF SortKey
  <2> QED
    BY <1>11, <1>13, <2>1
<1>15. StrictlyOrdered(spaces)'
  BY <1>2 DEF KeysInv, StrictlyOrdered
<1> QED
  BY <1>2, <1>10, <1>11, <1>12, <1>14, <1>15 DEF KeysInv

LEMMA KeysNext == SnapshotInv /\ KeysInv /\ [Next]_vars => KeysInv'
<1> SUFFICES ASSUME SnapshotInv, KeysInv, [Next]_vars, ~Fail PROVE KeysInv'
  BY KeysFail
<1>1. CASE \E n \in Names : ChangeEntry(n)
  BY <1>1, KeysKept DEF ChangeEntry, stream, walk
<1>2. CASE \E n \in Names : Lstat(n)
  BY <1>2, KeysKept DEF Lstat, stream, walk
<1>3. CASE OpenFile
  BY <1>3, KeysKept DEF OpenFile, stream, walk
<1>4. CASE Opens
  <2>1. UNCHANGED delivered /\ pc' # "data"
    BY <1>4 DEF Opens, ReadSignable, ReadAdditional, ListEntries, HashFile, CompareDigest, Reading, OpenNamespaces,
                walk
  <2> QED
    BY <2>1, KeysKept
<1>5. CASE \E p \in Parts : StartWalk(p)
  BY <1>5, KeysForgotten DEF StartWalk
<1>6. CASE WalkNamespaces
  BY <1>6, KeysWalkNamespaces
<1>7. CASE ReadFormat
  BY <1>7, KeysKept DEF ReadFormat, stream
<1>8. CASE ReadRecord
  BY <1>8, KeysReadRecord
<1>9. CASE FinishWalk
  BY <1>9, KeysKept DEF FinishWalk, walk
<1>10. CASE Revalidate
  BY <1>10, KeysKept DEF Revalidate, walk
<1>11. CASE CompareFile
  BY <1>11, KeysKept DEF CompareFile, CompareDigest, Reading, walk
<1>12. CASE UNCHANGED vars
  BY <1>12, KeysKept DEF vars
<1> QED
  BY <1>1, <1>2, <1>3, <1>4, <1>5, <1>6, <1>7, <1>8, <1>9, <1>10, <1>11, <1>12 DEF Next, Walks, ReportError

(***************************************************************************)
(* A walk, of public records or of hashes, never yields two records of one *)
(* namespace with one key (KeysDistinct; stream.go:157, 248).              *)
(***************************************************************************)
THEOREM NoKeyTwice == Spec => []KeysDistinct
<1>1. Init => KeysInv
  BY DEF Init, KeysInv, KeysDistinct
<1>2. KeysInv => KeysDistinct
  BY DEF KeysInv
<1> QED
  BY <1>1, <1>2, KeysNext, ReaderInvariant, PTL DEF Spec
=============================================================================
