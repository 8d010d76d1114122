---------------------- MODULE SnapshotStreamInvariant ----------------------
(***************************************************************************)
(* The inductive invariant of SnapshotStream: what the reader knows at     *)
(* each of its steps about the directory, which may change at any time.    *)
(***************************************************************************)
EXTENDS SnapshotStream

(* The file looked at is the one the step is about; if it has not changed  *)
(* since, it is a regular file, and a change during an opening or a        *)
(* revalidation is on record.                                              *)
FileInv ==
  IF file.stage = "closed" THEN file = Closed
  ELSE /\ file.name \in Names
       /\ pc \notin {"list", "ready", "failed"}
       /\ pc = "signable" => file.name = Signable
       /\ pc = "additional" => file.name = Additional
       /\ pc \in {"digest", "compare"} => file.name \in todo
       /\ pc = "compare" => file.name \in DOMAIN agreed
       /\ pc = "namespaces" => file.name = MetaFile(prefix)
       /\ pc = "data" => file.name = DataFile(prefix)
       /\ ~file.changed => dir[file.name] \in Contents
       /\ file.changed /\ op # "walk" => file.name \in touched

(* Which steps belong to which operation.                                  *)
StageInv ==
  /\ pc \in {"signable", "additional", "list", "digest"} => op = "open" /\ prefix = Public
  /\ pc = "data" => op = "walk"
  /\ pc = "compare" => op = "revalidate"
  /\ pc = "namespaces" => op # "revalidate" /\ MetaFile(prefix) \in DOMAIN agreed

Accepted == pc \notin {"signable", "additional", "failed"}

(* The agreed digests are those of the metadata files and those the        *)
(* signable metadata lists.                                                *)
AgreedInv ==
  /\ pc = "additional" => signable \in Contents
  /\ Accepted =>
       /\ signable \in Contents
       /\ MetadataOf(signable) # Rejected
       /\ Signable \notin Listed /\ Additional \notin Listed
       /\ DOMAIN agreed = Listed \union {Signable, Additional}
       /\ \A n \in Listed : agreed[n] = MetadataOf(signable).files[n]
       /\ agreed[Signable] = Hash(signable)
       /\ \E c \in Contents : agreed[Additional] = Hash(c) /\ DeclaredHash(c) = Hash(signable)
       /\ DataFile(Public) \in Listed /\ MetaFile(Public) \in Listed
       /\ (DataFile(Hashes) \in Listed) = (MetaFile(Hashes) \in Listed)

(* The namespaces known are those of the agreed metadata.                  *)
Loaded(p) ==
  \/ pc = "ready"
  \/ Accepted /\ op # "open"
  \/ pc = "namespaces" /\ prefix = Hashes /\ p = Public

KnownInv ==
  \A p \in Parts :
    Loaded(p) /\ MetaFile(p) \in DOMAIN agreed =>
      \E c \in Contents : Hash(c) = agreed[MetaFile(p)] /\ known[p] = NamespacesOf(c)

(* What a walk has yielded is what it has read after the format byte.      *)
WalkInv ==
  op = "walk" =>
    /\ pc = "namespaces" => got = <<>> /\ delivered = <<>>
    /\ pc \in {"data", "ready"} /\ DataFile(prefix) \in DOMAIN agreed =>
         /\ spaces = known[prefix]
         /\ Len(got) = IF got = <<>> THEN 0 ELSE Len(delivered) + 1
         /\ got = <<>> => delivered = <<>>
         /\ \A k \in DOMAIN delivered :
              /\ HasRecord(spaces, k)
              /\ delivered[k] = [namespace |-> Label(spaces, k), record |-> got[k + 1]]
    /\ pc \in {"data", "namespaces"} => DataFile(prefix) \in DOMAIN agreed
    /\ pc = "ready" =>
         IF DataFile(prefix) \in DOMAIN agreed
         THEN got # <<>> /\ Hash(got) = agreed[DataFile(prefix)]
         ELSE delivered = <<>>

(* It has read the beginning of the data file, as long as that file is     *)
(* not changed.                                                            *)
ReadInv ==
  pc = "data" =>
    IF file.stage = "open"
    THEN ~file.changed => /\ Len(got) <= Len(dir[file.name])
                          /\ got = SubSeq(dir[file.name], 1, Len(got))
    ELSE got = <<>>

(* What an opening or a revalidation has compared is as agreed, unless it  *)
(* has been changed since it began.                                        *)
Confirmed(S) == \A n \in S \ touched : AsAgreed(n)

OpenInv ==
  op = "open" =>
    /\ pc = "additional" /\ Signable \notin touched => dir[Signable] = signable
    /\ Accepted => Confirmed({Signable, Additional})
    /\ pc \in {"digest", "namespaces", "ready"} => Confirmed(Names \ DOMAIN agreed)
    /\ pc = "digest" => todo \subseteq Listed /\ Confirmed(Listed \ todo)
    /\ pc \in {"namespaces", "ready"} => Confirmed(Listed)

RevalidateInv ==
  op = "revalidate" =>
    /\ pc = "compare" =>
         /\ Cardinality(entries) = Cardinality(DOMAIN agreed)
         /\ entries \ todo \subseteq DOMAIN agreed
         /\ \A n \in (Names \ entries) \ touched : dir[n] = Absent
         /\ Confirmed(entries \ todo)
    /\ pc = "ready" => Confirmed(Names)

SnapshotInv ==
  /\ TypeOK
  /\ FileInv
  /\ StageInv
  /\ AgreedInv
  /\ KnownInv
  /\ WalkInv
  /\ ReadInv
  /\ OpenInv
  /\ RevalidateInv

(* While data is read: namespaces are in order, and so are the keys of the *)
(* records of each that have been yielded.                                 *)
KeysInv ==
  /\ KeysDistinct
  /\ pc = "data" =>
       /\ StrictlyOrdered(spaces)
       /\ \A i \in DOMAIN delivered : IsRecord(MetadataOf(signable), prefix, delivered[i].record)
       /\ \A i, j \in DOMAIN delivered :
            /\ i < j
            /\ delivered[i].namespace = delivered[j].namespace
            => SortKey(delivered[i].record) < SortKey(delivered[j].record)
=============================================================================
