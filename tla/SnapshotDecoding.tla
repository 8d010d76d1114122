-------------------------- MODULE SnapshotDecoding --------------------------
(***************************************************************************)
(* The binary formats of a snapshot                                        *)
(* (internal/fabricsnapshot/snapshot.go:17-122; stream.go readSized): what *)
(* decodeNamespaces, protobufBytes, decodeHeight and the record loop of    *)
(* walkRecords make of any bytes.                                          *)
(*                                                                         *)
(* An int is one of -HalfWord..(HalfWord - 1).  An offset counts the bytes *)
(* before it.                                                              *)
(***************************************************************************)
EXTENDS SnapshotFormat

CONSTANTS
  Uvarint(_, _),     \* binary.Uvarint(data[offset:]): [value, read]
  Inputs             \* [task, data, count, of] to decode

VARIABLES
  input,    \* task: "namespaces", "records", "record" or "height"
  pc,       \* "start", "loop", "done" or "failed"
  offset,   \* the next byte
  left,     \* iterations left of the loops that count
  entries   \* what has been decoded

vars == <<input, pc, offset, left, entries>>

MaxInt == HalfWord - 1

(* uint64(x) of an int x and int(x) of a uint64 x.                         *)
ToWord(x) == IF x < 0 THEN x + 2 * HalfWord ELSE x
ToInt(x) == IF x > MaxInt THEN x - 2 * HalfWord ELSE x

Bytes == input.data
Size == Len(input.data)
Task(t) == input.task = t

(* x.of holds what a writer may have encoded as x.data, if one has.        *)
ASSUME DecodingAssumption ==
  \A x \in Inputs :
    /\ x.task \in {"namespaces", "records", "record", "height"}
    /\ x.data \in Seq(Byte)
    /\ Len(x.data) <= MaxInt
    /\ x.count \in Word
    /\ \A value \in x.of : Encodes(x, value)

(* binary.Uvarint finds the varint that begins at an offset, and where it  *)
(* ends; without one, read is not positive.                                *)
ASSUME UvarintAssumption ==
  \A x \in Inputs : \A o \in Offsets(x) :
    LET u == Uvarint(x.data, o)
    IN /\ u.read \in Int /\ u.read <= Len(x.data) - o
       /\ u.read > 0 => IsVarint(x, o, o + u.read, u.value)
       /\ \A e \in (o + 1)..Len(x.data) :
            VarintOf(Piece(x, o, e)) \in Word => u = [value |-> VarintOf(Piece(x, o, e)), read |-> e - o]
-----------------------------------------------------------------------------
Err == [ok |-> FALSE, value |-> 0, next |-> 0]
Ok(value, next) == [ok |-> TRUE, value |-> value, next |-> next]

ConsumeUvarint(o) ==
  IF o < 0 \/ o >= Size \/ Uvarint(Bytes, o).read <= 0
  THEN Err
  ELSE Ok(Uvarint(Bytes, o).value, o + Uvarint(Bytes, o).read)

(* As Sized, comparing the end of the value, which may wrap around.        *)
SizedEndChecked(o) ==
  LET size == ConsumeUvarint(o)
      end == size.next + ToInt(size.value)
  IN IF ~size.ok THEN Err
     ELSE IF end > Size THEN Err
     ELSE Ok(SubSeq(Bytes, size.next + 1, end), end)

Sized(o) ==
  LET size == ConsumeUvarint(o)
      end == size.next + ToInt(size.value)
  IN IF ~size.ok THEN Err
     ELSE IF size.value > ToWord(Size - size.next) THEN Err
     ELSE Ok(SubSeq(Bytes, size.next + 1, end), end)

(* As ReadSized, with the size unchecked: io.CopyN of a negative number of *)
(* bytes copies nothing and succeeds.                                      *)
ReadSizedUnchecked(o) ==
  LET size == ConsumeUvarint(o)
      length == ToInt(size.value)
  IN IF ~size.ok THEN Err
     ELSE IF length < 0 THEN Ok(<<>>, size.next)
     ELSE IF length > Size - size.next THEN Err
     ELSE Ok(SubSeq(Bytes, size.next + 1, size.next + length), size.next + length)

(* From the buffered file: a size that is no int is refused, a short copy  *)
(* is an error.                                                            *)
ReadSized(o) ==
  LET size == ConsumeUvarint(o)
      length == ToInt(size.value)
  IN IF ~size.ok THEN Err
     ELSE IF size.value > MaxInt \/ length > Size - size.next THEN Err
     ELSE Ok(SubSeq(Bytes, size.next + 1, size.next + length), size.next + length)

OrderPreservingUint(o) ==
  LET size == ConsumeUvarint(o)
      end == size.next + ToInt(size.value)
      padding == WordBytes - size.value
      padded == [i \in 1..WordBytes |-> IF i <= padding THEN 0 ELSE Bytes[size.next + i - padding]]
  IN IF ~size.ok THEN Err
     ELSE IF size.value > WordBytes \/ size.value > ToWord(Size - size.next) THEN Err
     ELSE Ok(BigEndian(padded), end)
-----------------------------------------------------------------------------
Init ==
  /\ input \in Inputs
  /\ pc = IF input.task \in {"namespaces", "records"} THEN "start" ELSE "loop"
  /\ offset = 0
  /\ left = 0
  /\ entries = <<>>

Fail ==
  /\ pc' = "failed"
  /\ UNCHANGED <<input, offset, left, entries>>

Accept ==
  /\ pc' = "done"
  /\ UNCHANGED <<input, offset, left, entries>>

VersionRead == Size > 0 /\ Bytes[1] = FormatVersion

(***************************************************************************)
(* decodeNamespaces: a count, then for every namespace its name and the    *)
(* number of its records.                                                  *)
(***************************************************************************)
(* As CountFits, taking three bytes for the least a namespace occupies.    *)
CountFitsThirds(count) == count.value <= ToWord(Size - count.next) \div 3

(* As CountFits, taking one byte for it.                                   *)
CountFitsBytes(count) == count.value <= ToWord(Size - count.next)

CountFits(count) == count.value <= ToWord(Size - count.next) \div 2

CountNamespaces ==
  LET count == ConsumeUvarint(1)
  IN /\ Task("namespaces")
     /\ pc = "start"
     /\ \/ /\ ~VersionRead \/ ~count.ok \/ ~CountFits(count)
           /\ Fail
        \/ /\ VersionRead /\ count.ok /\ CountFits(count)
           /\ pc' = "loop"
           /\ left' = count.value
           /\ offset' = count.next
           /\ UNCHANGED <<input, entries>>

DecodeNamespace ==
  LET name == Sized(offset)
      records == ConsumeUvarint(name.next)
  IN /\ Task("namespaces")
     /\ pc = "loop"
     /\ left > 0
     /\ \/ /\ ~name.ok \/ ~records.ok
           /\ Fail
        \/ /\ name.ok /\ records.ok
           /\ entries' = Append(entries, [name |-> name.value, records |-> records.value])
           /\ offset' = records.next
           /\ left' = left - 1
           /\ UNCHANGED <<input, pc>>

(* The end of decodeNamespaces and of walkRecords: nothing may be left.    *)
CountedLoopEnds ==
  /\ input.task \in {"namespaces", "records"}
  /\ pc = "loop"
  /\ left = 0
  /\ IF offset = Size THEN Accept ELSE Fail

(***************************************************************************)
(* walkRecords: as many records as the metadata file says.                 *)
(***************************************************************************)
OpenRecords ==
  /\ Task("records")
  /\ pc = "start"
  /\ \/ /\ ~VersionRead
        /\ Fail
     \/ /\ VersionRead
        /\ pc' = "loop"
        /\ offset' = 1
        /\ left' = input.count
        /\ UNCHANGED <<input, entries>>

ReadRecord ==
  LET raw == ReadSized(offset)
  IN /\ Task("records")
     /\ pc = "loop"
     /\ left > 0
     /\ \/ /\ ~raw.ok
           /\ Fail
        \/ /\ raw.ok
           /\ entries' = Append(entries, raw.value)
           /\ offset' = raw.next
           /\ left' = left - 1
           /\ UNCHANGED <<input, pc>>

(***************************************************************************)
(* protobufBytes: the fields of one record, each at most once.             *)
(***************************************************************************)
Unsupported(tag, known) ==
  LET field == tag \div WireSize
  IN tag % WireSize # LengthDelimited \/ field \notin 1..MaxField \/ field \in known

DecodeField ==
  LET tag == ConsumeUvarint(offset)
      field == tag.value \div WireSize
      value == Sized(tag.next)
  IN /\ Task("record")
     /\ pc = "loop"
     /\ offset < Size
     /\ \/ /\ ~tag.ok \/ Unsupported(tag.value, DOMAIN entries) \/ ~value.ok
           /\ Fail
        \/ /\ tag.ok /\ ~Unsupported(tag.value, DOMAIN entries) /\ value.ok
           /\ entries' = [f \in DOMAIN entries \union {field} |-> IF f = field THEN value.value ELSE entries[f]]
           /\ offset' = value.next
           /\ UNCHANGED <<input, pc, left>>

FieldsEnd ==
  /\ Task("record")
  /\ pc = "loop"
  /\ offset >= Size
  /\ Accept

(***************************************************************************)
(* decodeHeight: a block number and a transaction number.                  *)
(***************************************************************************)
DecodeHeight ==
  LET block == OrderPreservingUint(0)
      transaction == OrderPreservingUint(block.next)
  IN /\ Task("height")
     /\ pc = "loop"
     /\ IF block.ok /\ transaction.ok /\ transaction.next = Size
        THEN /\ pc' = "done"
             /\ entries' = <<block.value, transaction.value>>
             /\ offset' = transaction.next
             /\ UNCHANGED <<input, left>>
        ELSE Fail

Decided == pc \in {"done", "failed"} /\ UNCHANGED vars

Next ==
  \/ CountNamespaces \/ DecodeNamespace \/ CountedLoopEnds
  \/ OpenRecords \/ ReadRecord
  \/ DecodeField \/ FieldsEnd
  \/ DecodeHeight
  \/ Decided

Spec == Init /\ [][Next]_vars
-----------------------------------------------------------------------------
(***************************************************************************)
(* A decoder never leaves the bytes it was given and never goes back: the  *)
(* offset is between 0 and the length, whatever sizes the bytes claim      *)
(* (snapshot.go sized, orderPreservingUint; stream.go:285-291).            *)
(***************************************************************************)
InBounds == offset \in 0..Size

(***************************************************************************)
(* What a writer has encoded is accepted, as what it was: the check of the *)
(* namespace count and the size checks refuse nothing that decodes         *)
(* (snapshot.go:25,49,84,97; stream.go:285).                               *)
(***************************************************************************)
WrittenIsRead ==
  /\ pc = "failed" => input.of = {}
  /\ pc = "done" => input.of \subseteq {entries}

(***************************************************************************)
(* What is accepted is an encoding of what was decoded: no byte is read    *)
(* twice, skipped or left over, and nothing is decoded that is not in the  *)
(* bytes (snapshot.go:42,81; stream.go:268).                               *)
(***************************************************************************)
NothingIgnored == pc = "done" => Encodes(input, entries)

(***************************************************************************)
(* What a decoder keeps is bounded by the bytes it has read, never by a    *)
(* count they claim: a namespace takes two bytes or more, a record or a    *)
(* field one or more; the slice that is allocated for the namespaces       *)
(* (snapshot.go:28) has room for at most half as many as bytes follow the  *)
(* count.  How the buffer of one record grows (stream.go:287) is not part  *)
(* of the model.                                                           *)
(***************************************************************************)
Bounded ==
  /\ Task("namespaces") /\ Len(entries) + left > 0 => 2 * (Len(entries) + left) <= Size - 2
  /\ Task("records") => Len(entries) <= offset

(***************************************************************************)
(* Every iteration of a loop consumes bytes, so no claim of the bytes      *)
(* makes a decoder run for longer than they last.                          *)
(***************************************************************************)
Consumes == [][pc' \in {"done", "failed"} \/ offset' > offset]_vars
=============================================================================
