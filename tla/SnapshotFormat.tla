--------------------------- MODULE SnapshotFormat ---------------------------
(***************************************************************************)
(* What bytes say, apart from how a decoder goes through them: a value is  *)
(* encoded by consecutive pieces that begin with the first byte and end    *)
(* with the last (internal/fabricsnapshot/snapshot.go:17-122; stream.go    *)
(* walkRecords, readSized).                                                *)
(*                                                                         *)
(* An offset counts the bytes before it.  A piece of x lies between two    *)
(* offsets of x.data.                                                      *)
(***************************************************************************)
EXTENDS Integers, Sequences, FiniteSets

CONSTANTS
  Byte,
  HalfWord,          \* 2^63
  WordBytes,         \* 8
  FormatVersion,     \* the first byte of every file
  WireSize,          \* 8: a protobuf tag is field * WireSize + wire type
  LengthDelimited,   \* 2: the wire type of bytes
  MaxField,          \* 4: the fields of a snapshot record
  VarintOf(_),       \* the word a byte string stands for as a varint, if any
  BigEndian(_)       \* the word a big-endian byte string stands for

(* A word is a uint64.                                                     *)
Word == 0..(2 * HalfWord - 1)

Namespace == [name : Seq(Byte), records : Word]

ASSUME FormatAssumption ==
  /\ HalfWord \in Nat \ {0}
  /\ WordBytes \in Nat
  /\ WireSize \in Nat \ {0}
  /\ LengthDelimited \in 0..(WireSize - 1)
  /\ MaxField \in Nat
-----------------------------------------------------------------------------
(***************************************************************************)
(* What lies between two offsets: a number, which may take more bytes than *)
(* it needs, a byte string after its length, and what they make up.        *)
(***************************************************************************)
Offsets(x) == 0..Len(x.data)

Piece(x, from, to) == SubSeq(x.data, from + 1, to)

IsVarint(x, from, to, v) ==
  /\ from < to
  /\ v \in Word
  /\ VarintOf(Piece(x, from, to)) = v

IsSized(x, from, to, bytes) ==
  \E mid \in Offsets(x) :
    /\ mid <= to
    /\ IsVarint(x, from, mid, Len(bytes))
    /\ bytes = Piece(x, mid, to)

IsNamespace(x, from, to, namespace) ==
  \E mid \in Offsets(x) :
    /\ IsSized(x, from, mid, namespace.name)
    /\ IsVarint(x, mid, to, namespace.records)

IsField(x, from, to, field, bytes) ==
  \E mid \in Offsets(x) :
    /\ IsVarint(x, from, mid, field * WireSize + LengthDelimited)
    /\ IsSized(x, mid, to, bytes)

(* The digits of a number after their count, without leading zero bytes or *)
(* with some.                                                              *)
Padded(digits) ==
  LET padding == WordBytes - Len(digits)
  IN [i \in 1..WordBytes |-> IF i <= padding THEN 0 ELSE digits[i - padding]]

IsUint(x, from, to, v) ==
  \E mid \in Offsets(x) :
    /\ mid <= to
    /\ to - mid <= WordBytes
    /\ IsVarint(x, from, mid, to - mid)
    /\ v = BigEndian(Padded(Piece(x, mid, to)))
-----------------------------------------------------------------------------
(***************************************************************************)
(* A list: each piece begins where the one before it ends.  spans[i] holds *)
(* the pairs of offsets between which the i-th piece may lie.              *)
(***************************************************************************)
Chains(x, from, to, spans) ==
  {c \in [0..Len(spans) -> Offsets(x)] :
     /\ c[0] = from
     /\ c[Len(spans)] = to
     /\ \A i \in 1..Len(spans) : <<c[i - 1], c[i]>> \in spans[i]}

Spans(x) == Offsets(x) \X Offsets(x)

NamespaceSpans(x, list) ==
  [i \in 1..Len(list) |-> {s \in Spans(x) : IsNamespace(x, s[1], s[2], list[i])}]

RecordSpans(x, list) ==
  [i \in 1..Len(list) |-> {s \in Spans(x) : IsSized(x, s[1], s[2], list[i])}]

FieldSpans(x, order, fields) ==
  [i \in 1..Len(order) |-> {s \in Spans(x) : IsField(x, s[1], s[2], order[i], fields[order[i]])}]

(* The members of a set, each once.                                        *)
Orders(S) ==
  {order \in [1..Cardinality(S) -> S] :
     /\ \A i, j \in 1..Cardinality(S) : order[i] = order[j] => i = j
     /\ \A f \in S : \E i \in 1..Cardinality(S) : order[i] = f}
-----------------------------------------------------------------------------
(***************************************************************************)
(* The four kinds of bytes, as encodings of a value: of namespaces with    *)
(* their record counts; of as many records as are announced elsewhere; of  *)
(* the fields of one record, in any order; of a block number and a         *)
(* transaction number.                                                     *)
(***************************************************************************)
HasVersion(x) == Len(x.data) > 0 /\ x.data[1] = FormatVersion

EncodesNamespaces(x, list) ==
  /\ HasVersion(x)
  /\ list \in Seq(Namespace)
  /\ \E first \in Offsets(x) :
       /\ IsVarint(x, 1, first, Len(list))
       /\ Chains(x, first, Len(x.data), NamespaceSpans(x, list)) # {}

EncodesRecords(x, list) ==
  /\ HasVersion(x)
  /\ list \in Seq(Seq(Byte))
  /\ Len(list) = x.count
  /\ Chains(x, 1, Len(x.data), RecordSpans(x, list)) # {}

EncodesRecord(x, fields) ==
  /\ DOMAIN fields \subseteq 1..MaxField
  /\ fields = [f \in DOMAIN fields |-> fields[f]]
  /\ \E order \in Orders(DOMAIN fields) :
       Chains(x, 0, Len(x.data), FieldSpans(x, order, fields)) # {}

EncodesHeight(x, height) ==
  /\ height = <<height[1], height[2]>>
  /\ \E mid \in Offsets(x) :
       IsUint(x, 0, mid, height[1]) /\ IsUint(x, mid, Len(x.data), height[2])

Encodes(x, value) ==
  CASE x.task = "namespaces" -> EncodesNamespaces(x, value)
    [] x.task = "records" -> EncodesRecords(x, value)
    [] x.task = "record" -> EncodesRecord(x, value)
    [] x.task = "height" -> EncodesHeight(x, value)
=============================================================================
