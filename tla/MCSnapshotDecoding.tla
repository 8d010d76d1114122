------------------------ MODULE MCSnapshotDecoding ------------------------
(***************************************************************************)
(* The formats scaled down: bytes of four bits, of which a varint uses     *)
(* three, words of two bytes.  A varint has at most three bytes and the    *)
(* third is at most 3; as in the original, where the tenth is at most 1,   *)
(* it has no room for every value.                                         *)
(***************************************************************************)
EXTENDS SnapshotDecoding, FiniteSetsExt, SequencesExt

CONSTANT MaxLength       \* of the byte strings that are enumerated

MCByte == 0..15
More == 8                \* the continuation bit

MaxVarint == 3

VarintBytes(data, o) == {n \in 1..MaxVarint : o + n <= Len(data) /\ data[o + n] < More}

MCUvarint(data, o) ==
  IF VarintBytes(data, o) = {} THEN [value |-> 0, read |-> 0]
  ELSE LET n == Min(VarintBytes(data, o))
           group(i) == IF i <= n THEN (data[o + i] % More) * 8^(i - 1) ELSE 0
       IN IF n = MaxVarint /\ data[o + n] > 3 THEN [value |-> 0, read |-> -(n + 1)]
          ELSE [value |-> group(1) + group(2) + group(3), read |-> n]

(* As above, from the bytes of a number alone; -1 is no word.              *)
MCVarintOf(bytes) ==
  LET n == Len(bytes)
      group(i) == IF i <= n THEN (bytes[i] % More) * 8^(i - 1) ELSE 0
  IN IF /\ n \in 1..MaxVarint
        /\ \A i \in 1..n : bytes[i] < More <=> i = n
        /\ n = MaxVarint => bytes[n] <= 3
     THEN group(1) + group(2) + group(3)
     ELSE -1

MCBigEndian(bytes) == 16 * bytes[1] + bytes[2]
-----------------------------------------------------------------------------
(***************************************************************************)
(* The formats from the writer's side.  A number may be written with more  *)
(* bytes than it needs.                                                    *)
(***************************************************************************)
Number(v) == [number |-> v]
Raw(bytes) == [raw |-> bytes]
SizedBytes(bytes) == <<Number(Len(bytes)), Raw(bytes)>>

NamespacesLayout(list) ==
  <<Raw(<<FormatVersion>>), Number(Len(list))>>
  \o FlattenSeq([i \in DOMAIN list |-> SizedBytes(list[i].name) \o <<Number(list[i].records)>>])

RecordsLayout(list) == <<Raw(<<FormatVersion>>)>> \o FlattenSeq([i \in DOMAIN list |-> SizedBytes(list[i])])

RecordLayouts(fields) ==
  {FlattenSeq([i \in DOMAIN order |->
     <<Number(order[i] * WireSize + LengthDelimited)>> \o SizedBytes(fields[order[i]])])
   : order \in SetToSeqs(DOMAIN fields)}

(* The digits of a number to base 16, in n bytes.                          *)
Digits(v, n) == [i \in 1..n |-> (v \div 16^(n - i)) % 16]

UintLayouts(v) == {SizedBytes(Digits(v, n)) : n \in {m \in 0..WordBytes : v < 16^m}}

HeightLayouts(height) == {b \o t : b \in UintLayouts(height[1]), t \in UintLayouts(height[2])}

Layouts(task, value) ==
  CASE task = "namespaces" -> {NamespacesLayout(value)}
    [] task = "records" -> {RecordsLayout(value)}
    [] task = "record" -> RecordLayouts(value)
    [] task = "height" -> HeightLayouts(value)

(* A layout with its numbers written in the given numbers of bytes.        *)
Varint(v, n) == [i \in 1..n |-> ((v \div 8^(i - 1)) % 8) + (IF i < n THEN More ELSE 0)]

Write(layout, widths) ==
  FlattenSeq([i \in DOMAIN layout |->
    IF i \in DOMAIN widths THEN Varint(layout[i].number, widths[i]) ELSE layout[i].raw])

Numbers(layout) == {i \in DOMAIN layout : "number" \in DOMAIN layout[i]}

Widths(layout) ==
  {w \in [Numbers(layout) -> 1..MaxVarint] : \A i \in Numbers(layout) : layout[i].number < 8^w[i]}

Encoded(task, value) == UNION {{Write(l, w) : w \in Widths(l)} : l \in Layouts(task, value)}

-----------------------------------------------------------------------------
Strings == UNION {[1..n -> {0, 1, 2, 3, 5, 9, 15}] : n \in 0..MaxLength}

Arbitrary ==
  {[task |-> t, data |-> d, count |-> 0, of |-> {}] : t \in {"namespaces", "record", "height"}, d \in Strings}
  \union {[task |-> "records", data |-> d, count |-> c, of |-> {}] : d \in Strings, c \in {0, 1, 2, 255}}

UpToTwo(S) == {<<>>} \union {<<x>> : x \in S} \union {<<x, y>> : x, y \in S}

Values ==
  [namespaces |-> UpToTwo([name : {<<>>, <<1, 9>>}, records : {0, 255}]),
   records |-> UpToTwo({<<>>, <<3>>, <<1, 15, 9, 9, 9, 9, 9, 9, 9>>}),
   record |-> UNION {[S -> {<<>>, <<3>>, <<1, 15>>}] : S \in SUBSET (1..MaxField)},
   height |-> {0, 1, 15, 16, 255} \X {0, 9, 255}]

CountOf(task, value) == IF task = "records" THEN Len(value) ELSE 0

Written ==
  UNION {UNION {{[task |-> t, data |-> d, count |-> CountOf(t, v), of |-> {v}] : d \in Encoded(t, v)}
                : v \in Values[t]} : t \in DOMAIN Values}

MCInputs == Arbitrary \union Written
=============================================================================
