----------------------- MODULE SnapshotDecodingProofs -----------------------
(***************************************************************************)
(* Whatever bytes a snapshot file holds, decoding them stays inside the    *)
(* file, makes progress, keeps no more than the bytes read account for,    *)
(* accepts every encoding as what it encodes and accepts nothing else: for *)
(* words and ints of any width and every varint decoder that finds the     *)
(* varint at an offset, if there is one.                                   *)
(***************************************************************************)
EXTENDS SnapshotDecoding, SequenceTheorems, WellFoundedInduction, FiniteSetTheorems, TLAPS

Decoded ==
  CASE Task("namespaces") -> Seq([name : Seq(Byte), records : Word])
    [] Task("records") -> Seq(Seq(Byte))
    [] OTHER -> {entries}

TypeInv ==
  /\ input \in Inputs
  /\ pc \in {"start", "loop", "done", "failed"}
  /\ left \in Word
  /\ entries \in Decoded

(* Before a counting loop nothing is decoded and nothing is to be.         *)
StartInv ==
  /\ pc = "start" => entries = <<>> /\ left = 0 /\ offset = 0
  /\ input.task \in {"record", "height"} => pc # "start"
  /\ Task("height") /\ pc = "loop" => offset = 0

DecodingInv == TypeInv /\ StartInv /\ InBounds /\ Bounded

LEMMA OkFields ==
  ASSUME NEW v, NEW n
  PROVE  Ok(v, n).value = v /\ Ok(v, n).next = n
BY DEF Ok

(***************************************************************************)
(* A varint that is found ends inside the bytes, after its beginning.      *)
(***************************************************************************)
LEMMA ConsumeSound ==
  ASSUME input \in Inputs, NEW o \in 0..Size, ConsumeUvarint(o).ok
  PROVE  /\ ConsumeUvarint(o).value \in Word
         /\ ConsumeUvarint(o).next \in Int
         /\ o < ConsumeUvarint(o).next
         /\ ConsumeUvarint(o).next <= Size
<1> DEFINE u == Uvarint(Bytes, o)
<1>1. /\ Bytes \in Seq(Byte) /\ Size \in Nat
      /\ u.read \in Int /\ u.read <= Size - o
      /\ u.read > 0 => IsVarint(input, o, o + u.read, u.value)
  BY DecodingAssumption, UvarintAssumption DEF Bytes, Size, Offsets
<1>2. ~(o < 0 \/ o >= Size \/ u.read <= 0) BY DEF ConsumeUvarint, Err
<1>3. ConsumeUvarint(o) = Ok(u.value, o + u.read) BY <1>2 DEF ConsumeUvarint
<1> HIDE DEF u
<1>4. u.value \in Word BY <1>1, <1>2 DEF IsVarint
<1> QED BY <1>1, <1>2, <1>3, <1>4 DEF Ok

(***************************************************************************)
(* So does a value with its size before it: the comparison of the size     *)
(* with what is left is exact for every word.                              *)
(***************************************************************************)
LEMMA SizedSound ==
  ASSUME input \in Inputs, NEW o \in 0..Size, Sized(o).ok
  PROVE  /\ Sized(o).value \in Seq(Byte)
         /\ Sized(o).next \in Int
         /\ o < Sized(o).next
         /\ Sized(o).next <= Size
<1> DEFINE size == ConsumeUvarint(o)
           end == size.next + ToInt(size.value)
           part == SubSeq(Bytes, size.next + 1, end)
<1>1. Bytes \in Seq(Byte) /\ Size = Len(Bytes) /\ Size \in Nat /\ Size <= MaxInt /\ HalfWord \in Nat \ {0}
  BY DecodingAssumption, FormatAssumption DEF Bytes, Size
<1>2. size.ok /\ ~(size.value > ToWord(Size - size.next)) BY DEF Sized, Err
<1>3. Sized(o) = Ok(part, end) BY <1>2 DEF Sized
<1>4. Sized(o).value = part /\ Sized(o).next = end
  <2> HIDE DEF part, end
  <2> QED BY <1>3, OkFields
<1>5. size.value \in Word /\ size.next \in Int /\ o < size.next /\ size.next <= Size
  BY <1>2, ConsumeSound
<1> HIDE DEF size
<1>6. size.value <= Size - size.next BY <1>1, <1>2, <1>5 DEF ToWord, Word
<1>7. ToInt(size.value) = size.value BY <1>1, <1>5, <1>6 DEF ToInt, MaxInt, Word
<1>8. end \in Int /\ size.next <= end /\ end <= Size BY <1>1, <1>5, <1>6, <1>7 DEF Word
<1> HIDE DEF end
<1>9. part \in Seq(Byte)
  <2>1. \A i \in (size.next + 1)..end : Bytes[i] \in Byte BY <1>1, <1>5, <1>8
  <2> QED BY <1>5, <1>8, <2>1, SubSeqProperties
<1> QED BY <1>4, <1>5, <1>8, <1>9

LEMMA ReadSizedSound ==
  ASSUME input \in Inputs, NEW o \in 0..Size, ReadSized(o).ok
  PROVE  /\ ReadSized(o).value \in Seq(Byte)
         /\ ReadSized(o).next \in Int
         /\ o < ReadSized(o).next
         /\ ReadSized(o).next <= Size
<1> DEFINE size == ConsumeUvarint(o)
           length == ToInt(size.value)
           end == size.next + length
           part == SubSeq(Bytes, size.next + 1, end)
<1>1. Bytes \in Seq(Byte) /\ Size = Len(Bytes) /\ Size \in Nat /\ Size <= MaxInt /\ HalfWord \in Nat \ {0}
  BY DecodingAssumption, FormatAssumption DEF Bytes, Size
<1>2. size.ok /\ ~(size.value > MaxInt \/ length > Size - size.next) BY DEF ReadSized, Err
<1>3. ReadSized(o) = Ok(part, end)
  BY <1>2 DEF ReadSized
<1>4. ReadSized(o).value = part /\ ReadSized(o).next = end
  <2> HIDE DEF part, end
  <2> QED BY <1>3, OkFields
<1>5. size.value \in Word /\ size.next \in Int /\ o < size.next /\ size.next <= Size
  BY <1>2, ConsumeSound
<1> HIDE DEF size
<1>6. length \in Nat /\ length <= Size - size.next BY <1>1, <1>2, <1>5 DEF ToInt, MaxInt, Word
<1> HIDE DEF length
<1>7. end \in Int /\ o < end /\ size.next <= end /\ end <= Size BY <1>1, <1>5, <1>6
<1> HIDE DEF end
<1>8. part \in Seq(Byte)
  <2>1. \A i \in (size.next + 1)..end : Bytes[i] \in Byte BY <1>1, <1>5, <1>7
  <2> QED BY <1>5, <1>7, <2>1, SubSeqProperties
<1> QED BY <1>4, <1>7, <1>8

LEMMA OrderPreservingUintSound ==
  ASSUME input \in Inputs, NEW o \in 0..Size, OrderPreservingUint(o).ok
  PROVE  /\ OrderPreservingUint(o).next \in Int
         /\ o < OrderPreservingUint(o).next
         /\ OrderPreservingUint(o).next <= Size
<1> DEFINE size == ConsumeUvarint(o)
           end == size.next + ToInt(size.value)
           padding == WordBytes - size.value
           padded == [i \in 1..WordBytes |-> IF i <= padding THEN 0 ELSE Bytes[size.next + i - padding]]
<1>1. Size \in Nat /\ Size <= MaxInt /\ HalfWord \in Nat \ {0}
  BY DecodingAssumption, FormatAssumption DEF Bytes, Size
<1>2. size.ok /\ ~(size.value > WordBytes \/ size.value > ToWord(Size - size.next))
  BY DEF OrderPreservingUint, Err
<1>3. OrderPreservingUint(o) = Ok(BigEndian(padded), end) BY <1>2 DEF OrderPreservingUint
<1>4. size.value \in Word /\ size.next \in Int /\ o < size.next /\ size.next <= Size
  BY <1>2, ConsumeSound
<1>5. OrderPreservingUint(o).next = end BY <1>3 DEF Ok
<1> HIDE DEF size
<1>6. size.value <= ToWord(Size - size.next) BY <1>1, <1>2, <1>4 DEF ToWord, Word
<1>7. size.value <= Size - size.next BY <1>1, <1>4, <1>6 DEF ToWord
<1>8. ToInt(size.value) = size.value BY <1>1, <1>4, <1>7 DEF ToInt, MaxInt, Word
<1> QED BY <1>1, <1>4, <1>5, <1>7, <1>8 DEF Word

-----------------------------------------------------------------------------
(***************************************************************************)
(* The readers of numbers and byte strings find exactly what the format    *)
(* says: what they return lies between the two offsets, and what lies at   *)
(* an offset is what they return.                                          *)
(***************************************************************************)
LEMMA Lengths ==
  ASSUME input \in Inputs
  PROVE  /\ Bytes \in Seq(Byte) /\ Bytes = input.data /\ Size = Len(input.data)
         /\ Size \in Nat /\ Size <= MaxInt /\ HalfWord \in Nat \ {0}
         /\ Offsets(input) = 0..Size
BY DecodingAssumption, FormatAssumption DEF Bytes, Size, Offsets

LEMMA PieceIs ==
  ASSUME input \in Inputs, NEW o \in 0..Size, NEW e \in 0..Size, o <= e
  PROVE  /\ Piece(input, o, e) = SubSeq(Bytes, o + 1, e)
         /\ Piece(input, o, e) \in Seq(Byte)
         /\ Len(Piece(input, o, e)) = e - o
         /\ \A i \in 1..(e - o) : Piece(input, o, e)[i] = Bytes[o + i]
<1>1. Piece(input, o, e) = SubSeq(Bytes, o + 1, e)
  BY Lengths DEF Piece
<1>2. Bytes \in Seq(Byte) /\ Size = Len(Bytes) /\ Size \in Nat
  BY Lengths
<1>3. \A i \in (o + 1)..e : Bytes[i] \in Byte
  BY <1>2
<1>4. /\ SubSeq(Bytes, o + 1, e) \in Seq(Byte)
      /\ Len(SubSeq(Bytes, o + 1, e)) = e - o
      /\ \A i \in 1..(e - o) : SubSeq(Bytes, o + 1, e)[i] = Bytes[o + i]
  <2>1. o + 1 \in Int /\ e \in Int /\ e - o = IF o + 1 <= e + 1 THEN e - (o + 1) + 1 ELSE 0
    BY <1>2
  <2>2. /\ SubSeq(Bytes, o + 1, e) \in Seq(Byte)
        /\ Len(SubSeq(Bytes, o + 1, e)) = e - o
    BY <1>3, <2>1, SubSeqProperties
  <2>3. \A i \in 1..(e - o) : SubSeq(Bytes, o + 1, e)[i] = Bytes[o + i]
    BY <1>2
  <2> QED
    BY <2>2, <2>3
<1> QED
  BY <1>1, <1>4

LEMMA VarintRead ==
  ASSUME input \in Inputs, NEW o \in 0..Size
  PROVE  /\ ConsumeUvarint(o).ok =>
              /\ ConsumeUvarint(o).next \in 0..Size
              /\ IsVarint(input, o, ConsumeUvarint(o).next, ConsumeUvarint(o).value)
              /\ ConsumeUvarint(o) = Ok(ConsumeUvarint(o).value, ConsumeUvarint(o).next)
         /\ \A e \in 0..Size : \A v : IsVarint(input, o, e, v) => ConsumeUvarint(o) = Ok(v, e)
<1> DEFINE u == Uvarint(Bytes, o)
<1>1. /\ u.read \in Int /\ u.read <= Size - o
      /\ u.read > 0 => IsVarint(input, o, o + u.read, u.value)
      /\ \A e \in (o + 1)..Size :
           VarintOf(Piece(input, o, e)) \in Word => u = [value |-> VarintOf(Piece(input, o, e)), read |-> e - o]
  BY UvarintAssumption, Lengths
<1>2. Size \in Nat
  BY Lengths
<1>3. ConsumeUvarint(o) = IF o < 0 \/ o >= Size \/ u.read <= 0 THEN Err ELSE Ok(u.value, o + u.read)
  BY DEF ConsumeUvarint
<1> HIDE DEF u
<1>4. ASSUME ConsumeUvarint(o).ok
      PROVE  /\ ConsumeUvarint(o).next \in 0..Size
             /\ IsVarint(input, o, ConsumeUvarint(o).next, ConsumeUvarint(o).value)
             /\ ConsumeUvarint(o) = Ok(ConsumeUvarint(o).value, ConsumeUvarint(o).next)
  <2>1. ConsumeUvarint(o) = Ok(u.value, o + u.read) /\ u.read > 0
    BY <1>1, <1>3, <1>4 DEF Err
  <2>2. ConsumeUvarint(o).value = u.value /\ ConsumeUvarint(o).next = o + u.read
    BY <2>1, OkFields
  <2> QED
    BY <1>1, <1>2, <2>1, <2>2
<1>5. ASSUME NEW e \in 0..Size, NEW v, IsVarint(input, o, e, v)
      PROVE  ConsumeUvarint(o) = Ok(v, e)
  <2>1. e \in (o + 1)..Size /\ VarintOf(Piece(input, o, e)) = v /\ v \in Word
    BY <1>2, <1>5 DEF IsVarint
  <2>2. u.value = v /\ u.read = e - o
    BY <1>1, <2>1
  <2>3. o + u.read = e /\ ~(o < 0 \/ o >= Size \/ u.read <= 0)
    BY <1>2, <2>1, <2>2
  <2> QED
    BY <1>3, <2>2, <2>3
<1> QED
  BY <1>4, <1>5

(* A varint ends inside the bytes and stands for a word.                   *)
LEMMA VarintBounds ==
  ASSUME input \in Inputs, NEW o \in 0..Size, NEW e, NEW v, IsVarint(input, o, e, v)
  PROVE  v \in Nat /\ v \in Word /\ o < e
BY FormatAssumption DEF IsVarint, Word

LEMMA SizedCases ==
  ASSUME input \in Inputs, NEW o \in 0..Size, NEW m \in 0..Size, NEW v \in Word,
         ConsumeUvarint(o) = Ok(v, m)
  PROVE  /\ Sized(o) = IF v <= Size - m THEN Ok(Piece(input, m, m + v), m + v) ELSE Err
         /\ ReadSized(o) = IF v <= Size - m THEN Ok(Piece(input, m, m + v), m + v) ELSE Err
         /\ OrderPreservingUint(o) =
              IF v <= WordBytes /\ v <= Size - m
              THEN Ok(BigEndian(Padded(Piece(input, m, m + v))), m + v) ELSE Err
<1>1. /\ Size \in Nat /\ Size <= MaxInt /\ HalfWord \in Nat \ {0} /\ v \in Nat /\ WordBytes \in Nat
      /\ v < 2 * HalfWord
  BY Lengths, FormatAssumption DEF Word
<1>2. ConsumeUvarint(o).ok /\ ConsumeUvarint(o).value = v /\ ConsumeUvarint(o).next = m
  BY OkFields DEF Ok
<1>3. ToWord(Size - m) = Size - m
  BY <1>1 DEF ToWord
<1>4. v <= Size - m => ToInt(v) = v
  BY <1>1 DEF ToInt, MaxInt
<1>5. ASSUME v <= Size - m
      PROVE  /\ m + v \in 0..Size
             /\ SubSeq(Bytes, m + 1, m + v) = Piece(input, m, m + v)
             /\ Len(Piece(input, m, m + v)) = v
             /\ \A i \in 1..v : Piece(input, m, m + v)[i] = Bytes[m + i]
  <2> DEFINE e == m + v
  <2>1. e \in 0..Size /\ m <= e /\ e - m = v
    BY <1>1, <1>5
  <2> HIDE DEF e
  <2>2. /\ Piece(input, m, e) = SubSeq(Bytes, m + 1, e)
        /\ Len(Piece(input, m, e)) = e - m
        /\ \A i \in 1..(e - m) : Piece(input, m, e)[i] = Bytes[m + i]
    BY <2>1, PieceIs
  <2>3. /\ Piece(input, m, e) = SubSeq(Bytes, m + 1, e)
        /\ Len(Piece(input, m, e)) = v
        /\ \A i \in 1..v : Piece(input, m, e)[i] = Bytes[m + i]
    BY <2>1, <2>2
  <2> QED
    BY <2>1, <2>3 DEF e
<1>6. Sized(o) = IF v <= Size - m THEN Ok(Piece(input, m, m + v), m + v) ELSE Err
  <2>1. Sized(o) = IF v > ToWord(Size - m) THEN Err ELSE Ok(SubSeq(Bytes, m + 1, m + ToInt(v)), m + ToInt(v))
    BY <1>2 DEF Sized
  <2>2. CASE v <= Size - m
    <3>1. ~(v > ToWord(Size - m)) /\ ToInt(v) = v
      BY <1>1, <1>3, <1>4, <2>2
    <3> QED
      BY <1>5, <2>1, <2>2, <3>1
  <2>3. CASE ~(v <= Size - m)
    <3>1. v > ToWord(Size - m)
      BY <1>1, <1>3, <2>3
    <3> QED
      BY <2>1, <2>3, <3>1
  <2> QED
    BY <2>2, <2>3
<1>7. ReadSized(o) = IF v <= Size - m THEN Ok(Piece(input, m, m + v), m + v) ELSE Err
  <2>1. ReadSized(o) = IF v > MaxInt \/ ToInt(v) > Size - m THEN Err
                       ELSE Ok(SubSeq(Bytes, m + 1, m + ToInt(v)), m + ToInt(v))
    BY <1>2 DEF ReadSized
  <2>2. v > MaxInt \/ ToInt(v) > Size - m <=> ~(v <= Size - m)
    BY <1>1 DEF ToInt, MaxInt
  <2>3. CASE v <= Size - m
    BY <1>4, <1>5, <2>1, <2>2, <2>3
  <2>4. CASE ~(v <= Size - m)
    BY <2>1, <2>2, <2>4
  <2> QED
    BY <2>3, <2>4
<1>8. OrderPreservingUint(o) =
        IF v <= WordBytes /\ v <= Size - m
        THEN Ok(BigEndian(Padded(Piece(input, m, m + v))), m + v) ELSE Err
  <2> DEFINE padding == WordBytes - v
             padded == [i \in 1..WordBytes |-> IF i <= padding THEN 0 ELSE Bytes[m + i - padding]]
  <2>1. OrderPreservingUint(o) =
          IF v > WordBytes \/ v > ToWord(Size - m) THEN Err ELSE Ok(BigEndian(padded), m + ToInt(v))
    BY <1>2 DEF OrderPreservingUint
  <2>2. ASSUME v <= WordBytes, v <= Size - m
        PROVE  padded = Padded(Piece(input, m, m + v))
    <3> DEFINE digits == Piece(input, m, m + v)
    <3>1. Padded(digits) = [i \in 1..WordBytes |-> IF i <= padding THEN 0 ELSE digits[i - padding]]
      BY <1>5, <2>2 DEF Padded
    <3>2. ASSUME NEW i \in 1..WordBytes
          PROVE  (IF i <= padding THEN 0 ELSE Bytes[m + i - padding])
                 = (IF i <= padding THEN 0 ELSE digits[i - padding])
      <4>1. CASE i <= padding
        BY <4>1
      <4>2. CASE ~(i <= padding)
        <5>1. i - padding \in 1..v /\ m + (i - padding) = m + i - padding
          BY <1>1, <2>2, <4>2
        <5> HIDE DEF padding, digits
        <5>2. digits[i - padding] = Bytes[m + (i - padding)]
          BY <1>5, <2>2, <5>1 DEF digits
        <5> QED
          BY <4>2, <5>1, <5>2
      <4> QED
        BY <4>1, <4>2
    <3> DEFINE here(i) == IF i <= padding THEN 0 ELSE Bytes[m + i - padding]
               there(i) == IF i <= padding THEN 0 ELSE digits[i - padding]
    <3>3. padded = [i \in 1..WordBytes |-> here(i)] /\ Padded(digits) = [i \in 1..WordBytes |-> there(i)]
      BY <3>1
    <3>4. \A i \in 1..WordBytes : here(i) = there(i)
      BY <3>2
    <3> HIDE DEF here, there, padded, digits, padding
    <3>5. padded = Padded(digits)
      BY <3>3, <3>4
    <3> QED
      BY <3>5 DEF digits
  <2> HIDE DEF padded
  <2>3. v > WordBytes \/ v > ToWord(Size - m) <=> ~(v <= WordBytes /\ v <= Size - m)
    BY <1>1, <1>3
  <2>4. CASE v <= WordBytes /\ v <= Size - m
    BY <1>4, <2>1, <2>2, <2>3, <2>4
  <2>5. CASE ~(v <= WordBytes /\ v <= Size - m)
    BY <2>1, <2>3, <2>5
  <2> QED
    BY <2>4, <2>5
<1> QED
  BY <1>6, <1>7, <1>8

LEMMA SizedPieces ==
  ASSUME input \in Inputs, NEW o \in 0..Size
  PROVE  /\ \A m \in 0..Size : \A v : IsVarint(input, o, m, v) /\ v <= Size - m =>
              m + v \in 0..Size /\ IsSized(input, o, m + v, Piece(input, m, m + v))
         /\ \A e \in 0..Size : \A b : IsSized(input, o, e, b) =>
              \E m \in 0..Size : \E v \in Word :
                /\ IsVarint(input, o, m, v) /\ v <= Size - m
                /\ b = Piece(input, m, m + v) /\ e = m + v
<1>1. Size \in Nat /\ Offsets(input) = 0..Size
  BY Lengths
<1>2. ASSUME NEW m \in 0..Size, NEW v, IsVarint(input, o, m, v), v <= Size - m
      PROVE  m + v \in 0..Size /\ IsSized(input, o, m + v, Piece(input, m, m + v))
  <2> DEFINE e == m + v
  <2>1. v \in Nat
    BY <1>2, VarintBounds
  <2>2. e \in 0..Size /\ m <= e /\ e - m = v
    BY <1>1, <1>2, <2>1
  <2> HIDE DEF e
  <2>3. Len(Piece(input, m, e)) = v
    BY <2>2, PieceIs
  <2>4. IsSized(input, o, e, Piece(input, m, e))
    BY <1>1, <1>2, <2>2, <2>3 DEF IsSized
  <2> QED
    BY <2>2, <2>4 DEF e
<1>3. ASSUME NEW e \in 0..Size, NEW b, IsSized(input, o, e, b)
      PROVE  \E m \in 0..Size : \E v \in Word :
                /\ IsVarint(input, o, m, v) /\ v <= Size - m
                /\ b = Piece(input, m, m + v) /\ e = m + v
  <2>1. PICK m \in 0..Size : m <= e /\ IsVarint(input, o, m, Len(b)) /\ b = Piece(input, m, e)
    BY <1>1, <1>3 DEF IsSized
  <2>2. Len(b) = e - m
    BY <2>1, PieceIs
  <2>3. e - m \in Word /\ e = m + (e - m) /\ e - m <= Size - m
    BY <1>1, <2>1, <2>2, VarintBounds
  <2> QED
    BY <2>1, <2>2, <2>3
<1> QED
  BY <1>2, <1>3

LEMMA SizedRead ==
  ASSUME input \in Inputs, NEW o \in 0..Size
  PROVE  /\ Sized(o).ok => Sized(o).next \in 0..Size /\ IsSized(input, o, Sized(o).next, Sized(o).value)
         /\ \A e \in 0..Size : \A b : IsSized(input, o, e, b) => Sized(o) = Ok(b, e)
<1>1. ASSUME Sized(o).ok
      PROVE  Sized(o).next \in 0..Size /\ IsSized(input, o, Sized(o).next, Sized(o).value)
  <2> DEFINE m == ConsumeUvarint(o).next
             v == ConsumeUvarint(o).value
  <2>1. ConsumeUvarint(o).ok
    BY <1>1 DEF Sized, Err
  <2>2. m \in 0..Size /\ IsVarint(input, o, m, v) /\ ConsumeUvarint(o) = Ok(v, m)
    BY <2>1, VarintRead
  <2> HIDE DEF m, v
  <2>3. v \in Word
    BY <2>2, VarintBounds
  <2>4. v <= Size - m /\ Sized(o) = Ok(Piece(input, m, m + v), m + v)
    BY <1>1, <2>2, <2>3, SizedCases DEF Err
  <2>5. Sized(o).value = Piece(input, m, m + v) /\ Sized(o).next = m + v
    BY <2>4, OkFields
  <2> QED
    BY <2>2, <2>4, <2>5, SizedPieces
<1>2. ASSUME NEW e \in 0..Size, NEW b, IsSized(input, o, e, b)
      PROVE  Sized(o) = Ok(b, e)
  <2>1. PICK m \in 0..Size, v \in Word :
          /\ IsVarint(input, o, m, v) /\ v <= Size - m
          /\ b = Piece(input, m, m + v) /\ e = m + v
    BY <1>2, SizedPieces
  <2>2. ConsumeUvarint(o) = Ok(v, m)
    BY <2>1, VarintRead
  <2> QED
    BY <2>1, <2>2, SizedCases
<1> QED
  BY <1>1, <1>2

LEMMA ReadSizedRead ==
  ASSUME input \in Inputs, NEW o \in 0..Size
  PROVE  /\ ReadSized(o).ok =>
              ReadSized(o).next \in 0..Size /\ IsSized(input, o, ReadSized(o).next, ReadSized(o).value)
         /\ \A e \in 0..Size : \A b : IsSized(input, o, e, b) => ReadSized(o) = Ok(b, e)
<1>1. ASSUME ReadSized(o).ok
      PROVE  ReadSized(o).next \in 0..Size /\ IsSized(input, o, ReadSized(o).next, ReadSized(o).value)
  <2> DEFINE m == ConsumeUvarint(o).next
             v == ConsumeUvarint(o).value
  <2>1. ConsumeUvarint(o).ok
    BY <1>1 DEF ReadSized, Err
  <2>2. m \in 0..Size /\ IsVarint(input, o, m, v) /\ ConsumeUvarint(o) = Ok(v, m)
    BY <2>1, VarintRead
  <2> HIDE DEF m, v
  <2>3. v \in Word
    BY <2>2, VarintBounds
  <2>4. v <= Size - m /\ ReadSized(o) = Ok(Piece(input, m, m + v), m + v)
    BY <1>1, <2>2, <2>3, SizedCases DEF Err
  <2>5. ReadSized(o).value = Piece(input, m, m + v) /\ ReadSized(o).next = m + v
    BY <2>4, OkFields
  <2> QED
    BY <2>2, <2>4, <2>5, SizedPieces
<1>2. ASSUME NEW e \in 0..Size, NEW b, IsSized(input, o, e, b)
      PROVE  ReadSized(o) = Ok(b, e)
  <2>1. PICK m \in 0..Size, v \in Word :
          /\ IsVarint(input, o, m, v) /\ v <= Size - m
          /\ b = Piece(input, m, m + v) /\ e = m + v
    BY <1>2, SizedPieces
  <2>2. ConsumeUvarint(o) = Ok(v, m)
    BY <2>1, VarintRead
  <2> QED
    BY <2>1, <2>2, SizedCases
<1> QED
  BY <1>1, <1>2

LEMMA UintRead ==
  ASSUME input \in Inputs, NEW o \in 0..Size
  PROVE  /\ OrderPreservingUint(o).ok =>
              /\ OrderPreservingUint(o).next \in 0..Size
              /\ IsUint(input, o, OrderPreservingUint(o).next, OrderPreservingUint(o).value)
         /\ \A e \in 0..Size : \A n : IsUint(input, o, e, n) => OrderPreservingUint(o) = Ok(n, e)
<1>1. Size \in Nat /\ Offsets(input) = 0..Size
  BY Lengths
<1>2. ASSUME OrderPreservingUint(o).ok
      PROVE  /\ OrderPreservingUint(o).next \in 0..Size
             /\ IsUint(input, o, OrderPreservingUint(o).next, OrderPreservingUint(o).value)
  <2> DEFINE m == ConsumeUvarint(o).next
             v == ConsumeUvarint(o).value
             e == m + v
  <2>1. ConsumeUvarint(o).ok
    BY <1>2 DEF OrderPreservingUint, Err
  <2>2. m \in 0..Size /\ IsVarint(input, o, m, v) /\ ConsumeUvarint(o) = Ok(v, m)
    BY <2>1, VarintRead
  <2> HIDE DEF m, v
  <2>3. v \in Word /\ v \in Nat
    BY <2>2, VarintBounds
  <2>4. /\ v <= WordBytes /\ v <= Size - m
        /\ OrderPreservingUint(o) = Ok(BigEndian(Padded(Piece(input, m, e))), e)
    BY <1>2, <2>2, <2>3, SizedCases DEF Err
  <2>5. e \in 0..Size /\ m <= e /\ e - m = v
    BY <1>1, <2>2, <2>3, <2>4
  <2> HIDE DEF e
  <2>6. OrderPreservingUint(o).value = BigEndian(Padded(Piece(input, m, e))) /\ OrderPreservingUint(o).next = e
    BY <2>4, OkFields
  <2>7. IsUint(input, o, e, OrderPreservingUint(o).value)
    BY <1>1, <2>2, <2>4, <2>5, <2>6 DEF IsUint
  <2> QED
    BY <2>5, <2>6, <2>7
<1>3. ASSUME NEW e \in 0..Size, NEW n, IsUint(input, o, e, n)
      PROVE  OrderPreservingUint(o) = Ok(n, e)
  <2>1. PICK m \in 0..Size :
          /\ m <= e /\ e - m <= WordBytes /\ IsVarint(input, o, m, e - m)
          /\ n = BigEndian(Padded(Piece(input, m, e)))
    BY <1>1, <1>3 DEF IsUint
  <2> DEFINE v == e - m
  <2>2. v \in Word /\ m + v = e /\ v <= Size - m /\ v <= WordBytes
    BY <1>1, <2>1, VarintBounds
  <2>3. ConsumeUvarint(o) = Ok(v, m)
    BY <2>1, VarintRead
  <2> HIDE DEF v
  <2>4. OrderPreservingUint(o) = Ok(BigEndian(Padded(Piece(input, m, m + v))), m + v)
    BY <2>2, <2>3, SizedCases
  <2> QED
    BY <2>1, <2>2, <2>4
<1> QED
  BY <1>2, <1>3

-----------------------------------------------------------------------------
(***************************************************************************)
(* Chains of pieces.                                                       *)
(***************************************************************************)
LEMMA ListLength ==
  ASSUME NEW n \in Nat, NEW f, f = [i \in 1..n |-> f[i]]
  PROVE  Len(f) = n /\ DOMAIN f = 1..n
<1> DEFINE S == {f[i] : i \in 1..n}
<1>1. \A i \in 1..n : f[i] \in S
  OBVIOUS
<1> HIDE DEF S
<1>2. f \in [1..n -> S]
  BY <1>1
<1> QED
  BY <1>2

LEMMA SmallestNat ==
  ASSUME NEW S \in SUBSET Nat, S # {}
  PROVE  \E x \in S : \A y \in S : x <= y
<1> DEFINE R == OpToRel(<, Nat)
<1>1. IsWellFoundedOn(R, Nat)
  BY NatLessThanWellFounded
<1>2. \A x, y \in Nat : y < x => <<y, x>> \in R
  BY DEF OpToRel
<1> HIDE DEF R
<1>3. PICK x \in S : \A y \in S : ~(<<y, x>> \in R)
  BY <1>1, WFMin
<1>4. \A y \in S : ~(y < x)
  BY <1>2, <1>3
<1> QED
  BY <1>4

LEMMA ChainOfNone ==
  ASSUME NEW x, NEW from \in Offsets(x), NEW spans, Len(spans) = 0
  PROVE  Chains(x, from, from, spans) # {}
<1> DEFINE c == [j \in 0..0 |-> from]
<1>1. c \in [0..Len(spans) -> Offsets(x)] /\ c[0] = from /\ c[Len(spans)] = from
  OBVIOUS
<1> HIDE DEF c
<1>2. c \in Chains(x, from, from, spans)
  BY <1>1 DEF Chains
<1> QED
  BY <1>2

LEMMA ChainExtends ==
  ASSUME NEW x, NEW from, NEW to, NEW next \in Offsets(x), NEW spans, NEW longer,
         Len(spans) \in Nat, Len(longer) = Len(spans) + 1,
         Chains(x, from, to, spans) # {},
         \A i \in 1..Len(spans) : longer[i] = spans[i],
         <<to, next>> \in longer[Len(spans) + 1]
  PROVE  Chains(x, from, next, longer) # {}
<1> DEFINE n == Len(spans)
<1>1. PICK c \in Chains(x, from, to, spans) : TRUE
  OBVIOUS
<1>2. /\ c \in [0..n -> Offsets(x)] /\ c[0] = from /\ c[n] = to
      /\ \A i \in 1..n : <<c[i - 1], c[i]>> \in spans[i]
  BY <1>1 DEF Chains
<1> DEFINE d == [j \in 0..(n + 1) |-> IF j = n + 1 THEN next ELSE c[j]]
<1> HIDE DEF n
<1>3. n \in Nat /\ Len(longer) = n + 1
  BY DEF n
<1>4. \A j \in 0..n : d[j] = c[j]
  BY <1>3
<1>5. d[n + 1] = next /\ d[0] = from /\ d[n] = to
  BY <1>2, <1>3, <1>4
<1>6. d \in [0..(n + 1) -> Offsets(x)]
  BY <1>2, <1>3
<1> HIDE DEF d
<1>7. ASSUME NEW i \in 1..(n + 1)
      PROVE  <<d[i - 1], d[i]>> \in longer[i]
  <2>1. CASE i = n + 1
    BY <1>3, <1>5, <2>1 DEF n
  <2>2. CASE i # n + 1
    <3>1. i \in 1..n /\ i - 1 \in 0..n /\ i \in 0..n
      BY <1>3, <2>2
    <3>2. d[i - 1] = c[i - 1] /\ d[i] = c[i] /\ longer[i] = spans[i]
      BY <1>4, <3>1 DEF n
    <3> QED
      BY <1>2, <3>1, <3>2
  <2> QED
    BY <2>1, <2>2
<1>8. d \in Chains(x, from, next, longer)
  BY <1>3, <1>5, <1>6, <1>7 DEF Chains
<1> QED
  BY <1>8

(* Pieces of two bytes or more take at least twice as many bytes as there  *)
(* are of them.                                                            *)
LEMMA ChainWidth ==
  ASSUME NEW x, Len(x.data) \in Nat, NEW from, NEW to, NEW spans, Len(spans) \in Nat,
         NEW c \in Chains(x, from, to, spans),
         \A i \in 1..Len(spans) : \A s \in spans[i] : s[1] \in Nat /\ s[2] \in Nat /\ s[1] + 2 <= s[2]
  PROVE  from + 2 * Len(spans) <= to
<1> DEFINE n == Len(spans)
           Bad == {i \in 0..n : ~(from + 2 * i <= c[i])}
<1>1. /\ c \in [0..n -> Offsets(x)] /\ c[0] = from /\ c[n] = to
      /\ \A i \in 1..n : <<c[i - 1], c[i]>> \in spans[i]
  BY DEF Chains
<1>2. n \in Nat /\ from \in Nat /\ \A i \in 0..n : c[i] \in Nat
  BY <1>1 DEF Offsets
<1>3. \A i \in 1..n : c[i - 1] + 2 <= c[i]
  <2> SUFFICES ASSUME NEW i \in 1..n PROVE c[i - 1] + 2 <= c[i]
    OBVIOUS
  <2> DEFINE s == <<c[i - 1], c[i]>>
  <2>1. s[1] = c[i - 1] /\ s[2] = c[i]
    OBVIOUS
  <2>2. s \in spans[i]
    BY <1>1
  <2> HIDE DEF s
  <2> QED
    BY <2>1, <2>2
<1>4. Bad = {}
  <2> SUFFICES ASSUME Bad # {} PROVE FALSE
    OBVIOUS
  <2>1. PICK k \in Bad : \A m \in Bad : k <= m
    <3>1. Bad \in SUBSET Nat
      BY <1>2
    <3> HIDE DEF Bad
    <3> QED
      BY <3>1, SmallestNat
  <2>2. k \in 0..n /\ ~(from + 2 * k <= c[k])
    BY <2>1
  <2>3. k # 0
    BY <1>1, <1>2, <2>2
  <2>4. k - 1 \in 0..n /\ k \in 1..n /\ k - 1 \notin Bad
    BY <1>2, <2>1, <2>2, <2>3
  <2>5. from + 2 * (k - 1) <= c[k - 1]
    BY <2>4
  <2>6. c[k - 1] + 2 <= c[k] /\ c[k - 1] \in Nat /\ c[k] \in Nat
    BY <1>2, <1>3, <2>2, <2>4
  <2>7. k \in Nat /\ from \in Nat
    BY <1>2, <2>2
  <2> DEFINE before == c[k - 1]
             after == c[k]
  <2>8. before \in Nat /\ after \in Nat /\ before + 2 <= after /\ from + 2 * (k - 1) <= before
        /\ ~(from + 2 * k <= after)
    BY <2>2, <2>5, <2>6
  <2> HIDE DEF before, after
  <2> QED
    BY <2>7, <2>8
<1>5. n \in 0..n /\ n \notin Bad
  BY <1>2, <1>4
<1> QED
  BY <1>1, <1>5

(***************************************************************************)
(* A tag is a field and a wire type.                                       *)
(***************************************************************************)
LEMMA TagParts ==
  ASSUME NEW f \in Nat
  PROVE  /\ f * WireSize + LengthDelimited \in Nat
         /\ (f * WireSize + LengthDelimited) \div WireSize = f
         /\ (f * WireSize + LengthDelimited) % WireSize = LengthDelimited
<1> DEFINE w == WireSize
           v == f * w + LengthDelimited
           q == v \div w
           r == v % w
<1>1. w \in Nat \ {0} /\ LengthDelimited \in 0..(w - 1)
  BY FormatAssumption
<1>2. f * w \in Nat
  BY <1>1
<1>3. v \in Nat
  BY <1>1, <1>2
<1>4. q \in Nat /\ r \in 0..(w - 1) /\ v = w * q + r
  <2> HIDE DEF v
  <2> QED
    BY <1>1, <1>3
<1> HIDE DEF q, r
<1>5. ~(q < f)
  <2> SUFFICES ASSUME q < f PROVE FALSE
    OBVIOUS
  <2>1. PICK d \in Nat : f = q + 1 + d
    <3>1. f - q - 1 \in Nat /\ f = q + 1 + (f - q - 1)
      BY <1>4
    <3> QED
      BY <3>1
  <2>2. f * w = w * q + w + d * w /\ d * w \in Nat /\ w * q \in Nat
    BY <1>1, <1>4, <2>1
  <2> QED
    BY <1>1, <1>2, <1>4, <2>2
<1>6. ~(f < q)
  <2> SUFFICES ASSUME f < q PROVE FALSE
    OBVIOUS
  <2>1. PICK d \in Nat : q = f + 1 + d
    <3>1. q - f - 1 \in Nat /\ q = f + 1 + (q - f - 1)
      BY <1>4
    <3> QED
      BY <3>1
  <2>2. w * q = f * w + w + d * w /\ d * w \in Nat
    BY <1>1, <1>4, <2>1
  <2> QED
    BY <1>1, <1>2, <1>4, <2>2
<1>7. q = f
  BY <1>4, <1>5, <1>6
<1>8. r = LengthDelimited
  <2>1. w * q = f * w
    BY <1>1, <1>7
  <2> QED
    BY <1>1, <1>2, <1>4, <2>1
<1> QED
  BY <1>3, <1>7, <1>8 DEF q, r

LEMMA TagWhole ==
  ASSUME NEW v \in Nat, v % WireSize = LengthDelimited
  PROVE  v \div WireSize \in Nat /\ v = (v \div WireSize) * WireSize + LengthDelimited
<1> DEFINE w == WireSize
           q == v \div w
           r == v % w
<1>1. w \in Nat \ {0}
  BY FormatAssumption
<1>2. q \in Nat /\ v = w * q + r
  BY <1>1
<1> HIDE DEF q
<1>3. w * q = q * w
  BY <1>1, <1>2
<1> QED
  BY <1>2, <1>3 DEF q

-----------------------------------------------------------------------------
LEMMA InitEstablishes ==
  ASSUME Init
  PROVE  DecodingInv
<1>1. input \in Inputs /\ offset = 0 /\ left = 0 /\ entries = <<>> BY DEF Init
<1>2. Size \in Nat /\ HalfWord \in Nat \ {0} /\ input.task \in {"namespaces", "records", "record", "height"}
  BY <1>1, DecodingAssumption, FormatAssumption DEF Size
<1>3. pc = (IF input.task \in {"namespaces", "records"} THEN "start" ELSE "loop") BY DEF Init
<1>4. Len(entries) = 0 BY <1>1
<1>5. TypeInv BY <1>1, <1>2, <1>3 DEF TypeInv, Decoded, Word
<1>6. StartInv BY <1>1, <1>2, <1>3 DEF StartInv, Task
<1>7. InBounds BY <1>1, <1>2 DEF InBounds
<1>8. Bounded BY <1>1, <1>4 DEF Bounded
<1> QED BY <1>5, <1>6, <1>7, <1>8 DEF DecodingInv

(* A step that only changes pc, and not to "start" or "loop".              *)
LEMMA EndKeeps ==
  ASSUME DecodingInv, Fail \/ Accept
  PROVE  /\ DecodingInv'
         /\ pc' \in {"done", "failed"}
<1>1. pc' \in {"done", "failed"} /\ UNCHANGED <<input, offset, left, entries>> BY DEF Fail, Accept
<1>2. TypeInv' BY <1>1 DEF DecodingInv, TypeInv, Decoded, Task
<1>3. StartInv' BY <1>1 DEF DecodingInv, StartInv, Task
<1>4. InBounds' /\ Bounded' BY <1>1 DEF DecodingInv, InBounds, Bounded, Size, Task
<1> QED BY <1>1, <1>2, <1>3, <1>4 DEF DecodingInv

(* What the invariant says of the numbers.                                 *)
LEMMA Numbers ==
  ASSUME DecodingInv
  PROVE  /\ input \in Inputs /\ HalfWord \in Nat \ {0} /\ Size \in Nat /\ Size <= MaxInt
         /\ offset \in Nat /\ offset <= Size /\ left \in Nat /\ left \in Word
         /\ input.count \in Word
  BY DecodingAssumption, FormatAssumption DEF DecodingInv, TypeInv, InBounds, Size, Word

LEMMA CountNamespacesKeeps ==
  ASSUME DecodingInv, CountNamespaces
  PROVE  /\ DecodingInv'
         /\ pc' \in {"done", "failed"} \/ offset' > offset
<1> DEFINE count == ConsumeUvarint(1)
<1>1. CASE Fail BY <1>1, EndKeeps
<1>2. CASE ~Fail
  <2>1. /\ Task("namespaces") /\ pc = "start" /\ VersionRead /\ count.ok /\ CountFits(count)
        /\ pc' = "loop" /\ left' = count.value /\ offset' = count.next /\ UNCHANGED <<input, entries>>
    BY <1>2 DEF CountNamespaces
  <2>2. entries = <<>> /\ offset = 0 /\ Len(entries) = 0 BY <2>1 DEF DecodingInv, StartInv
  <2>3. 1 \in 0..Size BY <2>1, Numbers DEF VersionRead
  <2>4. count.value \in Word /\ count.next \in Int /\ 1 < count.next /\ count.next <= Size
    BY <2>1, <2>3, Numbers, ConsumeSound
  <2>5. count.value <= ToWord(Size - count.next) \div 2 BY <2>1 DEF CountFits
  <2> HIDE DEF count
  <2>6. 2 * count.value <= Size - count.next /\ count.value \in Nat
    BY <2>4, <2>5, Numbers DEF ToWord, Word
  <2>7. TypeInv' BY <2>1, <2>4 DEF DecodingInv, TypeInv, Decoded, Task
  <2>8. StartInv' BY <2>1 DEF StartInv, Task
  <2>9. InBounds' BY <2>1, <2>4, Numbers DEF InBounds, Size
  <2>10. Bounded' BY <2>1, <2>2, <2>4, <2>6, Numbers DEF Bounded, Size, Task
  <2> QED BY <2>1, <2>2, <2>4, <2>7, <2>8, <2>9, <2>10 DEF DecodingInv
<1> QED BY <1>1, <1>2

LEMMA DecodeNamespaceKeeps ==
  ASSUME DecodingInv, DecodeNamespace
  PROVE  /\ DecodingInv'
         /\ pc' \in {"done", "failed"} \/ offset' > offset
<1> DEFINE name == Sized(offset)
           records == ConsumeUvarint(name.next)
           entry == [name |-> name.value, records |-> records.value]
<1>1. CASE Fail BY <1>1, EndKeeps
<1>2. CASE ~Fail
  <2>1. /\ Task("namespaces") /\ pc = "loop" /\ left > 0 /\ name.ok /\ records.ok
        /\ entries' = Append(entries, entry) /\ offset' = records.next /\ left' = left - 1
        /\ UNCHANGED <<input, pc>>
    BY <1>2 DEF DecodeNamespace
  <2>2. name.value \in Seq(Byte) /\ name.next \in Int /\ offset < name.next /\ name.next <= Size
    BY <2>1, Numbers, SizedSound
  <2>3. name.next \in 0..Size BY <2>2, Numbers
  <2>4. /\ records.value \in Word /\ records.next \in Int
        /\ name.next < records.next /\ records.next <= Size
    BY <2>1, <2>3, Numbers, ConsumeSound
  <2> HIDE DEF name, records
  <2>5. entries \in Seq([name : Seq(Byte), records : Word]) BY <2>1 DEF DecodingInv, TypeInv, Decoded, Task
  <2>6. entry \in [name : Seq(Byte), records : Word] BY <2>2, <2>4
  <2> HIDE DEF entry
  <2>7. /\ entries' \in Seq([name : Seq(Byte), records : Word])
        /\ Len(entries') = Len(entries) + 1 /\ Len(entries) \in Nat
    BY <2>1, <2>5, <2>6
  <2>8. TypeInv'
    <3>1. left' \in Word BY <2>1, Numbers DEF Word
    <3> QED BY <2>1, <2>7, <3>1 DEF DecodingInv, TypeInv, Decoded, Task
  <2>9. StartInv' BY <2>1 DEF StartInv, Task
  <2>10. InBounds' BY <2>1, <2>2, <2>4, Numbers DEF InBounds, Size
  <2>11. Bounded'
    <3>1. 2 * (Len(entries) + left) <= Size - 2 BY <2>1, <2>7, Numbers DEF DecodingInv, Bounded
    <3>2. Len(entries') + left' = Len(entries) + left BY <2>1, <2>7, Numbers
    <3> QED BY <2>1, <3>1, <3>2 DEF Bounded, Size, Task
  <2> QED BY <2>1, <2>2, <2>4, <2>8, <2>9, <2>10, <2>11, Numbers DEF DecodingInv
<1> QED BY <1>1, <1>2

LEMMA OpenRecordsKeeps ==
  ASSUME DecodingInv, OpenRecords
  PROVE  /\ DecodingInv'
         /\ pc' \in {"done", "failed"} \/ offset' > offset
<1>1. CASE Fail BY <1>1, EndKeeps
<1>2. CASE ~Fail
  <2>1. /\ Task("records") /\ pc = "start" /\ VersionRead
        /\ pc' = "loop" /\ offset' = 1 /\ left' = input.count /\ UNCHANGED <<input, entries>>
    BY <1>2 DEF OpenRecords
  <2>2. entries = <<>> /\ offset = 0 /\ Len(entries) = 0 BY <2>1 DEF DecodingInv, StartInv
  <2>3. TypeInv' BY <2>1, Numbers DEF DecodingInv, TypeInv, Decoded, Task
  <2>4. StartInv' BY <2>1 DEF StartInv, Task
  <2>5. InBounds' BY <2>1, Numbers DEF InBounds, Size, VersionRead
  <2>6. Bounded' BY <2>1, <2>2 DEF Bounded, Task
  <2> QED BY <2>1, <2>2, <2>3, <2>4, <2>5, <2>6 DEF DecodingInv
<1> QED BY <1>1, <1>2

LEMMA ReadRecordKeeps ==
  ASSUME DecodingInv, ReadRecord
  PROVE  /\ DecodingInv'
         /\ pc' \in {"done", "failed"} \/ offset' > offset
<1> DEFINE raw == ReadSized(offset)
<1>1. CASE Fail BY <1>1, EndKeeps
<1>2. CASE ~Fail
  <2>1. /\ Task("records") /\ pc = "loop" /\ left > 0 /\ raw.ok
        /\ entries' = Append(entries, raw.value) /\ offset' = raw.next /\ left' = left - 1
        /\ UNCHANGED <<input, pc>>
    BY <1>2 DEF ReadRecord
  <2>2. raw.value \in Seq(Byte) /\ raw.next \in Int /\ offset < raw.next /\ raw.next <= Size
    BY <2>1, Numbers, ReadSizedSound
  <2> HIDE DEF raw
  <2>3. entries \in Seq(Seq(Byte)) BY <2>1 DEF DecodingInv, TypeInv, Decoded, Task
  <2>4. entries' \in Seq(Seq(Byte)) /\ Len(entries') = Len(entries) + 1 /\ Len(entries) \in Nat
    BY <2>1, <2>2, <2>3
  <2>5. TypeInv'
    <3>1. left' \in Word BY <2>1, Numbers DEF Word
    <3> QED BY <2>1, <2>4, <3>1 DEF DecodingInv, TypeInv, Decoded, Task
  <2>6. StartInv' BY <2>1 DEF StartInv, Task
  <2>7. InBounds' BY <2>1, <2>2, Numbers DEF InBounds, Size
  <2>8. Bounded'
    <3>1. Len(entries) <= offset BY <2>1 DEF DecodingInv, Bounded
    <3>2. Len(entries') <= offset' BY <2>1, <2>2, <2>4, <3>1, Numbers
    <3> QED BY <2>1, <3>2 DEF Bounded, Task
  <2> QED BY <2>1, <2>2, <2>5, <2>6, <2>7, <2>8, Numbers DEF DecodingInv
<1> QED BY <1>1, <1>2

LEMMA DecodeFieldKeeps ==
  ASSUME DecodingInv, DecodeField
  PROVE  /\ DecodingInv'
         /\ pc' \in {"done", "failed"} \/ offset' > offset
<1> DEFINE tag == ConsumeUvarint(offset)
           value == Sized(tag.next)
<1>1. CASE Fail BY <1>1, EndKeeps
<1>2. CASE ~Fail
  <2>1. /\ Task("record") /\ pc = "loop" /\ tag.ok /\ value.ok
        /\ offset' = value.next /\ UNCHANGED <<input, pc, left>>
    BY <1>2 DEF DecodeField
  <2>2. tag.next \in Int /\ offset < tag.next /\ tag.next <= Size BY <2>1, Numbers, ConsumeSound
  <2>3. tag.next \in 0..Size BY <2>2, Numbers
  <2>4. value.next \in Int /\ tag.next < value.next /\ value.next <= Size
    BY <2>1, <2>3, Numbers, SizedSound
  <2> HIDE DEF tag, value
  <2>5. TypeInv' BY <2>1 DEF DecodingInv, TypeInv, Decoded, Task
  <2>6. StartInv' BY <2>1 DEF DecodingInv, StartInv, Task
  <2>7. InBounds' BY <2>1, <2>2, <2>4, Numbers DEF InBounds, Size
  <2>8. Bounded' BY <2>1 DEF Bounded, Task
  <2> QED BY <2>1, <2>2, <2>4, <2>5, <2>6, <2>7, <2>8, Numbers DEF DecodingInv
<1> QED BY <1>1, <1>2

LEMMA DecodeHeightKeeps ==
  ASSUME DecodingInv, DecodeHeight
  PROVE  /\ DecodingInv'
         /\ pc' \in {"done", "failed"} \/ offset' > offset
<1> DEFINE block == OrderPreservingUint(0)
           transaction == OrderPreservingUint(block.next)
<1>1. CASE Fail BY <1>1, EndKeeps
<1>2. CASE ~Fail
  <2>1. /\ Task("height") /\ block.ok /\ transaction.ok /\ pc' = "done"
        /\ offset' = transaction.next /\ transaction.next = Size /\ UNCHANGED <<input, left>>
    BY <1>2 DEF DecodeHeight
  <2>2. TypeInv' BY <2>1 DEF DecodingInv, TypeInv, Decoded, Task
  <2>3. StartInv' BY <2>1 DEF StartInv, Task
  <2>4. InBounds' BY <2>1, Numbers DEF InBounds, Size
  <2>5. Bounded' BY <2>1 DEF Bounded, Task
  <2> QED BY <2>1, <2>2, <2>3, <2>4, <2>5 DEF DecodingInv
<1> QED BY <1>1, <1>2

LEMMA NextKeeps ==
  ASSUME DecodingInv, [Next]_vars
  PROVE  /\ DecodingInv'
         /\ UNCHANGED vars \/ pc' \in {"done", "failed"} \/ offset' > offset
<1>1. CASE CountNamespaces BY <1>1, CountNamespacesKeeps
<1>2. CASE DecodeNamespace BY <1>2, DecodeNamespaceKeeps
<1>3. CASE CountedLoopEnds BY <1>3, EndKeeps DEF CountedLoopEnds
<1>4. CASE OpenRecords BY <1>4, OpenRecordsKeeps
<1>5. CASE ReadRecord BY <1>5, ReadRecordKeeps
<1>6. CASE DecodeField BY <1>6, DecodeFieldKeeps
<1>7. CASE FieldsEnd BY <1>7, EndKeeps DEF FieldsEnd
<1>8. CASE DecodeHeight BY <1>8, DecodeHeightKeeps
<1>9. CASE UNCHANGED vars
  <2>1. UNCHANGED <<input, pc, offset, left, entries>> BY <1>9 DEF vars
  <2> QED BY <1>9, <2>1 DEF DecodingInv, TypeInv, StartInv, InBounds, Bounded, Decoded, Size, Task
<1> QED BY <1>1, <1>2, <1>3, <1>4, <1>5, <1>6, <1>7, <1>8, <1>9 DEF Next, Decided

(***************************************************************************)
(* The inductive invariant of the decoders.                                *)
(***************************************************************************)
THEOREM DecodingInvariant == Spec => []DecodingInv
<1>1. Init => DecodingInv BY InitEstablishes
<1>2. DecodingInv /\ [Next]_vars => DecodingInv' BY NextKeeps
<1> QED BY <1>1, <1>2, PTL DEF Spec

(***************************************************************************)
(* A decoder of snapshot files stays inside the bytes it was given, for    *)
(* any bytes (InBounds; snapshot.go sized, orderPreservingUint).           *)
(***************************************************************************)
THEOREM DecodingInBounds == Spec => []InBounds
<1>1. DecodingInv => InBounds BY DEF DecodingInv
<1> QED BY <1>1, DecodingInvariant, PTL

(***************************************************************************)
(* What it keeps is bounded by the bytes that have been read, and what it  *)
(* allocates by the bytes there are (Bounded; snapshot.go:25-28).          *)
(***************************************************************************)
THEOREM DecodingBounded == Spec => []Bounded
<1>1. DecodingInv => Bounded BY DEF DecodingInv
<1> QED BY <1>1, DecodingInvariant, PTL

(***************************************************************************)
(* Every step of its loops consumes bytes or ends them (Consumes), so that *)
(* with DecodingInBounds it takes at most one step for every byte.         *)
(***************************************************************************)
THEOREM DecodingConsumes == Spec => Consumes
<1>1. DecodingInv /\ [Next]_vars => [pc' \in {"done", "failed"} \/ offset' > offset]_vars
  BY NextKeeps
<1> QED BY <1>1, DecodingInvariant, PTL DEF Spec, Consumes
-----------------------------------------------------------------------------
(***************************************************************************)
(* What has been decoded accounts for the bytes up to the offset.          *)
(***************************************************************************)
AccountedNamespaces ==
  /\ HasVersion(input)
  /\ \E first \in 0..Size :
       /\ IsVarint(input, 1, first, Len(entries) + left)
       /\ Chains(input, first, offset, NamespaceSpans(input, entries)) # {}

AccountedRecords ==
  /\ HasVersion(input)
  /\ Len(entries) + left = input.count
  /\ Chains(input, 1, offset, RecordSpans(input, entries)) # {}

AccountedFields ==
  /\ DOMAIN entries \subseteq 1..MaxField
  /\ entries = [f \in DOMAIN entries |-> entries[f]]
  /\ \E order \in Orders(DOMAIN entries) :
       Chains(input, 0, offset, FieldSpans(input, order, entries)) # {}

Accounted ==
  /\ Task("namespaces") /\ pc \in {"loop", "done"} => AccountedNamespaces
  /\ Task("records") /\ pc \in {"loop", "done"} => AccountedRecords
  /\ Task("record") /\ pc \in {"loop", "done"} => AccountedFields
  /\ Task("height") /\ pc = "done" => EncodesHeight(input, entries)
  /\ input.task \in {"namespaces", "records"} /\ pc = "done" => left = 0
  /\ ~Task("height") /\ pc = "done" => offset = Size

AccountInv == DecodingInv /\ Accounted

LEMMA AccountedIsEncoded ==
  ASSUME AccountInv
  PROVE  NothingIgnored
<1> SUFFICES ASSUME pc = "done" PROVE Encodes(input, entries)
  BY DEF NothingIgnored
<1>1. /\ Size = Len(input.data) /\ Offsets(input) = 0..Size
      /\ input.task \in {"namespaces", "records", "record", "height"}
  BY Lengths, DecodingAssumption DEF AccountInv, DecodingInv, TypeInv
<1>2. CASE Task("namespaces")
  <2>1. AccountedNamespaces /\ left = 0 /\ offset = Size /\ entries \in Seq(Namespace)
    BY <1>1, <1>2 DEF AccountInv, Accounted, DecodingInv, TypeInv, Decoded, Task, Namespace
  <2>2. Len(entries) + left = Len(entries)
    BY <2>1
  <2>3. EncodesNamespaces(input, entries)
    BY <1>1, <2>1, <2>2 DEF AccountedNamespaces, EncodesNamespaces
  <2> QED
    BY <1>2, <2>3 DEF Encodes, Task
<1>3. CASE Task("records")
  <2>1. AccountedRecords /\ left = 0 /\ offset = Size /\ entries \in Seq(Seq(Byte))
    BY <1>1, <1>3 DEF AccountInv, Accounted, DecodingInv, TypeInv, Decoded, Task
  <2>2. Len(entries) + left = Len(entries)
    BY <2>1
  <2>3. EncodesRecords(input, entries)
    BY <1>1, <2>1, <2>2 DEF AccountedRecords, EncodesRecords
  <2> QED
    BY <1>3, <2>3 DEF Encodes, Task
<1>4. CASE Task("record")
  <2>1. AccountedFields /\ offset = Size
    BY <1>4 DEF AccountInv, Accounted, Task
  <2>2. EncodesRecord(input, entries)
    BY <1>1, <2>1 DEF AccountedFields, EncodesRecord
  <2> QED
    BY <1>4, <2>2 DEF Encodes, Task
<1>5. CASE Task("height")
  <2>1. EncodesHeight(input, entries)
    BY <1>5 DEF AccountInv, Accounted
  <2> QED
    BY <1>5, <2>1 DEF Encodes, Task
<1> QED
  BY <1>1, <1>2, <1>3, <1>4, <1>5 DEF Task

LEMMA InitAccounted ==
  ASSUME Init
  PROVE  AccountInv
<1>1. DecodingInv
  BY InitEstablishes
<1>2. /\ input \in Inputs /\ offset = 0 /\ entries = <<>> /\ pc \in {"start", "loop"}
      /\ input.task \in {"namespaces", "records"} => pc = "start"
  BY DEF Init
<1>3. AccountedFields
  <2>1. DOMAIN entries = {} /\ entries = [f \in DOMAIN entries |-> entries[f]]
    BY <1>2
  <2>2. Cardinality({}) = 0
    BY FS_EmptySet
  <2> DEFINE order == [i \in 1..0 |-> i]
  <2>3. order \in Orders({})
    BY <2>2 DEF Orders
  <2>4. Len(order) = 0
    BY ListLength
  <2>5. Len(FieldSpans(input, order, entries)) = 0
    <3>1. FieldSpans(input, order, entries) = [i \in 1..0 |-> FieldSpans(input, order, entries)[i]]
      BY <2>4 DEF FieldSpans
    <3> QED
      BY <3>1, ListLength
  <2>6. 0 \in Offsets(input)
    BY <1>2, Lengths
  <2> HIDE DEF order
  <2>7. Chains(input, 0, 0, FieldSpans(input, order, entries)) # {}
    BY <2>5, <2>6, ChainOfNone
  <2> QED
    BY <1>2, <2>1, <2>3, <2>7 DEF AccountedFields
<1>4. Accounted
  BY <1>2, <1>3 DEF Accounted, Task
<1> QED
  BY <1>1, <1>4 DEF AccountInv

LEMMA CountNamespacesAccounts ==
  ASSUME AccountInv, CountNamespaces, pc' = "loop"
  PROVE  Accounted'
<1> DEFINE count == ConsumeUvarint(1)
<1>1. /\ Task("namespaces") /\ pc = "start" /\ VersionRead /\ count.ok
      /\ left' = count.value /\ offset' = count.next /\ UNCHANGED <<input, entries>>
  BY DEF CountNamespaces, Fail
<1>2. entries = <<>> /\ Len(entries) = 0 /\ input \in Inputs
  BY <1>1 DEF AccountInv, DecodingInv, StartInv, TypeInv
<1>3. HasVersion(input) /\ 1 \in 0..Size
  BY <1>1, <1>2, Lengths DEF VersionRead, HasVersion
<1>4. count.next \in 0..Size /\ IsVarint(input, 1, count.next, count.value)
  BY <1>1, <1>2, <1>3, VarintRead
<1>5. Chains(input, count.next, count.next, NamespaceSpans(input, entries)) # {}
  <2>1. NamespaceSpans(input, entries) = [i \in 1..0 |-> NamespaceSpans(input, entries)[i]]
    BY <1>2 DEF NamespaceSpans
  <2>2. Len(NamespaceSpans(input, entries)) = 0
    BY <2>1, ListLength
  <2>3. count.next \in Offsets(input)
    BY <1>2, <1>4, Lengths
  <2> QED
    BY <2>2, <2>3, ChainOfNone
<1>6. Len(entries) + count.value = count.value
  BY <1>2, <1>3, <1>4, VarintBounds
<1> HIDE DEF count
<1>7. AccountedNamespaces'
  <2>1. HasVersion(input)' /\ Size' = Size
    BY <1>1, <1>3 DEF Size
  <2>2. IsVarint(input', 1, count.next, Len(entries') + left')
    BY <1>1, <1>4, <1>6
  <2>3. Chains(input', count.next, offset', NamespaceSpans(input', entries')) # {}
    BY <1>1, <1>5
  <2> QED
    BY <1>4, <2>1, <2>2, <2>3 DEF AccountedNamespaces
<1> QED
  BY <1>1, <1>7 DEF Accounted, Task

(* One more piece at the end of a list.                                    *)
LEMMA NamespaceAppended ==
  ASSUME input \in Inputs, NEW from, NEW to, NEW next \in 0..Size, NEW list \in Seq(Namespace), NEW ns,
         to \in 0..Size, Chains(input, from, to, NamespaceSpans(input, list)) # {},
         IsNamespace(input, to, next, ns)
  PROVE  Chains(input, from, next, NamespaceSpans(input, Append(list, ns))) # {}
<1> DEFINE spans == NamespaceSpans(input, list)
           longer == NamespaceSpans(input, Append(list, ns))
           n == Len(list)
<1>1. /\ n \in Nat /\ Len(Append(list, ns)) = n + 1
      /\ \A i \in 1..n : Append(list, ns)[i] = list[i]
      /\ Append(list, ns)[n + 1] = ns
  BY DEF Namespace
<1>2. Len(spans) = n
  <2>1. spans = [i \in 1..n |-> spans[i]]
    BY DEF NamespaceSpans
  <2> QED
    BY <1>1, <2>1, ListLength
<1>3. Len(longer) = n + 1
  <2>1. longer = [i \in 1..(n + 1) |-> longer[i]]
    BY <1>1 DEF NamespaceSpans
  <2> QED
    BY <1>1, <2>1, ListLength
<1>4. \A i \in 1..n : longer[i] = spans[i]
  BY <1>1 DEF NamespaceSpans
<1>5. <<to, next>> \in longer[n + 1]
  <2>1. longer[n + 1] = {s \in Spans(input) : IsNamespace(input, s[1], s[2], ns)}
    BY <1>1 DEF NamespaceSpans
  <2>2. <<to, next>> \in Spans(input)
    BY Lengths DEF Spans
  <2> QED
    BY <2>1, <2>2
<1>6. next \in Offsets(input)
  BY Lengths
<1> HIDE DEF spans, longer, n
<1>7. Chains(input, from, to, spans) # {}
  BY DEF spans
<1>8. Chains(input, from, next, longer) # {}
  BY <1>1, <1>2, <1>3, <1>4, <1>5, <1>6, <1>7, ChainExtends
<1> QED
  BY <1>8 DEF longer

LEMMA RecordAppended ==
  ASSUME input \in Inputs, NEW from, NEW to, NEW next \in 0..Size, NEW list \in Seq(Seq(Byte)), NEW raw,
         to \in 0..Size, Chains(input, from, to, RecordSpans(input, list)) # {},
         IsSized(input, to, next, raw)
  PROVE  Chains(input, from, next, RecordSpans(input, Append(list, raw))) # {}
<1> DEFINE spans == RecordSpans(input, list)
           longer == RecordSpans(input, Append(list, raw))
           n == Len(list)
<1>1. /\ n \in Nat /\ Len(Append(list, raw)) = n + 1
      /\ \A i \in 1..n : Append(list, raw)[i] = list[i]
      /\ Append(list, raw)[n + 1] = raw
  OBVIOUS
<1>2. Len(spans) = n
  <2>1. spans = [i \in 1..n |-> spans[i]]
    BY DEF RecordSpans
  <2> QED
    BY <1>1, <2>1, ListLength
<1>3. Len(longer) = n + 1
  <2>1. longer = [i \in 1..(n + 1) |-> longer[i]]
    BY <1>1 DEF RecordSpans
  <2> QED
    BY <1>1, <2>1, ListLength
<1>4. \A i \in 1..n : longer[i] = spans[i]
  BY <1>1 DEF RecordSpans
<1>5. <<to, next>> \in longer[n + 1]
  <2>1. longer[n + 1] = {s \in Spans(input) : IsSized(input, s[1], s[2], raw)}
    BY <1>1 DEF RecordSpans
  <2>2. <<to, next>> \in Spans(input)
    BY Lengths DEF Spans
  <2> QED
    BY <2>1, <2>2
<1>6. next \in Offsets(input)
  BY Lengths
<1> HIDE DEF spans, longer, n
<1>7. Chains(input, from, to, spans) # {}
  BY DEF spans
<1>8. Chains(input, from, next, longer) # {}
  BY <1>1, <1>2, <1>3, <1>4, <1>5, <1>6, <1>7, ChainExtends
<1> QED
  BY <1>8 DEF longer

LEMMA FieldAppended ==
  ASSUME input \in Inputs, NEW to \in 0..Size, NEW next \in 0..Size, NEW S, IsFiniteSet(S), NEW fields,
         NEW order \in Orders(S), Chains(input, 0, to, FieldSpans(input, order, fields)) # {},
         NEW field, field \notin S, NEW bytes, IsField(input, to, next, field, bytes),
         NEW more, more[field] = bytes, \A f \in S : more[f] = fields[f]
  PROVE  \E o \in Orders(S \union {field}) :
           Chains(input, 0, next, FieldSpans(input, o, more)) # {}
<1> DEFINE n == Cardinality(S)
           o == [i \in 1..(n + 1) |-> IF i = n + 1 THEN field ELSE order[i]]
           spans == FieldSpans(input, order, fields)
           longer == FieldSpans(input, o, more)
<1>1. n \in Nat /\ Cardinality(S \union {field}) = n + 1
  BY FS_CardinalityType, FS_AddElement
<1>2. /\ order \in [1..n -> S]
      /\ \A i, j \in 1..n : order[i] = order[j] => i = j
      /\ \A f \in S : \E i \in 1..n : order[i] = f
  BY DEF Orders
<1> HIDE DEF n
<1>3. o[n + 1] = field /\ \A i \in 1..n : o[i] = order[i] /\ o[i] \in S
  BY <1>1, <1>2
<1>4. o \in Orders(S \union {field})
  <2>1. o \in [1..(n + 1) -> S \union {field}]
    BY <1>1, <1>2
  <2>2. ASSUME NEW i \in 1..(n + 1), NEW j \in 1..(n + 1), o[i] = o[j]
        PROVE  i = j
    <3>1. CASE i = n + 1 /\ j # n + 1
      <4>1. j \in 1..n
        BY <1>1, <3>1
      <4> QED
        BY <1>3, <2>2, <3>1, <4>1
    <3>2. CASE j = n + 1 /\ i # n + 1
      <4>1. i \in 1..n
        BY <1>1, <3>2
      <4> QED
        BY <1>3, <2>2, <3>2, <4>1
    <3>3. CASE i # n + 1 /\ j # n + 1
      <4>1. i \in 1..n /\ j \in 1..n
        BY <1>1, <3>3
      <4> QED
        BY <1>2, <1>3, <2>2, <4>1
    <3> QED
      BY <3>1, <3>2, <3>3
  <2>3. ASSUME NEW f \in S \union {field}
        PROVE  \E i \in 1..(n + 1) : o[i] = f
    <3>1. CASE f = field
      <4>1. n + 1 \in 1..(n + 1)
        BY <1>1
      <4> QED
        BY <1>3, <3>1, <4>1
    <3>2. CASE f \in S
      <4>1. PICK i \in 1..n : order[i] = f
        BY <1>2, <3>2
      <4>2. i \in 1..(n + 1) /\ o[i] = f
        BY <1>1, <1>3, <4>1
      <4> QED
        BY <4>2
    <3> QED
      BY <3>1, <3>2
  <2> HIDE DEF o
  <2> QED
    BY <1>1, <2>1, <2>2, <2>3 DEF Orders
<1>5. Len(order) = n /\ Len(o) = n + 1
  <2>1. order = [i \in 1..n |-> order[i]]
    BY <1>2
  <2>2. n + 1 \in Nat /\ o = [i \in 1..(n + 1) |-> o[i]]
    BY <1>1
  <2> HIDE DEF o
  <2> QED
    BY <1>1, <2>1, <2>2, ListLength
<1> HIDE DEF o
<1>6. Len(spans) = n
  <2>1. spans = [i \in 1..n |-> spans[i]]
    BY <1>5 DEF FieldSpans
  <2> QED
    BY <1>1, <2>1, ListLength
<1>7. Len(longer) = n + 1
  <2>1. longer = [i \in 1..(n + 1) |-> longer[i]]
    BY <1>5 DEF FieldSpans
  <2>2. n + 1 \in Nat
    BY <1>1
  <2> HIDE DEF longer
  <2> QED
    BY <2>1, <2>2, ListLength
<1>8. ASSUME NEW i \in 1..n PROVE longer[i] = spans[i]
  <2>1. i \in 1..(n + 1) /\ o[i] = order[i] /\ more[o[i]] = fields[order[i]]
    BY <1>1, <1>3
  <2>2. longer[i] = {s \in Spans(input) : IsField(input, s[1], s[2], o[i], more[o[i]])}
    BY <1>5, <2>1 DEF FieldSpans
  <2>3. spans[i] = {s \in Spans(input) : IsField(input, s[1], s[2], order[i], fields[order[i]])}
    BY <1>5 DEF FieldSpans
  <2> QED
    BY <2>1, <2>2, <2>3
<1>9. <<to, next>> \in longer[n + 1]
  <2>1. n + 1 \in 1..(n + 1) /\ o[n + 1] = field /\ more[o[n + 1]] = bytes
    BY <1>1, <1>3
  <2>2. longer[n + 1] = {s \in Spans(input) : IsField(input, s[1], s[2], field, bytes)}
    BY <1>5, <2>1 DEF FieldSpans
  <2>3. <<to, next>> \in Spans(input)
    BY Lengths DEF Spans
  <2> QED
    BY <2>2, <2>3
<1>10. next \in Offsets(input)
  BY Lengths
<1> HIDE DEF spans, longer
<1>11. Chains(input, 0, to, spans) # {}
  BY DEF spans
<1>12. Chains(input, 0, next, longer) # {}
  BY <1>1, <1>6, <1>7, <1>8, <1>9, <1>10, <1>11, ChainExtends
<1> QED
  BY <1>4, <1>12 DEF longer

LEMMA DecodeNamespaceAccounts ==
  ASSUME AccountInv, DecodeNamespace, pc' # "failed"
  PROVE  Accounted'
<1> DEFINE name == Sized(offset)
           records == ConsumeUvarint(name.next)
           entry == [name |-> name.value, records |-> records.value]
<1>1. /\ Task("namespaces") /\ pc = "loop" /\ left > 0 /\ name.ok /\ records.ok
      /\ entries' = Append(entries, entry) /\ offset' = records.next /\ left' = left - 1
      /\ UNCHANGED <<input, pc>>
  BY DEF DecodeNamespace, Fail
<1>2. /\ input \in Inputs /\ offset \in 0..Size /\ left \in Nat /\ entries \in Seq(Namespace)
      /\ Size \in Nat /\ AccountedNamespaces
  BY <1>1, Numbers DEF AccountInv, Accounted, DecodingInv, TypeInv, Decoded, Task, Namespace
<1>3. name.next \in 0..Size /\ IsSized(input, offset, name.next, name.value)
  BY <1>1, <1>2, SizedRead
<1>4. records.next \in 0..Size /\ IsVarint(input, name.next, records.next, records.value)
  BY <1>1, <1>2, <1>3, VarintRead
<1> HIDE DEF name, records
<1>5. IsNamespace(input, offset, records.next, entry)
  <2>1. entry.name = name.value /\ entry.records = records.value /\ name.next \in Offsets(input)
    BY <1>2, <1>3, Lengths
  <2> HIDE DEF entry
  <2> QED
    BY <1>3, <1>4, <2>1 DEF IsNamespace
<1> HIDE DEF entry
<1>6. PICK first \in 0..Size : /\ IsVarint(input, 1, first, Len(entries) + left)
                               /\ Chains(input, first, offset, NamespaceSpans(input, entries)) # {}
  BY <1>2 DEF AccountedNamespaces
<1>7. Chains(input, first, records.next, NamespaceSpans(input, Append(entries, entry))) # {}
  BY <1>2, <1>4, <1>5, <1>6, NamespaceAppended
<1>8. Len(entries') + left' = Len(entries) + left
  BY <1>1, <1>2
<1>9. AccountedNamespaces'
  <2>1. HasVersion(input)' /\ Size' = Size
    BY <1>1, <1>2 DEF AccountedNamespaces, Size
  <2>2. IsVarint(input', 1, first, Len(entries') + left')
    BY <1>1, <1>6, <1>8
  <2>3. Chains(input', first, offset', NamespaceSpans(input', entries')) # {}
    BY <1>1, <1>7
  <2> QED
    BY <1>6, <2>1, <2>2, <2>3 DEF AccountedNamespaces
<1> QED
  BY <1>1, <1>9 DEF Accounted, Task

LEMMA OpenRecordsAccounts ==
  ASSUME AccountInv, OpenRecords, pc' # "failed"
  PROVE  Accounted'
<1>1. /\ Task("records") /\ pc = "start" /\ VersionRead /\ pc' = "loop" /\ offset' = 1 /\ left' = input.count
      /\ UNCHANGED <<input, entries>>
  BY DEF OpenRecords, Fail
<1>2. entries = <<>> /\ Len(entries) = 0 /\ input \in Inputs /\ input.count \in Nat
  BY <1>1, Numbers, FormatAssumption DEF AccountInv, DecodingInv, StartInv, Word
<1>3. HasVersion(input) /\ 1 \in Offsets(input)
  BY <1>1, <1>2, Lengths DEF VersionRead, HasVersion
<1>4. Chains(input, 1, 1, RecordSpans(input, entries)) # {}
  <2>1. RecordSpans(input, entries) = [i \in 1..0 |-> RecordSpans(input, entries)[i]]
    BY <1>2 DEF RecordSpans
  <2>2. Len(RecordSpans(input, entries)) = 0
    BY <2>1, ListLength
  <2> QED
    BY <1>3, <2>2, ChainOfNone
<1>5. AccountedRecords'
  BY <1>1, <1>2, <1>3, <1>4 DEF AccountedRecords
<1> QED
  BY <1>1, <1>5 DEF Accounted, Task

LEMMA ReadRecordAccounts ==
  ASSUME AccountInv, ReadRecord, pc' # "failed"
  PROVE  Accounted'
<1> DEFINE raw == ReadSized(offset)
<1>1. /\ Task("records") /\ pc = "loop" /\ left > 0 /\ raw.ok
      /\ entries' = Append(entries, raw.value) /\ offset' = raw.next /\ left' = left - 1
      /\ UNCHANGED <<input, pc>>
  BY DEF ReadRecord, Fail
<1>2. /\ input \in Inputs /\ offset \in 0..Size /\ left \in Nat /\ entries \in Seq(Seq(Byte))
      /\ Size \in Nat /\ AccountedRecords
  BY <1>1, Numbers DEF AccountInv, Accounted, DecodingInv, TypeInv, Decoded, Task
<1>3. raw.next \in 0..Size /\ IsSized(input, offset, raw.next, raw.value)
  BY <1>1, <1>2, ReadSizedRead
<1> HIDE DEF raw
<1>4. Chains(input, 1, raw.next, RecordSpans(input, Append(entries, raw.value))) # {}
  BY <1>2, <1>3, RecordAppended DEF AccountedRecords
<1>5. Len(entries') + left' = Len(entries) + left
  BY <1>1, <1>2
<1>6. AccountedRecords'
  BY <1>1, <1>2, <1>4, <1>5 DEF AccountedRecords
<1> QED
  BY <1>1, <1>6 DEF Accounted, Task

LEMMA DecodeFieldAccounts ==
  ASSUME AccountInv, DecodeField, pc' # "failed"
  PROVE  Accounted'
<1> DEFINE tag == ConsumeUvarint(offset)
           field == tag.value \div WireSize
           value == Sized(tag.next)
<1>1. /\ Task("record") /\ pc = "loop" /\ tag.ok /\ ~Unsupported(tag.value, DOMAIN entries) /\ value.ok
      /\ entries' = [f \in DOMAIN entries \union {field} |-> IF f = field THEN value.value ELSE entries[f]]
      /\ offset' = value.next /\ UNCHANGED <<input, pc, left>>
  BY DEF DecodeField, Fail
<1>2. input \in Inputs /\ offset \in 0..Size /\ Size \in Nat /\ AccountedFields
  BY <1>1, Numbers DEF AccountInv, Accounted
<1>3. tag.next \in 0..Size /\ IsVarint(input, offset, tag.next, tag.value)
  BY <1>1, <1>2, VarintRead
<1>4. value.next \in 0..Size /\ IsSized(input, tag.next, value.next, value.value)
  BY <1>1, <1>2, <1>3, SizedRead
<1>5. tag.value % WireSize = LengthDelimited /\ field \in 1..MaxField /\ field \notin DOMAIN entries
  BY <1>1 DEF Unsupported
<1>6. tag.value \in Nat
  BY <1>2, <1>3, VarintBounds
<1>7. tag.value = field * WireSize + LengthDelimited
  <2> HIDE DEF tag
  <2> QED
    BY <1>5, <1>6, TagWhole
<1> HIDE DEF tag, field, value
<1>8. IsField(input, offset, value.next, field, value.value)
  <2>1. tag.next \in Offsets(input)
    BY <1>2, <1>3, Lengths
  <2> QED
    BY <1>3, <1>4, <1>7, <2>1 DEF IsField
<1>9. PICK order \in Orders(DOMAIN entries) : Chains(input, 0, offset, FieldSpans(input, order, entries)) # {}
  BY <1>2 DEF AccountedFields
<1>10. DOMAIN entries \subseteq 1..MaxField /\ IsFiniteSet(DOMAIN entries)
  <2>1. IsFiniteSet(1..MaxField)
    BY FormatAssumption, FS_Interval
  <2> QED
    BY <1>2, <2>1, FS_Subset DEF AccountedFields
<1>11. /\ DOMAIN entries' = DOMAIN entries \union {field}
       /\ entries'[field] = value.value
       /\ \A f \in DOMAIN entries : entries'[f] = entries[f]
       /\ entries' = [f \in DOMAIN entries' |-> entries'[f]]
  BY <1>1, <1>5
<1>12. \E o \in Orders(DOMAIN entries \union {field}) :
         Chains(input, 0, value.next, FieldSpans(input, o, entries')) # {}
  BY <1>2, <1>4, <1>5, <1>8, <1>9, <1>10, <1>11, FieldAppended
<1>13. AccountedFields'
  <2>1. DOMAIN entries' \subseteq 1..MaxField
    BY <1>5, <1>10, <1>11
  <2>2. \E o \in Orders(DOMAIN entries') :
          Chains(input', 0, offset', FieldSpans(input', o, entries')) # {}
    BY <1>1, <1>11, <1>12
  <2> QED
    BY <1>11, <2>1, <2>2 DEF AccountedFields
<1> QED
  BY <1>1, <1>13 DEF Accounted, Task

LEMMA DecodeHeightAccounts ==
  ASSUME AccountInv, DecodeHeight, pc' # "failed"
  PROVE  Accounted'
<1> DEFINE block == OrderPreservingUint(0)
           transaction == OrderPreservingUint(block.next)
<1>1. /\ Task("height") /\ block.ok /\ transaction.ok /\ transaction.next = Size
      /\ entries' = <<block.value, transaction.value>> /\ input' = input
  BY DEF DecodeHeight, Fail
<1>2. input \in Inputs /\ 0 \in 0..Size
  BY Numbers DEF AccountInv
<1>3. block.next \in 0..Size /\ IsUint(input, 0, block.next, block.value)
  BY <1>1, <1>2, UintRead
<1>4. IsUint(input, block.next, Size, transaction.value)
  BY <1>1, <1>2, <1>3, UintRead
<1> HIDE DEF block, transaction
<1>5. EncodesHeight(input, entries')
  <2>1. entries'[1] = block.value /\ entries'[2] = transaction.value /\ entries' = <<entries'[1], entries'[2]>>
    BY <1>1
  <2>2. block.next \in Offsets(input) /\ Size = Len(input.data)
    BY <1>2, <1>3, Lengths
  <2> QED
    BY <1>3, <1>4, <2>1, <2>2 DEF EncodesHeight
<1> QED
  BY <1>1, <1>5 DEF Accounted, Task

LEMMA NextAccounts ==
  ASSUME AccountInv, [Next]_vars
  PROVE  AccountInv'
<1>1. DecodingInv'
  BY NextKeeps DEF AccountInv
<1>2. CASE pc' = "failed"
  BY <1>1, <1>2 DEF AccountInv, Accounted
<1>3. CASE pc' # "failed"
  <2>1. CASE CountNamespaces
    <3>1. pc' = "loop"
      BY <1>3, <2>1 DEF CountNamespaces, Fail
    <3> QED
      BY <1>1, <2>1, <3>1, CountNamespacesAccounts DEF AccountInv
  <2>2. CASE DecodeNamespace
    BY <1>1, <1>3, <2>2, DecodeNamespaceAccounts DEF AccountInv
  <2>3. CASE OpenRecords
    BY <1>1, <1>3, <2>3, OpenRecordsAccounts DEF AccountInv
  <2>4. CASE ReadRecord
    BY <1>1, <1>3, <2>4, ReadRecordAccounts DEF AccountInv
  <2>5. CASE DecodeField
    BY <1>1, <1>3, <2>5, DecodeFieldAccounts DEF AccountInv
  <2>6. CASE DecodeHeight
    BY <1>1, <1>3, <2>6, DecodeHeightAccounts DEF AccountInv
  <2>7. CASE CountedLoopEnds \/ FieldsEnd
    <3>1. /\ UNCHANGED <<input, offset, left, entries>> /\ pc = "loop" /\ ~Task("height") /\ offset = Size
          /\ input.task \in {"namespaces", "records"} => left = 0
      BY <1>3, <2>7, Numbers DEF CountedLoopEnds, FieldsEnd, Accept, Fail, Task, AccountInv
    <3>2. /\ AccountedNamespaces' <=> AccountedNamespaces
          /\ AccountedRecords' <=> AccountedRecords
          /\ AccountedFields' <=> AccountedFields
      BY <3>1 DEF AccountedNamespaces, AccountedRecords, AccountedFields, Size
    <3>3. Accounted'
      BY <3>1, <3>2 DEF AccountInv, Accounted, Task, Size
    <3> QED
      BY <1>1, <3>3 DEF AccountInv
  <2>8. CASE UNCHANGED vars
    <3>1. UNCHANGED <<input, pc, offset, left, entries>>
      BY <2>8 DEF vars
    <3>2. Accounted'
      BY <3>1 DEF AccountInv, Accounted, AccountedNamespaces, AccountedRecords, AccountedFields, Size, Task
    <3> QED
      BY <1>1, <3>2 DEF AccountInv
  <2> QED
    BY <2>1, <2>2, <2>3, <2>4, <2>5, <2>6, <2>7, <2>8 DEF Next, Decided
<1> QED
  BY <1>2, <1>3

(***************************************************************************)
(* What a decoder accepts is an encoding of what it returns, for any bytes *)
(* and words of any width: no byte is skipped, read twice or left over, no *)
(* value made up (NothingIgnored; snapshot.go:17-122, stream.go:214-291).  *)
(***************************************************************************)
THEOREM DecodingIgnoresNothing == Spec => []NothingIgnored
<1>1. Init => AccountInv
  BY InitAccounted
<1>2. AccountInv /\ [Next]_vars => AccountInv'
  BY NextAccounts
<1>3. AccountInv => NothingIgnored
  BY AccountedIsEncoded
<1> QED
  BY <1>1, <1>2, <1>3, PTL DEF Spec

-----------------------------------------------------------------------------
(***************************************************************************)
(* How far a decoder is with what a writer has encoded: at the offset      *)
(* where the pieces of what it has decoded end, and no step can fail.      *)
(***************************************************************************)
ListRead(from, spans, list, got, at, more) ==
  \E c \in Chains(input, from, Len(input.data), spans) :
    /\ Len(got) + more = Len(list)
    /\ at = c[Len(got)]
    /\ \A i \in 1..Len(got) : got[i] = list[i]

NamespacesRead(list) ==
  \E first \in Offsets(input) :
    ListRead(first, NamespaceSpans(input, list), list, entries, offset, left)

RecordsRead(list) == ListRead(1, RecordSpans(input, list), list, entries, offset, left)

FieldsReadAs(fields, got, at) ==
  \E order \in Orders(DOMAIN fields) :
  \E c \in Chains(input, 0, Len(input.data), FieldSpans(input, order, fields)) :
  \E k \in 0..Cardinality(DOMAIN fields) :
    /\ DOMAIN got = {order[i] : i \in 1..k}
    /\ \A i \in 1..k : got[order[i]] = fields[order[i]]
    /\ at = c[k]

FieldsRead(fields) == FieldsReadAs(fields, entries, offset)

Follows(value) ==
  /\ pc # "failed"
  /\ Task("namespaces") /\ pc \in {"loop", "done"} => NamespacesRead(value)
  /\ Task("records") /\ pc \in {"loop", "done"} => RecordsRead(value)
  /\ Task("record") => FieldsRead(value)
  /\ Task("height") /\ pc = "done" => entries = value

FollowInv == AccountInv /\ \A value \in input.of : Follows(value)

(* Every link of a chain is a piece.                                       *)
LEMMA ChainLink ==
  ASSUME input \in Inputs, NEW from, NEW spans, Len(spans) \in Nat,
         NEW c \in Chains(input, from, Len(input.data), spans)
  PROVE  /\ c[0] = from /\ c[Len(spans)] = Size
         /\ \A i \in 0..Len(spans) : c[i] \in 0..Size
         /\ \A i \in 0..(Len(spans) - 1) : <<c[i], c[i + 1]>> \in spans[i + 1]
<1>1. /\ c \in [0..Len(spans) -> Offsets(input)] /\ c[0] = from /\ c[Len(spans)] = Len(input.data)
      /\ \A i \in 1..Len(spans) : <<c[i - 1], c[i]>> \in spans[i]
  BY DEF Chains
<1>2. Offsets(input) = 0..Size /\ Size = Len(input.data)
  BY Lengths
<1>3. ASSUME NEW i \in 0..(Len(spans) - 1)
      PROVE  <<c[i], c[i + 1]>> \in spans[i + 1]
  <2>1. i + 1 \in 1..Len(spans) /\ (i + 1) - 1 = i
    OBVIOUS
  <2> QED
    BY <1>1, <2>1
<1> QED
  BY <1>1, <1>2, <1>3

LEMMA ListReadStep ==
  ASSUME input \in Inputs, NEW S, NEW list \in Seq(S), NEW got \in Seq(S), NEW more \in Nat, more > 0,
         NEW from, NEW spans, Len(spans) = Len(list), NEW at,
         ListRead(from, spans, list, got, at, more)
  PROVE  /\ at \in 0..Size
         /\ Len(got) + 1 \in 1..Len(list)
         /\ \E next \in 0..Size :
              /\ <<at, next>> \in spans[Len(got) + 1]
              /\ ListRead(from, spans, list, Append(got, list[Len(got) + 1]), next, more - 1)
<1> DEFINE n == Len(got)
           longer == Append(got, list[n + 1])
<1>1. PICK c \in Chains(input, from, Len(input.data), spans) :
        n + more = Len(list) /\ at = c[n] /\ \A i \in 1..n : got[i] = list[i]
  BY DEF ListRead
<1>2. n \in Nat /\ Len(list) \in Nat /\ n + 1 \in 1..Len(list) /\ n \in 0..Len(list) /\ n \in 0..(Len(list) - 1)
      /\ n + 1 \in 0..Len(list)
  BY <1>1
<1>3. c[n] \in 0..Size /\ c[n + 1] \in 0..Size /\ <<c[n], c[n + 1]>> \in spans[n + 1]
  BY <1>2, ChainLink
<1>4. list[n + 1] \in S
  BY <1>2
<1>5. /\ Len(longer) = n + 1
      /\ longer[n + 1] = list[n + 1]
      /\ \A i \in 1..n : longer[i] = got[i]
  BY <1>4
<1> HIDE DEF longer
<1>6. \A i \in 1..(n + 1) : longer[i] = list[i]
  <2> SUFFICES ASSUME NEW i \in 1..(n + 1) PROVE longer[i] = list[i]
    OBVIOUS
  <2>1. CASE i = n + 1
    BY <1>5, <2>1
  <2>2. CASE i \in 1..n
    BY <1>1, <1>5, <2>2
  <2> QED
    BY <1>2, <2>1, <2>2
<1>7. Len(longer) + (more - 1) = Len(list)
  <2>1. n + more = Len(list) /\ n \in Nat /\ Len(longer) = n + 1
    BY <1>1, <1>2, <1>5
  <2> HIDE DEF n
  <2> QED
    BY <2>1
<1>8. ListRead(from, spans, list, longer, c[n + 1], more - 1)
  BY <1>5, <1>6, <1>7 DEF ListRead
<1> QED
  BY <1>1, <1>2, <1>3, <1>8 DEF longer

LEMMA ListReadEnd ==
  ASSUME input \in Inputs, NEW S, NEW list \in Seq(S), NEW got \in Seq(S),
         NEW from, NEW spans, Len(spans) = Len(list), NEW at,
         ListRead(from, spans, list, got, at, 0)
  PROVE  at = Size /\ got = list
<1>1. PICK c \in Chains(input, from, Len(input.data), spans) :
        Len(got) + 0 = Len(list) /\ at = c[Len(got)] /\ \A i \in 1..Len(got) : got[i] = list[i]
  BY DEF ListRead
<1>2. Len(got) = Len(list) /\ Len(list) \in Nat
  BY <1>1
<1>3. at = Size
  BY <1>1, <1>2, ChainLink
<1>4. got = list
  BY <1>1, <1>2
<1> QED
  BY <1>3, <1>4

(* As many spans as pieces.                                                *)
LEMMA SpansLength ==
  ASSUME NEW list, Len(list) \in Nat
  PROVE  /\ Len(NamespaceSpans(input, list)) = Len(list)
         /\ Len(RecordSpans(input, list)) = Len(list)
         /\ \A i \in 1..Len(list) : \A a, b :
              /\ <<a, b>> \in NamespaceSpans(input, list)[i] => IsNamespace(input, a, b, list[i])
              /\ <<a, b>> \in RecordSpans(input, list)[i] => IsSized(input, a, b, list[i])
<1> DEFINE n == Len(list)
<1>1. NamespaceSpans(input, list) = [i \in 1..n |-> NamespaceSpans(input, list)[i]]
  BY DEF NamespaceSpans
<1>2. RecordSpans(input, list) = [i \in 1..n |-> RecordSpans(input, list)[i]]
  BY DEF RecordSpans
<1>3. ASSUME NEW i \in 1..n, NEW a, NEW b, <<a, b>> \in NamespaceSpans(input, list)[i]
      PROVE  IsNamespace(input, a, b, list[i])
  BY <1>3 DEF NamespaceSpans
<1>4. ASSUME NEW i \in 1..n, NEW a, NEW b, <<a, b>> \in RecordSpans(input, list)[i]
      PROVE  IsSized(input, a, b, list[i])
  BY <1>4 DEF RecordSpans
<1> HIDE DEF n
<1>5. Len(NamespaceSpans(input, list)) = n
  BY <1>1, ListLength DEF n
<1>6. Len(RecordSpans(input, list)) = n
  BY <1>2, ListLength DEF n
<1> QED
  BY <1>3, <1>4, <1>5, <1>6 DEF n

(* A namespace takes two bytes or more.                                    *)
LEMMA NamespaceWidth ==
  ASSUME input \in Inputs, NEW a \in 0..Size, NEW b \in 0..Size, NEW ns, IsNamespace(input, a, b, ns)
  PROVE  a + 2 <= b
<1>1. Size \in Nat /\ Offsets(input) = 0..Size
  BY Lengths
<1>2. PICK mid \in 0..Size : IsSized(input, a, mid, ns.name) /\ IsVarint(input, mid, b, ns.records)
  BY <1>1 DEF IsNamespace
<1>3. PICK size \in 0..Size : size <= mid /\ IsVarint(input, a, size, Len(ns.name))
  BY <1>1, <1>2 DEF IsSized
<1>4. mid < b /\ a < size
  BY <1>2, <1>3 DEF IsVarint
<1> QED
  BY <1>1, <1>3, <1>4

(* An encoding of namespaces is read from its count on, and has room for   *)
(* all it announces.                                                       *)
LEMMA CountNamespacesFollows ==
  ASSUME AccountInv, CountNamespaces, NEW value \in input.of
  PROVE  pc' = "loop" /\ NamespacesRead(value)'
<1> DEFINE n == Len(value)
           spans == NamespaceSpans(input, value)
<1>1. Task("namespaces") /\ pc = "start"
  BY DEF CountNamespaces
<1>2. input \in Inputs /\ entries = <<>> /\ Len(entries) = 0
  BY <1>1 DEF AccountInv, DecodingInv, TypeInv, StartInv
<1>3. EncodesNamespaces(input, value)
  BY <1>1, <1>2, DecodingAssumption DEF Encodes, Task
<1>4. /\ Size \in Nat /\ Size = Len(input.data) /\ Offsets(input) = 0..Size /\ HalfWord \in Nat \ {0}
      /\ Size <= MaxInt
  BY <1>2, Lengths
<1>5. n \in Nat /\ VersionRead /\ 1 \in 0..Size
  BY <1>3, <1>4 DEF EncodesNamespaces, HasVersion, VersionRead, Bytes
<1>6. PICK first \in 0..Size : IsVarint(input, 1, first, n) /\ Chains(input, first, Size, spans) # {}
  BY <1>3, <1>4 DEF EncodesNamespaces
<1>7. ConsumeUvarint(1) = Ok(n, first)
  BY <1>2, <1>5, <1>6, VarintRead
<1>8. ConsumeUvarint(1).ok /\ ConsumeUvarint(1).value = n /\ ConsumeUvarint(1).next = first
  BY <1>7 DEF Ok
<1>9. PICK c \in Chains(input, first, Size, spans) : TRUE
  BY <1>6
<1>10. Len(spans) = n
  BY <1>5, SpansLength
<1>11. first + 2 * n <= Size
  <2>1. ASSUME NEW i \in 1..n, NEW s \in spans[i]
        PROVE  s[1] \in Nat /\ s[2] \in Nat /\ s[1] + 2 <= s[2]
    <3>1. spans[i] = {t \in Spans(input) : IsNamespace(input, t[1], t[2], value[i])}
      BY DEF NamespaceSpans
    <3>2. s[1] \in 0..Size /\ s[2] \in 0..Size /\ IsNamespace(input, s[1], s[2], value[i])
      BY <1>4, <2>1, <3>1 DEF Spans
    <3> QED
      BY <1>2, <1>4, <3>2, NamespaceWidth
  <2> HIDE DEF spans, n
  <2> QED
    BY <1>4, <1>5, <1>9, <1>10, <2>1, ChainWidth
<1>12. n <= ToWord(Size - first) \div 2
  <2> HIDE DEF n
  <2> QED
    BY <1>4, <1>5, <1>6, <1>11 DEF ToWord
<1>13. /\ pc' = "loop" /\ left' = n /\ offset' = first /\ UNCHANGED <<input, entries>>
  BY <1>5, <1>8, <1>12 DEF CountNamespaces, CountFits
<1>14. ListRead(first, spans, value, <<>>, first, n)
  <2>1. c[0] = first /\ c \in Chains(input, first, Len(input.data), spans)
    BY <1>2, <1>4, <1>5, <1>9, <1>10, ChainLink
  <2>2. 0 + n = n
    BY <1>5
  <2> HIDE DEF spans
  <2> QED
    BY <2>1, <2>2 DEF ListRead
<1>15. ListRead(first, NamespaceSpans(input, value), value, entries', offset', left')
  BY <1>2, <1>13, <1>14
<1>16. first \in Offsets(input)
  BY <1>4
<1> HIDE DEF spans, n
<1>17. (\E f \in Offsets(input) : ListRead(f, NamespaceSpans(input, value), value, entries, offset, left))'
  BY <1>13, <1>15, <1>16 DEF ListRead
<1> QED
  BY <1>13, <1>17 DEF NamespacesRead

LEMMA DecodeNamespaceFollows ==
  ASSUME AccountInv, DecodeNamespace, NEW value \in input.of, NamespacesRead(value)
  PROVE  pc' = "loop" /\ NamespacesRead(value)'
<1> DEFINE spans == NamespaceSpans(input, value)
           m == Len(entries) + 1
           ns == value[m]
<1>1. Task("namespaces") /\ pc = "loop" /\ left > 0
  BY DEF DecodeNamespace
<1>2. input \in Inputs /\ left \in Nat /\ entries \in Seq(Namespace)
  BY <1>1, Numbers DEF AccountInv, DecodingInv, TypeInv, Decoded, Task, Namespace
<1>3. value \in Seq(Namespace)
  BY <1>1, <1>2, DecodingAssumption DEF Encodes, Task, EncodesNamespaces
<1>4. Len(value) \in Nat /\ Len(spans) = Len(value)
  BY <1>3, SpansLength
<1>5. PICK first \in Offsets(input) : ListRead(first, spans, value, entries, offset, left)
  BY DEF NamespacesRead
<1>6. /\ offset \in 0..Size /\ m \in 1..Len(value)
      /\ \E next \in 0..Size :
           /\ <<offset, next>> \in spans[m]
           /\ ListRead(first, spans, value, Append(entries, ns), next, left - 1)
  <2> HIDE DEF spans
  <2> QED
    BY <1>1, <1>2, <1>3, <1>4, <1>5, ListReadStep
<1>7. PICK next \in 0..Size : /\ <<offset, next>> \in spans[m]
                              /\ ListRead(first, spans, value, Append(entries, ns), next, left - 1)
  BY <1>6
<1>8. IsNamespace(input, offset, next, ns)
  BY <1>4, <1>6, <1>7, SpansLength
<1>9. ns \in Namespace
  BY <1>3, <1>6
<1> HIDE DEF m, ns, spans
<1>10. PICK mid \in 0..Size : IsSized(input, offset, mid, ns.name) /\ IsVarint(input, mid, next, ns.records)
  BY <1>2, <1>8, Lengths DEF IsNamespace
<1>11. Sized(offset) = Ok(ns.name, mid) /\ ConsumeUvarint(mid) = Ok(ns.records, next)
  BY <1>2, <1>6, <1>10, SizedRead, VarintRead
<1>12. /\ Sized(offset).ok /\ Sized(offset).value = ns.name /\ Sized(offset).next = mid
       /\ ConsumeUvarint(mid).ok /\ ConsumeUvarint(mid).value = ns.records /\ ConsumeUvarint(mid).next = next
  BY <1>11 DEF Ok
<1>13. /\ pc' = "loop" /\ left' = left - 1 /\ offset' = next /\ input' = input
       /\ entries' = Append(entries, [name |-> ns.name, records |-> ns.records])
  BY <1>1, <1>12 DEF DecodeNamespace
<1>14. ns = [name |-> ns.name, records |-> ns.records]
  BY <1>9 DEF Namespace
<1>15. ListRead(first, NamespaceSpans(input, value), value, entries', offset', left')
  BY <1>7, <1>13, <1>14 DEF spans
<1>16. (\E f \in Offsets(input) : ListRead(f, NamespaceSpans(input, value), value, entries, offset, left))'
  BY <1>13, <1>15 DEF ListRead
<1> QED
  BY <1>13, <1>16 DEF NamespacesRead

LEMMA OpenRecordsFollows ==
  ASSUME AccountInv, OpenRecords, NEW value \in input.of
  PROVE  pc' = "loop" /\ RecordsRead(value)'
<1> DEFINE spans == RecordSpans(input, value)
<1>1. Task("records") /\ pc = "start"
  BY DEF OpenRecords
<1>2. input \in Inputs /\ entries = <<>> /\ Len(entries) = 0
  BY <1>1 DEF AccountInv, DecodingInv, TypeInv, StartInv
<1>3. EncodesRecords(input, value)
  BY <1>1, <1>2, DecodingAssumption DEF Encodes, Task
<1>4. VersionRead /\ Len(value) \in Nat /\ Len(value) = input.count
  BY <1>2, <1>3, Lengths DEF EncodesRecords, HasVersion, VersionRead
<1>5. PICK c \in Chains(input, 1, Len(input.data), spans) : TRUE
  BY <1>3 DEF EncodesRecords
<1>6. Len(spans) = Len(value)
  BY <1>4, SpansLength
<1>7. /\ pc' = "loop" /\ left' = Len(value) /\ offset' = 1 /\ UNCHANGED <<input, entries>>
  BY <1>4 DEF OpenRecords
<1>8. ListRead(1, spans, value, <<>>, 1, Len(value))
  <2>1. c[0] = 1
    BY <1>2, <1>4, <1>5, <1>6, ChainLink
  <2>2. 0 + Len(value) = Len(value)
    BY <1>4
  <2> HIDE DEF spans
  <2> QED
    BY <2>1, <2>2 DEF ListRead
<1>9. ListRead(1, RecordSpans(input, value), value, entries', offset', left')
  BY <1>2, <1>7, <1>8
<1> HIDE DEF spans
<1>10. ListRead(1, RecordSpans(input, value), value, entries, offset, left)'
  BY <1>7, <1>9 DEF ListRead
<1> QED
  BY <1>7, <1>10 DEF RecordsRead

LEMMA ReadRecordFollows ==
  ASSUME AccountInv, ReadRecord, NEW value \in input.of, RecordsRead(value)
  PROVE  pc' = "loop" /\ RecordsRead(value)'
<1> DEFINE spans == RecordSpans(input, value)
           m == Len(entries) + 1
           raw == value[m]
<1>1. Task("records") /\ pc = "loop" /\ left > 0
  BY DEF ReadRecord
<1>2. input \in Inputs /\ left \in Nat /\ entries \in Seq(Seq(Byte))
  BY <1>1, Numbers DEF AccountInv, DecodingInv, TypeInv, Decoded, Task
<1>3. value \in Seq(Seq(Byte))
  BY <1>1, <1>2, DecodingAssumption DEF Encodes, Task, EncodesRecords
<1>4. Len(value) \in Nat /\ Len(spans) = Len(value)
  BY <1>3, SpansLength
<1>5. ListRead(1, spans, value, entries, offset, left)
  BY DEF RecordsRead
<1>6. /\ offset \in 0..Size /\ m \in 1..Len(value)
      /\ \E next \in 0..Size :
           /\ <<offset, next>> \in spans[m]
           /\ ListRead(1, spans, value, Append(entries, raw), next, left - 1)
  <2> HIDE DEF spans
  <2> QED
    BY <1>1, <1>2, <1>3, <1>4, <1>5, ListReadStep
<1>7. PICK next \in 0..Size : /\ <<offset, next>> \in spans[m]
                              /\ ListRead(1, spans, value, Append(entries, raw), next, left - 1)
  BY <1>6
<1>8. IsSized(input, offset, next, raw)
  BY <1>4, <1>6, <1>7, SpansLength
<1> HIDE DEF m, raw, spans
<1>9. ReadSized(offset) = Ok(raw, next)
  BY <1>2, <1>6, <1>8, ReadSizedRead
<1>10. ReadSized(offset).ok /\ ReadSized(offset).value = raw /\ ReadSized(offset).next = next
  BY <1>9 DEF Ok
<1>11. /\ pc' = "loop" /\ left' = left - 1 /\ offset' = next /\ input' = input
       /\ entries' = Append(entries, raw)
  BY <1>1, <1>10 DEF ReadRecord
<1>12. ListRead(1, RecordSpans(input, value), value, entries', offset', left')
  BY <1>7, <1>11 DEF spans
<1>13. ListRead(1, RecordSpans(input, value), value, entries, offset, left)'
  BY <1>11, <1>12 DEF ListRead
<1> QED
  BY <1>11, <1>13 DEF RecordsRead

LEMMA FieldWidth ==
  ASSUME input \in Inputs, NEW a \in 0..Size, NEW b \in 0..Size, NEW field, NEW bytes,
         IsField(input, a, b, field, bytes)
  PROVE  a < b
<1>1. Size \in Nat /\ Offsets(input) = 0..Size
  BY Lengths
<1>2. PICK mid \in 0..Size : /\ IsVarint(input, a, mid, field * WireSize + LengthDelimited)
                             /\ IsSized(input, mid, b, bytes)
  BY <1>1 DEF IsField
<1>3. a < mid
  BY <1>2 DEF IsVarint
<1>4. PICK size \in 0..Size : size <= b /\ IsVarint(input, mid, size, Len(bytes))
  BY <1>1, <1>2 DEF IsSized
<1>5. mid < size
  BY <1>4 DEF IsVarint
<1> QED
  BY <1>1, <1>3, <1>4, <1>5

LEMMA FieldsFinite ==
  ASSUME NEW fields, EncodesRecord(input, fields)
  PROVE  /\ DOMAIN fields \subseteq 1..MaxField
         /\ fields = [f \in DOMAIN fields |-> fields[f]]
         /\ Cardinality(DOMAIN fields) \in Nat
<1>1. DOMAIN fields \subseteq 1..MaxField /\ fields = [f \in DOMAIN fields |-> fields[f]]
  BY DEF EncodesRecord
<1>2. IsFiniteSet(1..MaxField)
  BY FormatAssumption, FS_Interval
<1>3. Cardinality(DOMAIN fields) \in Nat
  <2> DEFINE D == DOMAIN fields
  <2>1. D \subseteq 1..MaxField
    BY <1>1
  <2> HIDE DEF D
  <2>2. IsFiniteSet(D)
    BY <1>2, <2>1, FS_Subset
  <2> QED
    BY <2>2, FS_CardinalityType DEF D
<1> QED
  BY <1>1, <1>3

(* The fields of a record one after the other.                             *)
LEMMA FieldLinks ==
  ASSUME input \in Inputs, NEW fields, EncodesRecord(input, fields), NEW order \in Orders(DOMAIN fields),
         NEW c \in Chains(input, 0, Len(input.data), FieldSpans(input, order, fields)),
         NEW n, n = Cardinality(DOMAIN fields)
  PROVE  /\ n \in Nat
         /\ order \in [1..n -> DOMAIN fields]
         /\ \A i, j \in 1..n : order[i] = order[j] => i = j
         /\ \A f \in DOMAIN fields : \E i \in 1..n : order[i] = f
         /\ c[0] = 0 /\ c[n] = Size
         /\ \A i \in 0..n : c[i] \in 0..Size
         /\ \A i \in 0..(n - 1) : IsField(input, c[i], c[i + 1], order[i + 1], fields[order[i + 1]])
<1> DEFINE spans == FieldSpans(input, order, fields)
<1>1. /\ n \in Nat
      /\ order \in [1..n -> DOMAIN fields]
      /\ \A i, j \in 1..n : order[i] = order[j] => i = j
      /\ \A f \in DOMAIN fields : \E i \in 1..n : order[i] = f
  BY FieldsFinite DEF Orders
<1>2. Len(order) = n
  <2>1. order = [i \in 1..n |-> order[i]]
    BY <1>1
  <2> QED
    BY <1>1, <2>1, ListLength
<1>3. Len(spans) = n
  <2>1. spans = [i \in 1..n |-> spans[i]]
    BY <1>2 DEF FieldSpans
  <2> HIDE DEF spans
  <2> QED
    BY <1>1, <2>1, ListLength
<1>4. ASSUME NEW i \in 1..n, NEW a, NEW b, <<a, b>> \in spans[i]
      PROVE  IsField(input, a, b, order[i], fields[order[i]])
  BY <1>2, <1>4 DEF FieldSpans
<1>5. c \in Chains(input, 0, Len(input.data), spans)
  OBVIOUS
<1> HIDE DEF spans
<1>6. /\ c[0] = 0 /\ c[n] = Size
      /\ \A i \in 0..n : c[i] \in 0..Size
      /\ \A i \in 0..(n - 1) : <<c[i], c[i + 1]>> \in spans[i + 1]
  <2>1. Len(spans) \in Nat
    BY <1>1, <1>3
  <2>2. /\ c[0] = 0 /\ c[Len(spans)] = Size
        /\ \A i \in 0..Len(spans) : c[i] \in 0..Size
        /\ \A i \in 0..(Len(spans) - 1) : <<c[i], c[i + 1]>> \in spans[i + 1]
    BY <1>5, <2>1, ChainLink
  <2> QED
    BY <1>3, <2>2
<1>7. ASSUME NEW i \in 0..(n - 1)
      PROVE  IsField(input, c[i], c[i + 1], order[i + 1], fields[order[i + 1]])
  <2>1. i + 1 \in 1..n
    BY <1>1
  <2> QED
    BY <1>4, <1>6, <2>1
<1> QED
  BY <1>1, <1>6, <1>7

(* The next field of a record is one that has not been met, at the offset. *)
LEMMA NextField ==
  ASSUME input \in Inputs, NEW fields, EncodesRecord(input, fields), FieldsRead(fields), offset < Size
  PROVE  \E field \in DOMAIN fields, next \in 0..Size :
           /\ offset \in 0..Size
           /\ field \in 1..MaxField /\ field \notin DOMAIN entries
           /\ IsField(input, offset, next, field, fields[field])
           /\ \A more : /\ DOMAIN more = DOMAIN entries \union {field}
                        /\ more[field] = fields[field]
                        /\ \A f \in DOMAIN entries : more[f] = entries[f]
                        => FieldsReadAs(fields, more, next)
<1> DEFINE D == DOMAIN fields
           n == Cardinality(DOMAIN fields)
<1>1. PICK order \in Orders(D) :
        \E c \in Chains(input, 0, Len(input.data), FieldSpans(input, order, fields)) :
        \E k \in 0..n :
          /\ DOMAIN entries = {order[i] : i \in 1..k}
          /\ \A i \in 1..k : entries[order[i]] = fields[order[i]]
          /\ offset = c[k]
  BY DEF FieldsRead, FieldsReadAs
<1>2. PICK c \in Chains(input, 0, Len(input.data), FieldSpans(input, order, fields)), k \in 0..n :
        /\ DOMAIN entries = {order[i] : i \in 1..k}
        /\ \A i \in 1..k : entries[order[i]] = fields[order[i]]
        /\ offset = c[k]
  BY <1>1
<1>3. n = Cardinality(DOMAIN fields)
  OBVIOUS
<1> HIDE DEF n
<1>4. /\ n \in Nat
      /\ order \in [1..n -> D]
      /\ \A i, j \in 1..n : order[i] = order[j] => i = j
      /\ c[n] = Size
      /\ \A i \in 0..n : c[i] \in 0..Size
      /\ \A i \in 0..(n - 1) : IsField(input, c[i], c[i + 1], order[i + 1], fields[order[i + 1]])
  BY <1>3, FieldLinks
<1>5. k # n
  <2>1. Size \in Nat
    BY Lengths
  <2> QED
    BY <1>2, <1>4, <2>1
<1>6. k \in 0..(n - 1) /\ k + 1 \in 1..n /\ k + 1 \in 0..n
  BY <1>4, <1>5
<1> DEFINE field == order[k + 1]
           next == c[k + 1]
<1>7. field \in D /\ next \in 0..Size /\ offset \in 0..Size
  BY <1>2, <1>4, <1>6
<1>8. field \in 1..MaxField
  BY <1>7, FieldsFinite
<1>9. IsField(input, offset, next, field, fields[field])
  BY <1>2, <1>4, <1>6
<1>10. field \notin DOMAIN entries
  <2> SUFFICES ASSUME field \in DOMAIN entries PROVE FALSE
    OBVIOUS
  <2>1. PICK i \in 1..k : order[i] = field
    BY <1>2
  <2>2. i \in 1..n /\ i # k + 1
    BY <1>4, <1>6
  <2> QED
    BY <1>4, <1>6, <2>1, <2>2
<1>11. ASSUME NEW more, DOMAIN more = DOMAIN entries \union {field}, more[field] = fields[field],
              \A f \in DOMAIN entries : more[f] = entries[f]
       PROVE  FieldsReadAs(fields, more, next)
  <2>1. ASSUME NEW i \in 1..(k + 1), i # k + 1
        PROVE  i \in 1..k
    BY <1>6, <2>1
  <2>2. \A i \in 1..k : i \in 1..(k + 1)
    BY <1>6
  <2>3. k + 1 \in 1..(k + 1)
    BY <1>6
  <2>4. DOMAIN more = {order[i] : i \in 1..(k + 1)}
    <3>1. \A f \in DOMAIN more : \E i \in 1..(k + 1) : f = order[i]
      BY <1>2, <1>11, <2>2, <2>3
    <3>2. \A i \in 1..(k + 1) : order[i] \in DOMAIN more
      BY <1>2, <1>11, <2>1
    <3> QED
      BY <3>1, <3>2
  <2>5. ASSUME NEW i \in 1..(k + 1)
        PROVE  more[order[i]] = fields[order[i]]
    <3>1. CASE i = k + 1
      BY <1>11, <3>1
    <3>2. CASE i # k + 1
      <4>1. i \in 1..k
        BY <2>1, <3>2
      <4>2. order[i] \in DOMAIN entries /\ entries[order[i]] = fields[order[i]]
        BY <1>2, <4>1
      <4> QED
        BY <1>11, <4>2
    <3> QED
      BY <3>1, <3>2
  <2>6. k + 1 \in 0..Cardinality(DOMAIN fields)
    BY <1>3, <1>6
  <2> QED
    BY <2>4, <2>5, <2>6 DEF FieldsReadAs
<1> HIDE DEF field, next
<1> QED
  BY <1>7, <1>8, <1>9, <1>10, <1>11

LEMMA DecodeFieldFollows ==
  ASSUME AccountInv, DecodeField, NEW value \in input.of, FieldsRead(value)
  PROVE  pc' = "loop" /\ FieldsRead(value)'
<1>1. Task("record") /\ pc = "loop" /\ offset < Size
  BY DEF DecodeField
<1>2. input \in Inputs /\ EncodesRecord(input, value)
  BY <1>1, DecodingAssumption DEF AccountInv, DecodingInv, TypeInv, Encodes, Task
<1>3. PICK field \in DOMAIN value, next \in 0..Size :
        /\ offset \in 0..Size
        /\ field \in 1..MaxField /\ field \notin DOMAIN entries
        /\ IsField(input, offset, next, field, value[field])
        /\ \A more : /\ DOMAIN more = DOMAIN entries \union {field}
                     /\ more[field] = value[field]
                     /\ \A f \in DOMAIN entries : more[f] = entries[f]
                     => FieldsReadAs(value, more, next)
  BY <1>1, <1>2, NextField
<1> DEFINE v == field * WireSize + LengthDelimited
<1>4. PICK mid \in 0..Size : IsVarint(input, offset, mid, v) /\ IsSized(input, mid, next, value[field])
  BY <1>2, <1>3, Lengths DEF IsField
<1>5. v \div WireSize = field /\ v % WireSize = LengthDelimited
  BY <1>3, TagParts
<1> HIDE DEF v
<1>6. ConsumeUvarint(offset) = Ok(v, mid) /\ Sized(mid) = Ok(value[field], next)
  BY <1>2, <1>3, <1>4, VarintRead, SizedRead
<1>7. /\ ConsumeUvarint(offset).ok /\ ConsumeUvarint(offset).value = v /\ ConsumeUvarint(offset).next = mid
      /\ Sized(mid).ok /\ Sized(mid).value = value[field] /\ Sized(mid).next = next
  BY <1>6 DEF Ok
<1>8. ~Unsupported(v, DOMAIN entries)
  BY <1>3, <1>5 DEF Unsupported
<1>9. /\ pc' = "loop" /\ offset' = next /\ input' = input
      /\ entries' = [f \in DOMAIN entries \union {field} |-> IF f = field THEN value[field] ELSE entries[f]]
  BY <1>1, <1>5, <1>7, <1>8 DEF DecodeField
<1>10. /\ DOMAIN entries' = DOMAIN entries \union {field}
       /\ entries'[field] = value[field]
       /\ \A f \in DOMAIN entries : entries'[f] = entries[f]
  BY <1>3, <1>9
<1>11. FieldsReadAs(value, entries', next)
  BY <1>3, <1>10
<1>12. FieldsRead(value)'
  BY <1>9, <1>11 DEF FieldsRead, FieldsReadAs
<1> QED
  BY <1>9, <1>12

LEMMA FieldsReadEnd ==
  ASSUME AccountInv, NEW value \in input.of, Task("record"), pc = "done", FieldsRead(value)
  PROVE  entries = value
<1> DEFINE D == DOMAIN value
           n == Cardinality(DOMAIN value)
<1>1. input \in Inputs /\ EncodesRecord(input, value)
  BY DecodingAssumption DEF AccountInv, DecodingInv, TypeInv, Encodes, Task
<1>2. offset = Size /\ entries = [f \in DOMAIN entries |-> entries[f]]
  BY DEF AccountInv, Accounted, AccountedFields, Task
<1>3. PICK order \in Orders(D) :
        \E c \in Chains(input, 0, Len(input.data), FieldSpans(input, order, value)) :
        \E k \in 0..n :
          /\ DOMAIN entries = {order[i] : i \in 1..k}
          /\ \A i \in 1..k : entries[order[i]] = value[order[i]]
          /\ offset = c[k]
  BY DEF FieldsRead, FieldsReadAs
<1>4. PICK c \in Chains(input, 0, Len(input.data), FieldSpans(input, order, value)), k \in 0..n :
        /\ DOMAIN entries = {order[i] : i \in 1..k}
        /\ \A i \in 1..k : entries[order[i]] = value[order[i]]
        /\ offset = c[k]
  BY <1>3
<1>5. n = Cardinality(DOMAIN value)
  OBVIOUS
<1> HIDE DEF n
<1>6. /\ n \in Nat
      /\ order \in [1..n -> D]
      /\ \A f \in D : \E i \in 1..n : order[i] = f
      /\ \A i \in 0..n : c[i] \in 0..Size
      /\ \A i \in 0..(n - 1) : IsField(input, c[i], c[i + 1], order[i + 1], value[order[i + 1]])
  BY <1>1, <1>5, FieldLinks
<1>7. k = n
  <2> SUFFICES ASSUME k # n PROVE FALSE
    OBVIOUS
  <2>1. k \in 0..(n - 1) /\ k \in 0..n /\ k + 1 \in 0..n
    BY <1>6
  <2>2. c[k] \in 0..Size /\ c[k + 1] \in 0..Size
        /\ IsField(input, c[k], c[k + 1], order[k + 1], value[order[k + 1]])
    BY <1>6, <2>1
  <2>3. c[k] < c[k + 1]
    BY <1>1, <2>2, FieldWidth
  <2>4. c[k] = Size /\ Size \in Nat
    BY <1>1, <1>2, <1>4, Lengths
  <2> QED
    BY <2>2, <2>3, <2>4
<1>8. DOMAIN entries = D
  <2>1. DOMAIN entries = {order[i] : i \in 1..n}
    BY <1>4, <1>7
  <2>2. \A i \in 1..n : order[i] \in D
    BY <1>6
  <2>3. \A f \in D : \E i \in 1..n : order[i] = f
    BY <1>6
  <2> HIDE DEF D
  <2> QED
    BY <2>1, <2>2, <2>3
<1>9. \A f \in D : entries[f] = value[f]
  BY <1>4, <1>6, <1>7
<1>10. value = [f \in D |-> value[f]]
  BY <1>1, FieldsFinite
<1> QED
  BY <1>2, <1>8, <1>9, <1>10

LEMMA DecodeHeightFollows ==
  ASSUME AccountInv, DecodeHeight, NEW value \in input.of
  PROVE  pc' = "done" /\ entries' = value /\ input' = input
<1>1. Task("height")
  BY DEF DecodeHeight
<1>2. input \in Inputs /\ EncodesHeight(input, value)
  BY <1>1, DecodingAssumption DEF AccountInv, DecodingInv, TypeInv, Encodes, Task
<1>3. /\ Offsets(input) = 0..Size /\ Size = Len(input.data) /\ 0 \in 0..Size /\ Size \in 0..Size
  BY <1>2, Lengths
<1>4. value = <<value[1], value[2]>>
  BY <1>2 DEF EncodesHeight
<1>5. PICK mid \in 0..Size : IsUint(input, 0, mid, value[1]) /\ IsUint(input, mid, Size, value[2])
  BY <1>2, <1>3 DEF EncodesHeight
<1>6. OrderPreservingUint(0) = Ok(value[1], mid) /\ OrderPreservingUint(mid) = Ok(value[2], Size)
  BY <1>2, <1>3, <1>5, UintRead
<1>7. /\ OrderPreservingUint(0).ok /\ OrderPreservingUint(0).value = value[1] /\ OrderPreservingUint(0).next = mid
      /\ OrderPreservingUint(mid).ok /\ OrderPreservingUint(mid).value = value[2]
      /\ OrderPreservingUint(mid).next = Size
  BY <1>6 DEF Ok
<1>8. pc' = "done" /\ entries' = <<value[1], value[2]>> /\ input' = input
  BY <1>7 DEF DecodeHeight
<1> QED
  BY <1>4, <1>8

LEMMA InitFollows ==
  ASSUME Init
  PROVE  FollowInv
<1>1. AccountInv
  BY InitAccounted
<1>2. /\ input \in Inputs /\ offset = 0 /\ entries = <<>> /\ pc \in {"start", "loop"}
      /\ input.task \in {"namespaces", "records"} => pc = "start"
  BY DEF Init
<1>3. ASSUME NEW value \in input.of, Task("record")
      PROVE  FieldsRead(value)
  <2> DEFINE n == Cardinality(DOMAIN value)
  <2>1. EncodesRecord(input, value)
    BY <1>2, <1>3, DecodingAssumption DEF Encodes, Task
  <2>2. PICK order \in Orders(DOMAIN value) :
          Chains(input, 0, Len(input.data), FieldSpans(input, order, value)) # {}
    BY <2>1 DEF EncodesRecord
  <2>3. PICK c \in Chains(input, 0, Len(input.data), FieldSpans(input, order, value)) : TRUE
    BY <2>2
  <2>4. c[0] = 0
    BY <2>3 DEF Chains
  <2>5. 0 \in 0..n
    BY <2>1, FieldsFinite
  <2>6. DOMAIN entries = {order[i] : i \in 1..0} /\ \A i \in 1..0 : entries[order[i]] = value[order[i]]
    BY <1>2
  <2> QED
    BY <1>2, <2>4, <2>5, <2>6 DEF FieldsRead, FieldsReadAs
<1>4. ASSUME NEW value \in input.of
      PROVE  Follows(value)
  BY <1>2, <1>3 DEF Follows, Task
<1> QED
  BY <1>1, <1>4 DEF FollowInv

(* Where a decoder stops without failing, nothing changes but pc.          *)
LEMMA EndFollows ==
  ASSUME AccountInv, CountedLoopEnds \/ FieldsEnd, NEW value \in input.of, Follows(value)
  PROVE  pc' = "done" /\ Follows(value)'
<1>1. pc = "loop"
  BY DEF CountedLoopEnds, FieldsEnd
<1>2. pc' = "done" /\ UNCHANGED <<input, offset, left, entries>> /\ ~Task("height")
  <2>1. CASE FieldsEnd
    BY <2>1 DEF FieldsEnd, Accept, Task
  <2>2. CASE CountedLoopEnds /\ Task("namespaces")
    <3>1. input \in Inputs /\ entries \in Seq(Namespace) /\ left = 0
      BY <2>2 DEF CountedLoopEnds, AccountInv, DecodingInv, TypeInv, Decoded, Task, Namespace
    <3>2. value \in Seq(Namespace)
      BY <2>2, <3>1, DecodingAssumption DEF Encodes, Task, EncodesNamespaces
    <3>3. PICK first \in Offsets(input) :
            ListRead(first, NamespaceSpans(input, value), value, entries, offset, 0)
      BY <1>1, <2>2, <3>1 DEF Follows, NamespacesRead
    <3>4. Len(NamespaceSpans(input, value)) = Len(value)
      BY <3>2, SpansLength
    <3>5. offset = Size
      BY <3>1, <3>2, <3>3, <3>4, ListReadEnd
    <3> QED
      BY <2>2, <3>5 DEF CountedLoopEnds, Accept, Task
  <2>3. CASE CountedLoopEnds /\ Task("records")
    <3>1. input \in Inputs /\ entries \in Seq(Seq(Byte)) /\ left = 0
      BY <2>3 DEF CountedLoopEnds, AccountInv, DecodingInv, TypeInv, Decoded, Task
    <3>2. value \in Seq(Seq(Byte))
      BY <2>3, <3>1, DecodingAssumption DEF Encodes, Task, EncodesRecords
    <3>3. ListRead(1, RecordSpans(input, value), value, entries, offset, 0)
      BY <1>1, <2>3, <3>1 DEF Follows, RecordsRead
    <3>4. Len(RecordSpans(input, value)) = Len(value)
      BY <3>2, SpansLength
    <3>5. offset = Size
      BY <3>1, <3>2, <3>3, <3>4, ListReadEnd
    <3> QED
      BY <2>3, <3>5 DEF CountedLoopEnds, Accept, Task
  <2> QED
    BY <2>1, <2>2, <2>3 DEF CountedLoopEnds, Task
<1>3. /\ NamespacesRead(value)' <=> NamespacesRead(value)
      /\ RecordsRead(value)' <=> RecordsRead(value)
      /\ FieldsRead(value)' <=> FieldsRead(value)
  BY <1>2 DEF NamespacesRead, RecordsRead, FieldsRead, FieldsReadAs, ListRead
<1> QED
  BY <1>1, <1>2, <1>3 DEF Follows, Task

LEMMA NextFollows ==
  ASSUME FollowInv, [Next]_vars
  PROVE  FollowInv'
<1>1. AccountInv /\ AccountInv'
  BY NextAccounts DEF FollowInv
<1>2. input' = input
  BY DEF Next, vars, CountNamespaces, DecodeNamespace, CountedLoopEnds, OpenRecords, ReadRecord, DecodeField,
         FieldsEnd, DecodeHeight, Decided, Fail, Accept
<1>3. ASSUME NEW value \in input.of
      PROVE  Follows(value)'
  <2>1. Follows(value)
    BY DEF FollowInv
  <2>2. CASE CountNamespaces
    BY <1>1, <1>2, <2>2, CountNamespacesFollows DEF CountNamespaces, Follows, Task
  <2>3. CASE DecodeNamespace
    <3>1. Task("namespaces") /\ NamespacesRead(value)
      BY <2>1, <2>3 DEF DecodeNamespace, Follows
    <3>2. pc' = "loop" /\ NamespacesRead(value)'
      BY <1>1, <2>3, <3>1, DecodeNamespaceFollows
    <3> QED
      BY <1>2, <3>1, <3>2 DEF Follows, Task
  <2>4. CASE OpenRecords
    BY <1>1, <1>2, <2>4, OpenRecordsFollows DEF OpenRecords, Follows, Task
  <2>5. CASE ReadRecord
    <3>1. Task("records") /\ RecordsRead(value)
      BY <2>1, <2>5 DEF ReadRecord, Follows
    <3>2. pc' = "loop" /\ RecordsRead(value)'
      BY <1>1, <2>5, <3>1, ReadRecordFollows
    <3> QED
      BY <1>2, <3>1, <3>2 DEF Follows, Task
  <2>6. CASE DecodeField
    <3>1. Task("record") /\ FieldsRead(value)
      BY <2>1, <2>6 DEF DecodeField, Follows
    <3>2. pc' = "loop" /\ FieldsRead(value)'
      BY <1>1, <2>6, <3>1, DecodeFieldFollows
    <3> QED
      BY <1>2, <3>1, <3>2 DEF Follows, Task
  <2>7. CASE DecodeHeight
    <3>1. Task("height")
      BY <2>7 DEF DecodeHeight
    <3>2. pc' = "done" /\ entries' = value
      BY <1>1, <2>7, DecodeHeightFollows
    <3> QED
      BY <1>2, <3>1, <3>2 DEF Follows, Task
  <2>8. CASE CountedLoopEnds \/ FieldsEnd
    BY <1>1, <2>1, <2>8, EndFollows
  <2>9. CASE UNCHANGED vars
    <3>1. UNCHANGED <<input, pc, offset, left, entries>>
      BY <2>9 DEF vars
    <3>2. /\ NamespacesRead(value)' <=> NamespacesRead(value)
          /\ RecordsRead(value)' <=> RecordsRead(value)
          /\ FieldsRead(value)' <=> FieldsRead(value)
      BY <3>1 DEF NamespacesRead, RecordsRead, FieldsRead, FieldsReadAs, ListRead
    <3> QED
      BY <2>1, <3>1, <3>2 DEF Follows, Task
  <2> QED
    BY <2>2, <2>3, <2>4, <2>5, <2>6, <2>7, <2>8, <2>9 DEF Next, Decided
<1>4. \A value \in input'.of : Follows(value)'
  BY <1>2, <1>3
<1> QED
  BY <1>1, <1>4 DEF FollowInv

LEMMA FollowedIsRead ==
  ASSUME FollowInv
  PROVE  WrittenIsRead
<1>1. pc = "failed" => input.of = {}
  BY DEF FollowInv, Follows
<1>2. ASSUME pc = "done", NEW value \in input.of
      PROVE  value = entries
  <2>1. Follows(value) /\ AccountInv /\ input \in Inputs /\ entries \in Decoded
    BY DEF FollowInv, AccountInv, DecodingInv, TypeInv
  <2>2. CASE Task("namespaces")
    <3>1. entries \in Seq(Namespace) /\ left = 0
      BY <1>2, <2>1, <2>2 DEF AccountInv, Accounted, Decoded, Task, Namespace
    <3>2. value \in Seq(Namespace)
      BY <2>1, <2>2, DecodingAssumption DEF Encodes, Task, EncodesNamespaces
    <3>3. PICK first \in Offsets(input) :
            ListRead(first, NamespaceSpans(input, value), value, entries, offset, 0)
      BY <1>2, <2>1, <2>2, <3>1 DEF Follows, NamespacesRead
    <3>4. Len(NamespaceSpans(input, value)) = Len(value)
      BY <3>2, SpansLength
    <3> QED
      BY <2>1, <3>1, <3>2, <3>3, <3>4, ListReadEnd
  <2>3. CASE Task("records")
    <3>1. entries \in Seq(Seq(Byte)) /\ left = 0
      BY <1>2, <2>1, <2>3 DEF AccountInv, Accounted, Decoded, Task
    <3>2. value \in Seq(Seq(Byte))
      BY <2>1, <2>3, DecodingAssumption DEF Encodes, Task, EncodesRecords
    <3>3. ListRead(1, RecordSpans(input, value), value, entries, offset, 0)
      BY <1>2, <2>1, <2>3, <3>1 DEF Follows, RecordsRead
    <3>4. Len(RecordSpans(input, value)) = Len(value)
      BY <3>2, SpansLength
    <3> QED
      BY <2>1, <3>1, <3>2, <3>3, <3>4, ListReadEnd
  <2>4. CASE Task("record")
    BY <1>2, <2>1, <2>4, FieldsReadEnd DEF Follows
  <2>5. CASE Task("height")
    BY <1>2, <2>1, <2>5 DEF Follows
  <2> QED
    BY <2>1, <2>2, <2>3, <2>4, <2>5, DecodingAssumption DEF Task
<1> QED
  BY <1>1, <1>2 DEF WrittenIsRead

(***************************************************************************)
(* Whatever a writer has encoded is accepted, as what it was, in words of  *)
(* any width and for any varint decoder that finds the varints: no size or *)
(* count check refuses what decodes, and no bytes decode two ways          *)
(* (WrittenIsRead; snapshot.go:25,49,84,97; stream.go:285).                *)
(***************************************************************************)
THEOREM DecodingReadsWritten == Spec => []WrittenIsRead
<1>1. Init => FollowInv
  BY InitFollows
<1>2. FollowInv /\ [Next]_vars => FollowInv'
  BY NextFollows
<1>3. FollowInv => WrittenIsRead
  BY FollowedIsRead
<1> QED
  BY <1>1, <1>2, <1>3, PTL DEF Spec
=============================================================================
