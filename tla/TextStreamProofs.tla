--------------------------- MODULE TextStreamProofs ---------------------------
(***************************************************************************)
(* Proofs about TextStream, for any streams, blocks, buffers, files, texts *)
(* and bounds: the streams and the file have their types; every stream     *)
(* implements TextReading, so that what a script reads is the text that is *)
(* left, taken from the front, whatever the blocks and the buffers do; and *)
(* what is written, and is on the file, is what is read back.              *)
(***************************************************************************)
EXTENDS TextStream, ListFacts

C == Characters

-------------------------------------------------------------------------------
(* Encoding and decoding, by parts.                                          *)

\* Scripts' characters and the bytes of the encodings are Characters.
LEMMA PlainIsC ==
  /\ Plain \subseteq C /\ {Lead, Trail, "00", "FF", "FE"} \subseteq C
  /\ BOM \in Seq(C) /\ CRLF \in Seq(Plain) /\ Len(BOM) = 2
<1>1. \A S, x, y : x \in S /\ y \in S => <<x, y>> \in Seq(S) /\ Len(<<x, y>>) = 2
  OBVIOUS
<1>. QED
  BY <1>1 DEF C, Characters, Plain, Lead, Trail, BOM, CRLF

\* The bytes of one character.
Code(c, unicode) ==
  IF unicode THEN <<c, "00">> ELSE IF c = "e'" THEN <<Lead, Trail>> ELSE <<c>>

\* A character has one or two bytes.
LEMMA CodeType ==
  ASSUME NEW c \in C, NEW u
  PROVE  Code(c, u) \in Seq(C) /\ Len(Code(c, u)) \in {1, 2}
<1>1. \A x, y \in C : <<x, y>> \in Seq(C) /\ Len(<<x, y>>) = 2 /\ <<x>> \in Seq(C) /\ Len(<<x>>) = 1
  OBVIOUS
<1>. QED
  BY <1>1, PlainIsC DEF Code

Codes(text, u) == [i \in DOMAIN text |-> Code(text[i], u)]

\* Encode puts the codes of the characters one after the other.
LEMMA CodesType ==
  ASSUME NEW text \in Seq(C), NEW u
  PROVE  /\ Codes(text, u) \in Seq(Seq(C)) /\ Len(Codes(text, u)) = Len(text)
         /\ \A i \in 1..Len(text) : Codes(text, u)[i] = Code(text[i], u)
         /\ Encode(text, u) = FlattenSeq(Codes(text, u))
<1>1. Len(text) \in Nat /\ DOMAIN text = 1..Len(text) /\ \A i \in 1..Len(text) : text[i] \in C
  BY LenProperties, ElementOfSeq
<1>2. Codes(text, u) \in [1..Len(text) -> Seq(C)]
  BY <1>1, CodeType DEF Codes
<1>3. Encode(text, u) = FlattenSeq(Codes(text, u))
  BY DEF Encode, Codes, Code
<1>. QED
  BY <1>1, <1>2, <1>3, FunctionIsSeq DEF Codes

\* What a text is encoded to.
LEMMA EncodeType ==
  ASSUME NEW text \in Seq(C), NEW u
  PROVE  Encode(text, u) \in Seq(C)
  BY CodesType, FlattenType

\* The empty text has no bytes.
LEMMA EncodeEmpty == \A u : Encode(<<>>, u) = <<>>
<1>. SUFFICES ASSUME NEW u PROVE Encode(<<>>, u) = <<>>
  OBVIOUS
<1>1. <<>> \in Seq(C) /\ Len(<<>>) = 0
  BY EmptySeq
<1>2. Codes(<<>>, u) = <<>>
  BY <1>1, CodesType, EmptySeq
<1>. QED
  BY <1>1, <1>2, CodesType, FlattenEmpty

\* Two texts are encoded each by itself.
Encoded(a, b, u) == Encode(a \o b, u) = Encode(a, u) \o Encode(b, u)

\* A text is encoded character by character: its parts are encoded by themselves.
LEMMA EncodeConcat ==
  ASSUME NEW a \in Seq(C), NEW b \in Seq(C), NEW u
  PROVE  Encoded(a, b, u)
<1>0. PICK m \in Nat, n \in Nat : Len(a) = m /\ Len(b) = n
  BY LenProperties
<1>1. /\ a \o b \in Seq(C) /\ Len(a \o b) = m + n
      /\ \A i \in 1..m + n : (a \o b)[i] = IF i <= m THEN a[i] ELSE b[i - m]
  BY <1>0
<1>2. PICK x \in Seq(Seq(C)) :
        /\ Len(x) = m /\ \A i \in 1..m : x[i] = Code(a[i], u)
        /\ Encode(a, u) = FlattenSeq(x)
  BY <1>0, CodesType
<1>3. PICK y \in Seq(Seq(C)) :
        /\ Len(y) = n /\ \A i \in 1..n : y[i] = Code(b[i], u)
        /\ Encode(b, u) = FlattenSeq(y)
  BY <1>0, CodesType
<1>4. PICK z \in Seq(Seq(C)) :
        /\ Len(z) = m + n /\ \A i \in 1..m + n : z[i] = Code((a \o b)[i], u)
        /\ Encode(a \o b, u) = FlattenSeq(z)
  <2>1. PICK ab \in Seq(C) : ab = a \o b /\ Len(ab) = m + n
    BY <1>1
  <2>. QED
    BY <2>1, CodesType
<1>5. \A i \in 1..m : z[i] = x[i]
  <2>1. ASSUME NEW i \in 1..m PROVE z[i] = x[i]
    <3>1. i \in 1..m + n /\ i <= m
      OBVIOUS
    <3>. QED
      BY <1>1, <1>2, <1>4, <3>1
  <2>. QED
    BY <2>1
<1>6. \A i \in 1..n : z[m + i] = y[i]
  <2>1. ASSUME NEW i \in 1..n PROVE z[m + i] = y[i]
    <3>1. m + i \in 1..m + n /\ ~(m + i <= m) /\ (m + i) - m = i
      OBVIOUS
    <3>. QED
      BY <1>1, <1>3, <1>4, <3>1
  <2>. QED
    BY <2>1
<1>7. z = x \o y
  <2>. DEFINE D == Seq(C)
  <2>1. x \in Seq(D) /\ y \in Seq(D) /\ z \in Seq(D)
    OBVIOUS
  <2>. HIDE DEF D
  <2>. QED
    <3>1. /\ Len(z) = Len(x) + Len(y)
          /\ \A i \in 1..Len(x) : z[i] = x[i]
          /\ \A i \in 1..Len(y) : z[Len(x) + i] = y[i]
      BY <1>2, <1>3, <1>4, <1>5, <1>6
    <3>. QED
      BY <2>1, <3>1, ConcatIs
<1>8. FlattenSeq(x \o y) = FlattenSeq(x) \o FlattenSeq(y)
  BY FlattenConcat
<1>. QED
  BY <1>2, <1>3, <1>4, <1>7, <1>8 DEF Encoded

\* The code of one character.
LEMMA EncodeOne ==
  ASSUME NEW c \in C, NEW u
  PROVE  <<c>> \in Seq(C) /\ Encode(<<c>>, u) = Code(c, u)
<1>1. <<c>> \in Seq(C) /\ Len(<<c>>) = 1 /\ <<c>>[1] = c
  OBVIOUS
<1>2. Code(c, u) \in Seq(C)
  BY CodeType
<1>3. /\ Codes(<<c>>, u) \in Seq(Seq(C)) /\ Len(Codes(<<c>>, u)) = 1
      /\ Codes(<<c>>, u)[1] = Code(c, u)
      /\ Encode(<<c>>, u) = FlattenSeq(Codes(<<c>>, u))
  <2>. DEFINE o == <<c>>
  <2>1. o \in Seq(C) /\ Len(o) = 1 /\ o[1] = c /\ 1 \in 1..1
    BY <1>1
  <2>. HIDE DEF o
  <2>2. /\ Codes(o, u) \in Seq(Seq(C)) /\ Len(Codes(o, u)) = 1
        /\ Codes(o, u)[1] = Code(c, u) /\ Encode(o, u) = FlattenSeq(Codes(o, u))
    BY <2>1, CodesType
  <2>. QED
    BY <2>2 DEF o
<1>4. <<Code(c, u)>> \in Seq(Seq(C)) /\ Len(<<Code(c, u)>>) = 1 /\ <<Code(c, u)>>[1] = Code(c, u)
  BY <1>2
<1>5. Codes(<<c>>, u) = <<Code(c, u)>>
  BY <1>3, <1>4, SeqEqual
<1>. QED
  BY <1>1, <1>2, <1>3, <1>5, FlattenOne

-------------------------------------------------------------------------------
\* A byte that is read as ANSI gives a character.
LEMMA NarrowType ==
  ASSUME NEW b \in Seq(C), NEW i \in 1..Len(b)
  PROVE  Narrow(b, i) \in C
<1>1. b[i] \in C
  BY ElementOfSeq
<1>2. {"e'", "unknown"} \subseteq C
  BY DEF C, Characters
<1>. QED
  BY <1>1, <1>2 DEF Narrow

Narrows(b) == [i \in DOMAIN b |->
                 IF b[i] = Trail /\ i > 1 /\ b[i - 1] = Lead THEN <<>> ELSE <<Narrow(b, i)>>]

\* Decode of ANSI bytes puts the characters of the bytes one after the other.
LEMMA NarrowsType ==
  ASSUME NEW b \in Seq(C)
  PROVE  /\ Narrows(b) \in Seq(Seq(C)) /\ Len(Narrows(b)) = Len(b)
         /\ \A i \in 1..Len(b) : Narrows(b)[i] =
              IF b[i] = Trail /\ i > 1 /\ b[i - 1] = Lead THEN <<>> ELSE <<Narrow(b, i)>>
         /\ Decode(b, FALSE) = FlattenSeq(Narrows(b))
<1>1. Len(b) \in Nat /\ DOMAIN b = 1..Len(b)
  BY LenProperties
<1>2. \A x \in C : <<x>> \in Seq(C)
  OBVIOUS
<1>3. <<>> \in Seq(C)
  BY EmptySeq
<1>4. Narrows(b) \in [1..Len(b) -> Seq(C)]
  BY <1>1, <1>2, <1>3, NarrowType DEF Narrows
<1>5. Decode(b, FALSE) = FlattenSeq(Narrows(b))
  BY DEF Decode, Narrows
<1>. QED
  BY <1>1, <1>4, <1>5, FunctionIsSeq DEF Narrows

\* Decode of wide bytes gives a character for every two.
LEMMA DecodeWide ==
  ASSUME NEW b \in Seq(C)
  PROVE  /\ Decode(b, TRUE) \in Seq(C) /\ Len(Decode(b, TRUE)) = Len(b) \div 2
         /\ \A i \in 1..(Len(b) \div 2) : Decode(b, TRUE)[i] = Wide(b[2 * i - 1], b[2 * i])
<1>1. Len(b) \in Nat /\ Len(b) \div 2 \in Nat
  BY LenProperties
<1>2. ASSUME NEW i \in 1..(Len(b) \div 2) PROVE Wide(b[2 * i - 1], b[2 * i]) \in C
  <2>1. 2 * i - 1 \in 1..Len(b)
    BY <1>1
  <2>2. b[2 * i - 1] \in C
    BY <2>1, ElementOfSeq
  <2>3. {"BOM", "other"} \subseteq C
    BY DEF C, Characters
  <2>. QED
    BY <2>2, <2>3 DEF Wide
<1>3. Decode(b, TRUE) = [i \in 1..(Len(b) \div 2) |-> Wide(b[2 * i - 1], b[2 * i])]
  BY DEF Decode
<1>4. Decode(b, TRUE) \in [1..(Len(b) \div 2) -> C]
  BY <1>2, <1>3
<1>. QED
  BY <1>1, <1>3, <1>4, FunctionIsSeq

\* What bytes are decoded to.
LEMMA DecodeType ==
  ASSUME NEW b \in Seq(C), NEW u \in BOOLEAN
  PROVE  Decode(b, u) \in Seq(C)
<1>1. Decode(b, FALSE) \in Seq(C)
  BY NarrowsType, FlattenType
<1>. QED
  BY <1>1, DecodeWide

\* No bytes give no characters.
LEMMA DecodeEmpty == \A u \in BOOLEAN : Decode(<<>>, u) = <<>>
<1>1. <<>> \in Seq(C) /\ Len(<<>>) = 0
  BY EmptySeq
<1>2. Decode(<<>>, FALSE) = <<>>
  BY <1>1, NarrowsType, EmptySeq, FlattenEmpty
<1>3. Decode(<<>>, TRUE) = <<>>
  <2>1. Decode(<<>>, TRUE) \in Seq(C) /\ Len(Decode(<<>>, TRUE)) = Len(<<>>) \div 2
    BY <1>1, DecodeWide
  <2>2. 0 \div 2 = 0
    OBVIOUS
  <2>3. Len(Decode(<<>>, TRUE)) = 0
    BY <1>1, <2>1, <2>2
  <2>. QED
    BY <2>1, <2>3, EmptySeq
<1>. QED
  BY <1>2, <1>3

\* Two pieces may be decoded each by itself.
Parts(a, b, u) ==
  IF u THEN Len(a) % 2 = 0
  ELSE ~(Len(a) > 0 /\ Len(b) > 0 /\ a[Len(a)] = Lead /\ b[1] = Trail)

\* Bytes that are cut where no character is are decoded part by part.
LEMMA DecodeConcat ==
  ASSUME NEW a \in Seq(C), NEW b \in Seq(C), NEW u \in BOOLEAN, Parts(a, b, u)
  PROVE  Decode(a \o b, u) = Decode(a, u) \o Decode(b, u)
<1>0. PICK m \in Nat, n \in Nat : Len(a) = m /\ Len(b) = n
  BY LenProperties
<1>1. PICK ab \in Seq(C) :
        /\ ab = a \o b /\ Len(ab) = m + n
        /\ \A i \in 1..m + n : ab[i] = IF i <= m THEN a[i] ELSE b[i - m]
  <2>1. /\ a \o b \in Seq(C) /\ Len(a \o b) = Len(a) + Len(b)
        /\ \A i \in 1..Len(a) + Len(b) : (a \o b)[i] = IF i <= Len(a) THEN a[i] ELSE b[i - Len(a)]
    BY ConcatProperties
  <2>. QED
    BY <1>0, <2>1
<1>1a. \A i \in 1..m : ab[i] = a[i]
  <2>1. ASSUME NEW i \in 1..m PROVE ab[i] = a[i]
    <3>1. i \in 1..m + n /\ i <= m
      OBVIOUS
    <3>. QED
      BY <1>1, <3>1
  <2>. QED
    BY <2>1
<1>1b. \A i \in 1..n : ab[m + i] = b[i]
  <2>1. ASSUME NEW i \in 1..n PROVE ab[m + i] = b[i]
    <3>1. m + i \in 1..m + n /\ ~(m + i <= m) /\ (m + i) - m = i
      OBVIOUS
    <3>. QED
      BY <1>1, <3>1
  <2>. QED
    BY <2>1
<1>2. CASE u = FALSE
  <2>0. ~(m > 0 /\ n > 0 /\ a[m] = Lead /\ b[1] = Trail)
    BY <1>0, <1>2 DEF Parts
  <2>1. PICK x \in Seq(Seq(C)) :
          /\ Len(x) = m /\ Decode(a, u) = FlattenSeq(x)
          /\ \A i \in 1..m : x[i] =
               IF a[i] = Trail /\ i > 1 /\ a[i - 1] = Lead THEN <<>> ELSE <<Narrow(a, i)>>
    BY <1>0, <1>2, NarrowsType
  <2>2. PICK y \in Seq(Seq(C)) :
          /\ Len(y) = n /\ Decode(b, u) = FlattenSeq(y)
          /\ \A i \in 1..n : y[i] =
               IF b[i] = Trail /\ i > 1 /\ b[i - 1] = Lead THEN <<>> ELSE <<Narrow(b, i)>>
    BY <1>0, <1>2, NarrowsType
  <2>3. PICK z \in Seq(Seq(C)) :
          /\ Len(z) = m + n /\ Decode(ab, u) = FlattenSeq(z)
          /\ \A i \in 1..m + n : z[i] =
               IF ab[i] = Trail /\ i > 1 /\ ab[i - 1] = Lead THEN <<>> ELSE <<Narrow(ab, i)>>
    BY <1>1, <1>2, NarrowsType
  <2>4. ASSUME NEW i \in 1..m PROVE z[i] = x[i]
    <3>1. i \in 1..m + n /\ ab[i] = a[i]
      BY <1>1a
    <3>2. i > 1 => ab[i - 1] = a[i - 1]
      <4>1. i > 1 => i - 1 \in 1..m
        OBVIOUS
      <4>. QED
        BY <1>1a, <4>1
    <3>3. Narrow(ab, i) = Narrow(a, i)
      <4>1. CASE i < m
        <5>1. i + 1 \in 1..m /\ i < m + n
          BY <4>1
        <5>2. ab[i + 1] = a[i + 1]
          BY <1>1a, <5>1
        <5>. QED
          BY <1>0, <1>1, <3>1, <4>1, <5>1, <5>2 DEF Narrow
      <4>2. CASE i = m
        <5>1. i < m + n => ab[i + 1] = b[1]
          BY <1>1b, <4>2
        <5>2. ~(ab[i] = Lead /\ i < m + n /\ ab[i + 1] = Trail)
          BY <2>0, <3>1, <4>2, <5>1
        <5>. QED
          BY <1>0, <1>1, <3>1, <4>2, <5>2 DEF Narrow
      <4>. QED
        BY <4>1, <4>2
    <3>. QED
      BY <2>1, <2>3, <3>1, <3>2, <3>3
  <2>5. ASSUME NEW i \in 1..n PROVE z[m + i] = y[i]
    <3>1. m + i \in 1..m + n /\ ab[m + i] = b[i]
      BY <1>1b
    <3>2. CASE i = 1
      <4>1. m > 0 => ab[(m + i) - 1] = a[m]
        BY <1>1a, <3>2
      <4>2. ~(ab[m + i] = Trail /\ m + i > 1 /\ ab[(m + i) - 1] = Lead)
        BY <2>0, <3>1, <3>2, <4>1
      <4>3. z[m + i] = <<Narrow(ab, m + i)>> /\ y[i] = <<Narrow(b, i)>>
        <5>1. ~(b[i] = Trail /\ i > 1 /\ b[i - 1] = Lead)
          BY <3>2
        <5>2. y[i] = <<Narrow(b, i)>>
          BY <2>2, <5>1
        <5>3. z[m + i] = <<Narrow(ab, m + i)>>
          BY <2>3, <3>1, <4>2
        <5>. QED
          BY <5>2, <5>3
      <4>4. m + i < m + n => ab[(m + i) + 1] = b[i + 1]
        <5>1. m + i < m + n => i + 1 \in 1..n /\ m + (i + 1) = (m + i) + 1
          OBVIOUS
        <5>. QED
          BY <1>1b, <5>1
      <4>5. Narrow(ab, m + i) = Narrow(b, i)
        BY <1>0, <1>1, <3>1, <4>4 DEF Narrow
      <4>. QED
        BY <4>3, <4>5
    <3>3. CASE i # 1
      <4>1. i > 1 /\ m + i > 1 /\ i - 1 \in 1..n /\ m + (i - 1) = (m + i) - 1
        BY <3>3
      <4>2. ab[(m + i) - 1] = b[i - 1]
        BY <1>1b, <4>1
      <4>4. m + i < m + n => ab[(m + i) + 1] = b[i + 1]
        <5>1. m + i < m + n => i + 1 \in 1..n /\ m + (i + 1) = (m + i) + 1
          OBVIOUS
        <5>. QED
          BY <1>1b, <5>1
      <4>5. Narrow(ab, m + i) = Narrow(b, i)
        BY <1>0, <1>1, <3>1, <4>4 DEF Narrow
      <4>. QED
        BY <2>2, <2>3, <3>1, <4>1, <4>2, <4>5
    <3>. QED
      BY <3>2, <3>3
  <2>6. z = x \o y
    <3>. DEFINE D == Seq(C)
    <3>1. x \in Seq(D) /\ y \in Seq(D) /\ z \in Seq(D)
      OBVIOUS
    <3>. HIDE DEF D
    <3>2. /\ Len(z) = Len(x) + Len(y)
          /\ \A i \in 1..Len(x) : z[i] = x[i]
          /\ \A i \in 1..Len(y) : z[Len(x) + i] = y[i]
      BY <2>1, <2>2, <2>3, <2>4, <2>5
    <3>. QED
      BY <3>1, <3>2, ConcatIs
  <2>7. FlattenSeq(x \o y) = FlattenSeq(x) \o FlattenSeq(y)
    BY FlattenConcat
  <2>. QED
    BY <1>1, <2>1, <2>2, <2>3, <2>6, <2>7
<1>3. CASE u = TRUE
  <2>1. PICK p \in Nat, q \in Nat : m = 2 * p /\ q = n \div 2 /\ (m + n) \div 2 = p + q
    <3>1. m % 2 = 0
      BY <1>0, <1>3 DEF Parts
    <3>2. m = 2 * (m \div 2) /\ m \div 2 \in Nat /\ n \div 2 \in Nat
      BY <3>1
    <3>3. (m + n) \div 2 = (m \div 2) + (n \div 2)
      BY <3>1
    <3>. QED
      BY <3>2, <3>3
  <2>2. PICK x \in Seq(C) : /\ x = Decode(a, u) /\ Len(x) = p
                            /\ \A i \in 1..p : x[i] = Wide(a[2 * i - 1], a[2 * i])
    <3>1. Len(a) \div 2 = p
      BY <1>0, <2>1
    <3>. QED
      BY <1>3, <3>1, DecodeWide
  <2>3. PICK y \in Seq(C) : /\ y = Decode(b, u) /\ Len(y) = q
                            /\ \A i \in 1..q : y[i] = Wide(b[2 * i - 1], b[2 * i])
    <3>1. Len(b) \div 2 = q
      BY <1>0, <2>1
    <3>. QED
      BY <1>3, <3>1, DecodeWide
  <2>4. PICK z \in Seq(C) : /\ z = Decode(ab, u) /\ Len(z) = p + q
                            /\ \A i \in 1..p + q : z[i] = Wide(ab[2 * i - 1], ab[2 * i])
    <3>1. Len(ab) \div 2 = p + q
      BY <1>1, <2>1
    <3>. QED
      BY <1>3, <3>1, DecodeWide
  <2>5. ASSUME NEW i \in 1..p PROVE z[i] = x[i]
    <3>1. 2 * i - 1 \in 1..m /\ 2 * i \in 1..m /\ i \in 1..p + q
      BY <2>1
    <3>2. ab[2 * i - 1] = a[2 * i - 1] /\ ab[2 * i] = a[2 * i]
      BY <1>1a, <3>1
    <3>. QED
      BY <2>2, <2>4, <3>1, <3>2
  <2>6. ASSUME NEW i \in 1..q PROVE z[p + i] = y[i]
    <3>1. /\ 2 * i - 1 \in 1..n /\ 2 * i \in 1..n /\ p + i \in 1..p + q
          /\ m + (2 * i - 1) = 2 * (p + i) - 1 /\ m + 2 * i = 2 * (p + i)
      BY <2>1
    <3>2. ab[2 * (p + i) - 1] = b[2 * i - 1] /\ ab[2 * (p + i)] = b[2 * i]
      BY <1>1b, <3>1
    <3>. QED
      BY <2>3, <2>4, <3>1, <3>2
  <2>7. /\ Len(z) = Len(x) + Len(y)
        /\ \A i \in 1..Len(x) : z[i] = x[i]
        /\ \A i \in 1..Len(y) : z[Len(x) + i] = y[i]
    BY <2>2, <2>3, <2>4, <2>5, <2>6
  <2>8. z = x \o y
    BY <2>7, ConcatIs
  <2>. QED
    BY <1>1, <2>2, <2>3, <2>4, <2>8
<1>. QED
  BY <1>2, <1>3

\* What is written for one character is read as that character.
LEMMA DecodeCode ==
  ASSUME NEW c \in Plain, NEW u \in BOOLEAN
  PROVE  Decode(Code(c, u), u) = <<c>>
<1>0. c \in C /\ c \notin {Lead, Trail, "FF", "FE"} /\ <<c>> \in Seq(C)
  BY DEF C, Characters, Plain, Lead, Trail
<1>1. CASE u = TRUE
  <2>1. PICK b \in Seq(C) : b = <<c, "00">> /\ Len(b) = 2 /\ b[1] = c /\ b[2] = "00"
    <3>1. \A d \in C : <<c, d>> \in Seq(C) /\ Len(<<c, d>>) = 2 /\ <<c, d>>[1] = c /\ <<c, d>>[2] = d
      BY <1>0
    <3>2. "00" \in C
      BY PlainIsC
    <3>. QED
      BY <3>1, <3>2
  <2>2. Code(c, u) = b
    BY <1>1, <2>1 DEF Code
  <2>3. /\ Decode(b, TRUE) \in Seq(C) /\ Len(Decode(b, TRUE)) = Len(b) \div 2
        /\ \A i \in 1..(Len(b) \div 2) : Decode(b, TRUE)[i] = Wide(b[2 * i - 1], b[2 * i])
    BY DecodeWide
  <2>4. Len(b) \div 2 = 1 /\ 2 * 1 - 1 = 1 /\ 2 * 1 = 2
    BY <2>1
  <2>5. Decode(b, TRUE)[1] = c
    <3>1. \A i \in 1..1 : 2 * i - 1 = 1 /\ 2 * i = 2
      OBVIOUS
    <3>2. Decode(b, TRUE) = [i \in 1..1 |-> Wide(b[2 * i - 1], b[2 * i])]
      BY <2>4 DEF Decode
    <3>3. \A i \in 1..1 : Wide(b[2 * i - 1], b[2 * i]) = Wide(c, "00")
      BY <2>1, <3>1
    <3>4. Decode(b, TRUE) = [i \in 1..1 |-> Wide(c, "00")]
      BY <3>2, <3>3
    <3>5. \A d : d = [i \in 1..1 |-> Wide(c, "00")] => d[1] = Wide(c, "00")
      OBVIOUS
    <3>6. Decode(b, TRUE)[1] = Wide(c, "00")
      BY <3>4, <3>5
    <3>. QED
      BY <3>6 DEF Wide
  <2>6. \A d \in Seq(C) : Len(d) = 1 /\ d[1] = c => d = <<c>>
    OBVIOUS
  <2>. QED
    BY <1>1, <2>2, <2>3, <2>4, <2>5, <2>6
<1>2. CASE u = FALSE /\ c # "e'"
  <2>1. PICK b \in Seq(C) : b = <<c>> /\ Len(b) = 1 /\ b[1] = c
    BY <1>0
  <2>2. Code(c, u) = b
    BY <1>2, <2>1 DEF Code
  <2>3. Narrows(b) \in Seq(Seq(C)) /\ Len(Narrows(b)) = 1 /\ Narrows(b)[1] = <<Narrow(b, 1)>>
    <3>1. /\ Narrows(b) \in Seq(Seq(C)) /\ Len(Narrows(b)) = Len(b)
          /\ \A i \in 1..Len(b) : Narrows(b)[i] =
               IF b[i] = Trail /\ i > 1 /\ b[i - 1] = Lead THEN <<>> ELSE <<Narrow(b, i)>>
      BY NarrowsType
    <3>2. 1 \in 1..Len(b) /\ ~(1 > 1)
      BY <2>1
    <3>. QED
      BY <2>1, <3>1, <3>2
  <2>4. Narrow(b, 1) = c
    BY <1>0, <1>2, <2>1 DEF Narrow
  <2>5. Narrows(b) = <<<<c>>>>
    <3>1. <<<<c>>>> \in Seq(Seq(C)) /\ Len(<<<<c>>>>) = 1 /\ <<<<c>>>>[1] = <<c>>
      BY <1>0
    <3>. QED
      BY <2>3, <2>4, <3>1, SeqEqual
  <2>. QED
    BY <1>0, <1>2, <2>1, <2>2, <2>5, NarrowsType, FlattenOne
<1>3. CASE u = FALSE /\ c = "e'"
  <2>1. PICK b \in Seq(C) : b = <<Lead, Trail>> /\ Len(b) = 2 /\ b[1] = Lead /\ b[2] = Trail
    <3>1. \A d, e \in C : <<d, e>> \in Seq(C) /\ Len(<<d, e>>) = 2 /\ <<d, e>>[1] = d /\ <<d, e>>[2] = e
      OBVIOUS
    <3>2. Lead \in C /\ Trail \in C
      BY PlainIsC
    <3>. QED
      BY <3>1, <3>2
  <2>2. Code(c, u) = b
    BY <1>3, <2>1 DEF Code
  <2>3. Narrow(b, 1) = "e'"
    BY <2>1 DEF Narrow
  <2>4. /\ Narrows(b) \in Seq(Seq(C)) /\ Len(Narrows(b)) = 2
        /\ Narrows(b)[1] = <<c>> /\ Narrows(b)[2] = <<>>
    <3>. QED
      <4>1. /\ Narrows(b) \in Seq(Seq(C)) /\ Len(Narrows(b)) = Len(b)
            /\ \A i \in 1..Len(b) : Narrows(b)[i] =
                 IF b[i] = Trail /\ i > 1 /\ b[i - 1] = Lead THEN <<>> ELSE <<Narrow(b, i)>>
        BY NarrowsType
      <4>2. 1 \in 1..Len(b) /\ 2 \in 1..Len(b) /\ ~(1 > 1) /\ 2 > 1 /\ 2 - 1 = 1
        BY <2>1
      <4>3. Narrows(b)[1] = <<Narrow(b, 1)>>
        BY <4>1, <4>2
      <4>4. Narrows(b)[2] = <<>>
        BY <2>1, <4>1, <4>2
      <4>. QED
        BY <1>3, <2>1, <2>3, <4>1, <4>3, <4>4
  <2>5. Narrows(b) = Append(<<<<c>>>>, <<>>)
    <3>0. <<<<c>>>> \in Seq(Seq(C)) /\ Len(<<<<c>>>>) = 1 /\ <<<<c>>>>[1] = <<c>> /\ <<>> \in Seq(C)
      BY <1>0
    <3>1. /\ Append(<<<<c>>>>, <<>>) \in Seq(Seq(C)) /\ Len(Append(<<<<c>>>>, <<>>)) = 2
          /\ Append(<<<<c>>>>, <<>>)[1] = <<c>> /\ Append(<<<<c>>>>, <<>>)[2] = <<>>
      BY <3>0, AppendProperties
    <3>2. \A i \in 1..2 : i = 1 \/ i = 2
      OBVIOUS
    <3>. QED
      BY <2>4, <3>1, <3>2, SeqEqual
  <2>6. FlattenSeq(Append(<<<<c>>>>, <<>>)) = <<c>>
    <3>1. <<<<c>>>> \in Seq(Seq(C)) /\ FlattenSeq(<<<<c>>>>) = <<c>> /\ <<>> \in Seq(C)
      BY <1>0, FlattenOne, EmptySeq
    <3>2. FlattenSeq(Append(<<<<c>>>>, <<>>)) = <<c>> \o <<>>
      BY <3>1, FlattenAppend
    <3>. QED
      BY <1>0, <3>2, ConcatEmptySeq
  <2>. QED
    BY <1>3, <2>2, <2>5, <2>6, NarrowsType
<1>. QED
  BY <1>1, <1>2, <1>3

\* A text that is encoded is read as that text; a wide one has an even length.
LEMMA DecodeEncode ==
  ASSUME NEW text \in Seq(Plain), NEW u \in BOOLEAN
  PROVE  /\ Decode(Encode(text, u), u) = text
         /\ u => Len(Encode(text, u)) % 2 = 0
<1>. DEFINE T == {t \in Seq(Plain) : /\ t \in Seq(C)
                                     /\ Decode(Encode(t, u), u) = t
                                     /\ u => Len(Encode(t, u)) % 2 = 0}
<1>1. <<>> \in T
  <2>1. Encode(<<>>, u) = <<>> /\ Decode(<<>>, u) = <<>>
    BY EncodeEmpty, DecodeEmpty
  <2>2. <<>> \in Seq(C) /\ <<>> \in Seq(Plain) /\ Len(<<>>) = 0 /\ 0 % 2 = 0
    BY EmptySeq
  <2>. QED
    BY <2>1, <2>2
<1>2. ASSUME NEW t \in T, NEW c \in Plain PROVE Append(t, c) \in T
  <2>1. c \in C
    BY PlainIsC
  <2>2. <<c>> \in Seq(C) /\ Encode(<<c>>, u) = Code(c, u)
    BY <2>1, EncodeOne
  <2>3. Append(t, c) = t \o <<c>> /\ Append(t, c) \in Seq(Plain) /\ Append(t, c) \in Seq(C)
    BY <2>1, AppendIsConcat, AppendProperties
  <2>4. PICK e \in Seq(C) : e = Encode(t, u)
    BY EncodeType
  <2>5. PICK d \in Seq(C) : d = Code(c, u)
    BY <2>1, CodeType
  <2>6. Encode(Append(t, c), u) = e \o d
    <3>1. Encoded(t, <<c>>, u)
      BY <2>2, EncodeConcat
    <3>2. Encode(t \o <<c>>, u) = Encode(t, u) \o Encode(<<c>>, u)
      BY <3>1 DEF Encoded
    <3>. QED
      BY <2>2, <2>3, <2>4, <2>5, <3>2
  <2>7. u => Len(e) % 2 = 0 /\ Len(d) = 2
    <3>1. u => Len(d) = 2
      BY <2>5 DEF Code
    <3>. QED
      BY <2>4, <3>1
  <2>8. Parts(e, d, u)
    <3>1. ~u => d[1] # Trail
      <4>1. Lead # Trail /\ c # Trail
        BY DEF Plain, Lead, Trail
      <4>2. ~u => d[1] = IF c = "e'" THEN Lead ELSE c
        BY <2>5 DEF Code
      <4>. QED
        BY <4>1, <4>2
    <3>. QED
      BY <2>7, <3>1 DEF Parts
  <2>9. Decode(e \o d, u) = t \o <<c>>
    <3>1. Decode(e \o d, u) = Decode(e, u) \o Decode(d, u)
      BY <2>8, DecodeConcat
    <3>. QED
      BY <2>4, <2>5, <3>1, DecodeCode
  <2>10. u => Len(e \o d) % 2 = 0
    <3>1. PICK m \in Nat : m = Len(e)
      BY LenProperties
    <3>2. u => Len(e \o d) = m + 2
      <4>1. Len(e \o d) = Len(e) + Len(d)
        BY ConcatProperties
      <4>. QED
        BY <2>7, <3>1, <4>1
    <3>3. m % 2 = 0 => (m + 2) % 2 = 0
      OBVIOUS
    <3>. QED
      BY <2>7, <3>1, <3>2, <3>3
  <2>. QED
    BY <2>3, <2>6, <2>9, <2>10
<1>. HIDE DEF T
<1>3. T = Seq(Plain)
  <2>1. T \in SUBSET Seq(Plain)
    BY DEF T
  <2>. QED
    BY <1>1, <1>2, <2>1, ListInduction
<1>. QED
  BY <1>3 DEF T

-------------------------------------------------------------------------------
B == BlockSize

\* The size of a block.
LEMMA BIs == B \in Nat \ {0} /\ B % 2 = 0 /\ B >= 2
  BY SizesAssumption DEF B

\* Least of two numbers.
LEMMA LeastIs ==
  ASSUME NEW a \in Nat, NEW b \in Nat, NEW c \in Nat
  PROVE  /\ Least(a, b) \in Nat /\ Least(a, b) <= a /\ Least(a, b) <= b
         /\ Least(a, b) \in {a, b} /\ Least(a + c, b + c) = c + Least(a, b)
<1>1. a < b <=> a + c < b + c
  OBVIOUS
<1>. QED
  BY <1>1 DEF Least

\* A block is a part of the bytes that are left.
LEMMA BlockType ==
  ASSUME NEW left \in Seq(C), NEW i \in Nat \ {0}
  PROVE  Block(left, i) \in Seq(C)
<1>1. PICK n \in Nat : n = Len(left)
  BY LenProperties
<1>2. PICK k \in Nat : k = (i - 1) * B
  <2>1. i - 1 \in Nat /\ B \in Nat
    BY BIs
  <2>2. (i - 1) * B \in Nat
    BY <2>1
  <2>. QED
    BY <2>2
<1>3. PICK m \in Nat : m = Least(i * B, n) /\ m <= n
  <2>1. B \in Nat
    BY BIs
  <2>2. i * B \in Nat
    BY <2>1
  <2>. QED
    BY <2>2 DEF Least
<1>4. Block(left, i) = SubSeq(left, k + 1, m)
  BY <1>1, <1>2, <1>3 DEF Block, B
<1>5. SubSeq(left, k + 1, m) \in Seq(C)
  <2>1. \A j \in k + 1..m : left[j] \in C
    BY <1>1, <1>3, ElementOfSeq
  <2>. QED
    BY <2>1, SubSeqProperties
<1>. QED
  BY <1>4, <1>5

\* How many blocks there are.
BlockCount(n) == (n + B - 1) \div B
Pieces(left, u) == [i \in 1..BlockCount(Len(left)) |-> Decode(Block(left, i), u)]

\* How many blocks there are, and that a first full block leaves one fewer.
LEMMA BlockCountIs ==
  ASSUME NEW n \in Nat
  PROVE  /\ BlockCount(n) \in Nat /\ BlockCount(0) = 0
         /\ n > 0 => BlockCount(n) = BlockCount(IF n > B THEN n - B ELSE 0) + 1
<1>. DEFINE A == B
<1>0. A \in Nat \ {0} /\ A = B
  BY BIs
<1>. HIDE DEF A
<1>1. ASSUME NEW x \in Nat
      PROVE  /\ x \div A \in Nat /\ (x + A) \div A = (x \div A) + 1
             /\ x < A => x \div A = 0
  BY <1>0, DivStep
<1>2. \A x \in Nat : BlockCount(x) = (x + A - 1) \div A
  BY <1>0 DEF BlockCount
<1>3. BlockCount(n) \in Nat
  <2>1. n + A - 1 \in Nat
    BY <1>0
  <2>. QED
    BY <1>1, <1>2, <2>1
<1>4. BlockCount(0) = 0
  <2>1. 0 + A - 1 \in Nat /\ 0 + A - 1 < A
    BY <1>0
  <2>. QED
    BY <1>1, <1>2, <2>1
<1>5. ASSUME n > A PROVE BlockCount(n) = BlockCount(n - A) + 1
  <2>1. PICK x \in Nat : x = n - A + A - 1 /\ x + A = n + A - 1 /\ n - A \in Nat
    BY <1>0, <1>5
  <2>. QED
    BY <1>1, <1>2, <2>1
<1>6. ASSUME n > 0, ~(n > A) PROVE BlockCount(n) = 1
  <2>1. PICK x \in Nat : x + A = n + A - 1 /\ x < A
    BY <1>0, <1>6
  <2>. QED
    BY <1>1, <1>2, <2>1
<1>. QED
  BY <1>0, <1>3, <1>4, <1>5, <1>6

\* DecodeBlocks puts the decoded blocks one after the other.
LEMMA PiecesType ==
  ASSUME NEW left \in Seq(C), NEW u \in BOOLEAN
  PROVE  /\ Pieces(left, u) \in Seq(Seq(C))
         /\ Len(Pieces(left, u)) = BlockCount(Len(left))
         /\ \A i \in 1..BlockCount(Len(left)) : Pieces(left, u)[i] = Decode(Block(left, i), u)
         /\ DecodeBlocks(left, u) = FlattenSeq(Pieces(left, u))
         /\ DecodeBlocks(left, u) \in Seq(C)
<1>1. BlockCount(Len(left)) \in Nat
  BY LenProperties, BlockCountIs
<1>2. \A i \in 1..BlockCount(Len(left)) : Decode(Block(left, i), u) \in Seq(C)
  <2>1. \A i \in 1..BlockCount(Len(left)) : i \in Nat \ {0}
    BY <1>1
  <2>. QED
    BY <2>1, BlockType, DecodeType
<1>3. Pieces(left, u) \in [1..BlockCount(Len(left)) -> Seq(C)]
  BY <1>2 DEF Pieces
<1>4. Pieces(left, u) \in Seq(Seq(C)) /\ Len(Pieces(left, u)) = BlockCount(Len(left))
  BY <1>1, <1>3, FunctionIsSeq
<1>5. DecodeBlocks(left, u) = FlattenSeq(Pieces(left, u))
  BY DEF DecodeBlocks, Pieces, BlockCount, B
<1>6. \A i \in 1..BlockCount(Len(left)) : Pieces(left, u)[i] = Decode(Block(left, i), u)
  BY DEF Pieces
<1>. QED
  BY <1>4, <1>5, <1>6, FlattenType

\* Nothing has no blocks.
LEMMA BlocksOfNothing == \A u \in BOOLEAN : DecodeBlocks(<<>>, u) = <<>>
<1>. SUFFICES ASSUME NEW u \in BOOLEAN PROVE DecodeBlocks(<<>>, u) = <<>>
  OBVIOUS
<1>1. <<>> \in Seq(C) /\ Len(<<>>) = 0
  BY EmptySeq
<1>2. BlockCount(0) = 0
  BY BlockCountIs
<1>3. Pieces(<<>>, u) = <<>>
  BY <1>1, <1>2, PiecesType, EmptySeq
<1>. QED
  BY <1>1, <1>3, PiecesType, FlattenEmpty

\* Drop leaves out the first k elements.
LEMMA DropType ==
  ASSUME NEW s \in Seq(C), NEW k \in Nat
  PROVE  /\ Drop(s, k) \in Seq(C)
         /\ Len(Drop(s, k)) = IF k < Len(s) THEN Len(s) - k ELSE 0
         /\ \A i \in 1..Len(s) - k : Drop(s, k)[i] = s[k + i]
<1>1. PICK n \in Nat : n = Len(s)
  BY LenProperties
<1>2. \A i \in k + 1..n : s[i] \in C
  BY <1>1, ElementOfSeq
<1>3. /\ SubSeq(s, k + 1, n) \in Seq(C)
      /\ Len(SubSeq(s, k + 1, n)) = IF k + 1 <= n THEN n - (k + 1) + 1 ELSE 0
      /\ \A i \in 1..n - (k + 1) + 1 : SubSeq(s, k + 1, n)[i] = s[(k + 1) + i - 1]
  BY <1>2, SubSeqProperties
<1>4. PICK d \in Seq(C) : d = SubSeq(s, k + 1, n) /\ Drop(s, k) = d
  BY <1>1, <1>3 DEF Drop
<1>5. Len(d) = IF k < n THEN n - k ELSE 0
  BY <1>3, <1>4
<1>6. ASSUME NEW i \in 1..n - k PROVE d[i] = s[k + i]
  <2>1. i \in 1..n - (k + 1) + 1 /\ (k + 1) + i - 1 = k + i
    OBVIOUS
  <2>. QED
    BY <1>3, <1>4, <2>1
<1>. QED
  BY <1>1, <1>4, <1>5, <1>6

\* The first block of a text, then the blocks of what follows it.
LEMMA BlockFirst ==
  ASSUME NEW left \in Seq(C), left # <<>>, NEW u \in BOOLEAN
  PROVE  DecodeBlocks(left, u) =
           Decode(SubSeq(left, 1, Least(B, Len(left))), u) \o DecodeBlocks(Drop(left, B), u)
<1>0. PICK n \in Nat : n = Len(left) /\ n > 0
  BY EmptySeq, LenProperties
<1>. DEFINE m == IF n > B THEN n - B ELSE 0
<1>0a. m \in Nat /\ B \in Nat
  BY BIs
<1>1. PICK rest \in Seq(C) : rest = Drop(left, B) /\ Len(rest) = m
  BY <1>0, <1>0a, DropType
<1>2. PICK k \in Nat : k = BlockCount(m) /\ BlockCount(n) = k + 1
  BY <1>0, <1>0a, BlockCountIs
<1>. HIDE DEF m
<1>3. PICK y \in Seq(Seq(C)) :
        /\ Len(y) = k /\ DecodeBlocks(rest, u) = FlattenSeq(y)
        /\ \A i \in 1..k : y[i] = Decode(Block(rest, i), u)
  BY <1>1, <1>2, PiecesType
<1>4. PICK z \in Seq(Seq(C)) :
        /\ Len(z) = k + 1 /\ DecodeBlocks(left, u) = FlattenSeq(z)
        /\ \A i \in 1..k + 1 : z[i] = Decode(Block(left, i), u)
  BY <1>0, <1>2, PiecesType
<1>5. PICK d \in Seq(C) : d = Decode(SubSeq(left, 1, Least(B, n)), u) /\ z[1] = d
  <2>1. (1 - 1) * B + 1 = 1 /\ 1 * B = B
    BY <1>0a
  <2>2. Block(left, 1) = SubSeq(left, 1, Least(B, n))
    BY <1>0, <2>1 DEF Block, B
  <2>3. z[1] = Decode(Block(left, 1), u)
    BY <1>4
  <2>4. Decode(Block(left, 1), u) \in Seq(C)
    BY BlockType, DecodeType
  <2>. QED
    BY <2>2, <2>3, <2>4
<1>6. ASSUME NEW i \in 1..k PROVE z[1 + i] = y[i]
  <2>1. PICK p \in Nat : p = (i - 1) * B /\ i * B = p + B /\ (i + 1) * B = p + B + B
    <3>1. i - 1 \in Nat
      OBVIOUS
    <3>2. (i - 1) * B \in Nat
      BY <1>0a, <3>1
    <3>3. i * B = (i - 1) * B + B /\ (i + 1) * B = (i - 1) * B + B + B
      BY <1>0a
    <3>. QED
      BY <3>2, <3>3
  <2>2. Block(left, i + 1) = SubSeq(left, p + B + 1, Least(p + B + B, n))
    <3>1. (i + 1) - 1 = i
      OBVIOUS
    <3>. QED
      BY <1>0, <2>1, <3>1 DEF Block, B
  <2>3. Block(rest, i) = SubSeq(rest, p + 1, Least(p + B, m))
    BY <1>1, <2>1 DEF Block, B
  <2>4. SubSeq(left, p + B + 1, Least(p + B + B, n)) = SubSeq(rest, p + 1, Least(p + B, m))
    <3>1. CASE n > B
      <4>1. m = n - B
        BY <3>1 DEF m
      <4>2. PICK q \in Nat : q = Least(p + B, m) /\ q <= m /\ Least(p + B + B, n) = B + q
        <5>1. PICK x \in Nat : x = p + B /\ p + B + B = x + B /\ n = m + B
          BY <1>0a, <4>1
        <5>2. Least(x, m) \in Nat /\ Least(x, m) <= m /\ Least(x + B, m + B) = B + Least(x, m)
          BY <1>0a, LeastIs
        <5>. QED
          BY <5>1, <5>2
      <4>3. \A j \in 1..m : rest[j] = left[B + j]
        BY <1>0, <1>0a, <1>1, <4>1, DropType
      <4>4. /\ SubSeq(rest, p + 1, q) \in Seq(C)
            /\ Len(SubSeq(rest, p + 1, q)) = IF p + 1 <= q THEN q - (p + 1) + 1 ELSE 0
            /\ \A j \in 1..q - (p + 1) + 1 : SubSeq(rest, p + 1, q)[j] = rest[(p + 1) + j - 1]
        <5>1. \A j \in p + 1..q : rest[j] \in C
          BY <1>1, <4>2, ElementOfSeq
        <5>. QED
          BY <5>1, SubSeqProperties
      <4>5. PICK a \in Nat, b \in Nat : a = p + B + 1 /\ b = B + q
        BY <1>0a
      <4>6. /\ SubSeq(left, a, b) \in Seq(C)
            /\ Len(SubSeq(left, a, b)) = IF a <= b THEN b - a + 1 ELSE 0
            /\ \A j \in 1..b - a + 1 : SubSeq(left, a, b)[j] = left[a + j - 1]
        <5>0. \A j \in a..b : j \in 1..n
          BY <1>0a, <3>1, <4>1, <4>2, <4>5
        <5>1. \A j \in a..b : left[j] \in C
          BY <1>0, <5>0, ElementOfSeq
        <5>. QED
          BY <5>1, SubSeqProperties
      <4>7. PICK v \in Seq(C), w \in Seq(C) : v = SubSeq(rest, p + 1, q) /\ w = SubSeq(left, a, b)
        BY <4>4, <4>6
      <4>8. Len(v) = Len(w) /\ (~(p < q) => Len(v) = 0) /\ (p < q => Len(v) = q - p)
        <5>1. (p + 1 <= q <=> p < q) /\ (a <= b <=> p < q)
          BY <1>0a, <4>5
        <5>2. q - (p + 1) + 1 = q - p /\ b - a + 1 = q - p
          BY <1>0a, <4>5
        <5>3. Len(v) = IF p + 1 <= q THEN q - (p + 1) + 1 ELSE 0
          BY <4>4, <4>7
        <5>4. Len(w) = IF a <= b THEN b - a + 1 ELSE 0
          BY <4>6, <4>7
        <5>5. ASSUME p < q PROVE Len(v) = q - p /\ Len(w) = q - p
          <6>1. Len(v) = q - (p + 1) + 1
            BY <5>1, <5>3, <5>5
          <6>2. Len(w) = b - a + 1
            BY <5>1, <5>4, <5>5
          <6>. QED
            BY <5>2, <6>1, <6>2
        <5>6. ASSUME ~(p < q) PROVE Len(v) = 0 /\ Len(w) = 0
          <6>1. ~(p + 1 <= q) /\ ~(a <= b)
            BY <5>1, <5>6
          <6>. QED
            BY <5>3, <5>4, <6>1
        <5>. QED
          BY <5>5, <5>6
      <4>9. ASSUME NEW j \in 1..q - p PROVE v[j] = w[j]
        <5>1. j \in 1..q - (p + 1) + 1 /\ (p + 1) + j - 1 = p + j /\ p + j \in 1..m
          BY <1>0a, <4>2
        <5>2. j \in 1..b - a + 1 /\ a + j - 1 = B + (p + j)
          BY <1>0a, <4>5
        <5>. QED
          BY <4>3, <4>4, <4>6, <4>7, <5>1, <5>2
      <4>10. \A j \in 1..Len(v) : v[j] = w[j]
        <5>1. CASE p < q
          BY <4>8, <4>9, <5>1
        <5>2. CASE ~(p < q)
          BY <4>8, <5>2
        <5>. QED
          BY <5>1, <5>2
      <4>11. v = w
        BY <4>8, <4>10, SeqEqual
      <4>. QED
        BY <4>2, <4>5, <4>7, <4>11
    <3>2. CASE ~(n > B)
      <4>1. m = 0
        BY <3>2 DEF m
      <4>2. k = 0
        BY <1>2, <4>1, BlockCountIs
      <4>. QED
        BY <4>2
    <3>. QED
      BY <3>1, <3>2
  <2>5. 1 + i \in 1..k + 1 /\ 1 + i = i + 1
    OBVIOUS
  <2>. QED
    BY <1>3, <1>4, <2>2, <2>3, <2>4, <2>5
<1>7. z = <<d>> \o y
  <2>. DEFINE D == Seq(C)
  <2>1. y \in Seq(D) /\ z \in Seq(D) /\ d \in D
    OBVIOUS
  <2>. HIDE DEF D
  <2>2. <<d>> \in Seq(D) /\ Len(<<d>>) = 1 /\ <<d>>[1] = d
    BY <2>1
  <2>3. Len(z) = Len(<<d>>) + Len(y)
    BY <1>3, <1>4, <2>2
  <2>4. \A i \in 1..Len(<<d>>) : z[i] = <<d>>[i]
    <3>1. \A i \in 1..1 : i = 1
      OBVIOUS
    <3>. QED
      BY <1>5, <2>2, <3>1
  <2>5. \A i \in 1..Len(y) : z[Len(<<d>>) + i] = y[i]
    BY <1>3, <1>6, <2>2
  <2>. QED
    BY <2>1, <2>2, <2>3, <2>4, <2>5, ConcatIs
<1>8. FlattenSeq(<<d>> \o y) = d \o FlattenSeq(y)
  BY FlattenCons
<1>. QED
  BY <1>0, <1>1, <1>3, <1>4, <1>5, <1>7, <1>8

-------------------------------------------------------------------------------
StreamType == [file : {"free", "open", "null"}, kind : {"r", "r+", "w", "a+"}, mode : Modes,
               unicode : BOOLEAN, eof : BOOLEAN, read_buf : Seq(C), pos : Nat,
               ahead : Seq(C), out : Seq(C), error : BOOLEAN]
Disk == {d \in Seq(C) : Len(d) <= Capacity}

\* What a write leaves alone in a stream.
SameReader(v, t) ==
  /\ v.file = t.file /\ v.kind = t.kind /\ v.mode = t.mode /\ v.unicode = t.unicode
  /\ v.eof = t.eof /\ v.read_buf = t.read_buf /\ v.ahead = t.ahead

\* What WriteFile and CloseHandle may make of a disk and a stream.
Written(t) == [disk : Disk, stream : {v \in StreamType : SameReader(v, t)},
               ok : BOOLEAN, lost : BOOLEAN]

\* Bytes that are written at the end of the disk are appended to it.
LEMMA PutIs ==
  ASSUME NEW disk \in Seq(C), NEW k \in Nat, NEW bytes \in Seq(C)
  PROVE  /\ Put(disk, k, bytes) \in Seq(C)
         /\ Len(Put(disk, k, bytes)) = IF Len(disk) > k + Len(bytes) THEN Len(disk) ELSE k + Len(bytes)
         /\ k = Len(disk) => Put(disk, k, bytes) = disk \o bytes
<1>1. PICK m \in Nat, n \in Nat : m = Len(disk) /\ n = Len(bytes)
  BY LenProperties
<1>2. PICK l \in Nat : l = (IF m > k + n THEN m ELSE k + n)
  OBVIOUS
<1>3. \A i \in 1..n : bytes[i] \in C
  BY <1>1, ElementOfSeq
<1>4. \A i \in 1..m : disk[i] \in C
  BY <1>1, ElementOfSeq
<1>5. Put(disk, k, bytes) =
        [i \in 1..l |-> IF i > k /\ i <= k + n THEN bytes[i - k]
                        ELSE IF i <= m THEN disk[i] ELSE "00"]
  BY <1>1, <1>2 DEF Put
<1>6. "00" \in C
  BY PlainIsC
<1>7. Put(disk, k, bytes) \in [1..l -> C]
  BY <1>3, <1>4, <1>5, <1>6
<1>8. PICK z \in Seq(C) : z = Put(disk, k, bytes) /\ Len(z) = l
  BY <1>7, FunctionIsSeq
<1>9. ASSUME k = m PROVE z = disk \o bytes
  <2>1. l = m + n
    BY <1>2, <1>9
  <2>2. \A i \in 1..m : z[i] = disk[i]
    BY <1>5, <1>8, <1>9, <2>1
  <2>3. \A i \in 1..n : z[m + i] = bytes[i]
    <3>1. \A i \in 1..n : m + i \in 1..l /\ m + i > m /\ m + i <= m + n /\ (m + i) - m = i
      BY <2>1
    <3>. QED
      BY <1>5, <1>8, <1>9, <3>1
  <2>4. /\ Len(z) = Len(disk) + Len(bytes)
        /\ \A i \in 1..Len(disk) : z[i] = disk[i]
        /\ \A i \in 1..Len(bytes) : z[Len(disk) + i] = bytes[i]
    BY <1>1, <1>8, <2>1, <2>2, <2>3
  <2>. QED
    BY <2>4, ConcatIs
<1>. QED
  BY <1>1, <1>2, <1>8, <1>9

\* A part of a buffer that fits reaches the disk, which stays small enough.
LEMMA FlushedType ==
  ASSUME NEW disk \in Disk, NEW t \in StreamType, NEW j \in Nat, j <= Len(t.out), j <= Room(disk, t)
  PROVE  Flushed(disk, t, j) \in Written(t)
<1>1. PICK k \in Nat : k = At(disk, t)
  BY LenProperties DEF At, StreamType, Disk
<1>2. PICK out \in Seq(C) : out = t.out
  BY DEF StreamType
<1>3. PICK bytes \in Seq(C) : bytes = SubSeq(t.out, 1, j) /\ Len(bytes) = j
  <2>1. PICK n \in Nat : n = Len(out) /\ j <= n
    BY <1>2, LenProperties
  <2>2. \A i \in 1..j : out[i] \in C
    BY <2>1, ElementOfSeq
  <2>3. SubSeq(out, 1, j) \in Seq(C) /\ Len(SubSeq(out, 1, j)) = IF 1 <= j THEN j - 1 + 1 ELSE 0
    BY <2>2, SubSeqProperties
  <2>4. Len(SubSeq(out, 1, j)) = j
    <3>1. 1 <= j => j - 1 + 1 = j
      OBVIOUS
    <3>2. ~(1 <= j) => j = 0
      OBVIOUS
    <3>. QED
      BY <2>3, <3>1, <3>2
  <2>. QED
    BY <1>2, <2>3, <2>4
<1>4. (IF j = 0 THEN disk ELSE Put(disk, k, bytes)) \in Disk
  <2>1. CASE j = 0
    BY <2>1
  <2>2. CASE j # 0
    <3>1. Capacity \in Nat
      BY SizesAssumption
    <3>2. k + j <= Capacity
      BY <1>1, <2>2, <3>1 DEF Room
    <3>3. PICK n \in Nat : n = Len(disk) /\ n <= Capacity
      BY LenProperties DEF Disk
    <3>4. Put(disk, k, bytes) \in Seq(C) /\ Len(Put(disk, k, bytes)) = IF n > k + j THEN n ELSE k + j
      <4>1. /\ Put(disk, k, bytes) \in Seq(C)
            /\ Len(Put(disk, k, bytes)) = IF Len(disk) > k + Len(bytes) THEN Len(disk) ELSE k + Len(bytes)
        BY PutIs DEF Disk
      <4>. QED
        BY <1>3, <3>3, <4>1
    <3>. QED
      BY <2>2, <3>1, <3>2, <3>3, <3>4 DEF Disk
  <2>. QED
    BY <2>1, <2>2
<1>5. Drop(t.out, j) \in Seq(C)
  BY <1>2, DropType
<1>6. [t EXCEPT !.out = Drop(@, j), !.pos = IF t.kind = "a+" THEN @ ELSE @ + j]
        \in {v \in StreamType : SameReader(v, t)}
  <2>1. PICK d \in Seq(C) : d = Drop(t.out, j)
    BY <1>5
  <2>2. PICK p \in Nat : p = IF t.kind = "a+" THEN t.pos ELSE t.pos + j
    BY DEF StreamType
  <2>3. [t EXCEPT !.out = Drop(@, j), !.pos = IF t.kind = "a+" THEN @ ELSE @ + j]
          = [t EXCEPT !.out = d, !.pos = p]
    BY <2>1, <2>2
  <2>4. [t EXCEPT !.out = d, !.pos = p] \in {v \in StreamType : SameReader(v, t)}
    BY DEF StreamType, SameReader
  <2>. QED
    BY <2>3, <2>4
<1>. QED
  BY <1>1, <1>3, <1>4, <1>6 DEF Flushed, Written

\* A result whose stream and outcome are replaced is still one.
LEMMA WrittenOver ==
  ASSUME NEW t \in StreamType, NEW v \in StreamType, SameReader(v, t)
  PROVE  Written(v) \subseteq Written(t)
  BY DEF Written, SameReader

\* The room that is left is a number.
LEMMA RoomType ==
  ASSUME NEW disk \in Disk, NEW t \in StreamType
  PROVE  Room(disk, t) \in Nat
<1>1. Capacity \in Nat /\ Len(disk) \in Nat /\ t.pos \in Nat
  BY SizesAssumption, LenProperties DEF Disk, StreamType
<1>. QED
  BY <1>1 DEF Room, At

\* What a full disk makes of a buffer.
LEMMA DiskFullType ==
  ASSUME NEW disk \in Disk, NEW t \in StreamType
  PROVE  /\ DiskFull(disk, t) \subseteq Written(t)
         /\ \A w \in DiskFull(disk, t) : w.stream.out = <<>> /\ w.lost
<1>1. PICK j \in Nat : j = Room(disk, t)
  BY RoomType
<1>2. CASE Len(t.out) <= j
  BY <1>1, <1>2 DEF DiskFull
<1>3. CASE ~(Len(t.out) <= j)
  <2>1. Len(t.out) \in Nat
    BY LenProperties DEF StreamType
  <2>2. j <= Len(t.out)
    BY <1>3, <2>1
  <2>3. PICK f \in Written(t) : f = Flushed(disk, t, j)
    BY <1>1, <2>2, FlushedType
  <2>4. DiskFull(disk, t) = {[f EXCEPT !.stream.out = <<>>, !.lost = TRUE, !.ok = b] : b \in BOOLEAN}
    BY <1>1, <1>3, <2>3 DEF DiskFull
  <2>5. ASSUME NEW b \in BOOLEAN, NEW w, w = [f EXCEPT !.stream.out = <<>>, !.lost = TRUE, !.ok = b]
        PROVE  w \in Written(t) /\ w.stream.out = <<>> /\ w.lost
    <3>1. <<>> \in Seq(C)
      BY EmptySeq
    <3>2. PICK v \in StreamType : v = f.stream /\ SameReader(v, t)
      BY <2>3 DEF Written
    <3>3. [v EXCEPT !.out = <<>>] \in StreamType /\ SameReader([v EXCEPT !.out = <<>>], t)
          /\ [v EXCEPT !.out = <<>>].out = <<>>
      BY <3>1, <3>2 DEF StreamType, SameReader
    <3>4. w = [disk |-> f.disk, stream |-> [v EXCEPT !.out = <<>>], ok |-> b, lost |-> TRUE]
      BY <2>3, <2>5, <3>2 DEF Written
    <3>5. f.disk \in Disk
      BY <2>3 DEF Written
    <3>. QED
      BY <3>3, <3>4, <3>5 DEF Written
  <2>. QED
    BY <2>4, <2>5
<1>. QED
  BY <1>2, <1>3

\* WriteFile keeps the disk small enough, and leaves the reader's part of the stream alone.
LEMMA WriteFileType ==
  ASSUME NEW disk \in Disk, NEW t \in StreamType, NEW bytes \in Seq(C)
  PROVE  /\ WriteFile(disk, t, bytes) \subseteq Written(t)
<1>. DEFINE u == [t EXCEPT !.out = @ \o bytes]
            j == IF Len(u.out) <= BufferSize THEN 0 ELSE Len(u.out) - (Len(u.out) % BufferSize)
<1>1. u \in StreamType /\ SameReader(u, t)
  <2>1. t.out \o bytes \in Seq(C)
    BY ConcatProperties DEF StreamType
  <2>. QED
    BY <2>1 DEF StreamType, SameReader
<1>2. PICK n \in Nat : n = Len(u.out)
  BY <1>1, LenProperties DEF StreamType
<1>. HIDE DEF u
<1>3. j \in Nat /\ j <= n
  <2>1. BufferSize \in Nat \ {0}
    BY SizesAssumption
  <2>2. n % BufferSize \in Nat /\ n % BufferSize < BufferSize
    BY <2>1
  <2>3. n > BufferSize => n - (n % BufferSize) \in Nat /\ n - (n % BufferSize) <= n
    BY <2>1, <2>2
  <2>4. j = IF n <= BufferSize THEN 0 ELSE n - (n % BufferSize)
    BY <1>2
  <2>. HIDE DEF j
  <2>. QED
    BY <2>1, <2>3, <2>4
<1>. HIDE DEF j
<1>4. CASE t.kind = "r"
  <2>1. WriteFile(disk, t, bytes) =
          {[disk |-> disk, stream |-> [t EXCEPT !.error = TRUE], ok |-> FALSE, lost |-> FALSE]}
    BY <1>4 DEF WriteFile
  <2>2. [t EXCEPT !.error = TRUE] \in StreamType /\ SameReader([t EXCEPT !.error = TRUE], t)
    BY DEF StreamType, SameReader
  <2>. QED
    BY <2>1, <2>2 DEF Written
<1>5. CASE t.kind # "r" /\ j <= Room(disk, u)
  <2>1. WriteFile(disk, t, bytes) = {Flushed(disk, u, j)}
    BY <1>5 DEF WriteFile, j, u
  <2>2. Flushed(disk, u, j) \in Written(u)
    BY <1>1, <1>2, <1>3, <1>5, FlushedType
  <2>. QED
    BY <1>1, <2>1, <2>2, WrittenOver
<1>6. CASE t.kind # "r" /\ ~(j <= Room(disk, u))
  <2>1. WriteFile(disk, t, bytes) = DiskFull(disk, u)
    BY <1>6 DEF WriteFile, j, u
  <2>. QED
    BY <1>1, <2>1, DiskFullType, WrittenOver
<1>. QED
  BY <1>4, <1>5, <1>6

\* The same of one WriteFile after the other.
LEMMA WriteFilesType ==
  ASSUME NEW disk \in Disk, NEW t \in StreamType, NEW first \in Seq(C), NEW second \in Seq(C)
  PROVE  WriteFiles(disk, t, first, second) \subseteq Written(t)
<1>. SUFFICES ASSUME NEW r \in WriteFiles(disk, t, first, second) PROVE r \in Written(t)
  OBVIOUS
<1>1. PICK w \in WriteFile(disk, t, first) :
        r \in (IF w.ok THEN {[v EXCEPT !.lost = @ \/ w.lost] : v \in WriteFile(w.disk, w.stream, second)}
               ELSE {w})
  BY DEF WriteFiles
<1>2. w \in Written(t)
  BY WriteFileType
<1>3. CASE w.ok
  <2>1. PICK v \in WriteFile(w.disk, w.stream, second) : r = [v EXCEPT !.lost = @ \/ w.lost]
    BY <1>1, <1>3
  <2>2. w.disk \in Disk /\ w.stream \in StreamType /\ SameReader(w.stream, t) /\ w.lost \in BOOLEAN
    BY <1>2 DEF Written
  <2>3. v \in Written(w.stream)
    BY <2>2, WriteFileType
  <2>4. v \in Written(t)
    BY <2>2, <2>3, WrittenOver
  <2>. QED
    BY <2>1, <2>2, <2>4 DEF Written
<1>4. CASE ~w.ok
  BY <1>1, <1>2, <1>4
<1>. QED
  BY <1>3, <1>4

\* CloseHandle leaves nothing in the buffer.
LEMMA CloseHandleType ==
  ASSUME content \in Disk, NEW t \in StreamType
  PROVE  /\ CloseHandle(t) \subseteq Written(t)
         /\ \A w \in CloseHandle(t) : w.stream.out = <<>>
<1>1. PICK n \in Nat : n = Len(t.out)
  BY LenProperties DEF StreamType
<1>2. ASSUME n <= Room(content, t)
      PROVE  Flushed(content, t, n) \in Written(t) /\ Flushed(content, t, n).stream.out = <<>>
  <2>1. Flushed(content, t, n) \in Written(t)
    BY <1>1, <1>2, FlushedType
  <2>2. Drop(t.out, n) = <<>>
    <3>1. Drop(t.out, n) \in Seq(C) /\ Len(Drop(t.out, n)) = 0
      BY <1>1, DropType DEF StreamType
    <3>. QED
      BY <3>1, EmptySeq
  <2>3. Flushed(content, t, n).stream.out = Drop(t.out, n)
    BY DEF Flushed, StreamType
  <2>. QED
    BY <2>1, <2>2, <2>3
<1>3. DiskFull(content, t) \subseteq Written(t) /\ \A w \in DiskFull(content, t) : w.stream.out = <<>>
  BY DiskFullType
<1>. QED
  BY <1>1, <1>2, <1>3 DEF CloseHandle

-------------------------------------------------------------------------------
\* A sequence is its first n elements, or all of them, and the rest.
LEMMA FirstPart ==
  ASSUME NEW x \in Seq(C), NEW y \in Seq(C), NEW n \in Nat,
         Len(x) <= n, Len(x) < n => y = <<>>
  PROVE  x = SubSeq(x \o y, 1, Least(n, Len(x \o y))) /\ y = Drop(x \o y, n)
<1>1. PICK a \in Nat, b \in Nat : a = Len(x) /\ b = Len(y)
  BY LenProperties
<1>2. PICK z \in Seq(C) : /\ z = x \o y /\ Len(z) = a + b
                          /\ SubSeq(z, 1, a) = x /\ SubSeq(z, a + 1, a + b) = y
  <2>1. /\ x \o y \in Seq(C) /\ Len(x \o y) = Len(x) + Len(y)
        /\ SubSeq(x \o y, 1, Len(x)) = x
        /\ SubSeq(x \o y, Len(x) + 1, Len(x) + Len(y)) = y
    BY Concats
  <2>. QED
    BY <1>1, <2>1
<1>3. Least(n, a + b) = a
  <2>1. CASE a = n
    BY <2>1 DEF Least
  <2>2. CASE a # n
    <3>1. b = 0
      BY <1>1, <2>2, EmptySeq
    <3>. QED
      BY <1>1, <2>2, <3>1 DEF Least
  <2>. QED
    BY <2>1, <2>2
<1>5. Drop(z, n) = y
  <2>1. CASE a = n
    BY <1>2, <2>1 DEF Drop
  <2>2. CASE a # n
    <3>1. y = <<>> /\ b = 0 /\ a < n
      BY <1>1, <2>2, EmptySeq
    <3>2. Drop(z, n) \in Seq(C) /\ Len(Drop(z, n)) = IF n < Len(z) THEN Len(z) - n ELSE 0
      BY DropType
    <3>3. Len(Drop(z, n)) = 0
      BY <1>2, <3>1, <3>2
    <3>. QED
      BY <3>1, <3>2, <3>3, EmptySeq
  <2>. QED
    BY <2>1, <2>2
<1>. QED
  BY <1>2, <1>3, <1>5

\* What is dropped up to p is the part up to q and what is dropped up to q.
LEMMA DropDrop ==
  ASSUME NEW s \in Seq(C), NEW p \in Nat, NEW q \in Nat, p <= q, q <= Len(s)
  PROVE  Drop(s, p) = SubSeq(s, p + 1, q) \o Drop(s, q)
<1>1. SubSeq(s, p + 1, Len(s)) = SubSeq(s, p + 1, q) \o SubSeq(s, q + 1, Len(s))
  BY Slices
<1>. QED
  BY <1>1 DEF Drop

\* The bytes at hand, the next ones from the file, and those after them: what is
\* returned and what is left.
Given(have, n) == SubSeq(have, 1, Least(n, Len(have)))

\* fread returns the front of what is at hand, and keeps the rest.
LEMMA Returned ==
  ASSUME NEW have \in Seq(C), NEW n \in Nat
  PROVE  /\ Given(have, n) \in Seq(C) /\ Drop(have, n) \in Seq(C)
         /\ have = Given(have, n) \o Drop(have, n)
         /\ Len(Given(have, n)) <= n
         /\ Len(Given(have, n)) < n => Drop(have, n) = <<>> /\ Len(have) < n
<1>1. PICK m \in Nat : m = Len(have)
  BY LenProperties
<1>2. CASE n <= m
  <2>1. Least(n, m) = n
    BY <1>2 DEF Least
  <2>2. /\ SubSeq(have, 1, n) \o SubSeq(have, n + 1, Len(have)) = have
        /\ SubSeq(have, 1, n) \in Seq(C) /\ Len(SubSeq(have, 1, n)) = n
        /\ SubSeq(have, n + 1, Len(have)) \in Seq(C)
    BY <1>1, <1>2, Wholes
  <2>3. Given(have, n) = SubSeq(have, 1, n) /\ Drop(have, n) = SubSeq(have, n + 1, Len(have))
    BY <1>1, <2>1 DEF Drop, Given
  <2>4. PICK x \in Seq(C), y \in Seq(C) :
          x = Given(have, n) /\ y = Drop(have, n) /\ have = x \o y /\ Len(x) = n
    BY <2>2, <2>3
  <2>. QED
    BY <2>4
<1>3. CASE ~(n <= m)
  <2>1. Least(n, m) = m
    BY <1>3 DEF Least
  <2>2. SubSeq(have, 1, Len(have)) = have
    BY Wholes
  <2>3. Drop(have, n) \in Seq(C) /\ Len(Drop(have, n)) = IF n < Len(have) THEN Len(have) - n ELSE 0
    BY DropType
  <2>4. Drop(have, n) = <<>> /\ Given(have, n) = have
    BY <1>1, <1>3, <2>1, <2>2, <2>3, EmptySeq DEF Given
  <2>5. have \o <<>> = have /\ <<>> \in Seq(C)
    BY Nothing
  <2>6. m <= n /\ m < n
    BY <1>3
  <2>. QED
    BY <1>1, <2>4, <2>5, <2>6
<1>. QED
  BY <1>2, <1>3

\* To read n of what is left gives data, if there is as much, and leaves after.
Reads(left, n, data, after) ==
  /\ left \in Seq(C) /\ data \in Seq(C) /\ after \in Seq(C)
  /\ left = data \o after
  /\ Len(data) <= n /\ (Len(data) < n => after = <<>>)
EnoughIn(have, tail, n) == Len(have) < n => tail = <<>>

\* What fread returns is the front of all that is left.
LEMMA ReturnedFirst ==
  ASSUME NEW ahead \in Seq(C), NEW mid \in Seq(C), NEW tail \in Seq(C), NEW n \in Nat,
         NEW have \in Seq(C), have = ahead \o mid, EnoughIn(have, tail, n)
  PROVE  Reads(ahead \o (mid \o tail), n, Given(have, n), Drop(have, n) \o tail)
<1>1. ahead \o (mid \o tail) = have \o tail /\ have \o tail \in Seq(C)
  <2>1. (ahead \o mid) \o tail = ahead \o (mid \o tail)
    BY ConcatAssociative
  <2>2. have \o tail \in Seq(C)
    BY Concats
  <2>. QED
    BY <2>1, <2>2
<1>2. PICK data \in Seq(C), more \in Seq(C) :
        /\ data = Given(have, n) /\ more = Drop(have, n)
        /\ have = data \o more /\ Len(data) <= n
        /\ Len(data) < n => more = <<>> /\ Len(have) < n
  BY Returned
<1>3. have \o tail = data \o (more \o tail) /\ more \o tail \in Seq(C)
  <2>1. (data \o more) \o tail = data \o (more \o tail)
    OBVIOUS
  <2>2. more \o tail \in Seq(C)
    BY Concats
  <2>. QED
    BY <1>2, <2>1, <2>2
<1>4. Len(data) < n => more \o tail = <<>>
  BY <1>2, NothingTwice DEF EnoughIn
<1>5. Reads(ahead \o (mid \o tail), n, data, more \o tail)
  BY <1>1, <1>2, <1>3, <1>4 DEF Reads
<1>. QED
  BY <1>2, <1>5

\* fread finds bytes read ahead and takes bytes from the file: enough, or all.
LEMMA FreadParts ==
  ASSUME content \in Seq(C), NEW t \in StreamType, NEW n \in Nat
  PROVE  \E mid, tail, have \in Seq(C), q \in Nat :
           /\ have = t.ahead \o mid /\ Drop(content, t.pos) = mid \o tail /\ tail = Drop(content, q)
           /\ Len(have) < n => tail = <<>>
           /\ Fread(t, n) = [data |-> Given(have, n), ahead |-> Drop(have, n), pos |-> q]
<1>1. PICK a \in Nat, c \in Nat, p \in Nat : a = Len(t.ahead) /\ c = Len(content) /\ p = t.pos
  BY LenProperties DEF StreamType
<1>. DEFINE left == IF p < c THEN c - p ELSE 0
<1>2. PICK k \in Nat : k = ReadAhead(t, n) /\ k <= left /\ (k = left \/ n <= a + k)
  <2>1. BufferSize \in Nat \ {0} /\ left \in Nat
    BY SizesAssumption
  <2>2. CASE n - a <= 0
    <3>1. ReadAhead(t, n) = 0
      BY <1>1, <2>2 DEF ReadAhead
    <3>. QED
      BY <2>1, <2>2, <3>1
  <2>3. CASE ~(n - a <= 0)
    <3>1. PICK x \in Nat : x = n - a /\ x > 0
      BY <2>3
    <3>2. PICK y \in Nat : y = ((x + BufferSize - 1) \div BufferSize) * BufferSize /\ y >= x
      BY <2>1
    <3>3. ReadAhead(t, n) = Least(left, y)
      BY <1>1, <2>3, <3>1, <3>2 DEF ReadAhead
    <3>. HIDE DEF left
    <3>4. Least(left, y) \in Nat /\ Least(left, y) <= left /\ (Least(left, y) = left \/ n <= a + Least(left, y))
      BY <2>1, <3>1, <3>2 DEF Least
    <3>. QED
      BY <3>3, <3>4
  <2>. QED
    BY <2>2, <2>3
<1>3. PICK mid \in Seq(C) : mid = SubSeq(content, p + 1, p + k) /\ Len(mid) = k
  <2>1. \A i \in p + 1..p + k : content[i] \in C
    <3>1. \A i \in p + 1..p + k : i \in 1..c
      BY <1>2
    <3>. QED
      BY <1>1, <3>1, ElementOfSeq
  <2>2. /\ SubSeq(content, p + 1, p + k) \in Seq(C)
        /\ Len(SubSeq(content, p + 1, p + k)) = IF p + 1 <= p + k THEN p + k - (p + 1) + 1 ELSE 0
    BY <2>1, SubSeqProperties
  <2>3. Len(SubSeq(content, p + 1, p + k)) = k
    <3>1. p + 1 <= p + k => p + k - (p + 1) + 1 = k
      OBVIOUS
    <3>2. ~(p + 1 <= p + k) => k = 0
      OBVIOUS
    <3>. QED
      BY <2>2, <3>1, <3>2
  <2>. QED
    BY <2>2, <2>3
<1>4. PICK tail \in Seq(C) : tail = Drop(content, p + k) /\ Drop(content, p) = mid \o tail
                             /\ (k = left => tail = <<>>)
  <2>1. /\ Drop(content, p + k) \in Seq(C)
        /\ Len(Drop(content, p + k)) = IF p + k < Len(content) THEN Len(content) - (p + k) ELSE 0
    <3>1. PICK q \in Nat : q = p + k
      OBVIOUS
    <3>2. /\ Drop(content, q) \in Seq(C)
          /\ Len(Drop(content, q)) = IF q < Len(content) THEN Len(content) - q ELSE 0
      BY DropType
    <3>. QED
      BY <3>1, <3>2
  <2>2. PICK tail \in Seq(C) : tail = Drop(content, p + k)
    BY <2>1
  <2>3. ASSUME k = left PROVE tail = <<>>
    <3>1. ~(p + k < c)
      BY <2>3
    <3>2. Len(tail) = 0
      BY <1>1, <2>1, <2>2, <3>1
    <3>. QED
      BY <3>2, EmptySeq
  <2>4. Drop(content, p) = mid \o tail
    <3>1. CASE p < c
      <4>1. p + k <= c
        BY <1>2, <3>1
      <4>3. PICK q \in Nat : q = p + k /\ p <= q /\ q <= Len(content)
        BY <1>1, <4>1
      <4>4. Drop(content, p) = SubSeq(content, p + 1, q) \o Drop(content, q)
        BY <4>3, DropDrop
      <4>. QED
        BY <1>3, <2>2, <4>3, <4>4
    <3>2. CASE ~(p < c)
      <4>1. k = 0 /\ k = left
        BY <1>2, <3>2
      <4>2. mid = <<>> /\ tail = <<>> /\ Drop(content, p) = tail
        BY <1>3, <2>2, <2>3, <4>1, EmptySeq
      <4>3. <<>> \o <<>> = <<>>
        BY <1>3, <4>2, ConcatEmptySeq
      <4>. QED
        BY <4>2, <4>3
    <3>. QED
      BY <3>1, <3>2
  <2>. QED
    BY <2>2, <2>3, <2>4
<1>5. PICK ahead \in Seq(C) : ahead = t.ahead /\ Len(ahead) = a
  BY <1>1 DEF StreamType
<1>6. PICK have \in Seq(C) : have = ahead \o mid /\ Len(have) = Len(ahead) + Len(mid)
  BY Concats
<1>7. Len(have) < n => tail = <<>>
  <2>. HIDE DEF left
  <2>1. Len(have) = a + k
    BY <1>3, <1>5, <1>6
  <2>2. k = left => tail = <<>>
    BY <1>4
  <2>. QED
    BY <1>2, <2>1, <2>2
<1>8. have = t.ahead \o SubSeq(content, t.pos + 1, t.pos + k)
  BY <1>1, <1>3, <1>5, <1>6
<1>9. Fread(t, n) = [data |-> Given(have, n), ahead |-> Drop(have, n), pos |-> t.pos + k]
  BY <1>2, <1>8 DEF Fread, Given
<1>10. PICK q \in Nat : q = p + k
  OBVIOUS
<1>11. /\ have = t.ahead \o mid /\ Drop(content, t.pos) = mid \o tail /\ tail = Drop(content, q)
       /\ Len(have) < n => tail = <<>>
       /\ Fread(t, n) = [data |-> Given(have, n), ahead |-> Drop(have, n), pos |-> q]
  BY <1>1, <1>4, <1>5, <1>6, <1>7, <1>9, <1>10
<1>. QED
  BY <1>11

\* What a handle has still to give is what fread returned and what is left after.
LEMMA FreadIs ==
  ASSUME content \in Seq(C), NEW t \in StreamType, NEW n \in Nat
  PROVE  LET f == Fread(t, n)
         IN  /\ f.ahead \in Seq(C) /\ f.pos \in Nat
             /\ Reads(Left(t), n, f.data, f.ahead \o Drop(content, f.pos))
<1>1. PICK mid \in Seq(C), tail \in Seq(C), have \in Seq(C), q \in Nat :
        /\ have = t.ahead \o mid /\ Drop(content, t.pos) = mid \o tail /\ tail = Drop(content, q)
        /\ Len(have) < n => tail = <<>>
        /\ Fread(t, n) = [data |-> Given(have, n), ahead |-> Drop(have, n), pos |-> q]
  BY FreadParts
<1>2. PICK ahead \in Seq(C) : ahead = t.ahead
  BY DEF StreamType
<1>3. have = ahead \o mid
  BY <1>1, <1>2
<1>4. EnoughIn(have, tail, n)
  BY <1>1 DEF EnoughIn
<1>5. Reads(ahead \o (mid \o tail), n, Given(have, n), Drop(have, n) \o tail)
  BY <1>3, <1>4, ReturnedFirst
<1>6. Drop(have, n) \in Seq(C)
  BY Returned
<1>7. Left(t) = ahead \o (mid \o tail)
  <2>1. Left(t) = t.ahead \o Drop(content, t.pos)
    BY DEF Left
  <2>2. Drop(content, t.pos) = mid \o tail /\ t.ahead = ahead
    BY <1>1, <1>2
  <2>. QED
    BY <2>1, <2>2
<1>. DEFINE f == Fread(t, n)
<1>7a. f = [data |-> Given(have, n), ahead |-> Drop(have, n), pos |-> q]
  BY <1>1
<1>. HIDE DEF f
<1>8. f.data = Given(have, n) /\ f.ahead = Drop(have, n) /\ f.pos = q
  BY <1>7a
<1>9. f.ahead \o Drop(content, f.pos) = Drop(have, n) \o tail
  BY <1>1, <1>8
<1>. QED
  BY <1>5, <1>6, <1>7, <1>8, <1>9 DEF f

\* What was read is the first part of what was left.
LEMMA ReadsFirst ==
  ASSUME NEW left, NEW n \in Nat, NEW data, NEW after, Reads(left, n, data, after)
  PROVE  data = SubSeq(left, 1, Least(n, Len(left))) /\ after = Drop(left, n)
<1>1. /\ data \in Seq(C) /\ after \in Seq(C) /\ left = data \o after
      /\ Len(data) <= n /\ (Len(data) < n => after = <<>>)
  BY DEF Reads
<1>2. /\ data = SubSeq(data \o after, 1, Least(n, Len(data \o after)))
      /\ after = Drop(data \o after, n)
  BY <1>1, FirstPart
<1>. QED
  BY <1>1, <1>2

\* A block that is read is decoded as it will be later.
LEMMA NextBlock ==
  ASSUME NEW left, NEW data, NEW after, Reads(left, B, data, after), NEW u \in BOOLEAN
  PROVE  /\ DecodeBlocks(left, u) = Decode(data, u) \o DecodeBlocks(after, u)
         /\ Decode(data, u) \in Seq(C) /\ DecodeBlocks(after, u) \in Seq(C)
         /\ Len(data) # B => DecodeBlocks(left, u) = Decode(data, u)
<1>1. /\ left \in Seq(C) /\ data \in Seq(C) /\ after \in Seq(C) /\ left = data \o after
      /\ Len(data) <= B /\ (Len(data) < B => after = <<>>)
  BY DEF Reads
<1>2. PICK first \in Seq(C), later \in Seq(C) : first = Decode(data, u) /\ later = DecodeBlocks(after, u)
  BY <1>1, DecodeType, PiecesType
<1>3. DecodeBlocks(left, u) = first \o later
  <2>1. CASE left = <<>>
    <3>1. data = <<>> /\ after = <<>>
      BY <1>1, <2>1, NothingParts
    <3>2. first = <<>> /\ later = <<>> /\ DecodeBlocks(left, u) = <<>>
      BY <1>2, <2>1, <3>1, DecodeEmpty, BlocksOfNothing
    <3>. QED
      BY <3>2, NothingTwice
  <2>2. CASE left # <<>>
    <3>1. data = SubSeq(left, 1, Least(B, Len(left))) /\ after = Drop(left, B)
      BY BIs, ReadsFirst
    <3>2. DecodeBlocks(left, u) =
            Decode(SubSeq(left, 1, Least(B, Len(left))), u) \o DecodeBlocks(Drop(left, B), u)
      BY <1>1, <2>2, BlockFirst
    <3>. QED
      BY <1>2, <3>1, <3>2
  <2>. QED
    BY <2>1, <2>2
<1>4. ASSUME Len(data) # B PROVE first \o later = first
  <2>1. Len(data) \in Nat /\ B \in Nat
    BY <1>1, BIs, LenProperties
  <2>2. after = <<>>
    BY <1>1, <1>4, <2>1
  <2>3. later = <<>>
    BY <1>2, <2>2, BlocksOfNothing
  <2>. QED
    BY <2>3, Nothing
<1>. QED
  BY <1>2, <1>3, <1>4

-------------------------------------------------------------------------------
HistoryType == [text : Seq(C), formats : SUBSET BOOLEAN, whole : BOOLEAN]
UsedType == [opens : 0..MaxOpens, writes : 0..MaxWrites]
CallType == {c \in [m : {"Read", "ReadLine", "ReadAll"}, s : Streams, n : Nat] :
               IF c.m = "Read" THEN c.n > 0 ELSE c.n = 0}

\* What TypeOK says of a stream and of a call, and what keeps it: a stream that is
\* not free is one of a file that exists.
StreamOK(t, there) ==
  /\ t.out # <<>> => t.file = "open" /\ CanWrite(t)
  /\ t.read_buf # <<>> => CanRead(t)
  /\ t.file # "free" => there
CallOK(c, t) == t.file # "free" /\ CanRead(t) /\ (Fetches(t, c.m, c.n) => t.file = "open")

IInv ==
  /\ exists \in BOOLEAN /\ content \in Disk /\ (~exists => content = <<>>)
  /\ stream \in [Streams -> StreamType] /\ \A s \in Streams : StreamOK(stream[s], exists)
  /\ call # NoCall => call \in CallType /\ CallOK(call, stream[call.s])
  /\ history \in HistoryType /\ used \in UsedType

\* The invariant says what TypeOK says.
LEMMA IInvImpliesTypeOK == IInv => TypeOK
<1>. SUFFICES ASSUME IInv PROVE TypeOK
  OBVIOUS
<1>1. exists \in BOOLEAN /\ content \in Seq(Characters) /\ Len(content) <= Capacity
      /\ (~exists => content = <<>>)
  BY DEF IInv, Disk, C
<1>2. ASSUME NEW s \in Streams
      PROVE  LET t == stream[s]
             IN  /\ t.file \in {"free", "open", "null"} /\ t.kind \in {"r", "r+", "w", "a+"}
                 /\ t.mode \in Modes /\ {t.unicode, t.eof, t.error} \subseteq BOOLEAN
                 /\ t.read_buf \in Seq(Characters) /\ t.ahead \in Seq(Characters) /\ t.out \in Seq(Characters)
                 /\ t.pos \in Nat
                 /\ t.out # <<>> => t.file = "open" /\ CanWrite(t)
                 /\ t.read_buf # <<>> => CanRead(t)
  <2>1. PICK t : t = stream[s] /\ t \in StreamType /\ StreamOK(t, exists)
    BY DEF IInv
  <2>2. {t.unicode, t.eof, t.error} \subseteq BOOLEAN
    BY <2>1 DEF StreamType
  <2>. QED
    BY <2>1, <2>2 DEF StreamType, StreamOK, C
<1>3. Reading => CanRead(Reader) /\ (Fetches(Reader, call.m, call.n) => Open(call.s))
  BY DEF IInv, CallOK, Reading, Reader, Open
<1>4. /\ history.text \in Seq(Characters) /\ history.whole \in BOOLEAN
      /\ used.opens \in 0..MaxOpens /\ used.writes \in 0..MaxWrites
  BY DEF IInv, HistoryType, UsedType, C
<1>. QED
  BY <1>1, <1>2, <1>3, <1>4 DEF TypeOK

\* A text of scripts is a sequence of Characters.
LEMMA PlainText == Seq(Plain) \subseteq Seq(C)
<1>1. \A S, T : S \subseteq T => Seq(S) \subseteq Seq(T)
  OBVIOUS
<1>. QED
  BY <1>1, PlainIsC

\* A stream that is not open satisfies the invariant.
LEMMA NoStreamOK == NoStream \in StreamType /\ \A b : StreamOK(NoStream, b)
<1>1. <<>> \in Seq(C)
  BY EmptySeq
<1>. QED
  BY <1>1 DEF NoStream, StreamType, StreamOK, Modes

\* Only one stream changes.
LEMMA OneStream ==
  ASSUME IInv, NEW s \in Streams, NEW v \in StreamType, NEW b \in BOOLEAN, exists => b, StreamOK(v, b)
  PROVE  LET new == [stream EXCEPT ![s] = v]
         IN  new \in [Streams -> StreamType] /\ \A r \in Streams : StreamOK(new[r], b)
<1>1. \A r \in Streams : StreamOK(stream[r], exists) => StreamOK(stream[r], b)
  BY DEF StreamOK
<1>2. \A r \in Streams : [stream EXCEPT ![s] = v][r] = IF r = s THEN v ELSE stream[r]
  BY DEF IInv
<1>. QED
  BY <1>1, <1>2 DEF IInv

\* The history that is recorded has its type.
LEMMA RecordedType ==
  ASSUME NEW h \in HistoryType, Recorded(h)
  PROVE  history' \in HistoryType
<1>1. <<>> \in Seq(C)
  BY EmptySeq
<1>. QED
  BY <1>1 DEF Recorded, HistoryType

\* The empty disk is a disk.
LEMMA EmptyDisk == <<>> \in Disk
  BY EmptySeq, SizesAssumption DEF Disk

\* The invariant holds at first.
LEMMA InitIInv == Init => IInv
<1>. SUFFICES ASSUME Init PROVE IInv
  OBVIOUS
<1>1. <<>> \in Seq(C) /\ <<>> \in Disk
  BY EmptySeq, EmptyDisk
<1>2. stream \in [Streams -> StreamType] /\ \A s \in Streams : StreamOK(stream[s], exists)
  BY NoStreamOK DEF Init
<1>3. /\ exists \in BOOLEAN /\ content \in Disk /\ (~exists => content = <<>>)
      /\ history \in HistoryType
  <2>1. CASE /\ exists = FALSE /\ content = <<>>
             /\ history = [text |-> <<>>, formats |-> {}, whole |-> TRUE]
    BY <1>1, <2>1 DEF HistoryType
  <2>2. CASE \E file \in InitialFiles :
               /\ exists = TRUE
               /\ content = (IF file.unicode THEN BOM ELSE <<>>) \o Encode(file.text, file.unicode)
               /\ Len(content) <= Capacity
               /\ history = [text |-> file.text, formats |-> {file.unicode}, whole |-> TRUE]
    <3>1. PICK file \in InitialFiles :
            /\ exists = TRUE
            /\ content = (IF file.unicode THEN BOM ELSE <<>>) \o Encode(file.text, file.unicode)
            /\ Len(content) <= Capacity
            /\ history = [text |-> file.text, formats |-> {file.unicode}, whole |-> TRUE]
      BY <2>2
    <3>2. file.text \in Seq(C) /\ file.unicode \in BOOLEAN
      BY PlainText, TextsAssumption
    <3>3. PICK a \in Seq(C), b \in Seq(C) :
            a = (IF file.unicode THEN BOM ELSE <<>>) /\ b = Encode(file.text, file.unicode)
      BY <1>1, <3>2, PlainIsC, EncodeType
    <3>4. a \o b \in Seq(C)
      BY Concats
    <3>. QED
      BY <3>1, <3>2, <3>3, <3>4 DEF Disk, HistoryType
  <2>. QED
    BY <2>1, <2>2 DEF Init
<1>4. call = NoCall /\ used \in UsedType
  BY SizesAssumption DEF Init, UsedType
<1>. QED
  BY <1>2, <1>3, <1>4 DEF IInv

\* So has the history after a stream was opened.
LEMMA OpenedType ==
  ASSUME IInv, NEW t \in StreamType, NEW truncates \in BOOLEAN
  PROVE  Opened(t, truncates) \in HistoryType
<1>1. <<>> \in Seq(C)
  BY EmptySeq
<1>2. history \in HistoryType /\ t.unicode \in BOOLEAN
  BY DEF IInv, StreamType
<1>3. PICK alone \in BOOLEAN : alone = (Writers = {})
  OBVIOUS
<1>4. PICK rd \in BOOLEAN : rd = CanRead(t)
  BY DEF CanRead
<1>5. PICK before : before = (IF truncates THEN [text |-> <<>>, formats |-> {}, whole |-> alone]
                              ELSE [history EXCEPT !.whole = @ /\ (alone \/ rd)])
  OBVIOUS
<1>6. before \in HistoryType
  BY <1>1, <1>2, <1>5 DEF HistoryType
<1>7. Opened(t, truncates) = IF t.out = <<>> THEN before ELSE [before EXCEPT !.formats = @ \cup {t.unicode}]
  BY <1>3, <1>4, <1>5 DEF Opened
<1>. QED
  BY <1>2, <1>6, <1>7 DEF HistoryType

\* Two bytes or none are skipped.
LEMMA SkippedBOMType ==
  ASSUME NEW head, NEW u
  PROVE  SkippedBOM(head, u) \in Nat
  BY DEF SkippedBOM

\* The stream that create_textstream makes: t before it reads its head or finds
\* its place, v then.
Created(s, disposition, mode, unicode, t, v) ==
  /\ t.file = "open" /\ t.mode = mode /\ t.unicode = unicode /\ t.error = FALSE
  /\ t.read_buf = <<>> /\ t.pos = 0 /\ t.ahead = <<>> /\ t.kind = Kind(disposition, mode)
  /\ v = [t EXCEPT !.pos = v.pos, !.ahead = v.ahead, !.eof = v.eof, !.read_buf = v.read_buf]
  /\ stream' = [stream EXCEPT ![s] = v] /\ StreamOK(v, TRUE)
  /\ exists' = TRUE /\ content' \in Disk
  /\ content' = IF t.kind = "w" THEN <<>> ELSE content
  /\ mode = "ForReading" =>
       LET f == Fread(t, HeadSize)
       IN  /\ t.out = <<>> /\ t.kind # "w"
           /\ v = [t EXCEPT !.pos = f.pos, !.ahead = f.ahead, !.eof = Len(f.data) # HeadSize,
                     !.read_buf = Decode(Drop(f.data, SkippedBOM(f.data, t.unicode)), t.unicode)]
  /\ mode # "ForReading" =>
       v = [t EXCEPT !.pos = IF mode = "ForAppending" THEN Len(content') ELSE 0]
  /\ t.out = IF WritesBOM(disposition, mode, unicode, content') THEN BOM ELSE <<>>
  /\ Recorded(Opened(t, t.kind = "w"))

\* What create_textstream makes: the handle t, and the stream v as it is after the first block.
LEMMA CreatedStream ==
  ASSUME IInv, NEW s \in Streams, NEW disposition, NEW mode \in Modes, NEW unicode \in BOOLEAN,
         mode = "ForReading" => disposition \in {"OPEN_ALWAYS", "OPEN_EXISTING"},
         create_textstream(s, disposition, mode, unicode)
  PROVE  \E t, v \in StreamType : Created(s, disposition, mode, unicode, t, v)
<1>1. PICK kind \in {"r", "r+", "w", "a+"} : kind = Kind(disposition, mode)
  BY DEF Kind
<1>2. PICK disk \in Disk : disk = IF kind = "w" THEN <<>> ELSE content
  BY EmptyDisk DEF IInv
<1>3. PICK out \in Seq(C) : out = IF WritesBOM(disposition, mode, unicode, disk) THEN BOM ELSE <<>>
  BY PlainIsC, EmptySeq
<1>4. PICK t : t = [NoStream EXCEPT !.file = "open", !.kind = kind, !.mode = mode,
                                    !.unicode = unicode, !.out = out]
  OBVIOUS
<1>5. /\ t \in StreamType /\ t.file = "open" /\ t.mode = mode /\ t.unicode = unicode /\ t.out = out
      /\ t.kind = kind /\ t.error = FALSE /\ t.read_buf = <<>> /\ t.pos = 0 /\ t.ahead = <<>>
  <2>1. <<>> \in Seq(C)
    BY EmptySeq
  <2>. QED
    BY <1>4, <2>1 DEF NoStream, StreamType
<1>6. /\ exists' = TRUE /\ content' = disk
      /\ IF mode = "ForReading" THEN OpenForReading(s, t, disk) ELSE OpenForWriting(s, t, disk)
      /\ Recorded(Opened(t, kind = "w"))
  BY <1>1, <1>2, <1>3, <1>4 DEF create_textstream
<1>7. CASE mode = "ForReading"
  <2>1. out = <<>> /\ kind # "w"
    BY <1>1, <1>3, <1>7 DEF WritesBOM, Kind
  <2>2. PICK f : f = Fread(t, HeadSize)
    OBVIOUS
  <2>3. f.ahead \in Seq(C) /\ f.pos \in Nat /\ f.data \in Seq(C)
    <3>1. content \in Seq(C) /\ HeadSize \in Nat
      BY SizesAssumption DEF IInv, Disk
    <3>2. f.ahead \in Seq(C) /\ f.pos \in Nat
          /\ Reads(Left(t), HeadSize, f.data, f.ahead \o Drop(content, f.pos))
      BY <1>5, <2>2, <3>1, FreadIs
    <3>. QED
      BY <3>2 DEF Reads
  <2>4. PICK read \in Seq(C) : read = Decode(Drop(f.data, SkippedBOM(f.data, t.unicode)), t.unicode)
    BY <1>5, <2>3, SkippedBOMType, DropType, DecodeType
  <2>5. PICK eof \in BOOLEAN : eof = (Len(f.data) # HeadSize)
    OBVIOUS
  <2>6. PICK v : v = [t EXCEPT !.pos = f.pos, !.ahead = f.ahead, !.eof = eof, !.read_buf = read]
    OBVIOUS
  <2>7. stream' = [stream EXCEPT ![s] = v]
    BY <1>6, <1>7, <2>2, <2>4, <2>5, <2>6 DEF OpenForReading
  <2>8. v \in StreamType /\ StreamOK(v, TRUE)
    BY <1>5, <1>7, <2>1, <2>3, <2>6 DEF StreamType, StreamOK, CanRead
  <2>9. v = [t EXCEPT !.pos = v.pos, !.ahead = v.ahead, !.eof = v.eof, !.read_buf = v.read_buf]
    BY <1>5, <2>3, <2>6 DEF StreamType
  <2>10. v = [t EXCEPT !.pos = f.pos, !.ahead = f.ahead, !.eof = Len(f.data) # HeadSize,
                !.read_buf = Decode(Drop(f.data, SkippedBOM(f.data, t.unicode)), t.unicode)]
    BY <2>4, <2>5, <2>6
  <2>. QED
    BY <1>1, <1>2, <1>3, <1>5, <1>6, <1>7, <2>1, <2>2, <2>7, <2>8, <2>9, <2>10
     DEF Created
<1>8. CASE mode # "ForReading"
  <2>1. PICK p \in Nat : p = IF mode = "ForAppending" THEN Len(disk) ELSE 0
    BY LenProperties DEF Disk
  <2>2. PICK v : v = [t EXCEPT !.pos = p]
    OBVIOUS
  <2>3. stream' = [stream EXCEPT ![s] = v]
    BY <1>5, <1>6, <1>8, <2>1, <2>2 DEF OpenForWriting
  <2>4. v \in StreamType /\ StreamOK(v, TRUE)
    BY <1>5, <1>8, <2>2 DEF StreamType, StreamOK, CanWrite
  <2>5. v = [t EXCEPT !.pos = v.pos, !.ahead = v.ahead, !.eof = v.eof, !.read_buf = v.read_buf]
    BY <1>5, <2>2 DEF StreamType
  <2>6. v = [t EXCEPT !.pos = IF mode = "ForAppending" THEN Len(content') ELSE 0]
    BY <1>6, <2>1, <2>2
  <2>. QED
    BY <1>1, <1>2, <1>3, <1>5, <1>6, <1>8, <2>3, <2>4, <2>5, <2>6 DEF Created
<1>. QED
  BY <1>7, <1>8

\* Every way to open is create_textstream, and reads only what is there.
Dispositions == {"CREATE_NEW", "CREATE_ALWAYS", "OPEN_EXISTING", "OPEN_ALWAYS", "TRUNCATE_EXISTING"}
Creates(s) == \E disposition \in Dispositions, mode \in Modes, unicode \in BOOLEAN :
  /\ mode = "ForReading" => disposition \in {"OPEN_ALWAYS", "OPEN_EXISTING"}
  /\ mode = "ForWriting" => disposition # "OPEN_ALWAYS"
  /\ create_textstream(s, disposition, mode, unicode)

\* Every call that opens a stream is create_textstream with one of the dispositions.
LEMMA OpensCreate ==
  ASSUME NEW s \in Streams, Opens(s)
  PROVE  Creates(s)
<1>1. PICK mode \in Modes, b \in BOOLEAN, unicode \in BOOLEAN :
        \/ CreateTextFile(s, b, unicode)
        \/ OpenTextFile(s, mode, b, unicode)
        \/ OpenAsTextStream(s, mode, unicode)
  BY DEF Opens
<1>2. CASE CreateTextFile(s, b, unicode)
  <2>1. PICK d \in Dispositions : d # "OPEN_ALWAYS" /\ create_textstream(s, d, "ForWriting", unicode)
    BY <1>2 DEF CreateTextFile, Dispositions
  <2>. QED
    BY <2>1 DEF Creates, Modes
<1>3. CASE OpenTextFile(s, mode, b, unicode)
  <2>1. PICK d \in Dispositions : /\ mode = "ForReading" => d \in {"OPEN_ALWAYS", "OPEN_EXISTING"}
                                  /\ mode = "ForWriting" => d # "OPEN_ALWAYS"
                                  /\ create_textstream(s, d, mode, unicode)
    <3>. DEFINE e == CASE mode = "ForWriting" /\ b -> "CREATE_ALWAYS"
                       [] mode = "ForWriting" /\ ~b -> "TRUNCATE_EXISTING"
                       [] mode # "ForWriting" /\ b -> "OPEN_ALWAYS"
                       [] OTHER -> "OPEN_EXISTING"
    <3>1. /\ e \in Dispositions /\ (mode = "ForReading" => e \in {"OPEN_ALWAYS", "OPEN_EXISTING"})
          /\ mode = "ForWriting" => e # "OPEN_ALWAYS"
      BY DEF Dispositions
    <3>2. create_textstream(s, e, mode, unicode)
      BY <1>3 DEF OpenTextFile
    <3>. QED
      BY <3>1, <3>2
  <2>. QED
    BY <2>1 DEF Creates
<1>4. CASE OpenAsTextStream(s, mode, unicode)
  <2>1. create_textstream(s, "OPEN_EXISTING", mode, unicode)
    BY <1>4 DEF OpenAsTextStream
  <2>. QED
    BY <2>1 DEF Creates, Dispositions
<1>. QED
  BY <1>1, <1>2, <1>3, <1>4

\* Opening keeps the invariant.
LEMMA OpensKeep ==
  ASSUME IInv, NEW s \in Streams, Opens(s)
  PROVE  IInv'
<1>1. PICK disposition \in Dispositions, mode \in Modes, unicode \in BOOLEAN :
        /\ mode = "ForReading" => disposition \in {"OPEN_ALWAYS", "OPEN_EXISTING"}
        /\ create_textstream(s, disposition, mode, unicode)
  BY OpensCreate DEF Creates
<1>1a. PICK t \in StreamType, v \in StreamType : Created(s, disposition, mode, unicode, t, v)
  BY <1>1, CreatedStream
<1>2. /\ stream' = [stream EXCEPT ![s] = v] /\ StreamOK(v, TRUE)
      /\ exists' = TRUE /\ content' \in Disk
      /\ Recorded(Opened(t, t.kind = "w"))
  BY <1>1a DEF Created
<1>3. stream' \in [Streams -> StreamType] /\ \A r \in Streams : StreamOK(stream'[r], TRUE)
  BY <1>2, OneStream
<1>4. history' \in HistoryType
  BY <1>2, OpenedType, RecordedType
<1>5. call = NoCall /\ call' = call /\ used' \in UsedType
  <2>1. used.opens < MaxOpens /\ used' = [used EXCEPT !.opens = @ + 1] /\ used \in UsedType
    BY <1>1 DEF create_textstream, IInv
  <2>2. MaxOpens \in Nat
    BY SizesAssumption
  <2>. QED
    BY <1>1, <2>1, <2>2 DEF create_textstream, UsedType
<1>. QED
  BY <1>2, <1>3, <1>4, <1>5 DEF IInv

\* Beginning to read keeps the invariant.
LEMMA BeginKeeps ==
  ASSUME IInv, NEW s \in Streams, BeginsReading(s)
  PROVE  IInv'
<1>1. PICK m \in {"Read", "ReadLine", "ReadAll"}, n \in Nat :
        BeginRead(s, m, n) /\ (IF m = "Read" THEN n > 0 ELSE n = 0)
  BY TextsAssumption DEF BeginsReading
<1>2. PICK c : c = [m |-> m, s |-> s, n |-> n]
  OBVIOUS
<1>3. call' = c /\ UNCHANGED <<exists, content, stream, history, used>>
  BY <1>1, <1>2 DEF BeginRead
<1>4. c \in CallType
  BY <1>1, <1>2 DEF CallType
<1>5. CallOK(c, stream[s])
  BY <1>1, <1>2 DEF BeginRead, CallOK, Calls, Open
<1>6. c.s = s
  BY <1>2
<1>. QED
  BY <1>3, <1>4, <1>5, <1>6 DEF IInv

\* The place of the first line feed, or 0.
NextLF(buf) == SelectInSeq(buf, LAMBDA c : c = "LF")

\* What SelectInSeq finds: the first line feed, or none.
LEMMA NextLine ==
  ASSUME NEW buf \in Seq(C)
  PROVE  /\ NextLF(buf) \in Nat /\ NextLF(buf) <= Len(buf)
         /\ NextLF(buf) = 0 => \A i \in 1..Len(buf) : buf[i] # "LF"
         /\ NextLF(buf) > 0 => buf[NextLF(buf)] = "LF" /\ \A j \in 1..NextLF(buf) - 1 : buf[j] # "LF"
<1>. DEFINE I == {i \in 1..Len(buf) : buf[i] = "LF"}
<1>1. PICK n \in Nat : n = Len(buf)
  BY LenProperties
<1>2. NextLF(buf) = IF I # {} THEN Min(I) ELSE 0
  BY DEF NextLF, SelectInSeq
<1>3. CASE I = {}
  <2>1. \A i \in 1..Len(buf) : buf[i] # "LF"
    BY <1>3
  <2>. QED
    BY <1>1, <1>2, <1>3, <2>1
<1>4. CASE I # {}
  <2>1. I \in SUBSET Nat
    BY <1>1
  <2>2. Min(I) \in I /\ \A j \in I : Min(I) <= j
    BY <1>4, <2>1, MinIsLeast
  <2>3. PICK m \in 1..n : m = NextLF(buf) /\ buf[m] = "LF" /\ \A j \in I : m <= j
    BY <1>1, <1>2, <1>4, <2>2
  <2>4. ASSUME NEW j \in 1..m - 1 PROVE buf[j] # "LF"
    <3>1. j \in 1..n /\ ~(m <= j)
      OBVIOUS
    <3>. QED
      BY <1>1, <2>3, <3>1
  <2>. QED
    BY <1>1, <2>3, <2>4
<1>. QED
  BY <1>3, <1>4

\* The reader of a call in progress is a stream that reads.
LEMMA ReaderIs ==
  ASSUME IInv, Reading
  PROVE  /\ call \in CallType /\ call.s \in Streams /\ CallOK(call, Reader)
         /\ Reader \in StreamType /\ StreamOK(Reader, exists)
  BY DEF IInv, Reading, Reader, CallType

\* What a read does to the stream, whose file and mode it leaves alone.
LEMMA ReadStepKeeps ==
  ASSUME IInv, ReadStep
  PROVE  IInv'
<1>0. Reading /\ Reader = stream[call.s]
  BY DEF ReadStep, read_more_data, ReadFails, EndOfFile, ReadText, ReadLine, ReadAll, Some, Fetched, Reader
<1>1. PICK t \in StreamType, s \in Streams :
        /\ t = Reader /\ s = call.s /\ t = stream[s] /\ CallOK(call, t) /\ StreamOK(t, exists) /\ call \in CallType
  BY <1>0, ReaderIs
<1>2. content \in Seq(C) /\ t.unicode \in BOOLEAN
  BY DEF IInv, Disk, StreamType
<1>3. CASE read_more_data
  <2>1. PICK f : f = Fread(t, BlockSize)
    OBVIOUS
  <2>2. f.ahead \in Seq(C) /\ f.pos \in Nat /\ f.data \in Seq(C)
    <3>1. BlockSize \in Nat
      BY SizesAssumption
    <3>2. f.ahead \in Seq(C) /\ f.pos \in Nat
          /\ Reads(Left(t), BlockSize, f.data, f.ahead \o Drop(content, f.pos))
      BY <1>2, <2>1, <3>1, FreadIs
    <3>. QED
      BY <3>2 DEF Reads
  <2>3. PICK read \in Seq(C) : read = t.read_buf \o Decode(f.data, t.unicode)
    <3>1. Decode(f.data, t.unicode) \in Seq(C) /\ t.read_buf \in Seq(C)
      BY <1>2, <2>2, DecodeType DEF StreamType
    <3>. QED
      BY <3>1, Concats
  <2>4. PICK eof \in BOOLEAN : eof = SeesEnd(f.data, BlockSize)
    BY DEF SeesEnd
  <2>5. PICK v : v = [t EXCEPT !.pos = f.pos, !.ahead = f.ahead, !.eof = eof, !.read_buf = read]
    OBVIOUS
  <2>6. stream' = [stream EXCEPT ![s] = v] /\ UNCHANGED <<exists, content, call, history, used>>
    <3>1. stream' = [stream EXCEPT ![call.s] =
            [Reader EXCEPT !.pos = f.pos, !.ahead = f.ahead, !.eof = SeesEnd(f.data, BlockSize),
                           !.read_buf = @ \o Decode(f.data, Reader.unicode)]]
      BY <1>1, <1>3, <2>1 DEF read_more_data
    <3>2. stream \in [Streams -> StreamType]
      BY DEF IInv
    <3>3. [t EXCEPT !.pos = f.pos, !.ahead = f.ahead, !.eof = SeesEnd(f.data, BlockSize),
                    !.read_buf = @ \o Decode(f.data, Reader.unicode)] = v
      BY <1>1, <2>3, <2>4, <2>5
    <3>4. UNCHANGED <<exists, content, call, history, used>>
      BY <1>3 DEF read_more_data
    <3>5. stream' = [stream EXCEPT ![s] = [t EXCEPT !.pos = f.pos, !.ahead = f.ahead,
              !.eof = SeesEnd(f.data, BlockSize), !.read_buf = @ \o Decode(f.data, Reader.unicode)]]
      BY <1>1, <3>1, <3>2
    <3>. QED
      BY <3>3, <3>4, <3>5
  <2>7. v \in StreamType
    BY <2>2, <2>5 DEF StreamType
  <2>8. /\ v.file = t.file /\ v.mode = t.mode /\ v.out = t.out /\ v.kind = t.kind
    BY <2>5, <2>7 DEF StreamType
  <2>9. StreamOK(v, exists) /\ CallOK(call, v)
    <3>1. CanRead(t) /\ Fetches(t, call.m, call.n) /\ t.file = "open"
      BY <1>1, <1>3 DEF read_more_data, CallOK
    <3>. QED
      BY <1>1, <2>8, <3>1 DEF StreamOK, CallOK, CanRead, CanWrite
  <2>10. stream' \in [Streams -> StreamType] /\ (\A r \in Streams : StreamOK(stream'[r], exists))
         /\ stream'[s] = v
    <3>1. exists \in BOOLEAN
      BY DEF IInv
    <3>2. stream'[s] = v
      BY <2>6 DEF IInv
    <3>. QED
      BY <2>6, <2>7, <2>9, <3>1, <3>2, OneStream
  <2>. QED
    BY <1>1, <2>6, <2>9, <2>10 DEF IInv
<1>4. CASE ReadFails
  <2>1. PICK f : f = Fread(t, BlockSize)
    OBVIOUS
  <2>2. f.ahead \in Seq(C) /\ f.pos \in Nat
    <3>1. BlockSize \in Nat
      BY SizesAssumption
    <3>. QED
      BY <1>2, <2>1, <3>1, FreadIs
  <2>3. PICK v : v = [t EXCEPT !.pos = f.pos, !.ahead = f.ahead]
    OBVIOUS
  <2>4. stream' = [stream EXCEPT ![s] = v] /\ UNCHANGED <<exists, content, history, used>> /\ call' = NoCall
    BY <1>1, <1>4, <2>1, <2>3 DEF ReadFails, Returns
  <2>5. v \in StreamType /\ StreamOK(v, exists) /\ exists \in BOOLEAN
    BY <1>1, <2>2, <2>3 DEF StreamType, StreamOK, CanRead, CanWrite, IInv
  <2>6. stream' \in [Streams -> StreamType] /\ \A r \in Streams : StreamOK(stream'[r], exists)
    BY <2>4, <2>5, OneStream
  <2>. QED
    BY <2>4, <2>6 DEF IInv
<1>5. ASSUME NEW hr, NEW len \in Nat, NEW skip \in Nat, Takes(hr, len, skip)
      PROVE  IInv'
  <2>1. Drop(t.read_buf, len + skip) \in Seq(C)
    <3>1. len + skip \in Nat
      OBVIOUS
    <3>. QED
      BY <3>1, DropType DEF StreamType
  <2>2. PICK v : v = [t EXCEPT !.read_buf = Drop(@, len + skip)]
    OBVIOUS
  <2>3. stream' = [stream EXCEPT ![s] = v] /\ UNCHANGED <<exists, content, history, used>> /\ call' = NoCall
    BY <1>1, <1>5, <2>2 DEF Takes, Returns
  <2>4. v \in StreamType /\ StreamOK(v, exists) /\ exists \in BOOLEAN
    BY <1>1, <2>1, <2>2 DEF StreamType, StreamOK, CallOK, CanRead, CanWrite, IInv
  <2>5. stream' \in [Streams -> StreamType] /\ \A r \in Streams : StreamOK(stream'[r], exists)
    BY <2>3, <2>4, OneStream
  <2>. QED
    BY <2>3, <2>5 DEF IInv
<1>6. PICK b \in Nat : b = Len(t.read_buf)
  BY LenProperties DEF StreamType
<1>7. CASE EndOfFile
  BY <1>5, <1>7 DEF EndOfFile
<1>8. CASE ReadText
  BY <1>1, <1>5, <1>6, <1>8 DEF ReadText, CallType
<1>9. CASE ReadLine
  <2>1. PICK nl \in Nat : nl = NextLF(t.read_buf)
    BY NextLine DEF StreamType
  <2>2. CASE nl = 0
    <3>1. Takes("S_FALSE", b, 0)
      BY <1>1, <1>6, <1>9, <2>1, <2>2 DEF ReadLine, NextLF
    <3>. QED
      BY <1>5, <3>1
  <2>3. CASE nl > 1
    <3>1. Takes("S_OK", nl - 2, 2) \/ Takes("S_OK", nl - 1, 1)
      BY <1>1, <1>6, <1>9, <2>1, <2>3 DEF ReadLine, NextLF
    <3>2. nl - 2 \in Nat /\ nl - 1 \in Nat
      BY <2>3
    <3>. QED
      BY <1>5, <3>1, <3>2
  <2>4. CASE nl = 1
    <3>1. Takes("S_OK", nl - 1, 1)
      BY <1>1, <1>6, <1>9, <2>1, <2>4 DEF ReadLine, NextLF
    <3>2. nl - 1 \in Nat
      BY <2>4
    <3>. QED
      BY <1>5, <3>1, <3>2
  <2>. QED
    BY <2>2, <2>3, <2>4
<1>10. CASE ReadAll
  <2>1. Takes("S_FALSE", b, 0)
    BY <1>1, <1>6, <1>10 DEF ReadAll
  <2>. QED
    BY <1>5, <2>1
<1>. QED
  BY <1>3, <1>4, <1>7, <1>8, <1>9, <1>10 DEF ReadStep

\* A stream that was written, or closed with nothing left to write.
LEMMA WrittenOK ==
  ASSUME NEW t \in StreamType, NEW v \in StreamType, SameReader(v, t), StreamOK(t, TRUE),
         v.out # <<>> => t.file = "open" /\ CanWrite(t)
  PROVE  StreamOK(v, TRUE)
  BY DEF SameReader, StreamOK, CanRead, CanWrite

\* The history after a write has its type.
LEMMA NewText ==
  ASSUME IInv, NEW s \in Streams, NEW text \in Seq(C), NEW b \in BOOLEAN
  PROVE  [text |-> history.text \o text, whole |-> history.whole /\ b,
          formats |-> IF text = <<>> THEN history.formats
                      ELSE history.formats \cup {stream[s].unicode}] \in HistoryType
<1>1. history.text \in Seq(C) /\ history.formats \in SUBSET BOOLEAN /\ history.whole \in BOOLEAN
  BY DEF IInv, HistoryType
<1>2. history.text \o text \in Seq(C)
  BY <1>1, Concats
<1>3. stream[s].unicode \in BOOLEAN
  BY DEF IInv, StreamType
<1>. QED
  BY <1>1, <1>2, <1>3 DEF HistoryType

\* A write keeps the invariant.
LEMMA WritesKeep ==
  ASSUME IInv, NEW s \in Streams, MayWrite(s), CanWrite(stream[s]), NEW w \in Written(stream[s]),
         NEW text \in Seq(C), Writes(s, w, text)
  PROVE  IInv'
<1>1. PICK t \in StreamType : t = stream[s] /\ StreamOK(t, exists) /\ t.file = "open" /\ CanWrite(t)
  BY DEF IInv, MayWrite, Open
<1>2. exists = TRUE
  BY <1>1 DEF StreamOK, IInv
<1>3. PICK v \in StreamType : v = w.stream /\ SameReader(v, t)
  BY <1>1 DEF Written
<1>4. w.disk \in Disk /\ w.ok \in BOOLEAN /\ w.lost \in BOOLEAN
  BY DEF Written
<1>5. StreamOK(v, TRUE)
  BY <1>1, <1>2, <1>3, WrittenOK
<1>6. /\ content' = w.disk /\ stream' = [stream EXCEPT ![s] = v] /\ exists' = exists
      /\ call' = call /\ call = NoCall
  BY <1>3 DEF Writes, MayWrite, Calls
<1>7. stream' \in [Streams -> StreamType] /\ \A r \in Streams : StreamOK(stream'[r], TRUE)
  BY <1>3, <1>5, <1>6, OneStream
<1>8. history' \in HistoryType
  <2>1. PICK b \in BOOLEAN : b = (w.ok /\ ~w.lost)
    BY <1>4
  <2>2. PICK h : h = [text |-> history.text \o text, whole |-> history.whole /\ b,
                      formats |-> IF text = <<>> THEN history.formats
                                  ELSE history.formats \cup {stream[s].unicode}]
    OBVIOUS
  <2>3. h \in HistoryType
    BY <2>2, NewText
  <2>4. h = [text |-> history.text \o text, whole |-> history.whole /\ w.ok /\ ~w.lost,
             formats |-> IF text = <<>> THEN history.formats
                         ELSE history.formats \cup {stream[s].unicode}]
    BY <2>1, <2>2
  <2>5. Recorded(h)
    BY <2>4 DEF Writes
  <2>. QED
    BY <2>3, <2>5, RecordedType
<1>9. used' \in UsedType
  <2>1. used.writes < MaxWrites /\ used' = [used EXCEPT !.writes = @ + 1] /\ used \in UsedType
    BY DEF MayWrite, IInv
  <2>2. MaxWrites \in Nat
    BY SizesAssumption
  <2>. QED
    BY <2>1, <2>2 DEF UsedType
<1>. QED
  BY <1>2, <1>4, <1>6, <1>7, <1>8, <1>9 DEF IInv

\* The texts that are written are sequences of Characters.
LEMMA WrittenTexts ==
  ASSUME NEW text \in Texts
  PROVE  text \in Seq(C) /\ CRLF \in Seq(C) /\ text \o CRLF \in Seq(C)
<1>1. text \in Seq(C) /\ CRLF \in Seq(C)
  BY TextsAssumption, PlainText, PlainIsC
<1>. QED
  BY <1>1, Concats

\* Write and WriteLine keep the invariant.
LEMMA WriteKeeps ==
  ASSUME IInv, NEW s \in Streams, NEW text \in Texts, Write(s, text) \/ WriteLine(s, text)
  PROVE  IInv'
<1>1. PICK t \in StreamType : t = stream[s] /\ content \in Disk
  BY DEF IInv
<1>2. text \in Seq(C) /\ CRLF \in Seq(C) /\ text \o CRLF \in Seq(C)
  BY WrittenTexts
<1>3. PICK a \in Seq(C), b \in Seq(C) : a = Encode(text, t.unicode) /\ b = Encode(CRLF, t.unicode)
  BY <1>2, EncodeType
<1>4. CASE Write(s, text)
  <2>1. PICK w \in WriteFile(content, t, a) : Writes(s, w, text)
    BY <1>1, <1>3, <1>4 DEF Write
  <2>2. w \in Written(stream[s])
    BY <1>1, WriteFileType
  <2>. QED
    BY <1>2, <1>4, <2>1, <2>2, WritesKeep DEF Write
<1>5. CASE WriteLine(s, text)
  <2>1. PICK w \in WriteFiles(content, t, a, b) : Writes(s, w, text \o CRLF)
    BY <1>1, <1>3, <1>5 DEF WriteLine
  <2>2. w \in Written(stream[s])
    BY <1>1, WriteFilesType
  <2>3. PICK line \in Seq(C) : line = text \o CRLF
    BY <1>2
  <2>. QED
    BY <1>5, <2>1, <2>2, <2>3, WritesKeep DEF WriteLine
<1>. QED
  BY <1>4, <1>5

\* WriteBlankLines keeps it, also where its write fails.
LEMMA BlankKeeps ==
  ASSUME IInv, NEW s \in Streams, WriteBlankLines(s)
  PROVE  IInv'
<1>1. PICK t \in StreamType : t = stream[s] /\ content \in Disk /\ StreamOK(t, exists) /\ t.file = "open"
  BY DEF IInv, WriteBlankLines, MayWrite, Open
<1>2. CRLF \in Seq(C)
  BY PlainText, PlainIsC
<1>3. PICK b \in Seq(C) : b = Encode(CRLF, t.unicode)
  BY <1>2, EncodeType
<1>4. CASE CanWrite(stream[s])
  <2>1. PICK w \in WriteFile(content, t, b) : Writes(s, w, CRLF)
    BY <1>1, <1>3, <1>4 DEF WriteBlankLines
  <2>2. w \in Written(stream[s])
    BY <1>1, WriteFileType
  <2>. QED
    BY <1>2, <1>4, <2>1, <2>2, WritesKeep DEF WriteBlankLines
<1>5. CASE ~CanWrite(stream[s])
  <2>1. PICK w \in WriteFile(content, t, b) :
          stream' = [stream EXCEPT ![s] = w.stream] /\ UNCHANGED <<exists, content, call, history>>
    BY <1>1, <1>3, <1>5 DEF WriteBlankLines
  <2>2. w = [disk |-> content, stream |-> [t EXCEPT !.error = TRUE], ok |-> FALSE, lost |-> FALSE]
    BY <1>1, <1>5, <2>1 DEF WriteBlankLines, WriteFile
  <2>3. PICK v \in StreamType : /\ v = w.stream /\ SameReader(v, t) /\ v.out = t.out
    <3>1. PICK v : v = [t EXCEPT !.error = TRUE]
      OBVIOUS
    <3>2. v \in StreamType /\ SameReader(v, t) /\ v.out = t.out
      BY <3>1 DEF StreamType, SameReader
    <3>3. w.stream = v
      BY <2>2, <3>1
    <3>. QED
      BY <3>2, <3>3
  <2>4. exists = TRUE
    BY <1>1 DEF StreamOK, IInv
  <2>5. StreamOK(v, TRUE)
    BY <1>1, <2>3, <2>4, WrittenOK DEF StreamOK
  <2>6. stream' \in [Streams -> StreamType] /\ \A r \in Streams : StreamOK(stream'[r], TRUE)
    BY <2>1, <2>3, <2>5, OneStream
  <2>7. call = NoCall
    BY DEF WriteBlankLines, MayWrite, Calls
  <2>8. used' \in UsedType
    <3>1. used.writes < MaxWrites /\ used' = [used EXCEPT !.writes = @ + 1] /\ used \in UsedType
      BY DEF WriteBlankLines, MayWrite, IInv
    <3>2. MaxWrites \in Nat
      BY SizesAssumption
    <3>. QED
      BY <3>1, <3>2 DEF UsedType
  <2>. QED
    BY <2>1, <2>4, <2>6, <2>7, <2>8 DEF IInv
<1>. QED
  BY <1>4, <1>5

\* Closing a handle keeps it.
LEMMA ClosedKeeps ==
  ASSUME IInv, NEW s \in Streams, Calls(s), NEW after \in {"free", "null"}, Open(s), ClosedBy(s, after)
  PROVE  IInv'
<1>1. PICK t \in StreamType : t = stream[s] /\ content \in Disk /\ StreamOK(t, exists) /\ t.file = "open"
  BY DEF IInv, Open
<1>2. PICK w \in CloseHandle(t) :
        /\ content' = w.disk
        /\ stream' = [stream EXCEPT ![s] = IF after = "free" THEN NoStream
                                           ELSE [w.stream EXCEPT !.file = after]]
        /\ Recorded([history EXCEPT !.whole = @ /\ ~w.lost])
  BY <1>1 DEF ClosedBy
<1>3. w \in Written(t) /\ w.stream.out = <<>>
  BY <1>1, CloseHandleType
<1>4. w.disk \in Disk /\ w.lost \in BOOLEAN /\ w.stream \in StreamType /\ SameReader(w.stream, t)
  BY <1>3 DEF Written
<1>5. exists = TRUE
  BY <1>1 DEF StreamOK, IInv
<1>6. PICK v \in StreamType : /\ v = IF after = "free" THEN NoStream ELSE [w.stream EXCEPT !.file = after]
                              /\ StreamOK(v, TRUE)
  <2>1. CASE after = "free"
    BY <2>1, NoStreamOK
  <2>2. CASE after = "null"
    <3>1. PICK u \in StreamType : u = w.stream /\ SameReader(u, t) /\ u.out = <<>>
      BY <1>3, <1>4
    <3>2. PICK v : v = [u EXCEPT !.file = "null"]
      OBVIOUS
    <3>3. v \in StreamType /\ StreamOK(v, TRUE)
      BY <1>1, <3>1, <3>2 DEF StreamType, StreamOK, SameReader, CanRead, CanWrite
    <3>. QED
      BY <2>2, <3>1, <3>2, <3>3
  <2>. QED
    BY <2>1, <2>2
<1>7. stream' \in [Streams -> StreamType] /\ \A r \in Streams : StreamOK(stream'[r], TRUE)
  BY <1>2, <1>6, OneStream
<1>8. history' \in HistoryType
  <2>1. [history EXCEPT !.whole = @ /\ ~w.lost] \in HistoryType
    BY <1>4 DEF IInv, HistoryType
  <2>. QED
    BY <1>2, <2>1, RecordedType
<1>9. UNCHANGED <<exists, call, used>> /\ call = NoCall
  BY DEF ClosedBy, Calls
<1>. QED
  BY <1>2, <1>4, <1>5, <1>7, <1>8, <1>9 DEF IInv

\* Close and Release keep it.
LEMMA CloseKeeps ==
  ASSUME IInv, NEW s \in Streams, Close(s) \/ Release(s)
  PROVE  IInv'
<1>1. CASE Close(s)
  BY <1>1, ClosedKeeps DEF Close
<1>2. CASE Release(s) /\ Open(s)
  BY <1>2, ClosedKeeps DEF Release
<1>3. CASE Release(s) /\ ~Open(s)
  <2>1. stream' = [stream EXCEPT ![s] = NoStream] /\ UNCHANGED <<exists, content, call, history, used>>
        /\ call = NoCall
    BY <1>3 DEF Release, Calls
  <2>2. exists \in BOOLEAN
    BY DEF IInv
  <2>3. stream' \in [Streams -> StreamType] /\ \A r \in Streams : StreamOK(stream'[r], exists)
    BY <2>1, <2>2, NoStreamOK, OneStream
  <2>. QED
    BY <2>1, <2>3 DEF IInv
<1>. QED
  BY <1>1, <1>2, <1>3

\* Every step keeps the invariant.
LEMMA NextIInv == IInv /\ [Next]_vars => IInv'
<1>. SUFFICES ASSUME IInv, [Next]_vars PROVE IInv'
  OBVIOUS
<1>1. CASE ReadStep
  BY <1>1, ReadStepKeeps
<1>2. ASSUME NEW s \in Streams, Opens(s) PROVE IInv'
  BY <1>2, OpensKeep
<1>3. ASSUME NEW s \in Streams, BadFileMode(s) PROVE IInv'
  BY <1>3 DEF BadFileMode, IInv
<1>4. ASSUME NEW s \in Streams, BeginsReading(s) PROVE IInv'
  BY <1>4, BeginKeeps
<1>5. ASSUME NEW s \in Streams, get_AtEndOfStream(s) PROVE IInv'
  BY <1>5 DEF get_AtEndOfStream, Returns, IInv
<1>6. ASSUME NEW s \in Streams, NEW text \in Texts, Write(s, text) \/ WriteLine(s, text) PROVE IInv'
  BY <1>6, WriteKeeps
<1>7. ASSUME NEW s \in Streams, WriteBlankLines(s) PROVE IInv'
  BY <1>7, BlankKeeps
<1>8. ASSUME NEW s \in Streams, Close(s) \/ Release(s) PROVE IInv'
  BY <1>8, CloseKeeps
<1>9. CASE UNCHANGED vars
  BY <1>9 DEF vars, IInv
<1>. QED
  BY <1>1, <1>2, <1>3, <1>4, <1>5, <1>6, <1>7, <1>8, <1>9 DEF Next

\* The invariant holds in every reachable state.
THEOREM AlwaysIInv == Spec => []IInv
<1>. QED
  BY InitIInv, NextIInv, PTL DEF Spec

\* Every stream, the file and the call in progress have their types; the file never
\* outgrows the room there is; only an open handle has bytes to write, so that
\* CloseHandle leaves none behind; a call that still fetches has its handle.
THEOREM StreamsAreTyped == Spec => []TypeOK
<1>. QED
  BY AlwaysIInv, IInvImpliesTypeOK, PTL

-------------------------------------------------------------------------------
\* What a stream's answer is for the one who reads it, and whether one does.
AnswerTo(s) == IF answer.m # "none" /\ answer.s = s
               THEN [m |-> answer.m, n |-> answer.n, hr |-> answer.hr, text |-> answer.text]
               ELSE NoAnswer
Live(s) == stream[s].file # "free" /\ CanRead(stream[s])

\* The text that is still in the file.
More(t) == IF t.eof THEN <<>> ELSE DecodeBlocks(Left(t), t.unicode)

\* What is left of a file is a sequence of bytes.
LEMMA LeftType ==
  ASSUME content \in Seq(C), NEW t \in StreamType
  PROVE  Left(t) \in Seq(C)
<1>1. 0 \in Nat
  OBVIOUS
<1>2. Reads(Left(t), 0, Fread(t, 0).data, Fread(t, 0).ahead \o Drop(content, Fread(t, 0).pos))
  BY <1>1, FreadIs
<1>. QED
  BY <1>2 DEF Reads

\* What is left to read is the buffer and what the file still gives.
LEMMA RestIs ==
  ASSUME IInv, NEW s \in Streams
  PROVE  /\ More(stream[s]) \in Seq(C) /\ stream[s].read_buf \in Seq(C)
         /\ RestOf(s) = stream[s].read_buf \o More(stream[s])
<1>1. PICK t \in StreamType : t = stream[s] /\ content \in Seq(C)
  BY DEF IInv, Disk
<1>2. t.read_buf \in Seq(C) /\ t.unicode \in BOOLEAN
  BY DEF StreamType
<1>3. Left(t) \in Seq(C)
  BY <1>1, LeftType
<1>4. DecodeBlocks(Left(t), t.unicode) \in Seq(C) /\ <<>> \in Seq(C)
  BY <1>2, <1>3, PiecesType, EmptySeq
<1>5. More(t) \in Seq(C)
  BY <1>4 DEF More
<1>6. t.read_buf \o <<>> = t.read_buf
  BY <1>2, Nothing
<1>7. RestOf(s) = IF t.eof THEN t.read_buf ELSE t.read_buf \o DecodeBlocks(Left(t), t.unicode)
  BY <1>1 DEF RestOf
<1>8. CASE t.eof
  BY <1>1, <1>2, <1>5, <1>6, <1>7, <1>8 DEF More
<1>9. CASE ~t.eof
  BY <1>1, <1>2, <1>5, <1>7, <1>9 DEF More
<1>. QED
  BY <1>8, <1>9

\* A stream that a step leaves alone sees nothing, or that the file changes.
LEMMA Unaffected ==
  ASSUME NEW s \in Streams, stream'[s] = stream[s], AnswerTo(s)' = NoAnswer
  PROVE  TextOf(s)!Next
<1>1. CASE ~Live(s)
  BY <1>1 DEF TextOf!Next, TextOf!Idles, Live
<1>2. CASE Live(s) /\ content' = content
  <2>1. RestOf(s)' = RestOf(s)
    BY <1>2 DEF RestOf, Left
  <2>2. TextOf(s)!Silent
    BY <2>1 DEF TextOf!Silent, TextOf!NoAnswer, NoAnswer, AnswerTo
  <2>. QED
    BY <1>2, <2>2 DEF TextOf!Next, TextOf!Answering, Live
<1>3. CASE Live(s) /\ content' # content
  <2>1. stream[s].eof => RestOf(s)' = RestOf(s)
    BY DEF RestOf
  <2>2. TextOf(s)!FileChanges
    BY <1>3, <2>1 DEF TextOf!FileChanges, TextOf!NoAnswer, NoAnswer, AnswerTo, Live
  <2>. QED
    BY <2>2 DEF TextOf!Next
<1>. QED
  BY <1>1, <1>2, <1>3

\* A call that reads, on a stream that is read.
LEMMA Answered ==
  ASSUME NEW s \in Streams, Live(s), Live(s)', content' = content,
         stream'[s].error = stream[s].error,
         \/ TextOf(s)!Silent
         \/ TextOf(s)!Fails
         \/ TextOf(s)!Read(AnswerTo(s)'.n) \/ TextOf(s)!ReadLine \/ TextOf(s)!ReadAll \/ TextOf(s)!AtEndOfStream
  PROVE  TextOf(s)!Next
  BY DEF TextOf!Next, TextOf!Answering, TextOf!Reads, Live, AnswerTo, NoAnswer

\* An answer to somebody else is none.
LEMMA NoAnswers ==
  ASSUME NEW s, answer' = NoAnswer \/ (answer'.s # s)
  PROVE  AnswerTo(s)' = NoAnswer
  BY DEF AnswerTo, NoAnswer

\* At first nobody reads.
LEMMA InitReads ==
  ASSUME Init, NEW s \in Streams
  PROVE  TextOf(s)!Init
  BY DEF TextOf!Init, TextOf!NoAnswer, NoAnswer, Init, NoStream

\* What is taken from the buffer is taken from the front of what is left.
LEMMA TakeRest ==
  ASSUME NEW buf \in Seq(C), NEW more \in Seq(C), NEW j \in Nat, j <= Len(buf)
  PROVE  /\ buf \o more \in Seq(C) /\ Drop(buf, j) \in Seq(C)
         /\ SubSeq(buf \o more, 1, j) = SubSeq(buf, 1, j)
         /\ SubSeq(buf \o more, j + 1, Len(buf \o more)) = Drop(buf, j) \o more
<1>1. PICK m \in Nat, n \in Nat : m = Len(buf) /\ n = Len(more) /\ j <= m
  BY LenProperties
<1>2. PICK z \in Seq(C) : /\ z = buf \o more /\ Len(z) = Len(buf) + Len(more)
                          /\ SubSeq(z, 1, Len(buf)) = buf
                          /\ SubSeq(z, Len(buf) + 1, Len(buf) + Len(more)) = more
  <2>1. /\ buf \o more \in Seq(C) /\ Len(buf \o more) = Len(buf) + Len(more)
        /\ SubSeq(buf \o more, 1, Len(buf)) = buf
        /\ SubSeq(buf \o more, Len(buf) + 1, Len(buf) + Len(more)) = more
    BY Concats
  <2>. QED
    BY <2>1
<1>3. Len(z) = m + n /\ m <= Len(z) /\ j <= Len(z)
  BY <1>1, <1>2
<1>4. /\ SubSeq(z, j + 1, Len(z)) = SubSeq(z, j + 1, m) \o SubSeq(z, m + 1, Len(z))
  BY <1>1, <1>3, Slices
<1>5. SubSeq(z, m + 1, Len(z)) = more
  BY <1>1, <1>2, <1>3
<1>6. SubSeq(z, j + 1, m) = Drop(buf, j) /\ SubSeq(z, 1, j) = SubSeq(buf, 1, j)
  <2>1. \A i \in 1..m : z[i] = buf[i]
    <3>1. \A i \in 1..m : (buf \o more)[i] = buf[i]
      BY <1>1, ConcatProperties
    <3>. QED
      BY <1>2, <3>1
  <2>2. /\ SubSeq(buf, 1, j) \in Seq(C) /\ Len(SubSeq(buf, 1, j)) = j
        /\ SubSeq(z, 1, j) \in Seq(C) /\ Len(SubSeq(z, 1, j)) = j
    BY <1>1, <1>3, Wholes
  <2>3. \A i \in 1..j : SubSeq(buf, 1, j)[i] = buf[i] /\ SubSeq(z, 1, j)[i] = z[i]
    BY <1>1, <1>3
  <2>4. \A i \in 1..j : SubSeq(buf, 1, j)[i] = SubSeq(z, 1, j)[i]
    BY <1>1, <2>1, <2>3
  <2>5. SubSeq(z, 1, j) = SubSeq(buf, 1, j)
    BY <2>2, <2>4, SeqEqual
  <2>6. /\ SubSeq(buf, j + 1, m) \in Seq(C) /\ Len(SubSeq(buf, j + 1, m)) = m - j
        /\ SubSeq(z, j + 1, m) \in Seq(C) /\ Len(SubSeq(z, j + 1, m)) = m - j
    BY <1>1, <1>3, Slices
  <2>7. \A i \in 1..m - j : SubSeq(buf, j + 1, m)[i] = buf[j + i] /\ SubSeq(z, j + 1, m)[i] = z[j + i]
    BY <1>1, <1>3
  <2>8. \A i \in 1..m - j : SubSeq(buf, j + 1, m)[i] = SubSeq(z, j + 1, m)[i]
    <3>1. \A i \in 1..m - j : j + i \in 1..m
      BY <1>1
    <3>. QED
      BY <2>1, <2>7, <3>1
  <2>9. SubSeq(buf, j + 1, m) = SubSeq(z, j + 1, m)
    BY <2>6, <2>8, SeqEqual
  <2>. QED
    BY <1>1, <2>5, <2>9 DEF Drop
<1>7. Drop(buf, j) \in Seq(C)
  BY DropType
<1>. QED
  BY <1>2, <1>4, <1>5, <1>6, <1>7

\* A call that had its text answered with len characters and skipped others.
Gave(s, hr, len, skip) ==
  /\ TextOf(s)!Gives(call.m, call.n, hr, len, skip)
  /\ Live(s) /\ Live(s)' /\ content' = content /\ stream'[s].error = stream[s].error
  /\ AnswerTo(s)'.n = call.n

\* A call that has its text answers with the front of what is left.
LEMMA TakesGives ==
  ASSUME IInv, Reading, NEW s, s = call.s, NEW hr, NEW len \in Nat, NEW skip \in Nat,
         len + skip <= Len(Reader.read_buf), Takes(hr, len, skip)
  PROVE  Gave(s, hr, len, skip)
<1>1. /\ s \in Streams /\ \E t \in StreamType :
        t = Reader /\ t = stream[s] /\ CallOK(call, t) /\ call.m # "none"
  BY ReaderIs DEF Reader, CallType
<1>1a. PICK t \in StreamType : t = Reader /\ t = stream[s] /\ CallOK(call, t) /\ call.m # "none"
  BY <1>1
<1>2. PICK buf \in Seq(C), more \in Seq(C) :
        buf = t.read_buf /\ more = More(t) /\ RestOf(s) = buf \o more
  BY <1>1, <1>1a, RestIs
<1>3. PICK d \in Seq(C) : d = Drop(buf, len + skip)
  <2>1. len + skip \in Nat
    OBVIOUS
  <2>. QED
    BY <2>1, DropType
<1>4. PICK v : v = [t EXCEPT !.read_buf = d]
  OBVIOUS
<1>5. stream' = [stream EXCEPT ![s] = v] /\ content' = content
      /\ answer' = Answer(s, call.m, call.n, hr, SubSeq(buf, 1, len))
  BY <1>1, <1>1a, <1>2, <1>3, <1>4 DEF Takes, Returns
<1>6. stream'[s] = v
  BY <1>1, <1>5 DEF IInv
<1>7. /\ v.file = t.file /\ v.mode = t.mode /\ v.error = t.error /\ v.eof = t.eof /\ v.unicode = t.unicode
      /\ v.pos = t.pos /\ v.ahead = t.ahead /\ v.read_buf = d
  BY <1>4 DEF StreamType
<1>8. RestOf(s)' = d \o more
  <2>1. RestOf(s)' = IF t.eof THEN d ELSE d \o DecodeBlocks(Left(t), t.unicode)
    BY <1>5, <1>6, <1>7 DEF RestOf, Left
  <2>2. CASE t.eof
    <3>1. more = <<>> /\ RestOf(s)' = d
      BY <1>2, <2>1, <2>2 DEF More
    <3>. QED
      BY <3>1, Nothing
  <2>3. CASE ~t.eof
    <3>1. more = DecodeBlocks(Left(t), t.unicode)
      BY <1>2, <2>3 DEF More
    <3>. QED
      BY <2>1, <2>3, <3>1
  <2>. QED
    BY <2>2, <2>3
<1>9. /\ SubSeq(RestOf(s), 1, len) = SubSeq(buf, 1, len)
      /\ SubSeq(RestOf(s), (len + skip) + 1, Len(RestOf(s))) = d \o more
  <2>1. len + skip \in Nat /\ len <= len + skip /\ len + skip <= Len(buf) /\ len <= Len(buf)
    <3>1. Len(buf) \in Nat /\ len + skip <= Len(buf)
      BY <1>1, <1>1a, <1>2, LenProperties
    <3>. QED
      BY <3>1
  <2>2. SubSeq(buf \o more, 1, len) = SubSeq(buf, 1, len)
    BY <2>1, TakeRest
  <2>3. SubSeq(buf \o more, (len + skip) + 1, Len(buf \o more)) = Drop(buf, len + skip) \o more
    BY <2>1, TakeRest
  <2>. QED
    BY <1>2, <1>3, <2>2, <2>3
<1>10. AnswerTo(s)' = [m |-> call.m, n |-> call.n, hr |-> hr, text |-> SubSeq(RestOf(s), 1, len)]
  BY <1>1, <1>1a, <1>5, <1>9 DEF AnswerTo, Answer
<1>11. TextOf(s)!Gives(call.m, call.n, hr, len, skip)
  BY <1>8, <1>9, <1>10 DEF TextOf!Gives, TextOf!From, AnswerTo, NoAnswer
<1>12. Live(s) /\ Live(s)'
  BY <1>1, <1>1a, <1>6, <1>7 DEF CallOK, Live, CanRead
<1>13. content' = content /\ stream'[s].error = stream[s].error
  BY <1>1a, <1>5, <1>6, <1>7
<1>14. AnswerTo(s)'.n = call.n
  BY <1>10
<1>. QED
  BY <1>11, <1>12, <1>13, <1>14 DEF Gave

\* Such an answer is a step of TextReading if it is one of its reads.
LEMMA GaveAnswers ==
  ASSUME NEW s \in Streams, NEW hr, NEW len, NEW skip, Gave(s, hr, len, skip),
         TextOf(s)!Read(call.n) \/ TextOf(s)!ReadLine \/ TextOf(s)!ReadAll
  PROVE  TextOf(s)!Next
<1>1. Live(s) /\ Live(s)' /\ content' = content /\ stream'[s].error = stream[s].error /\ AnswerTo(s)'.n = call.n
  BY DEF Gave
<1>2. TextOf(s)!Read(AnswerTo(s)'.n) \/ TextOf(s)!ReadLine \/ TextOf(s)!ReadAll
  BY <1>1
<1>. QED
  BY <1>1, <1>2, Answered

\* The call in progress has its text: the end was seen and all that is left is in the
\* buffer, or the buffer holds what was asked for.
HasText(s, buf, rest) ==
  /\ buf \in Seq(C) /\ rest \in Seq(C) /\ rest = RestOf(s) /\ buf = Reader.read_buf
  /\ Len(buf) <= Len(rest) /\ \A i \in 1..Len(buf) : rest[i] = buf[i]
  /\ Reader.eof => rest = buf
  /\ Reader.eof \/ Enough(Reader, call.m, call.n)

\* A call that fetches no more has its text.
LEMMA FetchedText ==
  ASSUME IInv, Fetched, NEW s, s = call.s
  PROVE  s \in Streams /\ call \in CallType /\ \E buf, rest : HasText(s, buf, rest)
<1>1. s \in Streams /\ call \in CallType /\ \E t \in StreamType : t = Reader /\ t = stream[s]
  BY ReaderIs DEF Fetched, Reader
<1>2. PICK t \in StreamType : t = Reader /\ t = stream[s]
  BY <1>1
<1>3. PICK buf \in Seq(C), more \in Seq(C), rest \in Seq(C) :
        buf = t.read_buf /\ more = More(t) /\ rest = RestOf(s) /\ rest = buf \o more
  <2>1. PICK buf \in Seq(C), more \in Seq(C) : buf = t.read_buf /\ more = More(t) /\ RestOf(s) = buf \o more
    BY <1>1, <1>2, RestIs
  <2>2. buf \o more \in Seq(C)
    BY Concats
  <2>. QED
    BY <2>1, <2>2
<1>4. PICK m \in Nat, n \in Nat : m = Len(buf) /\ n = Len(more)
  BY LenProperties
<1>5. Len(rest) = m + n /\ \A i \in 1..m : rest[i] = buf[i]
  <2>1. Len(buf \o more) = Len(buf) + Len(more) /\ \A i \in 1..Len(buf) : (buf \o more)[i] = buf[i]
    BY <1>4, ConcatProperties
  <2>. QED
    BY <1>3, <1>4, <2>1
<1>6. Len(buf) <= Len(rest) /\ \A i \in 1..Len(buf) : rest[i] = buf[i]
  BY <1>4, <1>5
<1>7. t.eof => rest = buf
  BY <1>1, <1>2, <1>3 DEF RestOf
<1>8. t.eof \/ Enough(t, call.m, call.n)
  BY <1>2 DEF Fetched, Fetches
<1>9. HasText(s, buf, rest)
  BY <1>2, <1>3, <1>6, <1>7, <1>8 DEF HasText
<1>. QED
  BY <1>1, <1>9

\* CTL_E_ENDOFFILE is answered only when nothing is left.
LEMMA EndAnswers ==
  ASSUME IInv, EndOfFile, NEW s, s = call.s
  PROVE  TextOf(s)!Next
<1>1. PICK buf, rest : HasText(s, buf, rest)
  BY FetchedText DEF EndOfFile
<1>2. s \in Streams /\ call \in CallType /\ Reading
  BY FetchedText DEF EndOfFile, Fetched
<1>3. buf = <<>> /\ rest = <<>> /\ Len(buf) = 0
  BY <1>1, EmptySeq DEF HasText, EndOfFile
<1>4. Gave(s, "CTL_E_ENDOFFILE", 0, 0)
  <2>1. 0 \in Nat /\ 0 + 0 <= Len(Reader.read_buf) /\ Takes("CTL_E_ENDOFFILE", 0, 0)
    BY <1>1, <1>3 DEF EndOfFile, HasText
  <2>. QED
    BY <1>2, <2>1, TakesGives
<1>5. TextOf(s)!Gives(call.m, call.n, "CTL_E_ENDOFFILE", 0, 0) /\ RestOf(s) = <<>>
  BY <1>1, <1>3, <1>4 DEF Gave, HasText
<1>6. TextOf(s)!AtTheEnd(call.m, call.n)
  BY <1>5 DEF TextOf!AtTheEnd
<1>7. \/ call.m = "Read"
      \/ call.m = "ReadLine" /\ call.n = 0
      \/ call.m = "ReadAll" /\ call.n = 0
  BY <1>2 DEF CallType
<1>8. TextOf(s)!Read(call.n) \/ TextOf(s)!ReadLine \/ TextOf(s)!ReadAll
  BY <1>6, <1>7 DEF TextOf!Read, TextOf!ReadLine, TextOf!ReadAll
<1>. QED
  BY <1>2, <1>4, <1>8, GaveAnswers

\* Read answers with as many characters as it was asked for, or with all there are.
LEMMA ReadTextAnswers ==
  ASSUME IInv, ReadText, NEW s, s = call.s
  PROVE  TextOf(s)!Next
<1>0. Fetched /\ call.m = "Read" /\ Reader.read_buf # <<>>
  BY DEF ReadText, Some
<1>1. PICK buf, rest : HasText(s, buf, rest)
  BY <1>0, FetchedText
<1>2. s \in Streams /\ call \in CallType /\ Reading /\ call.n \in Nat
  BY <1>0, FetchedText DEF Fetched, CallType
<1>3. PICK m \in Nat, n \in Nat : m = Len(buf) /\ n = Len(rest) /\ m <= n
  BY <1>1, LenProperties DEF HasText
<1>4. rest = RestOf(s) /\ buf = Reader.read_buf
  BY <1>1 DEF HasText
<1>5. rest # <<>>
  <2>1. CASE rest = <<>>
    <3>1. m = 0
      BY <1>3, <2>1, EmptySeq
    <3>2. buf = <<>>
      BY <1>1, <1>3, <3>1, EmptySeq DEF HasText
    <3>. QED
      BY <1>0, <1>4, <3>2
  <2>. QED
    BY <2>1
<1>6. CASE call.n <= m
  <2>1. Takes("S_OK", call.n, 0)
    BY <1>3, <1>4, <1>6 DEF ReadText
  <2>2. Gave(s, "S_OK", call.n, 0)
    <3>1. 0 \in Nat /\ call.n + 0 <= Len(Reader.read_buf)
      BY <1>2, <1>3, <1>4, <1>6
    <3>. QED
      BY <1>2, <2>1, <3>1, TakesGives
  <2>3. call.n <= n /\ TextOf(s)!Least(call.n, n) = call.n
    BY <1>2, <1>3, <1>6 DEF TextOf!Least
  <2>4. TextOf(s)!Gives("Read", call.n, "S_OK", call.n, 0)
    BY <1>0, <2>2 DEF Gave
  <2>5. TextOf(s)!Read(call.n)
    BY <1>3, <1>4, <1>5, <2>3, <2>4 DEF TextOf!Read
  <2>. QED
    BY <1>2, <2>2, <2>5, GaveAnswers
<1>7. CASE ~(call.n <= m)
  <2>1. Takes("S_FALSE", m, 0)
    BY <1>3, <1>4, <1>7 DEF ReadText
  <2>2. Gave(s, "S_FALSE", m, 0)
    <3>1. 0 \in Nat /\ m + 0 <= Len(Reader.read_buf)
      BY <1>3, <1>4
    <3>. QED
      BY <1>2, <2>1, <3>1, TakesGives
  <2>3. m = n /\ ~(call.n <= n)
    <3>1. Reader.eof
      BY <1>0, <1>1, <1>3, <1>4, <1>7 DEF HasText, Enough
    <3>. QED
      BY <1>1, <1>3, <1>7, <3>1 DEF HasText
  <2>3a. TextOf(s)!Least(call.n, n) = n
    BY <1>2, <1>3, <2>3 DEF TextOf!Least
  <2>4. TextOf(s)!Gives("Read", call.n, "S_FALSE", n, 0)
    BY <1>0, <2>2, <2>3 DEF Gave
  <2>5. TextOf(s)!Read(call.n)
    BY <1>3, <1>4, <1>5, <2>3, <2>3a, <2>4 DEF TextOf!Read
  <2>. QED
    BY <1>2, <2>2, <2>5, GaveAnswers
<1>. QED
  BY <1>6, <1>7

\* ReadAll answers with all there are.
LEMMA ReadAllAnswers ==
  ASSUME IInv, ReadAll, NEW s, s = call.s
  PROVE  TextOf(s)!Next
<1>0. Fetched /\ call.m = "ReadAll" /\ Reader.read_buf # <<>>
  BY DEF ReadAll, Some
<1>1. PICK buf, rest : HasText(s, buf, rest)
  BY <1>0, FetchedText
<1>2. s \in Streams /\ call \in CallType /\ Reading /\ call.n = 0
  BY <1>0, FetchedText DEF Fetched, CallType
<1>3. rest = buf /\ rest = RestOf(s) /\ buf = Reader.read_buf /\ buf \in Seq(C)
  <2>1. Reader.eof
    BY <1>0, <1>1 DEF HasText, Enough
  <2>. QED
    BY <1>1, <2>1 DEF HasText
<1>4. PICK m \in Nat : m = Len(buf)
  BY <1>3, LenProperties
<1>5. Takes("S_FALSE", m, 0)
  BY <1>3, <1>4 DEF ReadAll
<1>6. Gave(s, "S_FALSE", m, 0)
  <2>1. 0 \in Nat /\ m + 0 <= Len(Reader.read_buf)
    BY <1>3, <1>4
  <2>. QED
    BY <1>2, <1>5, <2>1, TakesGives
<1>7. TextOf(s)!Gives("ReadAll", 0, "S_FALSE", Len(RestOf(s)), 0) /\ RestOf(s) # <<>>
  BY <1>0, <1>2, <1>3, <1>4, <1>6 DEF Gave
<1>8. TextOf(s)!ReadAll
  BY <1>7 DEF TextOf!ReadAll
<1>. QED
  BY <1>2, <1>6, <1>8, GaveAnswers

\* ReadLine answers with the characters before the first line feed, or with all there are.
LEMMA ReadLineAnswers ==
  ASSUME IInv, ReadLine, NEW s, s = call.s
  PROVE  TextOf(s)!Next
<1>0. Fetched /\ call.m = "ReadLine" /\ Reader.read_buf # <<>>
  BY DEF ReadLine, Some
<1>1. PICK buf, rest : HasText(s, buf, rest)
  BY <1>0, FetchedText
<1>2. s \in Streams /\ call \in CallType /\ Reading /\ call.n = 0
  BY <1>0, FetchedText DEF Fetched, CallType
<1>3. rest = RestOf(s) /\ buf = Reader.read_buf /\ buf \in Seq(C) /\ rest \in Seq(C)
  BY <1>1 DEF HasText
<1>4. PICK m \in Nat, n \in Nat : m = Len(buf) /\ n = Len(rest) /\ m <= n
  BY <1>1, LenProperties DEF HasText
<1>5. PICK nl \in Nat : nl = NextLF(buf) /\ nl <= m
  BY <1>3, <1>4, NextLine
<1>6. /\ nl = 0 => \A i \in 1..m : buf[i] # "LF"
      /\ nl > 0 => buf[nl] = "LF" /\ \A j \in 1..nl - 1 : buf[j] # "LF"
  BY <1>3, <1>4, <1>5, NextLine
<1>7. \A i \in 1..m : rest[i] = buf[i]
  BY <1>1, <1>4 DEF HasText
<1>8. CASE nl = 0
  <2>1. Reader.eof
    <3>1. Range(buf) = {buf[i] : i \in 1..m}
      BY <1>3, <1>4, LenProperties DEF Range
    <3>2. ~HasLine(Reader)
      BY <1>3, <1>6, <1>8, <3>1 DEF HasLine
    <3>. QED
      BY <1>0, <1>1, <3>2 DEF HasText, Enough
  <2>2. rest = buf /\ m = n
    BY <1>1, <1>4, <2>1 DEF HasText
  <2>3. Takes("S_FALSE", m, 0)
    BY <1>3, <1>4, <1>5, <1>8 DEF ReadLine, NextLF
  <2>4. Gave(s, "S_FALSE", m, 0)
    <3>1. 0 \in Nat /\ m + 0 <= Len(Reader.read_buf)
      BY <1>3, <1>4
    <3>. QED
      BY <1>2, <2>3, <3>1, TakesGives
  <2>5. TextOf(s)!Gives("ReadLine", 0, "S_FALSE", Len(RestOf(s)), 0) /\ RestOf(s) # <<>>
    BY <1>0, <1>2, <1>3, <1>4, <2>2, <2>4 DEF Gave
  <2>6. TextOf(s)!LineEnds = {}
    BY <1>3, <1>4, <1>6, <1>8, <2>2 DEF TextOf!LineEnds
  <2>7. TextOf(s)!ReadLine
    BY <2>5, <2>6 DEF TextOf!ReadLine
  <2>. QED
    BY <1>2, <2>4, <2>7, GaveAnswers
<1>9. CASE nl > 0
  <2>1. rest[nl] = "LF" /\ \A j \in 1..nl - 1 : rest[j] # "LF"
    BY <1>5, <1>6, <1>7, <1>9
  <2>2. nl \in TextOf(s)!LineEnds
    BY <1>3, <1>4, <1>5, <1>9, <2>1 DEF TextOf!LineEnds
  <2>3. CASE nl > 1 /\ buf[nl - 1] = "CR"
    <3>1. Takes("S_OK", nl - 2, 2)
      BY <1>3, <1>5, <2>3 DEF ReadLine, NextLF
    <3>2. nl - 2 \in Nat /\ 2 \in Nat /\ (nl - 2) + 2 <= Len(Reader.read_buf)
      BY <1>3, <1>4, <1>5, <2>3
    <3>3. Gave(s, "S_OK", nl - 2, 2)
      BY <1>2, <3>1, <3>2, TakesGives
    <3>4. TextOf(s)!LineLength(nl) = nl - 2 /\ nl - (nl - 2) = 2
      BY <1>3, <1>5, <1>7, <2>3 DEF TextOf!LineLength
    <3>5. TextOf(s)!Gives("ReadLine", 0, "S_OK", TextOf(s)!LineLength(nl), nl - TextOf(s)!LineLength(nl))
      BY <1>0, <1>2, <3>3, <3>4 DEF Gave
    <3>6. TextOf(s)!ReadLine
      BY <2>2, <3>5 DEF TextOf!ReadLine
    <3>. QED
      BY <1>2, <3>3, <3>6, GaveAnswers
  <2>4. CASE ~(nl > 1 /\ buf[nl - 1] = "CR")
    <3>1. Takes("S_OK", nl - 1, 1)
      BY <1>3, <1>5, <1>9, <2>4 DEF ReadLine, NextLF
    <3>2. nl - 1 \in Nat /\ 1 \in Nat /\ (nl - 1) + 1 <= Len(Reader.read_buf)
      BY <1>3, <1>4, <1>5, <1>9
    <3>3. Gave(s, "S_OK", nl - 1, 1)
      BY <1>2, <3>1, <3>2, TakesGives
    <3>4. TextOf(s)!LineLength(nl) = nl - 1 /\ nl - (nl - 1) = 1
      <4>1. ~(nl > 1 /\ rest[nl - 1] = "CR")
        <5>1. nl > 1 => nl - 1 \in 1..m
          BY <1>5
        <5>. QED
          BY <1>7, <2>4, <5>1
      <4>2. ~(nl > 1 /\ RestOf(s)[nl - 1] = "CR")
        BY <1>3, <4>1
      <4>3. TextOf(s)!LineLength(nl) = nl - 1
        BY <4>2 DEF TextOf!LineLength
      <4>. QED
        BY <4>3
    <3>5. TextOf(s)!Gives("ReadLine", 0, "S_OK", TextOf(s)!LineLength(nl), nl - TextOf(s)!LineLength(nl))
      BY <1>0, <1>2, <3>3, <3>4 DEF Gave
    <3>6. TextOf(s)!ReadLine
      BY <2>2, <3>5 DEF TextOf!ReadLine
    <3>. QED
      BY <1>2, <3>3, <3>6, GaveAnswers
  <2>. QED
    BY <2>3, <2>4
<1>. QED
  BY <1>8, <1>9

\* A block that is read moves text from the file into the buffer: what is left is
\* the same, and stays it when the block is short and the end is seen.
LEMMA BlockHidden ==
  ASSUME IInv, read_more_data, NEW s, s = call.s
  PROVE  TextOf(s)!Next
<1>0. Reading /\ Reader = stream[call.s]
  BY DEF read_more_data, Reader
<1>1. /\ s \in Streams
      /\ \E t \in StreamType : t = Reader /\ t = stream[s] /\ CallOK(call, t) /\ Fetches(t, call.m, call.n)
  BY <1>0, ReaderIs DEF read_more_data, Reader
<1>2. PICK t \in StreamType : t = Reader /\ t = stream[s] /\ CallOK(call, t) /\ Fetches(t, call.m, call.n)
  BY <1>1
<1>3. content \in Seq(C) /\ t.unicode \in BOOLEAN /\ B \in Nat /\ ~t.eof
  BY <1>2, SizesAssumption DEF IInv, Disk, StreamType, Fetches, B
<1>4. PICK f : f = Fread(t, B)
  OBVIOUS
<1>5. Reads(Left(t), B, f.data, f.ahead \o Drop(content, f.pos))
  BY <1>3, <1>4, FreadIs
<1>6. PICK after : after = f.ahead \o Drop(content, f.pos)
  OBVIOUS
<1>7. PICK first \in Seq(C), later \in Seq(C) :
        /\ first = Decode(f.data, t.unicode) /\ later = DecodeBlocks(after, t.unicode)
        /\ DecodeBlocks(Left(t), t.unicode) = first \o later
        /\ Len(f.data) # B => DecodeBlocks(Left(t), t.unicode) = first
  <2>1. Reads(Left(t), B, f.data, after)
    BY <1>5, <1>6
  <2>. QED
    BY <1>3, <2>1, NextBlock
<1>8. PICK buf \in Seq(C) : buf = t.read_buf
  BY DEF StreamType
<1>9. PICK v : v = [t EXCEPT !.pos = f.pos, !.ahead = f.ahead, !.eof = (Len(f.data) # B), !.read_buf = buf \o first]
  OBVIOUS
<1>10. stream' = [stream EXCEPT ![s] = v] /\ UNCHANGED content /\ answer' = NoAnswer
  <2>1. stream' = [stream EXCEPT ![call.s] =
          [Reader EXCEPT !.pos = f.pos, !.ahead = f.ahead, !.eof = SeesEnd(f.data, BlockSize),
                         !.read_buf = @ \o Decode(f.data, Reader.unicode)]]
    BY <1>2, <1>4 DEF read_more_data, B
  <2>2. [t EXCEPT !.pos = f.pos, !.ahead = f.ahead, !.eof = SeesEnd(f.data, BlockSize),
                  !.read_buf = @ \o Decode(f.data, t.unicode)] = v
    BY <1>7, <1>8, <1>9 DEF SeesEnd, B
  <2>3. UNCHANGED content /\ answer' = NoAnswer
    BY DEF read_more_data
  <2>. QED
    BY <1>2, <2>1, <2>2, <2>3
<1>11. stream'[s] = v
  BY <1>1, <1>10 DEF IInv
<1>12. /\ v.file = t.file /\ v.mode = t.mode /\ v.error = t.error /\ v.unicode = t.unicode
       /\ v.pos = f.pos /\ v.ahead = f.ahead /\ v.read_buf = buf \o first /\ v.eof = (Len(f.data) # B)
  BY <1>9 DEF StreamType
<1>13. RestOf(s) = buf \o (first \o later)
  BY <1>2, <1>3, <1>7, <1>8 DEF RestOf
<1>14. RestOf(s)' = IF v.eof THEN buf \o first ELSE (buf \o first) \o later
  <2>1. RestOf(s)' = IF v.eof THEN v.read_buf ELSE v.read_buf \o DecodeBlocks(Left(v), v.unicode)
    BY <1>10, <1>11 DEF RestOf, Left
  <2>2. Left(v) = after
    BY <1>6, <1>12 DEF Left
  <2>. QED
    BY <1>7, <1>12, <2>1, <2>2
<1>15. RestOf(s)' = RestOf(s)
  <2>1. CASE v.eof
    <3>1. first \o later = first
      BY <1>7, <1>12, <2>1
    <3>. QED
      BY <1>13, <1>14, <2>1, <3>1
  <2>2. CASE ~v.eof
    <3>1. (buf \o first) \o later = buf \o (first \o later)
      BY ConcatAssociative
    <3>. QED
      BY <1>13, <1>14, <2>2, <3>1
  <2>. QED
    BY <2>1, <2>2
<1>16. AnswerTo(s)' = NoAnswer
  BY <1>10, NoAnswers
<1>17. TextOf(s)!Silent
  BY <1>15, <1>16 DEF TextOf!Silent, TextOf!NoAnswer, NoAnswer, AnswerTo
<1>18. Live(s) /\ Live(s)' /\ stream'[s].error = stream[s].error
  BY <1>2, <1>11, <1>12 DEF Live, CallOK, CanRead
<1>. QED
  BY <1>1, <1>10, <1>17, <1>18, Answered

\* A handle with an error fails to read, and its block is lost.
LEMMA FailureShown ==
  ASSUME IInv, ReadFails, NEW s, s = call.s
  PROVE  TextOf(s)!Next
<1>0. Reading /\ Reader = stream[call.s]
  BY DEF ReadFails, Reader
<1>1. /\ s \in Streams /\ call.m # "none"
      /\ \E t \in StreamType : t = Reader /\ t = stream[s] /\ CallOK(call, t) /\ t.error
  BY <1>0, ReaderIs DEF ReadFails, Reader, CallType
<1>2. PICK t \in StreamType : t = Reader /\ t = stream[s] /\ CallOK(call, t) /\ t.error
  BY <1>1
<1>3. PICK f : f = Fread(t, BlockSize)
  OBVIOUS
<1>4. PICK v : v = [t EXCEPT !.pos = f.pos, !.ahead = f.ahead]
  OBVIOUS
<1>5. /\ stream' = [stream EXCEPT ![s] = v] /\ UNCHANGED content
      /\ answer' = Answer(s, call.m, call.n, "E_FAIL", <<>>)
  BY <1>2, <1>3, <1>4 DEF ReadFails, Returns
<1>6. stream'[s] = v /\ v.file = t.file /\ v.mode = t.mode /\ v.error = t.error
  BY <1>1, <1>4, <1>5 DEF IInv, StreamType
<1>7. Live(s) /\ Live(s)' /\ stream'[s].error = stream[s].error
  BY <1>2, <1>6 DEF Live, CallOK, CanRead
<1>8. TextOf(s)!Fails
  BY <1>1, <1>2, <1>5 DEF TextOf!Fails, Answer
<1>. QED
  BY <1>1, <1>5, <1>7, <1>8, Answered

\* AtEndOfStream is true only when nothing is left.
LEMMA EndOfStreamAnswers ==
  ASSUME IInv, NEW s \in Streams, get_AtEndOfStream(s)
  PROVE  TextOf(s)!Next
<1>1. PICK hr : hr = IF stream[s].eof /\ stream[s].read_buf = <<>> THEN "True" ELSE "False"
  OBVIOUS
<1>2. /\ Live(s) /\ stream' = stream /\ content' = content
      /\ answer' = Answer(s, "AtEndOfStream", 0, hr, <<>>)
  BY <1>1 DEF get_AtEndOfStream, Calls, Returns, Live
<1>3. RestOf(s)' = RestOf(s) /\ Live(s)' /\ stream'[s].error = stream[s].error
  BY <1>2 DEF RestOf, Left, Live
<1>4. hr = "True" => RestOf(s) = <<>>
  BY <1>1 DEF RestOf
<1>5. TextOf(s)!AtEndOfStream
  BY <1>2, <1>3, <1>4 DEF TextOf!AtEndOfStream, Answer
<1>. QED
  BY <1>2, <1>3, <1>5, Answered

\* Nobody reads a stream that was not read: it is opened for reading, or is idle.
LEMMA NotRead ==
  ASSUME NEW s \in Streams, ~Live(s)
  PROVE  TextOf(s)!Next
  BY DEF TextOf!Next, TextOf!Idles, TextOf!Opens, Live

\* A step of one stream changes that stream only, and answers to its own caller.
StepOf(r) == /\ \E v : stream' = [stream EXCEPT ![r] = v]
             /\ answer' = NoAnswer \/ answer'.s = r

\* So a step is a step of every text if it is one of its own stream's.
LEMMA OtherStreams ==
  ASSUME IInv, NEW r \in Streams, NEW s \in Streams, StepOf(r), s = r => TextOf(s)!Next
  PROVE  TextOf(s)!Next
<1>1. CASE s # r
  <2>1. stream'[s] = stream[s]
    BY <1>1 DEF IInv, StepOf
  <2>2. AnswerTo(s)' = NoAnswer
    BY <1>1, NoAnswers DEF StepOf
  <2>. QED
    BY <2>1, <2>2, Unaffected
<1>. QED
  BY <1>1

\* A step that touches no stream changes no text.
LEMMA AllStay ==
  ASSUME NEW s \in Streams, stream' = stream, answer' = NoAnswer
  PROVE  TextOf(s)!Next
<1>1. AnswerTo(s)' = NoAnswer
  BY NoAnswers
<1>. QED
  BY <1>1, Unaffected

\* Every step of a call that reads is a step of the text.
LEMMA ReadStepIsText ==
  ASSUME IInv, ReadStep, NEW s \in Streams
  PROVE  TextOf(s)!Next
<1>1. Reading
  BY DEF ReadStep, read_more_data, ReadFails, EndOfFile, ReadText, ReadLine, ReadAll, Some, Fetched
<1>2. PICK r \in Streams : r = call.s
  BY <1>1, ReaderIs
<1>3. TextOf(r)!Next
  BY <1>2, EndAnswers, ReadTextAnswers, ReadLineAnswers, ReadAllAnswers, BlockHidden, FailureShown DEF ReadStep
<1>4. StepOf(r)
  <2>1. ASSUME NEW hr, NEW len, NEW skip, Takes(hr, len, skip) PROVE StepOf(r)
    <3>1. answer'.s = r
      BY <1>2, <2>1 DEF Takes, Returns, Answer
    <3>2. \E v : stream' = [stream EXCEPT ![r] = v]
      BY <1>2, <2>1 DEF Takes
    <3>. QED
      BY <3>1, <3>2 DEF StepOf
  <2>2. CASE read_more_data
    <3>1. answer' = NoAnswer
      BY <2>2 DEF read_more_data
    <3>2. \E v : stream' = [stream EXCEPT ![r] = v]
      BY <1>2, <2>2 DEF read_more_data
    <3>. QED
      BY <3>1, <3>2 DEF StepOf
  <2>3. CASE ReadFails
    <3>1. answer'.s = r
      BY <1>2, <2>3 DEF ReadFails, Returns, Answer
    <3>2. \E v : stream' = [stream EXCEPT ![r] = v]
      BY <1>2, <2>3 DEF ReadFails
    <3>. QED
      BY <3>1, <3>2 DEF StepOf
  <2>4. CASE EndOfFile
    BY <2>1, <2>4 DEF EndOfFile
  <2>5. CASE ReadText
    BY <2>1, <2>5 DEF ReadText
  <2>6. CASE ReadLine
    BY <2>1, <2>6 DEF ReadLine
  <2>7. CASE ReadAll
    BY <2>1, <2>7 DEF ReadAll
  <2>. QED
    BY <2>2, <2>3, <2>4, <2>5, <2>6, <2>7 DEF ReadStep
<1>. QED
  BY <1>3, <1>4, OtherStreams

\* So is every step that opens a stream,
LEMMA OpensIsText ==
  ASSUME IInv, NEW r \in Streams, Opens(r), NEW s \in Streams
  PROVE  TextOf(s)!Next
<1>1. PICK disposition \in Dispositions, mode \in Modes, unicode \in BOOLEAN :
        /\ mode = "ForReading" => disposition \in {"OPEN_ALWAYS", "OPEN_EXISTING"}
        /\ create_textstream(r, disposition, mode, unicode)
  BY OpensCreate DEF Creates
<1>2. PICK t \in StreamType, v \in StreamType : Created(r, disposition, mode, unicode, t, v)
  BY <1>1, CreatedStream
<1>3. stream' = [stream EXCEPT ![r] = v]
  BY <1>2 DEF Created
<1>4. answer' = NoAnswer /\ ~Live(r)
  BY <1>1 DEF create_textstream, Live
<1>5. StepOf(r)
  BY <1>3, <1>4 DEF StepOf
<1>. QED
  BY <1>4, <1>5, NotRead, OtherStreams

\* that writes,
LEMMA WriteIsText ==
  ASSUME IInv, NEW r \in Streams, NEW text \in Texts, Write(r, text) \/ WriteLine(r, text), NEW s \in Streams
  PROVE  TextOf(s)!Next
<1>1. ~Live(r)
  BY DEF Write, WriteLine, Live, CanRead, CanWrite
<1>2. PICK w, more : Writes(r, w, more)
  BY DEF Write, WriteLine
<1>3. StepOf(r)
  BY <1>2 DEF Writes, StepOf
<1>. QED
  BY <1>1, <1>3, NotRead, OtherStreams

\* The write of a stream that reads fails, and leaves its error on the handle.
LEMMA BlankIsText ==
  ASSUME IInv, NEW r \in Streams, WriteBlankLines(r), NEW s \in Streams
  PROVE  TextOf(s)!Next
<1>1. CASE CanWrite(stream[r])
  <2>1. ~Live(r)
    BY <1>1 DEF Live, CanRead, CanWrite
  <2>2. PICK w, more : Writes(r, w, more)
    BY <1>1 DEF WriteBlankLines
  <2>3. StepOf(r)
    BY <2>2 DEF Writes, StepOf
  <2>. QED
    BY <2>1, <2>3, NotRead, OtherStreams
<1>2. CASE ~CanWrite(stream[r])
  <2>1. PICK t \in StreamType : t = stream[r] /\ t.file = "open" /\ t.kind = "r" /\ CanRead(t)
    BY <1>2 DEF IInv, WriteBlankLines, MayWrite, Open, CanRead, CanWrite
  <2>2. PICK b : b = Encode(CRLF, t.unicode)
    OBVIOUS
  <2>3. PICK w \in WriteFile(content, t, b) :
          /\ stream' = [stream EXCEPT ![r] = w.stream] /\ UNCHANGED <<exists, content, call, history>>
          /\ answer' = Answer(r, "WriteBlankLines", 1, "E_FAIL", <<>>)
    BY <1>2, <2>1, <2>2 DEF WriteBlankLines
  <2>4. w = [disk |-> content, stream |-> [t EXCEPT !.error = TRUE], ok |-> FALSE, lost |-> FALSE]
    BY <2>1, <2>3 DEF WriteFile
  <2>5. PICK v : v = [t EXCEPT !.error = TRUE]
    OBVIOUS
  <2>6. stream' = [stream EXCEPT ![r] = v]
    BY <2>3, <2>4, <2>5
  <2>7. stream'[r] = v
    BY <2>6 DEF IInv
  <2>8. /\ v.file = t.file /\ v.mode = t.mode /\ v.unicode = t.unicode /\ v.eof = t.eof
        /\ v.read_buf = t.read_buf /\ v.pos = t.pos /\ v.ahead = t.ahead /\ v.error = TRUE
    BY <2>5 DEF StreamType
  <2>9. RestOf(r)' = RestOf(r)
    BY <2>1, <2>3, <2>7, <2>8 DEF RestOf, Left
  <2>10. Live(r) /\ Live(r)'
    BY <2>1, <2>7, <2>8 DEF Live, CanRead
  <2>11. TextOf(r)!Broken
    BY <2>1, <2>3, <2>7, <2>8, <2>9, <2>10 DEF TextOf!Broken, Live
  <2>12. StepOf(r)
    <3>1. answer'.s = r
      BY <2>3 DEF Answer
    <3>. QED
      BY <2>6, <3>1 DEF StepOf
  <2>. QED
    BY <2>11, <2>12, OtherStreams DEF TextOf!Next
<1>. QED
  BY <1>1, <1>2

\* A stream that reads has nothing to write when it is closed.
LEMMA CloseReader ==
  ASSUME content \in Disk, NEW t \in StreamType, t.out = <<>>, NEW w \in CloseHandle(t)
  PROVE  w.disk = content /\ \E v \in StreamType : v = w.stream /\ v.pos = t.pos /\ v.error = t.error /\ SameReader(v, t)
<1>1. Len(t.out) = 0 /\ ~(Len(t.out) > 0)
  BY EmptySeq
<1>2. Room(content, t) \in Nat
  BY RoomType
<1>3. DiskFull(content, t) = {} /\ CloseHandle(t) = {Flushed(content, t, 0)}
  BY <1>1, <1>2 DEF CloseHandle, DiskFull
<1>4. w = Flushed(content, t, 0)
  BY <1>3
<1>5. w.disk = content /\ w.stream = [t EXCEPT !.out = Drop(@, 0), !.pos = IF t.kind = "a+" THEN @ ELSE @ + 0]
  BY <1>4 DEF Flushed
<1>6. PICK v \in StreamType : v = w.stream /\ SameReader(v, t)
  BY CloseHandleType DEF Written
<1>7. v.pos = t.pos /\ v.error = t.error
  <2>1. PICK p \in Nat : p = t.pos /\ p + 0 = p
    BY DEF StreamType
  <2>1a. PICK d : d = Drop(t.out, 0)
    OBVIOUS
  <2>2. w.stream = [t EXCEPT !.out = d, !.pos = p]
    BY <1>5, <2>1, <2>1a
  <2>. QED
    BY <1>6, <2>1, <2>2 DEF StreamType
<1>. QED
  BY <1>5, <1>6, <1>7

\* Closing a stream that reads: the file and what is left to read stay as they are.
LEMMA CloseIsText ==
  ASSUME IInv, NEW r \in Streams, Calls(r), NEW after \in {"free", "null"}, Open(r), ClosedBy(r, after), NEW s \in Streams
  PROVE  TextOf(s)!Next
<1>1. PICK t \in StreamType : t = stream[r] /\ content \in Disk /\ StreamOK(t, exists) /\ t.file = "open"
  BY DEF IInv, Open
<1>2. PICK w \in CloseHandle(t) :
        /\ content' = w.disk
        /\ stream' = [stream EXCEPT ![r] = IF after = "free" THEN NoStream
                                           ELSE [w.stream EXCEPT !.file = after]]
  BY <1>1 DEF ClosedBy
<1>3. answer' = NoAnswer
  BY DEF ClosedBy
<1>4. StepOf(r)
  BY <1>2, <1>3 DEF StepOf
<1>5. CASE ~Live(r)
  BY <1>4, <1>5, NotRead, OtherStreams
<1>6. CASE Live(r) /\ after = "free"
  <2>1. stream'[r] = NoStream
    BY <1>2, <1>6 DEF IInv
  <2>2. TextOf(r)!Closes
    BY <1>6, <2>1 DEF TextOf!Closes, Live, NoStream
  <2>. QED
    BY <1>4, <2>2, OtherStreams DEF TextOf!Next
<1>7. CASE Live(r) /\ after = "null"
  <2>1. t.out = <<>>
    BY <1>1, <1>7 DEF StreamOK, Live, CanRead, CanWrite
  <2>2. w.disk = content /\ \E u \in StreamType : u = w.stream /\ u.pos = t.pos /\ u.error = t.error /\ SameReader(u, t)
    BY <1>1, <2>1, CloseReader
  <2>3. PICK u \in StreamType : u = w.stream /\ u.pos = t.pos /\ u.error = t.error /\ SameReader(u, t)
    BY <2>2
  <2>4. PICK v : v = [u EXCEPT !.file = "null"]
    OBVIOUS
  <2>5. stream' = [stream EXCEPT ![r] = v] /\ content' = content
    BY <1>2, <1>7, <2>2, <2>3, <2>4
  <2>6. stream'[r] = v
    BY <2>5 DEF IInv
  <2>7. /\ v.file = "null" /\ v.mode = t.mode /\ v.unicode = t.unicode /\ v.eof = t.eof
        /\ v.read_buf = t.read_buf /\ v.pos = t.pos /\ v.ahead = t.ahead /\ v.error = t.error
    BY <2>3, <2>4 DEF StreamType, SameReader
  <2>8. RestOf(r)' = RestOf(r)
    BY <1>1, <2>5, <2>6, <2>7 DEF RestOf, Left
  <2>9. Live(r)' /\ stream'[r].error = stream[r].error
    BY <1>1, <1>7, <2>6, <2>7 DEF Live, CanRead
  <2>10. AnswerTo(r)' = NoAnswer
    BY <1>3, NoAnswers
  <2>11. TextOf(r)!Silent
    BY <2>8, <2>10 DEF TextOf!Silent, TextOf!NoAnswer, NoAnswer, AnswerTo
  <2>12. TextOf(r)!Next
    BY <1>7, <2>5, <2>9, <2>11, Answered
  <2>. QED
    BY <1>4, <2>12, OtherStreams
<1>. QED
  BY <1>5, <1>6, <1>7

\* and that releases one.
LEMMA ReleaseIsText ==
  ASSUME IInv, NEW r \in Streams, Release(r), NEW s \in Streams
  PROVE  TextOf(s)!Next
<1>1. CASE Open(r)
  BY <1>1, CloseIsText DEF Release
<1>2. CASE ~Open(r)
  <2>1. stream' = [stream EXCEPT ![r] = NoStream] /\ answer' = NoAnswer
    BY <1>2 DEF Release
  <2>2. StepOf(r)
    BY <2>1 DEF StepOf
  <2>3. CASE ~Live(r)
    BY <2>2, <2>3, NotRead, OtherStreams
  <2>4. CASE Live(r)
    <3>1. stream'[r] = NoStream
      BY <2>1 DEF IInv
    <3>2. TextOf(r)!Closes
      BY <2>4, <3>1 DEF TextOf!Closes, Live, NoStream
    <3>. QED
      BY <2>2, <3>2, OtherStreams DEF TextOf!Next
  <2>. QED
    BY <2>3, <2>4
<1>. QED
  BY <1>1, <1>2

\* Every step is, for every stream, a step of a text that is read, or none.
LEMMA StepIsText ==
  ASSUME IInv, [Next]_vars, NEW s \in Streams
  PROVE  [TextOf(s)!Next]_(TextOf(s)!vars)
<1>1. CASE ReadStep
  BY <1>1, ReadStepIsText
<1>2. ASSUME NEW r \in Streams, Opens(r) PROVE TextOf(s)!Next
  BY <1>2, OpensIsText
<1>3. ASSUME NEW r \in Streams, BadFileMode(r) PROVE TextOf(s)!Next
  BY <1>3, AllStay DEF BadFileMode
<1>4. ASSUME NEW r \in Streams, BeginsReading(r) PROVE TextOf(s)!Next
  BY <1>4, AllStay DEF BeginsReading, BeginRead
<1>5. ASSUME NEW r \in Streams, get_AtEndOfStream(r) PROVE TextOf(s)!Next
  <2>1. answer'.s = r /\ stream' = stream
    BY <1>5 DEF get_AtEndOfStream, Returns, Answer
  <2>2. stream' = [stream EXCEPT ![r] = stream[r]]
    BY <2>1 DEF IInv
  <2>3. StepOf(r)
    BY <2>1, <2>2 DEF StepOf
  <2>. QED
    BY <1>5, <2>3, EndOfStreamAnswers, OtherStreams
<1>6. ASSUME NEW r \in Streams, NEW text \in Texts, Write(r, text) \/ WriteLine(r, text) PROVE TextOf(s)!Next
  BY <1>6, WriteIsText
<1>7. ASSUME NEW r \in Streams, WriteBlankLines(r) PROVE TextOf(s)!Next
  BY <1>7, BlankIsText
<1>8. ASSUME NEW r \in Streams, Close(r) PROVE TextOf(s)!Next
  BY <1>8, CloseIsText DEF Close
<1>9. ASSUME NEW r \in Streams, Release(r) PROVE TextOf(s)!Next
  BY <1>9, ReleaseIsText
<1>10. CASE UNCHANGED vars
  <2>1. UNCHANGED TextOf(s)!vars
    BY <1>10 DEF TextOf!vars, vars, RestOf, Left
  <2>. QED
    BY <2>1
<1>. QED
  BY <1>1, <1>2, <1>3, <1>4, <1>5, <1>6, <1>7, <1>8, <1>9, <1>10 DEF Next

\* Read, ReadLine, ReadAll and AtEndOfStream of every stream answer as TextReading says,
\* however the file's bytes fall into blocks, whatever was read ahead, and whatever
\* other streams do to the file between two blocks of one call.
THEOREM StreamsReadText == Spec => ReadsText
<1>1. Init => \A s \in Streams : TextOf(s)!Init
  BY InitReads
<1>2. IInv /\ [Next]_vars => [\A s \in Streams : [TextOf(s)!Next]_(TextOf(s)!vars)]_vars
  BY StepIsText
<1>. QED
  BY <1>1, <1>2, AlwaysIInv, PTL DEF Spec, ReadsText

-------------------------------------------------------------------------------
(* What is written is what is read back.                                     *)

\* A handle writes at the end of the file.
AtEndOf(t, disk) == t.kind = "a+" \/ t.pos = Len(disk)

\* The bytes of the file and of the handle's buffer are those of disk and of t's
\* buffer, and then the others; the handle still writes at the end.
Appended(w, disk, t, bytes) ==
  /\ w.disk \o w.stream.out = (disk \o t.out) \o bytes
  /\ AtEndOf(w.stream, w.disk)

\* Flushing moves bytes from the buffer to the end of the file.
LEMMA FlushedAppends ==
  ASSUME NEW disk \in Disk, NEW t \in StreamType, AtEndOf(t, disk), NEW j \in Nat, j <= Len(t.out)
  PROVE  Appended(Flushed(disk, t, j), disk, t, <<>>)
<1>1. PICK out \in Seq(C), m \in Nat : out = t.out /\ m = Len(out) /\ j <= m
  BY LenProperties DEF StreamType
<1>2. PICK k \in Nat : k = Len(disk) /\ k = At(disk, t) /\ disk \in Seq(C)
  BY LenProperties DEF At, AtEndOf, Disk
<1>3. PICK a \in Seq(C), d \in Seq(C) :
        a = SubSeq(out, 1, j) /\ d = Drop(out, j) /\ out = a \o d /\ Len(a) = j
  <2>1. /\ SubSeq(out, 1, j) \o SubSeq(out, j + 1, Len(out)) = out
        /\ SubSeq(out, 1, j) \in Seq(C) /\ Len(SubSeq(out, 1, j)) = j
        /\ SubSeq(out, j + 1, Len(out)) \in Seq(C)
    BY <1>1, Wholes
  <2>. QED
    BY <2>1 DEF Drop
<1>4. PICK f : f = Flushed(disk, t, j)
  OBVIOUS
<1>5. f.disk = disk \o a
  <2>1. f.disk = IF j = 0 THEN disk ELSE Put(disk, k, a)
    BY <1>1, <1>2, <1>3, <1>4 DEF Flushed
  <2>2. CASE j = 0
    <3>1. a = <<>>
      BY <1>3, <2>2, Nothing
    <3>. QED
      BY <1>2, <2>1, <2>2, <3>1, Nothing
  <2>3. CASE j # 0
    <3>1. Put(disk, k, a) = disk \o a
      BY <1>2, PutIs
    <3>. QED
      BY <2>1, <2>3, <3>1
  <2>. QED
    BY <2>2, <2>3
<1>6. PICK p \in Nat, q \in Nat : p = t.pos /\ q = (IF t.kind = "a+" THEN p ELSE p + j)
  BY DEF StreamType
<1>7. f.stream = [t EXCEPT !.out = d, !.pos = q]
  <2>1. f.stream = [t EXCEPT !.out = Drop(@, j), !.pos = IF t.kind = "a+" THEN @ ELSE @ + j]
    BY <1>4 DEF Flushed
  <2>. QED
    BY <1>1, <1>3, <1>6, <2>1 DEF StreamType
<1>8. f.stream.out = d /\ f.stream.pos = q /\ f.stream.kind = t.kind
  BY <1>7 DEF StreamType
<1>9. f.disk \o f.stream.out = (disk \o t.out) \o <<>>
  <2>1. (disk \o a) \o d = disk \o (a \o d)
    BY <1>2, ConcatAssociative
  <2>2. disk \o out \in Seq(C)
    BY <1>2, Concats
  <2>3. (disk \o out) \o <<>> = disk \o out
    BY <2>2, Nothing
  <2>. QED
    BY <1>1, <1>3, <1>5, <1>8, <2>1, <2>3
<1>10. AtEndOf(f.stream, f.disk)
  <2>1. CASE t.kind = "a+"
    BY <1>8, <2>1 DEF AtEndOf
  <2>2. CASE t.kind # "a+"
    <3>1. p = k
      BY <1>2, <1>6, <2>2 DEF AtEndOf
    <3>2. Len(disk \o a) = Len(disk) + Len(a)
      BY <1>2, Concats
    <3>3. q = Len(f.disk)
      BY <1>2, <1>3, <1>5, <1>6, <2>2, <3>1, <3>2
    <3>. QED
      BY <1>8, <3>3 DEF AtEndOf
  <2>. QED
    BY <2>1, <2>2
<1>. QED
  BY <1>4, <1>9, <1>10 DEF Appended

\* A result that lost bytes says so.
LEMMA FullLoses == \A disk, t : \A w \in DiskFull(disk, t) : w.lost = TRUE
<1>. SUFFICES ASSUME NEW disk, NEW t, NEW w \in DiskFull(disk, t) PROVE w.lost = TRUE
  OBVIOUS
<1>1. PICK f : f = Flushed(disk, t, Room(disk, t))
  OBVIOUS
<1>2. PICK b \in BOOLEAN : w = [f EXCEPT !.stream.out = <<>>, !.lost = TRUE, !.ok = b]
  BY <1>1 DEF DiskFull
<1>3. PICK x, y : f = [disk |-> x, stream |-> y, ok |-> TRUE, lost |-> FALSE]
  BY <1>1 DEF Flushed
<1>. QED
  BY <1>2, <1>3

\* WriteFile appends its bytes, unless it fails or loses some.
LEMMA WriteFileAppends ==
  ASSUME NEW disk \in Disk, NEW t \in StreamType, AtEndOf(t, disk), NEW bytes \in Seq(C),
         NEW w \in WriteFile(disk, t, bytes), w.ok, ~w.lost
  PROVE  Appended(w, disk, t, bytes)
<1>1. PICK out \in Seq(C), new \in Seq(C) : out = t.out /\ new = out \o bytes
  <2>1. t.out \in Seq(C)
    BY DEF StreamType
  <2>. QED
    BY <2>1, Concats
<1>2. PICK u \in StreamType : u = [t EXCEPT !.out = new]
  BY DEF StreamType
<1>3. u.out = new /\ u.kind = t.kind /\ u.pos = t.pos
  BY <1>2 DEF StreamType
<1>4. PICK n \in Nat : n = Len(u.out)
  BY <1>3, LenProperties
<1>5. PICK j : j = IF n <= BufferSize THEN 0 ELSE n - (n % BufferSize)
  OBVIOUS
<1>6. j \in Nat /\ j <= n
  <2>1. BufferSize \in Nat \ {0}
    BY SizesAssumption
  <2>2. n % BufferSize \in Nat /\ n % BufferSize < BufferSize
    BY <2>1
  <2>. QED
    BY <1>5, <2>1, <2>2
<1>7. t.kind # "r" /\ w \in (IF j <= Room(disk, u) THEN {Flushed(disk, u, j)} ELSE DiskFull(disk, u))
  <2>1. u = [t EXCEPT !.out = @ \o bytes]
    BY <1>1, <1>2
  <2>2. w \in IF t.kind = "r"
              THEN {[disk |-> disk, stream |-> [t EXCEPT !.error = TRUE], ok |-> FALSE, lost |-> FALSE]}
              ELSE IF j <= Room(disk, u) THEN {Flushed(disk, u, j)} ELSE DiskFull(disk, u)
    BY <1>4, <1>5, <2>1 DEF WriteFile
  <2>3. t.kind # "r"
    BY <2>2
  <2>. QED
    BY <2>2, <2>3
<1>8. w = Flushed(disk, u, j)
  BY <1>7, FullLoses
<1>9. AtEndOf(u, disk)
  BY <1>3 DEF AtEndOf
<1>10. Appended(w, disk, u, <<>>)
  BY <1>4, <1>6, <1>8, <1>9, FlushedAppends
<1>11. (disk \o u.out) \o <<>> = (disk \o t.out) \o bytes
  <2>1. disk \in Seq(C) /\ disk \o new \in Seq(C)
    <3>1. disk \in Seq(C)
      BY DEF Disk
    <3>. QED
      BY <3>1, Concats
  <2>2. (disk \o new) \o <<>> = disk \o new
    BY <2>1, Nothing
  <2>3. disk \o (out \o bytes) = (disk \o out) \o bytes
    BY <2>1, ConcatAssociative
  <2>. QED
    BY <1>1, <1>3, <2>2, <2>3
<1>. QED
  BY <1>10, <1>11 DEF Appended

\* So do two, one after the other.
LEMMA WriteFilesAppends ==
  ASSUME NEW disk \in Disk, NEW t \in StreamType, AtEndOf(t, disk), NEW first \in Seq(C), NEW second \in Seq(C),
         NEW w \in WriteFiles(disk, t, first, second), w.ok, ~w.lost
  PROVE  Appended(w, disk, t, first \o second)
<1>1. PICK x \in WriteFile(disk, t, first) :
        w \in IF x.ok THEN {[v EXCEPT !.lost = @ \/ x.lost] : v \in WriteFile(x.disk, x.stream, second)} ELSE {x}
  BY DEF WriteFiles
<1>2. x \in Written(t) /\ x.disk \in Disk /\ x.stream \in StreamType
  BY WriteFileType DEF Written
<1>3. x.ok
  BY <1>1
<1>4. PICK v \in WriteFile(x.disk, x.stream, second) : w = [v EXCEPT !.lost = @ \/ x.lost]
  BY <1>1, <1>3
<1>5. v \in Written(x.stream)
  BY <1>2, WriteFileType
<1>6. w.disk = v.disk /\ w.stream = v.stream /\ w.ok = v.ok /\ w.lost = (v.lost \/ x.lost)
  BY <1>4, <1>5 DEF Written
<1>7. ~x.lost /\ ~v.lost /\ v.ok
  BY <1>6
<1>8. Appended(x, disk, t, first)
  BY <1>3, <1>7, WriteFileAppends
<1>9. Appended(v, x.disk, x.stream, second)
  BY <1>2, <1>7, <1>8, WriteFileAppends DEF Appended
<1>10. ((disk \o t.out) \o first) \o second = (disk \o t.out) \o (first \o second)
  <2>1. disk \in Seq(C) /\ t.out \in Seq(C)
    BY DEF Disk, StreamType
  <2>2. disk \o t.out \in Seq(C)
    BY <2>1, Concats
  <2>3. PICK y \in Seq(C) : y = disk \o t.out
    BY <2>2
  <2>4. (y \o first) \o second = y \o (first \o second)
    BY ConcatAssociative
  <2>. QED
    BY <2>3, <2>4
<1>. QED
  BY <1>6, <1>8, <1>9, <1>10 DEF Appended

\* CloseHandle puts the buffer at the end of the file, unless it loses some of it.
LEMMA CloseAppends ==
  ASSUME content \in Disk, NEW t \in StreamType, AtEndOf(t, content), NEW w \in CloseHandle(t), ~w.lost
  PROVE  w.disk = content \o t.out
<1>1. PICK n \in Nat : n = Len(t.out)
  BY LenProperties DEF StreamType
<1>2. w = Flushed(content, t, n)
  BY <1>1, FullLoses DEF CloseHandle
<1>3. Appended(w, content, t, <<>>)
  BY <1>1, <1>2, FlushedAppends
<1>4. w.stream.out = <<>> /\ w.disk \in Seq(C)
  BY CloseHandleType DEF Written, Disk
<1>5. content \o t.out \in Seq(C)
  <2>1. content \in Seq(C) /\ t.out \in Seq(C)
    BY DEF Disk, StreamType
  <2>. QED
    BY <2>1, Concats
<1>6. w.disk \o <<>> = (content \o t.out) \o <<>>
  BY <1>3, <1>4 DEF Appended
<1>7. w.disk \o <<>> = w.disk /\ (content \o t.out) \o <<>> = content \o t.out
  BY <1>4, <1>5, Nothing
<1>. QED
  BY <1>6, <1>7

\* The file and the writer's buffer hold the text that was written, in one format,
\* with the byte order mark before it or without.
KeptAs(u, b) ==
  /\ history.formats \subseteq {u} /\ (b = BOM => u)
  /\ b # <<>> \/ history.text # <<>> => history.formats = {u}
  /\ Writers = {} => content = b \o Encode(history.text, u)
  /\ \A r \in Writers : /\ Writers = {r} /\ AtEndOf(stream[r], content)
                        /\ content \o stream[r].out = b \o Encode(history.text, u)

\* The invariant behind ReadBack: as long as the text is known, there is at most one
\* writer, and what is in the file and in its buffer is that text.
Kept == history.whole => /\ history.text \in Seq(Plain)
                         /\ \E u \in BOOLEAN, b \in {<<>>, BOM} : KeptAs(u, b)

\* A text that is recorded as whole was whole, in one format at most.
LEMMA RecordedWhole ==
  ASSUME NEW h, Recorded(h), history'.whole
  PROVE  history' = h /\ h.whole /\ Cardinality(h.formats) <= 1
  BY DEF Recorded

\* A set of at most one format that has u is that of u.
LEMMA OneFormat ==
  ASSUME NEW F \in SUBSET BOOLEAN, Cardinality(F) <= 1, NEW u \in F
  PROVE  F = {u}
<1>1. SUFFICES ASSUME NEW v \in F, v # u PROVE FALSE
  OBVIOUS
<1>2. F = {u} \cup {v}
  <2>1. \A x, y, z \in BOOLEAN : x # y => z = x \/ z = y
    OBVIOUS
  <2>2. u \in BOOLEAN /\ v \in BOOLEAN /\ \A z \in F : z \in BOOLEAN
    OBVIOUS
  <2>3. \A z \in F : z = u \/ z = v
    BY <1>1, <2>1, <2>2
  <2>. QED
    BY <2>3
<1>3. IsFiniteSet({u}) /\ Cardinality({u}) = 1
  BY FS_Singleton
<1>4. Cardinality({u} \cup {v}) = 2
  <2>1. Cardinality({u} \cup {v}) = IF v \in {u} THEN Cardinality({u}) ELSE Cardinality({u}) + 1
    BY <1>3, FS_AddElement
  <2>. QED
    BY <1>1, <1>3, <2>1
<1>. QED
  BY <1>2, <1>4

\* Who writes after a step of one stream.
LEMMA WritersAfter ==
  ASSUME IInv, NEW s \in Streams, NEW v, stream' = [stream EXCEPT ![s] = v]
  PROVE  /\ Writers' = IF v.file = "open" /\ CanWrite(v) THEN Writers \cup {s} ELSE Writers \ {s}
         /\ stream'[s] = v /\ \A r \in Streams : r # s => stream'[r] = stream[r]
<1>1. \A r \in Streams : stream'[r] = IF r = s THEN v ELSE stream[r]
  BY DEF IInv
<1>2. \A r : r \in Writers' <=> r \in Streams /\ stream'[r].file = "open" /\ CanWrite(stream'[r])
  BY DEF Writers, Open, CanWrite
<1>3. \A r : r \in Writers <=> r \in Streams /\ stream[r].file = "open" /\ CanWrite(stream[r])
  BY DEF Writers, Open
<1>. QED
  BY <1>1, <1>2, <1>3

\* A step that touches neither the file nor the text nor the writers keeps the text.
LEMMA KeptWithout ==
  ASSUME Kept, content' = content, history' = history, Writers' = Writers,
         \A r \in Writers : stream'[r] = stream[r]
  PROVE  Kept'
<1>. SUFFICES ASSUME history'.whole PROVE Kept'
  BY DEF Kept
<1>1. history'.text \in Seq(Plain)
  BY DEF Kept
<1>2. PICK u \in BOOLEAN, b \in {<<>>, BOM} : KeptAs(u, b)
  BY DEF Kept
<1>3. KeptAs(u, b)'
  BY <1>2 DEF KeptAs, AtEndOf
<1>. QED
  BY <1>1, <1>3 DEF Kept

\* A step of a stream that is no writer before and after.
LEMMA KeptByReader ==
  ASSUME IInv, Kept, NEW s \in Streams, NEW v, stream' = [stream EXCEPT ![s] = v],
         ~CanWrite(v) \/ v.file # "open", s \notin Writers, content' = content, history' = history
  PROVE  Kept'
<1>1. Writers' = Writers /\ \A r \in Writers : stream'[r] = stream[r]
  <2>1. Writers \subseteq Streams
    BY DEF Writers
  <2>2. Writers' = Writers \ {s} /\ \A r \in Streams : r # s => stream'[r] = stream[r]
    BY WritersAfter
  <2>. QED
    BY <2>1, <2>2
<1>. QED
  BY <1>1, KeptWithout

\* A character has a byte, so no bytes are no text.
LEMMA NoBytesNoText ==
  ASSUME NEW text \in Seq(Plain), NEW u \in BOOLEAN, Encode(text, u) = <<>>
  PROVE  text = <<>>
<1>1. Decode(<<>>, u) = text
  BY DecodeEncode
<1>. QED
  BY <1>1, DecodeEmpty

\* The byte order mark is not empty.
LEMMA BOMIs == BOM # <<>>
<1>1. Len(BOM) # Len(<<>>)
  BY PlainIsC, NothingTwice
<1>. QED
  BY <1>1

\* Bytes that end with a text go on with the text that follows it.
Continues(b, text, more, u) ==
  (b \o Encode(text, u)) \o Encode(more, u) = b \o Encode(text \o more, u)

\* The bytes of a text that goes on are the bytes of its parts.
LEMMA TextsContinue ==
  ASSUME NEW b \in Seq(C), NEW text \in Seq(C), NEW more \in Seq(C), NEW u
  PROVE  Continues(b, text, more, u)
<1>1. PICK e \in Seq(C), f \in Seq(C) : e = Encode(text, u) /\ f = Encode(more, u)
  BY EncodeType
<1>2. (b \o e) \o f = b \o (e \o f)
  BY ConcatAssociative
<1>3. Encoded(text, more, u)
  BY EncodeConcat
<1>. QED
  BY <1>1, <1>2, <1>3 DEF Continues, Encoded

\* A write that nobody else makes, and that loses nothing, adds its text.
LEMMA KeptByWrites ==
  ASSUME IInv, Kept, NEW s \in Streams, Open(s), CanWrite(stream[s]), NEW more \in Seq(Plain),
         NEW w \in Written(stream[s]), Writes(s, w, more),
         w.ok /\ ~w.lost /\ AtEndOf(stream[s], content)
           => Appended(w, content, stream[s], Encode(more, stream[s].unicode))
  PROVE  Kept'
<1>. SUFFICES ASSUME history'.whole PROVE Kept'
  BY DEF Kept
<1>1. PICK t \in StreamType, tu \in BOOLEAN : t = stream[s] /\ tu = t.unicode
  BY DEF IInv, StreamType
<1>2. PICK v \in StreamType : v = w.stream /\ SameReader(v, t)
  BY <1>1 DEF Written
<1>3. content' = w.disk /\ stream' = [stream EXCEPT ![s] = v]
  BY <1>2 DEF Writes
<1>4. PICK h : h = [text |-> history.text \o more, whole |-> history.whole /\ w.ok /\ ~w.lost,
                    formats |-> IF more = <<>> THEN history.formats ELSE history.formats \cup {tu}]
  OBVIOUS
<1>5. Recorded(h)
  BY <1>1, <1>4 DEF Writes
<1>6. history' = h /\ h.whole /\ Cardinality(h.formats) <= 1
  BY <1>5, RecordedWhole
<1>7. history.whole /\ w.ok /\ ~w.lost
  BY <1>4, <1>6
<1>8. PICK text \in Seq(Plain), u \in BOOLEAN, b \in {<<>>, BOM} : text = history.text /\ KeptAs(u, b)
  BY <1>7 DEF Kept
<1>9. s \in Writers
  BY DEF Writers
<1>10. Writers = {s} /\ AtEndOf(t, content) /\ content \o t.out = b \o Encode(text, u)
  BY <1>1, <1>8, <1>9 DEF KeptAs
<1>11. w.disk \o w.stream.out = (content \o t.out) \o Encode(more, tu) /\ AtEndOf(v, w.disk)
  BY <1>1, <1>2, <1>7, <1>10 DEF Appended
<1>12. Writers' = {s} /\ stream'[s] = v
  <2>1. v.file = "open" /\ CanWrite(v)
    BY <1>1, <1>2 DEF SameReader, Open, CanWrite
  <2>. QED
    BY <1>3, <1>10, <2>1, WritersAfter
<1>13. text \in Seq(C) /\ more \in Seq(C) /\ b \in Seq(C) /\ text \o more \in Seq(Plain)
  <2>1. b \in Seq(C)
    BY PlainIsC, Nothing
  <2>2. text \o more \in Seq(Plain)
    BY Concats
  <2>. QED
    BY <2>1, <2>2, PlainText
<1>14. PICK z \in BOOLEAN : /\ Encode(text, u) = Encode(text, z) /\ Encode(more, tu) = Encode(more, z)
                            /\ h.formats \subseteq {z} /\ (b = BOM => z)
                            /\ b # <<>> \/ text \o more # <<>> => h.formats = {z}
  <2>1. CASE more = <<>>
    <3>1. text \o more = text /\ h.formats = history.formats
      BY <1>4, <1>13, <2>1, Nothing
    <3>2. Encode(more, tu) = Encode(more, u)
      BY <2>1, EncodeEmpty
    <3>3. history.formats \subseteq {u} /\ (b = BOM => u) /\ (b # <<>> \/ text # <<>> => history.formats = {u})
      BY <1>8 DEF KeptAs
    <3>. QED
      BY <3>1, <3>2, <3>3
  <2>2. CASE more # <<>>
    <3>1. h.formats = history.formats \cup {tu} /\ history.formats \subseteq BOOLEAN
      BY <1>4, <2>2 DEF IInv, HistoryType
    <3>2. h.formats = {tu}
      BY <1>6, <3>1, OneFormat
    <3>3. history.formats = {u} => u = tu
      BY <3>1, <3>2
    <3>4. b # <<>> \/ text # <<>> => u = tu
      BY <1>8, <3>3 DEF KeptAs
    <3>5. Encode(text, u) = Encode(text, tu)
      BY <3>4, EncodeEmpty
    <3>6. b = BOM => tu
      <4>1. b = BOM => b # <<>>
        BY BOMIs
      <4>2. b = BOM => u
        BY <1>8 DEF KeptAs
      <4>. QED
        BY <3>4, <4>1, <4>2
    <3>. QED
      BY <3>2, <3>5, <3>6
  <2>. QED
    BY <2>1, <2>2
<1>15. (b \o Encode(text, z)) \o Encode(more, z) = b \o Encode(text \o more, z)
  <2>0. PICK x \in Seq(C), y \in Seq(C), c \in Seq(C) : x = text /\ y = more /\ c = b
    BY <1>13
  <2>1. Continues(c, x, y, z)
    BY TextsContinue
  <2>. QED
    BY <2>0, <2>1 DEF Continues
<1>16. content' \o v.out = b \o Encode(text \o more, z)
  BY <1>2, <1>3, <1>10, <1>11, <1>14, <1>15
<1>17. history'.text = text \o more /\ history'.formats = h.formats
  BY <1>4, <1>6, <1>8
<1>18. KeptAs(z, b)'
  <2>1. Writers' # {}
    BY <1>12
  <2>2. \A r \in Writers' : r = s
    BY <1>12
  <2>3. AtEndOf(v, content')
    BY <1>3, <1>11
  <2>. QED
    BY <1>12, <1>14, <1>16, <1>17, <2>1, <2>2, <2>3 DEF KeptAs
<1>. QED
  BY <1>13, <1>17, <1>18 DEF Kept

\* Write and WriteLine keep the text.
LEMMA WriteKept ==
  ASSUME IInv, Kept, NEW s \in Streams, NEW text \in Texts, Write(s, text) \/ WriteLine(s, text)
  PROVE  Kept'
<1>1. PICK t \in StreamType : t = stream[s] /\ content \in Disk
  BY DEF IInv
<1>2. /\ text \in Seq(Plain) /\ CRLF \in Seq(Plain) /\ text \o CRLF \in Seq(Plain)
      /\ text \in Seq(C) /\ CRLF \in Seq(C)
  <2>1. text \in Seq(Plain) /\ CRLF \in Seq(Plain)
    BY TextsAssumption, PlainIsC
  <2>2. text \o CRLF \in Seq(Plain)
    BY <2>1, Concats
  <2>. QED
    BY <2>1, <2>2, PlainText
<1>3. PICK a \in Seq(C), b \in Seq(C) : a = Encode(text, t.unicode) /\ b = Encode(CRLF, t.unicode)
  BY <1>2, EncodeType
<1>3a. Open(s) /\ CanWrite(stream[s])
  BY DEF Write, WriteLine, MayWrite
<1>4. CASE Write(s, text)
  <2>1. PICK w \in WriteFile(content, t, a) : Writes(s, w, text)
    BY <1>1, <1>3, <1>4 DEF Write
  <2>2. w \in Written(stream[s])
    BY <1>1, WriteFileType
  <2>3. w.ok /\ ~w.lost /\ AtEndOf(t, content) => Appended(w, content, t, a)
    BY <1>1, WriteFileAppends
  <2>. QED
    BY <1>1, <1>2, <1>3, <1>3a, <2>1, <2>2, <2>3, KeptByWrites
<1>5. CASE WriteLine(s, text)
  <2>1. PICK w \in WriteFiles(content, t, a, b) : Writes(s, w, text \o CRLF)
    BY <1>1, <1>3, <1>5 DEF WriteLine
  <2>2. w \in Written(stream[s])
    BY <1>1, WriteFilesType
  <2>3. w.ok /\ ~w.lost /\ AtEndOf(t, content) => Appended(w, content, t, a \o b)
    BY <1>1, WriteFilesAppends
  <2>4. PICK line \in Seq(Plain) : line = text \o CRLF
    BY <1>2
  <2>5. Encode(line, t.unicode) = a \o b
    <3>1. PICK x \in Seq(C), y \in Seq(C) : x = text /\ y = CRLF
      BY <1>2
    <3>2. Encoded(x, y, t.unicode)
      BY EncodeConcat
    <3>. QED
      BY <1>3, <2>4, <3>1, <3>2 DEF Encoded
  <2>. QED
    BY <1>1, <1>3a, <2>1, <2>2, <2>3, <2>4, <2>5, KeptByWrites
<1>. QED
  BY <1>4, <1>5

\* WriteBlankLines keeps it, and leaves the file alone where it fails.
LEMMA BlankKept ==
  ASSUME IInv, Kept, NEW s \in Streams, WriteBlankLines(s)
  PROVE  Kept'
<1>1. PICK t \in StreamType : t = stream[s] /\ content \in Disk
  BY DEF IInv
<1>2. CRLF \in Seq(Plain) /\ CRLF \in Seq(C)
  BY PlainText, PlainIsC
<1>3. PICK b \in Seq(C) : b = Encode(CRLF, t.unicode)
  BY <1>2, EncodeType
<1>4. CASE CanWrite(stream[s])
  <2>1. PICK w \in WriteFile(content, t, b) : Writes(s, w, CRLF)
    BY <1>1, <1>3, <1>4 DEF WriteBlankLines
  <2>2. w \in Written(stream[s])
    BY <1>1, WriteFileType
  <2>3. w.ok /\ ~w.lost /\ AtEndOf(t, content) => Appended(w, content, t, b)
    BY <1>1, WriteFileAppends
  <2>4. Open(s)
    BY DEF WriteBlankLines, MayWrite
  <2>. QED
    BY <1>1, <1>2, <1>3, <1>4, <2>1, <2>2, <2>3, <2>4, KeptByWrites
<1>5. CASE ~CanWrite(stream[s])
  <2>1. PICK w \in WriteFile(content, t, b) :
          stream' = [stream EXCEPT ![s] = w.stream] /\ content' = content /\ history' = history
    BY <1>1, <1>3, <1>5 DEF WriteBlankLines
  <2>2. w \in Written(t)
    BY <1>1, WriteFileType
  <2>3. PICK v \in StreamType : v = w.stream /\ SameReader(v, t)
    BY <2>2 DEF Written
  <2>4. ~CanWrite(v) /\ s \notin Writers
    BY <1>1, <1>5, <2>3 DEF SameReader, CanWrite, Writers
  <2>. QED
    BY <2>1, <2>3, <2>4, KeptByReader
<1>. QED
  BY <1>4, <1>5

\* Closing the writer puts the text into the file; closing a reader changes nothing.
LEMMA CloseKept ==
  ASSUME IInv, Kept, NEW s \in Streams, NEW after \in {"free", "null"}, Open(s), ClosedBy(s, after)
  PROVE  Kept'
<1>1. PICK t \in StreamType : t = stream[s] /\ content \in Disk /\ StreamOK(t, exists) /\ t.file = "open"
  BY DEF IInv, Open
<1>2. PICK w \in CloseHandle(t) :
        /\ content' = w.disk
        /\ stream' = [stream EXCEPT ![s] = IF after = "free" THEN NoStream
                                           ELSE [w.stream EXCEPT !.file = after]]
        /\ Recorded([history EXCEPT !.whole = @ /\ ~w.lost])
  BY <1>1 DEF ClosedBy
<1>3. w.stream \in StreamType /\ SameReader(w.stream, t)
  BY <1>1, CloseHandleType DEF Written
<1>4. PICK v : /\ v = (IF after = "free" THEN NoStream ELSE [w.stream EXCEPT !.file = after])
               /\ v.file # "open"
  <2>1. CASE after = "free"
    <3>1. NoStream.file # "open"
      BY DEF NoStream
    <3>. QED
      BY <2>1, <3>1
  <2>2. CASE after = "null"
    <3>1. PICK u \in StreamType : u = w.stream
      BY <1>3
    <3>2. [u EXCEPT !.file = "null"].file = "null"
      BY DEF StreamType
    <3>. QED
      BY <2>2, <3>1, <3>2
  <2>. QED
    BY <2>1, <2>2
<1>5. stream' = [stream EXCEPT ![s] = v]
  BY <1>2, <1>4
<1>6. Writers' = Writers \ {s} /\ \A r \in Streams : r # s => stream'[r] = stream[r]
  BY <1>4, <1>5, WritersAfter
<1>7. SUFFICES ASSUME history'.whole PROVE Kept'
  BY DEF Kept
<1>8. PICK h : h = [history EXCEPT !.whole = @ /\ ~w.lost]
  OBVIOUS
<1>9. history' = h /\ h.whole /\ history \in HistoryType
  BY <1>2, <1>7, <1>8, RecordedWhole DEF IInv
<1>10. history'.text = history.text /\ history'.formats = history.formats /\ history.whole /\ ~w.lost
  BY <1>8, <1>9 DEF HistoryType
<1>11. PICK text \in Seq(Plain), u \in BOOLEAN, b \in {<<>>, BOM} : text = history.text /\ KeptAs(u, b)
  BY <1>10 DEF Kept
<1>12. CASE s \in Writers
  <2>1. Writers = {s} /\ AtEndOf(t, content) /\ content \o t.out = b \o Encode(text, u)
    BY <1>1, <1>11, <1>12 DEF KeptAs
  <2>2. content' = content \o t.out
    BY <1>1, <1>2, <1>10, <2>1, CloseAppends
  <2>3. Writers' = {}
    BY <1>6, <2>1
  <2>4. KeptAs(u, b)'
    BY <1>10, <1>11, <2>1, <2>2, <2>3 DEF KeptAs
  <2>. QED
    BY <1>10, <1>11, <2>4 DEF Kept
<1>13. CASE s \notin Writers
  <2>1. t.out = <<>>
    BY <1>1, <1>13 DEF Writers, Open, StreamOK
  <2>2. content' = content
    BY <1>1, <1>2, <2>1, CloseReader
  <2>3. Writers' = Writers /\ \A r \in Writers : stream'[r] = stream[r]
    <3>1. Writers \subseteq Streams
      BY DEF Writers
    <3>. QED
      BY <1>6, <1>13, <3>1
  <2>4. KeptAs(u, b)'
    BY <1>10, <1>11, <2>2, <2>3 DEF KeptAs, AtEndOf
  <2>. QED
    BY <1>10, <1>11, <2>4 DEF Kept
<1>. QED
  BY <1>12, <1>13

\* Close and Release keep it.
LEMMA ReleaseKept ==
  ASSUME IInv, Kept, NEW s \in Streams, Close(s) \/ Release(s)
  PROVE  Kept'
<1>1. CASE Close(s)
  BY <1>1, CloseKept DEF Close
<1>2. CASE Release(s) /\ Open(s)
  BY <1>2, CloseKept DEF Release
<1>3. CASE Release(s) /\ ~Open(s)
  <2>1. stream' = [stream EXCEPT ![s] = NoStream] /\ content' = content /\ history' = history
    BY <1>3 DEF Release
  <2>2. NoStream.file # "open" /\ s \notin Writers
    BY <1>3 DEF NoStream, Writers
  <2>. QED
    BY <2>1, <2>2, KeptByReader
<1>. QED
  BY <1>1, <1>2, <1>3

\* Reading keeps it.
LEMMA ReadStepKept ==
  ASSUME IInv, Kept, ReadStep
  PROVE  Kept'
<1>0. Reading /\ Reader = stream[call.s]
  BY DEF ReadStep, read_more_data, ReadFails, EndOfFile, ReadText, ReadLine, ReadAll, Some, Fetched, Reader
<1>1. PICK t \in StreamType, s \in Streams : t = Reader /\ s = call.s /\ t = stream[s] /\ CanRead(t)
  BY <1>0, ReaderIs DEF CallOK
<1>2. s \notin Writers
  BY <1>1 DEF Writers, CanRead, CanWrite
<1>3. PICK v : stream' = [stream EXCEPT ![s] = v] /\ ~CanWrite(v)
  <2>1. ASSUME NEW hr, NEW len, NEW skip, Takes(hr, len, skip)
        PROVE  \E v : stream' = [stream EXCEPT ![s] = v] /\ ~CanWrite(v)
    <3>1. PICK v : v = [t EXCEPT !.read_buf = Drop(@, len + skip)]
      OBVIOUS
    <3>2. stream' = [stream EXCEPT ![s] = v]
      BY <1>1, <2>1, <3>1 DEF Takes
    <3>3. ~CanWrite(v)
      BY <1>1, <3>1 DEF StreamType, CanRead, CanWrite
    <3>. QED
      BY <3>2, <3>3
  <2>2. CASE read_more_data
    <3>1. PICK f, eof, read : /\ f = Fread(t, BlockSize) /\ eof = SeesEnd(f.data, BlockSize)
                              /\ read = t.read_buf \o Decode(f.data, t.unicode)
      OBVIOUS
    <3>2. PICK v : v = [t EXCEPT !.pos = f.pos, !.ahead = f.ahead, !.eof = eof, !.read_buf = read]
      OBVIOUS
    <3>3. stream' = [stream EXCEPT ![s] = v]
      <4>1. stream' = [stream EXCEPT ![call.s] =
              [Reader EXCEPT !.pos = f.pos, !.ahead = f.ahead, !.eof = SeesEnd(f.data, BlockSize),
                             !.read_buf = @ \o Decode(f.data, Reader.unicode)]]
        BY <1>1, <2>2, <3>1 DEF read_more_data
      <4>2. [t EXCEPT !.pos = f.pos, !.ahead = f.ahead, !.eof = SeesEnd(f.data, BlockSize),
                      !.read_buf = @ \o Decode(f.data, t.unicode)] = v
        BY <3>1, <3>2
      <4>. QED
        BY <1>1, <4>1, <4>2
    <3>4. ~CanWrite(v)
      BY <1>1, <3>2 DEF StreamType, CanRead, CanWrite
    <3>. QED
      BY <3>3, <3>4
  <2>3. CASE ReadFails
    <3>1. PICK f : f = Fread(t, BlockSize)
      OBVIOUS
    <3>2. PICK v : v = [t EXCEPT !.pos = f.pos, !.ahead = f.ahead]
      OBVIOUS
    <3>3. stream' = [stream EXCEPT ![s] = v]
      BY <1>1, <2>3, <3>1, <3>2 DEF ReadFails
    <3>4. ~CanWrite(v)
      BY <1>1, <3>2 DEF StreamType, CanRead, CanWrite
    <3>. QED
      BY <3>3, <3>4
  <2>4. CASE EndOfFile
    BY <2>1, <2>4 DEF EndOfFile
  <2>5. CASE ReadText
    BY <2>1, <2>5 DEF ReadText
  <2>6. CASE ReadLine
    BY <2>1, <2>6 DEF ReadLine
  <2>7. CASE ReadAll
    BY <2>1, <2>7 DEF ReadAll
  <2>. QED
    BY <2>2, <2>3, <2>4, <2>5, <2>6, <2>7 DEF ReadStep
<1>4. content' = content /\ history' = history
  BY DEF ReadStep, read_more_data, ReadFails, EndOfFile, ReadText, ReadLine, ReadAll, Takes, Returns
<1>. QED
  BY <1>2, <1>3, <1>4, KeptByReader

\* Opening for reading changes neither the file nor the text.
LEMMA ReadingKept ==
  ASSUME IInv, Kept, NEW s \in Streams, NEW disposition, NEW unicode, NEW t \in StreamType, NEW v \in StreamType,
         Created(s, disposition, "ForReading", unicode, t, v), stream[s].file = "free"
  PROVE  Kept'
<1>1. PICK f : /\ f = Fread(t, HeadSize) /\ t.out = <<>> /\ t.kind # "w"
               /\ v = [t EXCEPT !.pos = f.pos, !.ahead = f.ahead, !.eof = Len(f.data) # HeadSize,
                         !.read_buf = Decode(Drop(f.data, SkippedBOM(f.data, t.unicode)), t.unicode)]
  BY DEF Created
<1>2. stream' = [stream EXCEPT ![s] = v] /\ content' = content /\ t.mode = "ForReading"
      /\ Recorded(Opened(t, FALSE))
  BY <1>1 DEF Created
<1>3. v.mode = t.mode
  <2>1. v = [t EXCEPT !.pos = v.pos, !.ahead = v.ahead, !.eof = v.eof, !.read_buf = v.read_buf]
    BY DEF Created
  <2>. QED
    BY <2>1 DEF StreamType
<1>4. ~CanWrite(v) /\ s \notin Writers
  BY <1>2, <1>3 DEF CanWrite, Writers, Open
<1>5. SUFFICES ASSUME history'.whole PROVE Kept'
  BY DEF Kept
<1>6. Opened(t, FALSE) = history
  <2>1. [history EXCEPT !.whole = @ /\ (Writers = {} \/ CanRead(t))] = history
    BY <1>2 DEF IInv, HistoryType, CanRead
  <2>. QED
    BY <1>1, <2>1 DEF Opened
<1>7. history' = history
  BY <1>2, <1>5, <1>6, RecordedWhole
<1>. QED
  BY <1>2, <1>4, <1>7, KeptByReader

\* A new text begins where the only writer cuts the file off.
LEMMA CutKept ==
  ASSUME IInv, Kept, NEW s \in Streams, NEW disposition, NEW mode \in {"ForWriting", "ForAppending"},
         NEW unicode \in BOOLEAN, NEW t \in StreamType, NEW v \in StreamType,
         Created(s, disposition, mode, unicode, t, v), t.kind = "w"
  PROVE  Kept'
<1>1. /\ stream' = [stream EXCEPT ![s] = v] /\ content' = <<>> /\ t.mode = mode /\ t.file = "open"
      /\ Recorded(Opened(t, TRUE)) /\ t.unicode = unicode
      /\ v = [t EXCEPT !.pos = IF mode = "ForAppending" THEN Len(content') ELSE 0]
      /\ t.out = IF WritesBOM(disposition, mode, unicode, content') THEN BOM ELSE <<>>
  BY DEF Created
<1>2. v = [t EXCEPT !.pos = 0]
  <2>1. Len(<<>>) = 0
    BY NothingTwice
  <2>. QED
    BY <1>1, <2>1
<1>3. v.mode = mode /\ v.file = "open" /\ v.pos = 0 /\ v.out = t.out /\ CanWrite(v)
  BY <1>1, <1>2 DEF StreamType, CanWrite
<1>4. PICK b \in {<<>>, BOM} : b = t.out /\ (b = BOM => unicode)
  <2>1. WritesBOM(disposition, mode, unicode, content') => unicode
    BY DEF WritesBOM
  <2>2. BOM # <<>>
    BY BOMIs
  <2>. QED
    BY <1>1, <2>1, <2>2
<1>5. SUFFICES ASSUME history'.whole PROVE Kept'
  BY DEF Kept
<1>6. PICK before : before = [text |-> <<>>, formats |-> {}, whole |-> (Writers = {})]
  OBVIOUS
<1>7. PICK h : h = Opened(t, TRUE) /\ h = IF b = <<>> THEN before ELSE [before EXCEPT !.formats = @ \cup {unicode}]
  BY <1>1, <1>4, <1>6 DEF Opened
<1>8. history' = h /\ h.whole
  <2>1. Recorded(h)
    BY <1>1, <1>7
  <2>. QED
    BY <2>1, <1>5, RecordedWhole
<1>9. Writers = {} /\ history'.text = <<>>
  <2>1. h.text = before.text /\ h.whole = before.whole
    <3>1. CASE b = <<>>
      BY <1>7, <3>1
    <3>2. CASE b # <<>>
      BY <1>6, <1>7, <3>2
    <3>. QED
      BY <3>1, <3>2
  <2>. QED
    BY <1>6, <1>8, <2>1
<1>15. ASSUME b = <<>> PROVE history'.formats = {}
  BY <1>6, <1>7, <1>8, <1>15
<1>16. ASSUME b # <<>> PROVE history'.formats = {unicode}
  <2>1. h.formats = before.formats \cup {unicode}
    <3>1. h = [before EXCEPT !.formats = @ \cup {unicode}]
      BY <1>7, <1>16
    <3>2. DOMAIN before = {"text", "formats", "whole"}
      BY <1>6
    <3>. QED
      BY <3>1, <3>2
  <2>2. before.formats = {}
    BY <1>6
  <2>3. {} \cup {unicode} = {unicode}
    OBVIOUS
  <2>4. history'.formats = h.formats
    BY <1>8
  <2>. QED
    BY <2>1, <2>2, <2>3, <2>4
<1>10. Writers' = {s} /\ stream'[s] = v
  <2>1. stream' = [stream EXCEPT ![s] = v] /\ v.file = "open" /\ CanWrite(v)
    BY <1>1, <1>3
  <2>2. Writers' = Writers \cup {s} /\ stream'[s] = v
    BY <2>1, WritersAfter
  <2>. QED
    BY <1>9, <2>2
<1>11. content' \o v.out = b \o Encode(<<>>, unicode)
  <2>1. b \in Seq(C)
    BY PlainIsC, Nothing
  <2>2. <<>> \o b = b /\ b \o <<>> = b
    BY <2>1, Nothing
  <2>. QED
    BY <1>1, <1>3, <1>4, <2>2, EncodeEmpty
<1>12. AtEndOf(v, content')
  BY <1>1, <1>3, NothingTwice DEF AtEndOf
<1>13. KeptAs(unicode, b)'
  <2>1. \A r \in Writers' : r = s
    BY <1>10
  <2>2. Writers' # {}
    BY <1>10
  <2>. QED
    BY <1>4, <1>9, <1>15, <1>16, <1>10, <1>11, <1>12, <2>1, <2>2 DEF KeptAs
<1>14. history'.text \in Seq(Plain)
  BY <1>9, EmptySeq
<1>. QED
  BY <1>13, <1>14 DEF Kept

\* The only writer goes on at the end of the file, with a byte order mark if there is
\* no byte in it.
LEMMA AppendKept ==
  ASSUME IInv, Kept, NEW s \in Streams, NEW disposition, NEW unicode \in BOOLEAN,
         NEW t \in StreamType, NEW v \in StreamType,
         Created(s, disposition, "ForAppending", unicode, t, v), t.kind # "w"
  PROVE  Kept'
<1>1. /\ stream' = [stream EXCEPT ![s] = v] /\ content' = content /\ t.mode = "ForAppending" /\ t.file = "open"
      /\ Recorded(Opened(t, FALSE)) /\ t.unicode = unicode
      /\ v = [t EXCEPT !.pos = Len(content)]
      /\ t.out = IF unicode /\ content = <<>> THEN BOM ELSE <<>>
  BY DEF Created, WritesBOM
<1>2. Len(content) \in Nat /\ content \in Seq(C)
  BY LenProperties DEF IInv, Disk
<1>3. /\ v.mode = "ForAppending" /\ v.file = "open" /\ v.pos = Len(content) /\ v.out = t.out /\ CanWrite(v)
      /\ ~CanRead(t)
  BY <1>1, <1>2 DEF StreamType, CanWrite, CanRead
<1>4. SUFFICES ASSUME history'.whole PROVE Kept'
  BY DEF Kept
<1>5. history' = Opened(t, FALSE) /\ Opened(t, FALSE).whole /\ Cardinality(Opened(t, FALSE).formats) <= 1
  BY <1>1, <1>4, RecordedWhole
<1>6. PICK before : before = [history EXCEPT !.whole = @ /\ Writers = {}]
  OBVIOUS
<1>7. Opened(t, FALSE) = IF t.out = <<>> THEN before ELSE [before EXCEPT !.formats = @ \cup {unicode}]
  BY <1>1, <1>3, <1>6 DEF Opened
<1>8. /\ before.text = history.text /\ before.formats = history.formats
      /\ before.whole = (history.whole /\ Writers = {}) /\ before \in HistoryType
  BY <1>6 DEF IInv, HistoryType
<1>9. history.whole /\ Writers = {} /\ history'.text = history.text
      /\ history'.formats = IF t.out = <<>> THEN history.formats ELSE history.formats \cup {unicode}
  BY <1>5, <1>7, <1>8 DEF HistoryType
<1>10. PICK text \in Seq(Plain), u \in BOOLEAN, b \in {<<>>, BOM} : text = history.text /\ KeptAs(u, b)
  BY <1>9 DEF Kept
<1>11. content = b \o Encode(text, u)
  BY <1>9, <1>10 DEF KeptAs
<1>12. Writers' = {s} /\ stream'[s] = v /\ AtEndOf(v, content')
  BY <1>1, <1>3, <1>9, WritersAfter DEF AtEndOf
<1>12a. Writers' # {} /\ \A r \in Writers' : r = s
  BY <1>12
<1>13. b \in Seq(C) /\ Encode(text, u) \in Seq(C)
  <2>1. PICK x \in Seq(C) : x = text
    BY PlainText
  <2>2. Encode(x, u) \in Seq(C)
    BY EncodeType
  <2>. QED
    BY <2>1, <2>2, PlainIsC, Nothing
<1>14. CASE t.out = <<>>
  <2>1. content' \o v.out = b \o Encode(text, u)
    <3>1. content \o <<>> = content
      BY <1>2, Nothing
    <3>. QED
      BY <1>1, <1>3, <1>11, <1>14, <3>1
  <2>2. KeptAs(u, b)'
    BY <1>9, <1>10, <1>12, <1>12a, <1>14, <2>1 DEF KeptAs
  <2>. QED
    BY <1>9, <1>10, <2>2 DEF Kept
<1>15. CASE t.out # <<>>
  <2>1. unicode /\ content = <<>> /\ t.out = BOM
    BY <1>1, <1>15
  <2>2. PICK e \in Seq(C), c \in Seq(C) : e = Encode(text, u) /\ c = b
    BY <1>13
  <2>3. c \o e = <<>>
    BY <1>11, <2>1, <2>2
  <2>4. b = <<>> /\ Encode(text, u) = <<>>
    BY <2>2, <2>3, NothingParts
  <2>5. text = <<>>
    BY <2>4, NoBytesNoText
  <2>6. history'.formats = {unicode}
    <3>1. history'.formats = history.formats \cup {unicode} /\ history.formats \subseteq BOOLEAN
      BY <1>9, <1>15 DEF IInv, HistoryType
    <3>. QED
      BY <1>5, <3>1, OneFormat
  <2>7. content' \o v.out = BOM \o Encode(<<>>, unicode)
    <3>1. BOM \in Seq(C)
      BY PlainIsC
    <3>2. <<>> \o BOM = BOM /\ BOM \o <<>> = BOM
      BY <3>1, Nothing
    <3>. QED
      BY <1>1, <1>3, <2>1, <3>2, EncodeEmpty
  <2>8. KeptAs(unicode, BOM)'
    BY <1>9, <1>10, <1>12, <1>12a, <2>1, <2>5, <2>6, <2>7 DEF KeptAs
  <2>. QED
    BY <1>9, <1>10, <2>8 DEF Kept
<1>. QED
  BY <1>14, <1>15

\* Opening keeps it: for reading, at the end of the file, or with a new text.
LEMMA OpensKept ==
  ASSUME IInv, Kept, NEW s \in Streams, Opens(s)
  PROVE  Kept'
<1>1. PICK disposition \in Dispositions, mode \in Modes, unicode \in BOOLEAN :
        /\ mode = "ForReading" => disposition \in {"OPEN_ALWAYS", "OPEN_EXISTING"}
        /\ mode = "ForWriting" => disposition # "OPEN_ALWAYS"
        /\ create_textstream(s, disposition, mode, unicode)
  BY OpensCreate DEF Creates
<1>2. PICK t \in StreamType, v \in StreamType : Created(s, disposition, mode, unicode, t, v)
  BY <1>1, CreatedStream
<1>3. stream[s].file = "free"
  BY <1>1 DEF create_textstream
<1>4. t.kind = Kind(disposition, mode)
  BY <1>2 DEF Created
<1>5. CASE mode = "ForReading"
  BY <1>2, <1>3, <1>5, ReadingKept
<1>6. CASE mode = "ForWriting"
  <2>1. t.kind = "w"
    BY <1>1, <1>4, <1>6 DEF Kind
  <2>. QED
    BY <1>2, <1>6, <2>1, CutKept
<1>7. CASE mode = "ForAppending" /\ t.kind = "w"
  BY <1>2, <1>7, CutKept
<1>8. CASE mode = "ForAppending" /\ t.kind # "w"
  BY <1>2, <1>8, AppendKept
<1>. QED
  BY <1>5, <1>6, <1>7, <1>8 DEF Modes

\* At first the file holds its text.
LEMMA InitKept == Init => Kept
<1>. SUFFICES ASSUME Init PROVE Kept
  OBVIOUS
<1>1. Writers = {}
  BY DEF Init, Writers, Open, NoStream
<1>2. CASE content = <<>> /\ history = [text |-> <<>>, formats |-> {}, whole |-> TRUE]
  <2>1. content = <<>> \o Encode(history.text, TRUE)
    <3>1. history.text = <<>>
      BY <1>2
    <3>. QED
      BY <1>2, <3>1, EncodeEmpty, NothingTwice
  <2>2. KeptAs(TRUE, <<>>)
    BY <1>1, <1>2, <2>1 DEF KeptAs
  <2>3. history.text \in Seq(Plain)
    BY <1>2, EmptySeq
  <2>. QED
    BY <2>2, <2>3 DEF Kept
<1>3. ASSUME NEW file \in InitialFiles,
             content = (IF file.unicode THEN BOM ELSE <<>>) \o Encode(file.text, file.unicode),
             history = [text |-> file.text, formats |-> {file.unicode}, whole |-> TRUE]
      PROVE  Kept
  <2>1. PICK text \in Seq(Plain), u \in BOOLEAN : text = file.text /\ u = file.unicode
    BY TextsAssumption
  <2>2. PICK b \in {<<>>, BOM} : b = (IF u THEN BOM ELSE <<>>) /\ (b = BOM => u)
    BY BOMIs
  <2>3. content = b \o Encode(text, u) /\ history.text = text /\ history.formats = {u}
    BY <1>3, <2>1, <2>2
  <2>4. KeptAs(u, b)
    BY <1>1, <2>2, <2>3 DEF KeptAs
  <2>. QED
    BY <2>3, <2>4 DEF Kept
<1>. QED
  BY <1>2, <1>3 DEF Init

\* Every step keeps the text.
LEMMA NextKept == IInv /\ Kept /\ [Next]_vars => Kept'
<1>. SUFFICES ASSUME IInv, Kept, [Next]_vars PROVE Kept'
  OBVIOUS
<1>0. content' = content /\ history' = history /\ stream' = stream => Kept'
  <2>1. stream' = stream => Writers' = Writers
    BY DEF Writers, Open
  <2>. QED
    BY <2>1, KeptWithout
<1>1. CASE ReadStep
  BY <1>1, ReadStepKept
<1>2. ASSUME NEW s \in Streams, Opens(s) PROVE Kept'
  BY <1>2, OpensKept
<1>3. ASSUME NEW s \in Streams, BadFileMode(s) PROVE Kept'
  BY <1>0, <1>3 DEF BadFileMode
<1>4. ASSUME NEW s \in Streams, BeginsReading(s) PROVE Kept'
  BY <1>0, <1>4 DEF BeginsReading, BeginRead
<1>5. ASSUME NEW s \in Streams, get_AtEndOfStream(s) PROVE Kept'
  BY <1>0, <1>5 DEF get_AtEndOfStream, Returns
<1>6. ASSUME NEW s \in Streams, NEW text \in Texts, Write(s, text) \/ WriteLine(s, text) PROVE Kept'
  BY <1>6, WriteKept
<1>7. ASSUME NEW s \in Streams, WriteBlankLines(s) PROVE Kept'
  BY <1>7, BlankKept
<1>8. ASSUME NEW s \in Streams, Close(s) \/ Release(s) PROVE Kept'
  BY <1>8, ReleaseKept
<1>9. CASE UNCHANGED vars
  BY <1>0, <1>9 DEF vars
<1>. QED
  BY <1>1, <1>2, <1>3, <1>4, <1>5, <1>6, <1>7, <1>8, <1>9 DEF Next

\* As long as the text is known, the file and the writer's buffer hold it.
THEOREM AlwaysKept == Spec => []Kept
<1>. QED
  BY InitKept, NextKept, AlwaysIInv, PTL DEF Spec

-------------------------------------------------------------------------------
\* No character of two bytes lies across the end of a block.
NoSplit(left, u) ==
  ~u => \A i \in 1..(Len(left) - 1) : left[i] = Lead /\ left[i + 1] = Trail => i % B # 0

\* A list that is not empty begins with a block; its end is no end of a character only
\* if a character lies across it, and what follows has its blocks at the same places.
LEMMA FirstBlock ==
  ASSUME NEW u \in BOOLEAN, NEW left \in Seq(C), left # <<>>, NoSplit(left, u)
  PROVE  \E data, after \in Seq(C) :
           /\ Reads(left, B, data, after) /\ Len(after) < Len(left) /\ NoSplit(after, u)
           /\ after # <<>> => Parts(data, after, u)
<1>1. PICK size \in Nat \ {0} : size = B /\ size % 2 = 0
  BY BIs
<1>2. PICK data \in Seq(C), after \in Seq(C) :
        /\ data = Given(left, size) /\ after = Drop(left, size) /\ left = data \o after
        /\ Len(data) <= size /\ (Len(data) < size => after = <<>>)
  BY Returned
<1>3. PICK m \in Nat, n \in Nat : m = Len(data) /\ n = Len(after)
  BY LenProperties
<1>4. /\ Len(left) = m + n
      /\ \A i \in 1..m + n : left[i] = IF i <= m THEN data[i] ELSE after[i - m]
  <2>1. /\ Len(data \o after) = Len(data) + Len(after)
        /\ \A i \in 1..Len(data) + Len(after) :
             (data \o after)[i] = IF i <= Len(data) THEN data[i] ELSE after[i - Len(data)]
    BY ConcatProperties
  <2>. QED
    BY <1>2, <1>3, <2>1
<1>5. m + n > 0
  <2>1. Len(left) \in Nat /\ Len(left) # 0
    BY Nothing, LenProperties
  <2>. QED
    BY <1>4, <2>1
<1>6. n > 0 => m = size
  <2>1. m < size => n = 0
    BY <1>2, <1>3, NothingTwice
  <2>2. m <= size
    BY <1>2, <1>3
  <2>. QED
    BY <2>1, <2>2
<1>7. m > 0
  BY <1>5, <1>6
<1>8. Reads(left, B, data, after)
  BY <1>1, <1>2 DEF Reads
<1>9. Len(after) < Len(left)
  BY <1>3, <1>4, <1>7
<1>10. NoSplit(after, u)
  <2>1. SUFFICES ASSUME ~u, NEW i \in 1..n - 1, after[i] = Lead, after[i + 1] = Trail
                 PROVE  i % size # 0
    BY <1>1, <1>3 DEF NoSplit
  <2>2. i \in Nat /\ n > 0 /\ m = size
    BY <1>6, <2>1
  <2>3. PICK j : j = i + size /\ j \in 1..(m + n) - 1 /\ j \in 1..m + n /\ j + 1 \in 1..m + n
                 /\ j - m = i /\ (j + 1) - m = i + 1 /\ ~(j <= m) /\ ~(j + 1 <= m)
    BY <2>2
  <2>4. left[j] = after[i] /\ left[j + 1] = after[i + 1]
    BY <1>4, <2>3
  <2>5. j % size # 0
    BY <1>1, <1>4, <2>1, <2>3, <2>4 DEF NoSplit
  <2>. QED
    BY <2>2, <2>3, <2>5, ModStep
<1>11. ASSUME after # <<>> PROVE Parts(data, after, u)
  <2>1. n > 0
    BY <1>3, <1>11, Nothing
  <2>2. m = size
    BY <1>6, <2>1
  <2>3. CASE u
    BY <1>1, <1>3, <2>2, <2>3 DEF Parts
  <2>4. CASE ~u
    <3>1. SUFFICES ASSUME data[m] = Lead, after[1] = Trail PROVE FALSE
      BY <1>3, <2>4 DEF Parts
    <3>2. m \in 1..m + n /\ m + 1 \in 1..m + n /\ m \in 1..(m + n) - 1 /\ (m + 1) - m = 1
          /\ m <= m /\ ~(m + 1 <= m)
      BY <1>7, <2>1
    <3>3. left[m] = Lead /\ left[m + 1] = Trail
      BY <1>4, <3>1, <3>2
    <3>4. m % size = 0
      BY <2>2, ModStep
    <3>. QED
      BY <1>1, <1>4, <2>4, <3>2, <3>3, <3>4 DEF NoSplit
  <2>. QED
    BY <2>3, <2>4
<1>. QED
  BY <1>8, <1>9, <1>10, <1>11

\* Bytes whose blocks split no character are decoded block by block as all at once.
LEMMA BlocksAreWhole ==
  ASSUME NEW u \in BOOLEAN
  PROVE  \A left \in Seq(C) : NoSplit(left, u) => DecodeBlocks(left, u) = Decode(left, u)
<1>. DEFINE Good(left) == NoSplit(left, u) => DecodeBlocks(left, u) = Decode(left, u)
            S == {n \in Nat : \A left \in Seq(C) : Len(left) <= n => Good(left)}
<1>1. Good(<<>>)
  BY DecodeEmpty, BlocksOfNothing
<1>2. 0 \in S
  <2>1. ASSUME NEW left \in Seq(C), Len(left) <= 0 PROVE left = <<>>
    <3>1. Len(left) \in Nat
      BY LenProperties
    <3>. QED
      BY <2>1, <3>1, Nothing
  <2>. QED
    BY <1>1, <2>1
<1>3. ASSUME NEW n \in S PROVE n + 1 \in S
  <2>1. n \in Nat /\ \A left \in Seq(C) : Len(left) <= n => Good(left)
    OBVIOUS
  <2>2. SUFFICES ASSUME NEW left \in Seq(C), Len(left) <= n + 1, left # <<>>, NoSplit(left, u)
                 PROVE  DecodeBlocks(left, u) = Decode(left, u)
    BY <1>1, <2>1
  <2>3. PICK data \in Seq(C), after \in Seq(C) :
          /\ Reads(left, B, data, after) /\ Len(after) < Len(left) /\ NoSplit(after, u)
          /\ after # <<>> => Parts(data, after, u)
    BY <2>2, FirstBlock
  <2>4. DecodeBlocks(after, u) = Decode(after, u)
    <3>1. Len(after) \in Nat /\ Len(left) \in Nat
      BY LenProperties
    <3>2. Len(after) <= n
      BY <2>1, <2>2, <2>3, <3>1
    <3>. QED
      BY <2>1, <2>3, <3>2
  <2>5. PICK first \in Seq(C), later \in Seq(C) : first = Decode(data, u) /\ later = Decode(after, u)
    BY DecodeType
  <2>6. DecodeBlocks(left, u) = first \o later
    <3>1. Reads(left, B, data, after)
      BY <2>3
    <3>2. DecodeBlocks(left, u) = Decode(data, u) \o DecodeBlocks(after, u)
      BY <3>1, NextBlock
    <3>. QED
      BY <2>4, <2>5, <3>2
  <2>7. left = data \o after
    BY <2>3 DEF Reads
  <2>8. CASE after = <<>>
    <3>1. later = <<>> /\ left = data
      BY <2>5, <2>7, <2>8, DecodeEmpty, Nothing
    <3>2. first \o <<>> = first
      BY Nothing
    <3>. QED
      BY <2>5, <2>6, <3>1, <3>2
  <2>9. CASE after # <<>>
    <3>1. Parts(data, after, u)
      BY <2>3, <2>9
    <3>2. Decode(data \o after, u) = Decode(data, u) \o Decode(after, u)
      BY <3>1, DecodeConcat
    <3>. QED
      BY <2>5, <2>6, <2>7, <3>2
  <2>. QED
    BY <2>8, <2>9
<1>4. S = Nat
  <2>1. S \in SUBSET Nat
    OBVIOUS
  <2>. HIDE DEF S
  <2>. QED
    BY <1>2, <1>3, <2>1, Induction
<1>. QED
  <2>1. SUFFICES ASSUME NEW left \in Seq(C) PROVE Good(left)
    OBVIOUS
  <2>2. Len(left) \in Nat /\ Len(left) <= Len(left)
    BY LenProperties
  <2>3. Len(left) \in S
    BY <1>4, <2>2
  <2>. QED
    BY <2>2, <2>3

\* A number that is two or more is two more than one.
LEMMA TwoMore ==
  ASSUME NEW n \in Nat, n >= 2
  PROVE  \E k \in Nat : n = k + 2
<1>1. n - 2 \in Nat /\ n = (n - 2) + 2
  OBVIOUS
<1>. QED
  BY <1>1

\* What ends a concatenation ends it whatever comes first.
LEMMA SameEnd ==
  ASSUME NEW S, NEW a \in Seq(S), NEW x \in Seq(S), NEW y \in Seq(S), a \o x = a \o y
  PROVE  x = y
<1>1. PICK m \in Nat, n \in Nat, k \in Nat : m = Len(a) /\ n = Len(x) /\ k = Len(y)
  BY LenProperties
<1>2. Len(a \o x) = m + n /\ SubSeq(a \o x, m + 1, m + n) = x
  <2>1. Len(a \o x) = Len(a) + Len(x) /\ SubSeq(a \o x, Len(a) + 1, Len(a) + Len(x)) = x
    BY Concats
  <2>. QED
    BY <1>1, <2>1
<1>2a. Len(a \o y) = m + k /\ SubSeq(a \o y, m + 1, m + k) = y
  <2>1. Len(a \o y) = Len(a) + Len(y) /\ SubSeq(a \o y, Len(a) + 1, Len(a) + Len(y)) = y
    BY Concats
  <2>. QED
    BY <1>1, <2>1
<1>3. n = k
  BY <1>1, <1>2, <1>2a
<1>. QED
  BY <1>2, <1>2a, <1>3

\* A wide text does not begin with the bytes of the byte order mark.
LEMMA NoMarkInText ==
  ASSUME NEW text \in Seq(Plain), NEW e \in Seq(C), e = Encode(text, TRUE), Len(e) >= 2
  PROVE  ~(e[1] = "FF" /\ e[2] = "FE")
<1>1. SUFFICES ASSUME e[1] = "FF", e[2] = "FE" PROVE FALSE
  OBVIOUS
<1>2. PICK n \in Nat : n = Len(e) /\ n >= 2
  BY LenProperties
<1>3. Decode(e, TRUE) = text
  BY DecodeEncode
<1>5. 1 \in 1..(n \div 2) /\ 2 * 1 - 1 = 1 /\ 2 * 1 = 2
  <2>1. PICK k \in Nat : n = k + 2
    BY <1>2, TwoMore
  <2>2. k \div 2 \in Nat /\ (k + 2) \div 2 = (k \div 2) + 1
    BY <2>1, DivStep
  <2>. QED
    BY <2>1, <2>2
<1>6. text[1] = Wide(e[1], e[2])
  <2>1. 1 \in 1..(Len(e) \div 2)
    BY <1>2, <1>5
  <2>2. Decode(e, TRUE) = [i \in 1..(Len(e) \div 2) |-> Wide(e[2 * i - 1], e[2 * i])]
    BY DEF Decode
  <2>3. Decode(e, TRUE)[1] = Wide(e[2 * 1 - 1], e[2 * 1])
    BY <2>1, <2>2
  <2>. QED
    BY <1>3, <1>5, <2>3
<1>7. text[1] = "BOM"
  BY <1>1, <1>6 DEF Wide, BOM
<1>8. Len(text) = n \div 2
  BY <1>2, <1>3, DecodeWide
<1>9. text[1] \in Plain
  BY <1>5, <1>8, ElementOfSeq
<1>. QED
  BY <1>7, <1>9 DEF Plain

\* The head of a file without its byte order mark, and what follows, are the text's bytes.
LEMMA HeadWithoutMark ==
  ASSUME NEW u \in BOOLEAN, NEW text \in Seq(Plain), NEW e \in Seq(C), e = Encode(text, u),
         NEW data \in Seq(C), NEW after \in Seq(C), Reads(e, HeadSize, data, after)
  PROVE  SkippedBOM(data, u) = 0
<1>1. data \in Seq(C) /\ after \in Seq(C) /\ e = data \o after
  BY DEF Reads
<1>2. PICK m \in Nat, n \in Nat : m = Len(data) /\ n = Len(after)
  BY <1>1, LenProperties
<1>3. SUFFICES ASSUME u, m >= 2, SubSeq(data, 1, 2) = BOM PROVE FALSE
  BY <1>2 DEF SkippedBOM
<1>4. data[1] = "FF" /\ data[2] = "FE"
  <2>1. SubSeq(data, 1, 2)[1] = data[1] /\ SubSeq(data, 1, 2)[2] = data[2]
    BY <1>1, <1>2, <1>3
  <2>2. BOM[1] = "FF" /\ BOM[2] = "FE"
    BY DEF BOM
  <2>. QED
    BY <1>3, <2>1, <2>2
<1>5. Len(e) = m + n /\ e[1] = data[1] /\ e[2] = data[2]
  <2>1. /\ Len(data \o after) = Len(data) + Len(after)
        /\ \A i \in 1..Len(data) + Len(after) :
             (data \o after)[i] = IF i <= Len(data) THEN data[i] ELSE after[i - Len(data)]
    BY ConcatProperties
  <2>2. 1 \in 1..m + n /\ 2 \in 1..m + n /\ 1 <= m /\ 2 <= m
    BY <1>3
  <2>. QED
    BY <1>1, <1>2, <2>1, <2>2
<1>6. Len(e) >= 2
  <2>1. m + n >= 2
    BY <1>3
  <2>. QED
    BY <1>5, <2>1
<1>7. e = Encode(text, TRUE)
  BY <1>3
<1>. QED
  BY <1>4, <1>5, <1>6, <1>7, NoMarkInText

\* The byte order mark at the head is skipped.
LEMMA HeadWithMark ==
  ASSUME NEW e \in Seq(C), NEW data \in Seq(C), NEW after \in Seq(C), Reads(BOM \o e, HeadSize, data, after)
  PROVE  /\ SkippedBOM(data, TRUE) = 2
         /\ Drop(data, 2) \in Seq(C) /\ Drop(data, 2) \o after = e
         /\ 2 <= Len(data)
<1>1. data \in Seq(C) /\ after \in Seq(C) /\ BOM \o e = data \o after
      /\ Len(data) <= HeadSize /\ (Len(data) < HeadSize => after = <<>>)
  BY DEF Reads
<1>2. PICK m \in Nat, k \in Nat, n \in Nat : m = Len(data) /\ k = Len(e) /\ n = Len(after)
  BY <1>1, LenProperties
<1>3. PICK bom \in Seq(C) : bom = BOM /\ Len(bom) = 2 /\ bom[1] = "FF" /\ bom[2] = "FE"
  BY PlainIsC DEF BOM
<1>4. /\ Len(bom \o e) = 2 + k /\ (bom \o e)[1] = bom[1] /\ (bom \o e)[2] = bom[2]
      /\ Len(data \o after) = m + n
  <2>1. /\ Len(bom \o e) = 2 + k
        /\ \A i \in 1..2 + k : (bom \o e)[i] = IF i <= 2 THEN bom[i] ELSE e[i - 2]
    <3>1. /\ Len(bom \o e) = Len(bom) + Len(e)
          /\ \A i \in 1..Len(bom) + Len(e) :
               (bom \o e)[i] = IF i <= Len(bom) THEN bom[i] ELSE e[i - Len(bom)]
      BY ConcatProperties
    <3>. QED
      BY <1>2, <1>3, <3>1
  <2>3. Len(data \o after) = m + n
    <3>1. Len(data \o after) = Len(data) + Len(after)
      BY ConcatProperties
    <3>. QED
      BY <1>2, <3>1
  <2>2. 1 \in 1..2 + k /\ 2 \in 1..2 + k /\ 1 <= 2 /\ 2 <= 2
    OBVIOUS
  <2>. QED
    BY <2>1, <2>2, <2>3
<1>5. m >= 2
  <2>1. m + n >= 2
    BY <1>1, <1>3, <1>4
  <2>2. CASE m < HeadSize
    BY <1>1, <1>2, <2>1, <2>2, NothingTwice
  <2>3. CASE ~(m < HeadSize)
    BY <2>3, SizesAssumption
  <2>. QED
    BY <2>2, <2>3
<1>6. PICK d1 \in Seq(C), d2 \in Seq(C) :
        /\ d1 = SubSeq(data, 1, 2) /\ d2 = Drop(data, 2) /\ data = d1 \o d2 /\ Len(d1) = 2
        /\ d1[1] = data[1] /\ d1[2] = data[2]
  <2>1. /\ SubSeq(data, 1, 2) \o SubSeq(data, 2 + 1, Len(data)) = data
        /\ SubSeq(data, 1, 2) \in Seq(C) /\ Len(SubSeq(data, 1, 2)) = 2
        /\ SubSeq(data, 2 + 1, Len(data)) \in Seq(C)
    BY <1>1, <1>2, <1>5, Wholes
  <2>2. SubSeq(data, 1, 2)[1] = data[1] /\ SubSeq(data, 1, 2)[2] = data[2]
    BY <1>1, <1>2, <1>5
  <2>. QED
    BY <2>1, <2>2 DEF Drop
<1>7. (data \o after)[1] = data[1] /\ (data \o after)[2] = data[2]
  <2>1. \A i \in 1..Len(data) + Len(after) :
             (data \o after)[i] = IF i <= Len(data) THEN data[i] ELSE after[i - Len(data)]
    BY ConcatProperties
  <2>2. 1 \in 1..m + n /\ 2 \in 1..m + n /\ 1 <= m /\ 2 <= m
    BY <1>5
  <2>. QED
    BY <1>2, <2>1, <2>2
<1>8. d1 = bom
  <2>1. d1[1] = bom[1] /\ d1[2] = bom[2]
    BY <1>1, <1>3, <1>4, <1>6, <1>7
  <2>2. \A i \in 1..2 : d1[i] = bom[i]
    BY <2>1
  <2>. QED
    BY <1>3, <1>6, <2>2, SeqEqual
<1>9. SkippedBOM(data, TRUE) = 2
  BY <1>2, <1>3, <1>5, <1>6, <1>8 DEF SkippedBOM
<1>10. d2 \o after = e
  <2>1. d2 \o after \in Seq(C)
    BY <1>1, Concats
  <2>2. (bom \o d2) \o after = bom \o (d2 \o after)
    BY ConcatAssociative
  <2>3. bom \o (d2 \o after) = bom \o e
    BY <1>1, <1>3, <1>6, <1>8, <2>2
  <2>. QED
    BY <2>1, <2>3, SameEnd
<1>. QED
  BY <1>2, <1>5, <1>6, <1>9, <1>10

\* The head and the blocks after it are decoded to the text.
Gives(head, after, u, text) == Decode(head, u) \o DecodeBlocks(after, u) = text

\* Where a file splits no character, its head and its blocks give the text.
LEMMA HeadAndBlocks ==
  ASSUME NEW u \in BOOLEAN, NEW text \in Seq(Plain), NEW e \in Seq(C), e = Encode(text, u),
         NEW head \in Seq(C), NEW after \in Seq(C), head \o after = e,
         NoSplit(after, u), after # <<>> => Parts(head, after, u)
  PROVE  Gives(head, after, u, text)
<1>0. SUFFICES Decode(head, u) \o DecodeBlocks(after, u) = text
  BY DEF Gives
<1>1. PICK first \in Seq(C), later \in Seq(C) : first = Decode(head, u) /\ later = Decode(after, u)
  BY DecodeType
<1>2. DecodeBlocks(after, u) = later
  BY <1>1, BlocksAreWhole
<1>3. Decode(e, u) = text
  BY DecodeEncode
<1>4. CASE after = <<>>
  <2>1. later = <<>> /\ head = e
    BY <1>1, <1>4, DecodeEmpty, Nothing
  <2>2. first \o <<>> = first
    BY Nothing
  <2>. QED
    BY <1>1, <1>2, <1>3, <2>1, <2>2
<1>5. CASE after # <<>>
  <2>1. Parts(head, after, u)
    BY <1>5
  <2>2. Decode(head \o after, u) = Decode(head, u) \o Decode(after, u)
    BY <2>1, DecodeConcat
  <2>. QED
    BY <1>1, <1>2, <1>3, <2>2
<1>. QED
  BY <1>4, <1>5

\* The blocks after the head split no character, nor does the head's end.
LEMMA NarrowHead ==
  ASSUME NEW e \in Seq(C), NEW data \in Seq(C), NEW after \in Seq(C), Reads(e, HeadSize, data, after),
         ~SplitsCharacter(e)
  PROVE  NoSplit(after, FALSE) /\ (after # <<>> => Parts(data, after, FALSE))
<1>1. PICK size \in Nat \ {0}, head \in Nat \ {0} : size = B /\ head = HeadSize
  BY BIs, SizesAssumption
<1>2. /\ e = data \o after /\ Len(data) <= head /\ (Len(data) < head => after = <<>>)
  BY <1>1 DEF Reads
<1>3. PICK m \in Nat, n \in Nat : m = Len(data) /\ n = Len(after)
  BY LenProperties
<1>4. /\ Len(e) = m + n
      /\ \A i \in 1..m + n : e[i] = IF i <= m THEN data[i] ELSE after[i - m]
  <2>1. /\ Len(data \o after) = Len(data) + Len(after)
        /\ \A i \in 1..Len(data) + Len(after) :
             (data \o after)[i] = IF i <= Len(data) THEN data[i] ELSE after[i - Len(data)]
    BY ConcatProperties
  <2>. QED
    BY <1>2, <1>3, <2>1
<1>5. ASSUME n > 0 PROVE m = head
  <2>1. m < head => n = 0
    BY <1>2, <1>3, NothingTwice
  <2>2. m <= head
    BY <1>2, <1>3
  <2>. QED
    BY <1>5, <2>1, <2>2
<1>6. ASSUME NEW i \in 1..(m + n) - 1, i >= head, e[i] = Lead, e[i + 1] = Trail
      PROVE  (i - head) % size # 0
  BY <1>1, <1>4, <1>6 DEF SplitsCharacter, B
<1>7. ASSUME NEW i \in 1..n - 1, after[i] = Lead, after[i + 1] = Trail
      PROVE  i % size # 0
  <2>1. i \in Nat /\ n > 0 /\ m = head
    BY <1>5
  <2>2. PICK j : j = i + head /\ j \in 1..(m + n) - 1 /\ j \in 1..m + n /\ j + 1 \in 1..m + n
                 /\ j - m = i /\ (j + 1) - m = i + 1 /\ ~(j <= m) /\ ~(j + 1 <= m) /\ j >= head /\ j - head = i
    BY <2>1
  <2>3. e[j] = after[i] /\ e[j + 1] = after[i + 1]
    BY <1>4, <2>2
  <2>. QED
    BY <1>6, <1>7, <2>2, <2>3
<1>8. NoSplit(after, FALSE)
  BY <1>1, <1>3, <1>7 DEF NoSplit
<1>9. ASSUME after # <<>> PROVE Parts(data, after, FALSE)
  <2>1. n > 0
    BY <1>3, <1>9, Nothing
  <2>2. m = head
    BY <1>5, <2>1
  <2>3. SUFFICES ASSUME data[m] = Lead, after[1] = Trail PROVE FALSE
    BY <1>3 DEF Parts
  <2>4. m \in 1..m + n /\ m + 1 \in 1..m + n /\ m \in 1..(m + n) - 1 /\ (m + 1) - m = 1
        /\ m <= m /\ ~(m + 1 <= m) /\ m >= head /\ m - head = 0
    BY <2>1, <2>2
  <2>5. e[m] = Lead /\ e[m + 1] = Trail
    BY <1>4, <2>3, <2>4
  <2>6. 0 % size = 0
    OBVIOUS
  <2>. QED
    BY <1>6, <2>4, <2>5, <2>6
<1>. QED
  BY <1>8, <1>9

\* The head of a wide text is cut where a character ends.
LEMMA WideHead ==
  ASSUME NEW data \in Seq(C), NEW after \in Seq(C), NEW left, Reads(left, HeadSize, data, after),
         NEW k \in {0, 2}, k <= Len(data)
  PROVE  NoSplit(after, TRUE) /\ (after # <<>> => Parts(Drop(data, k), after, TRUE))
<1>1. NoSplit(after, TRUE)
  BY DEF NoSplit
<1>2. ASSUME after # <<>> PROVE Parts(Drop(data, k), after, TRUE)
  <2>1. Len(data) <= HeadSize /\ (Len(data) < HeadSize => after = <<>>)
    BY DEF Reads
  <2>2. PICK m \in Nat : m = Len(data)
    BY LenProperties
  <2>3. HeadSize \in Nat /\ HeadSize % 2 = 0
    BY SizesAssumption
  <2>3a. m = HeadSize
    BY <1>2, <2>1, <2>2, <2>3
  <2>4. Len(Drop(data, k)) = IF k < m THEN m - k ELSE 0
    <3>1. k \in Nat
      OBVIOUS
    <3>. QED
      BY <2>2, <3>1, DropType
  <2>5. Len(Drop(data, k)) = m - k
    BY <2>2, <2>4
  <2>6. (m - k) % 2 = 0
    BY <2>2, <2>3, <2>3a
  <2>. QED
    BY <2>5, <2>6 DEF Parts
<1>. QED
  BY <1>1, <1>2

\* What is found in a file that holds a text, in a format, with a byte order mark or without.
LEMMA TextFound ==
  ASSUME NEW u \in BOOLEAN, NEW text \in Seq(Plain), NEW b \in {<<>>, BOM}, b = BOM => u,
         NEW e \in Seq(C), e = Encode(text, u),
         NEW data \in Seq(C), NEW after \in Seq(C), Reads(b \o e, HeadSize, data, after),
         ~u => ~SplitsCharacter(b \o e)
  PROVE  Gives(Drop(data, SkippedBOM(data, u)), after, u, text)
<1>1. CASE b = BOM
  <2>1. u = TRUE
    BY <1>1
  <2>2. Reads(BOM \o e, HeadSize, data, after)
    BY <1>1
  <2>3. PICK head \in Seq(C) : head = Drop(data, 2) /\ head \o after = e /\ SkippedBOM(data, TRUE) = 2 /\ 2 <= Len(data)
    BY <2>2, HeadWithMark
  <2>4. NoSplit(after, TRUE) /\ (after # <<>> => Parts(head, after, TRUE))
    BY <2>2, <2>3, WideHead
  <2>5. Gives(head, after, u, text)
    BY <2>1, <2>3, <2>4, HeadAndBlocks
  <2>. QED
    BY <2>1, <2>3, <2>5
<1>2. CASE b # BOM
  <2>1. b \o e = e
    BY <1>2, Nothing
  <2>2. Reads(e, HeadSize, data, after) /\ (~u => ~SplitsCharacter(e))
    BY <2>1
  <2>3. SkippedBOM(data, u) = 0
    BY <2>2, HeadWithoutMark
  <2>4. Drop(data, 0) = data
    <3>1. SubSeq(data, 1, Len(data)) = data
      BY Wholes
    <3>. QED
      BY <3>1 DEF Drop
  <2>5. data \o after = e
    BY <2>2 DEF Reads
  <2>6. NoSplit(after, u) /\ (after # <<>> => Parts(data, after, u))
    <3>1. CASE u
      <4>1. u = TRUE /\ 0 <= Len(data)
        BY <3>1, LenProperties
      <4>2. NoSplit(after, TRUE) /\ (after # <<>> => Parts(Drop(data, 0), after, TRUE))
        BY <2>2, <4>1, WideHead
      <4>. QED
        BY <2>4, <4>1, <4>2
    <3>2. CASE ~u
      <4>1. u = FALSE /\ ~SplitsCharacter(e)
        BY <2>2, <3>2
      <4>2. NoSplit(after, FALSE) /\ (after # <<>> => Parts(data, after, FALSE))
        BY <2>2, <4>1, NarrowHead
      <4>. QED
        BY <4>1, <4>2
    <3>. QED
      BY <3>1, <3>2
  <2>7. Gives(data, after, u, text)
    BY <2>5, <2>6, HeadAndBlocks
  <2>. QED
    BY <2>3, <2>4, <2>7
<1>. QED
  BY <1>1, <1>2

\* What a stream that was just opened has to give: the head without its byte order
\* mark, and the blocks after it.
LEMMA HeadIsRead ==
  ASSUME IInv, NEW s \in Streams, NEW disposition, NEW u \in BOOLEAN,
         NEW t \in StreamType, NEW v \in StreamType, Created(s, disposition, "ForReading", u, t, v)
  PROVE  /\ stream'[s].unicode = u
         /\ \E data, after \in Seq(C) :
              /\ Reads(content, HeadSize, data, after)
              /\ Gives(Drop(data, SkippedBOM(data, u)), after, u, RestOf(s)')
<1>1. PICK f : /\ f = Fread(t, HeadSize) /\ t.out = <<>> /\ t.kind # "w"
               /\ v = [t EXCEPT !.pos = f.pos, !.ahead = f.ahead, !.eof = Len(f.data) # HeadSize,
                         !.read_buf = Decode(Drop(f.data, SkippedBOM(f.data, t.unicode)), t.unicode)]
  BY DEF Created
<1>2. /\ stream' = [stream EXCEPT ![s] = v] /\ content' = content
      /\ t.pos = 0 /\ t.ahead = <<>> /\ t.unicode = u
  BY <1>1 DEF Created
<1>3. content \in Seq(C) /\ HeadSize \in Nat
  BY SizesAssumption DEF IInv, Disk
<1>4. Left(t) = content
  <2>1. Drop(content, 0) = content
    <3>1. SubSeq(content, 1, Len(content)) = content
      BY <1>3, Wholes
    <3>. QED
      BY <3>1 DEF Drop
  <2>2. <<>> \o content = content
    BY <1>3, Nothing
  <2>. QED
    BY <1>2, <2>1, <2>2 DEF Left
<1>5. PICK data \in Seq(C), after \in Seq(C) :
        /\ data = f.data /\ after = f.ahead \o Drop(content, f.pos)
        /\ Reads(content, HeadSize, data, after)
  <2>1. Reads(Left(t), HeadSize, f.data, f.ahead \o Drop(content, f.pos))
    BY <1>1, <1>3, FreadIs
  <2>. QED
    BY <1>4, <2>1 DEF Reads
<1>6. PICK buf \in Seq(C) : buf = Decode(Drop(data, SkippedBOM(data, u)), u)
  BY SkippedBOMType, DropType, DecodeType
<1>7. PICK eof \in BOOLEAN : eof = (Len(data) # HeadSize)
  OBVIOUS
<1>8. /\ v.pos = f.pos /\ v.ahead = f.ahead /\ v.eof = eof /\ v.read_buf = buf /\ v.unicode = u
  <2>1. v = [t EXCEPT !.pos = f.pos, !.ahead = f.ahead, !.eof = eof, !.read_buf = buf]
    BY <1>1, <1>2, <1>5, <1>6, <1>7
  <2>. QED
    BY <1>2, <2>1 DEF StreamType
<1>9. stream'[s] = v
  BY <1>2 DEF IInv
<1>10. RestOf(s)' = IF eof THEN buf ELSE buf \o DecodeBlocks(after, u)
  <2>1. RestOf(s)' = IF v.eof THEN v.read_buf ELSE v.read_buf \o DecodeBlocks(Left(v), v.unicode)
    BY <1>2, <1>9 DEF RestOf, Left
  <2>2. Left(v) = after
    BY <1>5, <1>8 DEF Left
  <2>. QED
    BY <1>8, <2>1, <2>2
<1>11. buf \o DecodeBlocks(after, u) = RestOf(s)'
  <2>1. CASE eof
    <3>1. after = <<>>
      <4>1. Len(data) \in Nat /\ Len(data) # HeadSize
        BY <1>7, <2>1, LenProperties
      <4>2. Len(data) <= HeadSize /\ (Len(data) < HeadSize => after = <<>>)
        BY <1>5 DEF Reads
      <4>. QED
        BY <1>3, <4>1, <4>2
    <3>2. DecodeBlocks(after, u) = <<>>
      BY <3>1, BlocksOfNothing
    <3>3. buf \o <<>> = buf
      BY Nothing
    <3>. QED
      BY <1>10, <2>1, <3>2, <3>3
  <2>2. CASE ~eof
    BY <1>10, <2>2
  <2>. QED
    BY <2>1, <2>2
<1>12. Gives(Drop(data, SkippedBOM(data, u)), after, u, RestOf(s)')
  BY <1>6, <1>11 DEF Gives
<1>. QED
  BY <1>5, <1>8, <1>9, <1>12

\* What gives one text gives no other.
LEMMA GivesOne ==
  ASSUME NEW head, NEW after, NEW u, NEW x, NEW y, Gives(head, after, u, x), Gives(head, after, u, y)
  PROVE  x = y
  BY DEF Gives

\* What the invariant says of a file that nobody writes, to who reads it in its format.
LEMMA FileHolds ==
  ASSUME Kept, history.whole, Writers = {}, NEW u \in BOOLEAN, history.formats \subseteq {u}
  PROVE  \E text \in Seq(Plain), b \in {<<>>, BOM} :
           text = history.text /\ (b = BOM => u) /\ content = b \o Encode(text, u)
<1>1. PICK text \in Seq(Plain), x \in BOOLEAN, b \in {<<>>, BOM} : text = history.text /\ KeptAs(x, b)
  BY DEF Kept
<1>2. content = b \o Encode(text, x) /\ (b = BOM => x) /\ (b # <<>> \/ text # <<>> => history.formats = {x})
  BY <1>1 DEF KeptAs
<1>3. CASE b # <<>> \/ text # <<>>
  <2>1. x = u
    BY <1>2, <1>3
  <2>. QED
    BY <1>1, <1>2, <2>1
<1>4. CASE ~(b # <<>> \/ text # <<>>)
  <2>1. b = <<>> /\ text = <<>>
    BY <1>4
  <2>2. Encode(text, x) = Encode(text, u)
    BY <2>1, EncodeEmpty
  <2>3. b # BOM
    BY <2>1, BOMIs
  <2>. QED
    BY <1>1, <1>2, <2>2, <2>3
<1>. QED
  BY <1>3, <1>4

\* A stream that is opened finds in the file the text that was written.
LEMMA OpensFinds ==
  ASSUME IInv, Kept, NEW s \in Streams, Opens(s), CanRead(stream'[s]),
         history.whole, Writers = {}, history.formats \subseteq {stream'[s].unicode},
         ~stream'[s].unicode => ~SplitsCharacter(content)
  PROVE  RestOf(s)' = history.text
<1>1. PICK disposition \in Dispositions, mode \in Modes, unicode \in BOOLEAN :
        /\ mode = "ForReading" => disposition \in {"OPEN_ALWAYS", "OPEN_EXISTING"}
        /\ create_textstream(s, disposition, mode, unicode)
  BY OpensCreate DEF Creates
<1>2. PICK t \in StreamType, v \in StreamType : Created(s, disposition, mode, unicode, t, v)
  BY <1>1, CreatedStream
<1>3. mode = "ForReading"
  <2>1. stream'[s] = v
    BY <1>2 DEF Created, IInv
  <2>2. v.mode = mode
    <3>1. v = [t EXCEPT !.pos = v.pos, !.ahead = v.ahead, !.eof = v.eof, !.read_buf = v.read_buf] /\ t.mode = mode
      BY <1>2 DEF Created
    <3>. QED
      BY <3>1 DEF StreamType
  <2>. QED
    BY <2>1, <2>2 DEF CanRead
<1>4. PICK data \in Seq(C), after \in Seq(C) :
        /\ Reads(content, HeadSize, data, after)
        /\ Gives(Drop(data, SkippedBOM(data, unicode)), after, unicode, RestOf(s)')
        /\ stream'[s].unicode = unicode
  BY <1>2, <1>3, HeadIsRead
<1>5. PICK text \in Seq(Plain), b \in {<<>>, BOM} :
        text = history.text /\ (b = BOM => unicode) /\ content = b \o Encode(text, unicode)
  BY <1>4, FileHolds
<1>6. PICK e \in Seq(C) : e = Encode(text, unicode)
  BY PlainText, EncodeType
<1>7. Reads(b \o e, HeadSize, data, after) /\ (~unicode => ~SplitsCharacter(b \o e))
  BY <1>4, <1>5, <1>6
<1>8. Gives(Drop(data, SkippedBOM(data, unicode)), after, unicode, text)
  BY <1>5, <1>6, <1>7, TextFound
<1>. QED
  BY <1>4, <1>5, <1>8, GivesOne

\* Only opening makes a stream an open one.
LEMMA OnlyOpens ==
  ASSUME IInv, [Next]_vars, NEW s \in Streams, stream[s].file = "free", stream'[s].file = "open"
  PROVE  Opens(s)
<1>1. ASSUME NEW r \in Streams, NEW v, stream[r].file # "free", stream' = [stream EXCEPT ![r] = v]
      PROVE  FALSE
  BY <1>1 DEF IInv
<1>2. ~ReadStep
  <2>1. SUFFICES ASSUME ReadStep PROVE FALSE
    OBVIOUS
  <2>2. Reading
    BY <2>1 DEF ReadStep, read_more_data, ReadFails, EndOfFile, ReadText, ReadLine, ReadAll, Some, Fetched
  <2>3. PICK r \in Streams : r = call.s /\ stream[r].file # "free"
    BY <2>2, ReaderIs DEF IInv, CallOK, Reading
  <2>4. \E v : stream' = [stream EXCEPT ![r] = v]
    <3>1. ASSUME NEW hr, NEW len, NEW skip, Takes(hr, len, skip) PROVE \E v : stream' = [stream EXCEPT ![r] = v]
      BY <2>3, <3>1 DEF Takes
    <3>2. CASE read_more_data
      BY <2>3, <3>2 DEF read_more_data
    <3>3. CASE ReadFails
      BY <2>3, <3>3 DEF ReadFails
    <3>4. CASE EndOfFile
      BY <3>1, <3>4 DEF EndOfFile
    <3>5. CASE ReadText
      BY <3>1, <3>5 DEF ReadText
    <3>6. CASE ReadLine
      BY <3>1, <3>6 DEF ReadLine
    <3>7. CASE ReadAll
      BY <3>1, <3>7 DEF ReadAll
    <3>. QED
      BY <2>1, <3>2, <3>3, <3>4, <3>5, <3>6, <3>7 DEF ReadStep
  <2>. QED
    BY <1>1, <2>3, <2>4
<1>3. ASSUME stream' = stream PROVE FALSE
  BY <1>3
<1>4. ASSUME NEW r \in Streams, Opens(r) PROVE r = s
  <2>1. PICK disposition \in Dispositions, mode \in Modes, unicode \in BOOLEAN :
          /\ mode = "ForReading" => disposition \in {"OPEN_ALWAYS", "OPEN_EXISTING"}
          /\ create_textstream(r, disposition, mode, unicode)
    BY <1>4, OpensCreate DEF Creates
  <2>2. PICK t \in StreamType, v \in StreamType : Created(r, disposition, mode, unicode, t, v)
    BY <2>1, CreatedStream
  <2>. QED
    BY <2>2 DEF Created, IInv
<1>5. ASSUME NEW r \in Streams, BadFileMode(r) PROVE FALSE
  BY <1>3, <1>5 DEF BadFileMode
<1>6. ASSUME NEW r \in Streams, BeginsReading(r) PROVE FALSE
  BY <1>3, <1>6 DEF BeginsReading, BeginRead
<1>7. ASSUME NEW r \in Streams, get_AtEndOfStream(r) PROVE FALSE
  BY <1>3, <1>7 DEF get_AtEndOfStream
<1>8. ASSUME NEW r \in Streams, NEW w, NEW text, MayWrite(r), Writes(r, w, text) PROVE FALSE
  BY <1>1, <1>8 DEF Writes, MayWrite, Calls
<1>9. ASSUME NEW r \in Streams, NEW text \in Texts, Write(r, text) \/ WriteLine(r, text) PROVE FALSE
  BY <1>8, <1>9 DEF Write, WriteLine
<1>10. ASSUME NEW r \in Streams, WriteBlankLines(r) PROVE FALSE
  <2>1. MayWrite(r) /\ stream[r].file # "free"
    BY <1>10 DEF WriteBlankLines, MayWrite, Calls
  <2>2. PICK w : IF CanWrite(stream[r]) THEN Writes(r, w, CRLF) ELSE stream' = [stream EXCEPT ![r] = w.stream]
    BY <1>10 DEF WriteBlankLines
  <2>. QED
    BY <1>1, <1>8, <2>1, <2>2
<1>11. ASSUME NEW r \in Streams, Close(r) \/ Release(r) PROVE FALSE
  <2>1. stream[r].file # "free"
    BY <1>11 DEF Close, Release, Calls
  <2>2. \E v : stream' = [stream EXCEPT ![r] = v]
    BY <1>11 DEF Close, Release, ClosedBy
  <2>. QED
    BY <1>1, <2>1, <2>2
<1>12. ~UNCHANGED vars
  BY <1>3 DEF vars
<1>. QED
  BY <1>2, <1>4, <1>5, <1>6, <1>7, <1>9, <1>10, <1>11, <1>12 DEF Next

\* What streams wrote, one at a time and in one format, with room on the disk, and
\* closed, is what a stream of that format finds when it opens the file: the byte order
\* mark, the encoding, the appended parts and the blocks of the reader fit together.
THEOREM StreamsAreReadBack == Spec => ReadBack
<1>. DEFINE Found ==
       \A s \in Streams :
         (/\ stream[s].file = "free" /\ stream'[s].file = "open" /\ CanRead(stream'[s])
          /\ history.whole /\ Writers = {} /\ history.formats \subseteq {stream'[s].unicode}
          /\ ~stream'[s].unicode => ~SplitsCharacter(content))
         => RestOf(s)' = history.text
<1>1. ASSUME IInv, Kept, [Next]_vars PROVE Found
  BY <1>1, OnlyOpens, OpensFinds
<1>2. IInv /\ Kept /\ [Next]_vars => [Found]_vars
  BY <1>1
<1>3. Spec => [][Found]_vars
  <2>. HIDE DEF Found
  <2>. QED
    BY <1>2, AlwaysIInv, AlwaysKept, PTL DEF Spec
<1>. QED
  BY <1>3 DEF ReadBack
===============================================================================
