----------------------------- MODULE ByteProofs -----------------------------
(***************************************************************************)
(* Lemmas about the byte format of StorageBytes, and their proofs, checked *)
(* by TLAPS for every value of the constants: what a Writer writes, the    *)
(* Reader of the same name reads back where it stands, and fails where the *)
(* bytes end inside of it.  They go from numbers over strings and values   *)
(* to maps and sequences of parts.  What a loop gives is found by          *)
(* induction, which rests on a set of numbers having a least element.      *)
(***************************************************************************)
EXTENDS StorageBytes, KeyProofs

(* The digits of a number are bytes, as many as asked for.                 *)
LEMMA LittleEndianType ==
    ASSUME NEW n \in Nat, NEW w \in Nat
    PROVE  /\ LittleEndian(n, w) \in Seq(Bytes)
           /\ Len(LittleEndian(n, w)) = w
<1>1. ASSUME NEW i \in 1..w PROVE (n \div Power[i - 1]) % Base \in Bytes
  <2>1. Power[i - 1] \in Nat \ {0}
    BY PowerValues
  <2>2. n \div Power[i - 1] \in Nat
    BY <2>1
  <2> QED  BY <2>2, KeyAssumption DEF Bytes
<1> QED  BY <1>1 DEF LittleEndian

(* What is written of a number is read back as that number.                *)
LEMMA NumberReadBack ==
    ASSUME NEW w \in Nat, NEW n \in Nat, n < Power[w]
    PROVE  FromLittleEndian(LittleEndian(n, w)) = n
<1> DEFINE b == LittleEndian(n, w)
           Step(f) == [i \in 0..Len(b) |->
                          IF i = 0 THEN 0 ELSE f[i - 1] + b[i] * Power[i - 1]]
           f == CHOOSE g : g = Step(g)
           v == [i \in 0..w |-> n % Power[i]]
<1>1. b \in Seq(Bytes) /\ Len(b) = w /\ \A i \in 1..w : b[i] = (n \div Power[i - 1]) % Base
  BY LittleEndianType DEF LittleEndian
<1>2. v[0] = 0
  BY PowerValues
<1>3. ASSUME NEW i \in 1..w PROVE v[i] = v[i - 1] + b[i] * Power[i - 1]
  <2>1. i - 1 \in Nat /\ (i - 1) + 1 = i /\ i - 1 \in 0..w
    OBVIOUS
  <2>2. Power[i - 1] \in Nat \ {0} /\ Power[i] = Base * Power[i - 1]
    BY <2>1, PowerValues
  <2>3. n % Power[i] = (n % Power[i - 1]) + ((n \div Power[i - 1]) % Base) * Power[i - 1]
    BY <2>2, NextDigit
  <2> QED  BY <1>1, <2>1, <2>3
<1>4. FromLittleEndian(b) = f[Len(b)]
  BY DEF FromLittleEndian
<1> HIDE DEF b
<1>5. v = Step(v)
  <2>1. DOMAIN v = 0..Len(b)
    BY <1>1
  <2> HIDE DEF v
  <2>2. v = [i \in 0..Len(b) |-> v[i]]
    BY <2>1 DEF v
  <2>3. \A i \in 0..Len(b) : i # 0 => i \in 1..w
    BY <1>1
  <2> QED  BY <1>2, <1>3, <2>2, <2>3
<1>6. f = Step(f)
  BY <1>5
<1> HIDE DEF f, v
<1> DEFINE S == {i \in 0..w : f[i] = v[i]}
<1>7. 0 \in S
  BY <1>1, <1>2, <1>6
<1>8. \A i \in 1..w : i - 1 \in S => i \in S
  <2> SUFFICES ASSUME NEW i \in 1..w, i - 1 \in S PROVE f[i] = v[i]
    OBVIOUS
  <2>1. f[i] = f[i - 1] + b[i] * Power[i - 1]
    BY <1>1, <1>6
  <2> QED  BY <1>3, <2>1
<1> HIDE DEF S
<1>9. 0..w \subseteq S
  BY <1>7, <1>8, UpToInduction
<1>10. f[w] = v[w]
  BY <1>9 DEF S
<1>11. v[w] = n
  <2>1. Power[w] \in Nat \ {0}
    BY PowerValues
  <2> QED  BY <2>1 DEF v
<1> QED  BY <1>1, <1>4, <1>10, <1>11 DEF b

-----------------------------------------------------------------------------
(* The input holds the part at p; or it ends inside of it, and agrees with *)
(* it as far as it goes.                                                   *)
At(input, p, part) ==
    /\ p + Len(part) <= Len(input) + 1
    /\ \A i \in 1..Len(part) : input[(p - 1) + i] = part[i]

CutAt(input, p, part) ==
    /\ p <= Len(input) + 1
    /\ Len(input) + 1 < p + Len(part)
    /\ \A i \in 1..Len(part) : (p - 1) + i <= Len(input) => input[(p - 1) + i] = part[i]

(* Two parts, one behind the other, with the lengths spelt out.            *)
LEMMA AtConcat ==
    ASSUME NEW input \in Seq(Bytes), NEW p \in Nat \ {0},
           NEW a \in Seq(Bytes), NEW b \in Seq(Bytes)
    PROVE  /\ a \o b \in Seq(Bytes)
           /\ Len(a \o b) = Len(a) + Len(b)
           /\ p + Len(a) \in Nat \ {0}
           /\ (p + Len(a)) + Len(b) = p + Len(a \o b)
           /\ At(input, p, a \o b) => At(input, p, a) /\ At(input, p + Len(a), b)
           /\ CutAt(input, p, a \o b) =>
                 \/ CutAt(input, p, a)
                 \/ At(input, p, a) /\ CutAt(input, p + Len(a), b)
<1>1. /\ a \o b \in Seq(Bytes) /\ Len(a \o b) = Len(a) + Len(b)
      /\ Len(a) \in Nat /\ Len(b) \in Nat /\ Len(input) \in Nat
      /\ \A i \in 1..Len(a) : (a \o b)[i] = a[i]
      /\ \A i \in 1..Len(b) : (a \o b)[Len(a) + i] = b[i]
  OBVIOUS
<1> DEFINE c == a \o b
<1> HIDE DEF c
<1>2. \A i \in 1..Len(a) : i \in 1..Len(c)
  BY <1>1 DEF c
<1>3. \A i \in 1..Len(b) : Len(a) + i \in 1..Len(c)
  BY <1>1 DEF c
<1>4. \A i \in 1..Len(b) : (p - 1) + (Len(a) + i) = ((p + Len(a)) - 1) + i
  BY <1>1
<1>5. ASSUME At(input, p, c) PROVE At(input, p, a) /\ At(input, p + Len(a), b)
  <2>1. At(input, p, a)
    BY <1>1, <1>2, <1>5 DEF At, c
  <2>2. \A i \in 1..Len(b) : input[(p - 1) + (Len(a) + i)] = c[Len(a) + i]
    BY <1>3, <1>5 DEF At
  <2>3. (p + Len(a)) + Len(b) <= Len(input) + 1
    BY <1>1, <1>5 DEF At, c
  <2>4. \A i \in 1..Len(b) : input[((p + Len(a)) - 1) + i] = b[i]
    BY <1>1, <1>4, <2>2 DEF c
  <2> QED  BY <2>1, <2>3, <2>4 DEF At
<1>6. ASSUME CutAt(input, p, c), ~CutAt(input, p, a)
      PROVE  At(input, p, a) /\ CutAt(input, p + Len(a), b)
  <2>1. p + Len(a) <= Len(input) + 1
    <3> SUFFICES ASSUME ~(p + Len(a) <= Len(input) + 1) PROVE FALSE
      OBVIOUS
    <3>1. \A i \in 1..Len(a) : (p - 1) + i <= Len(input) => input[(p - 1) + i] = a[i]
      BY <1>1, <1>2, <1>6 DEF CutAt, c
    <3>2. p <= Len(input) + 1 /\ Len(input) + 1 < p + Len(a)
      BY <1>1, <1>6 DEF CutAt
    <3> QED  BY <1>6, <3>1, <3>2 DEF CutAt
  <2>2. At(input, p, a)
    <3>1. \A i \in 1..Len(a) : (p - 1) + i <= Len(input)
      BY <1>1, <2>1
    <3> QED  BY <1>1, <1>2, <1>6, <2>1, <3>1 DEF At, CutAt, c
  <2>3. \A i \in 1..Len(b) : (p - 1) + (Len(a) + i) <= Len(input)
                                => input[(p - 1) + (Len(a) + i)] = c[Len(a) + i]
    BY <1>3, <1>6 DEF CutAt
  <2>4. Len(input) + 1 < (p + Len(a)) + Len(b)
    BY <1>1, <1>6 DEF CutAt, c
  <2>5. \A i \in 1..Len(b) : ((p + Len(a)) - 1) + i <= Len(input)
                                => input[((p + Len(a)) - 1) + i] = b[i]
    BY <1>1, <1>4, <2>3 DEF c
  <2> QED  BY <2>1, <2>2, <2>4, <2>5 DEF CutAt
<1> QED  BY <1>1, <1>5, <1>6 DEF c

(* ReadExact takes the part that stands where it reads, and fails where    *)
(* the bytes end inside of it.                                             *)
LEMMA ExactRead ==
    ASSUME NEW input \in Seq(Bytes), NEW p \in Nat \ {0}, NEW part \in Seq(Bytes)
    PROVE  /\ At(input, p, part) =>
                 ReadExact(input, p, Len(part)) = Got(p + Len(part), part)
           /\ CutAt(input, p, part) => ReadExact(input, p, Len(part)) = NotRead
<1>1. Len(part) \in Nat /\ Len(input) \in Nat
  OBVIOUS
<1>2. ASSUME At(input, p, part)
      PROVE  ReadExact(input, p, Len(part)) = Got(p + Len(part), part)
  <2> DEFINE s == SubSeq(input, p, p + Len(part) - 1)
  <2>1. p + Len(part) - 1 <= Len(input)
    BY <1>1, <1>2 DEF At
  <2>2. s \in Seq(Bytes) /\ Len(s) = Len(part)
    BY <1>1, <2>1
  <2>3. \A i \in 1..Len(part) : s[i] = input[(p - 1) + i]
    BY <1>1, <2>1
  <2>4. \A i \in 1..Len(part) : s[i] = part[i]
    BY <1>2, <2>3 DEF At
  <2> HIDE DEF s
  <2>5. s = part
    BY <2>2, <2>4
  <2>6. ~(p + Len(part) - 1 > Len(input))
    BY <1>1, <2>1
  <2> QED  BY <2>5, <2>6, Zenon DEF ReadExact, s
<1>3. ASSUME CutAt(input, p, part) PROVE ReadExact(input, p, Len(part)) = NotRead
  BY <1>1, <1>3 DEF CutAt, ReadExact
<1> QED  BY <1>2, <1>3

(* So does the reader of an unsigned number,                               *)
LEMMA UIntRead ==
    ASSUME NEW input \in Seq(Bytes), NEW p \in Nat \ {0},
           NEW w \in Nat, NEW n \in Nat, n < Power[w]
    PROVE  /\ At(input, p, LittleEndian(n, w)) => ReadUInt(input, p, w) = Got(p + w, n)
           /\ CutAt(input, p, LittleEndian(n, w)) => ReadUInt(input, p, w) = NotRead
<1> DEFINE part == LittleEndian(n, w)
<1>1. part \in Seq(Bytes) /\ Len(part) = w
  BY LittleEndianType
<1>2. FromLittleEndian(part) = n
  BY NumberReadBack
<1> HIDE DEF part
<1>3. At(input, p, part) => ReadExact(input, p, w) = Got(p + w, part)
  BY <1>1, ExactRead
<1>4. CutAt(input, p, part) => ReadExact(input, p, w) = NotRead
  BY <1>1, ExactRead
<1>5. ASSUME ReadExact(input, p, w) = Got(p + w, part)
      PROVE  ReadUInt(input, p, w) = Got(p + w, n)
  BY <1>2, <1>5 DEF ReadUInt, Then, Got
<1>6. ASSUME ReadExact(input, p, w) = NotRead
      PROVE  ReadUInt(input, p, w) = NotRead
  BY <1>6 DEF ReadUInt, Then, NotRead, Got
<1> QED  BY <1>3, <1>4, <1>5, <1>6 DEF part

(* of a byte,                                                              *)
LEMMA ByteRead ==
    ASSUME NEW input \in Seq(Bytes), NEW p \in Nat \ {0}, NEW b \in Bytes
    PROVE  /\ At(input, p, <<b>>) => ReadByte(input, p) = Got(p + 1, b)
           /\ CutAt(input, p, <<b>>) => ReadByte(input, p) = NotRead
<1>1. b \in Nat /\ b < Base
  BY KeyAssumption DEF Bytes
<1>2. Power[0] = 1 /\ Power[1] = Base
  <2>1. Power[0] = 1 /\ Power[0 + 1] = Base * Power[0]
    BY PowerValues
  <2> QED  BY <2>1, KeyAssumption
<1>3. LittleEndian(b, 1) = <<b>>
  <2>1. (b \div 1) % Base = b
    BY <1>1, KeyAssumption
  <2>2. LittleEndian(b, 1) \in Seq(Bytes) /\ Len(LittleEndian(b, 1)) = 1
    BY <1>1, LittleEndianType
  <2>3. LittleEndian(b, 1)[1] = b
    BY <1>2, <2>1 DEF LittleEndian
  <2> QED  BY <2>2, <2>3
<1> QED  BY <1>1, <1>2, <1>3, UIntRead DEF ReadByte

(* of a signed number, which comes back with its sign,                     *)
LEMMA IntRead ==
    ASSUME NEW input \in Seq(Bytes), NEW p \in Nat \ {0}, NEW n \in (-Half)..(Half - 1)
    PROVE  /\ WriteInt(n) \in Seq(Bytes) /\ Len(WriteInt(n)) = IntBytes
           /\ At(input, p, WriteInt(n)) => ReadInt(input, p) = Got(p + IntBytes, n)
           /\ CutAt(input, p, WriteInt(n)) => ReadInt(input, p) = NotRead
<1> DEFINE u == n % Width
<1>1. u \in Nat /\ u < Width /\ AsSigned(u) = n
  BY WidthIsEven DEF AsSigned
<1> HIDE DEF u
<1>2. WriteInt(n) = LittleEndian(u, IntBytes)
  BY DEF WriteInt, u
<1>3. WriteInt(n) \in Seq(Bytes) /\ Len(WriteInt(n)) = IntBytes
  BY <1>1, <1>2, LittleEndianType, KeyAssumption
<1>4. /\ At(input, p, WriteInt(n)) => ReadUInt(input, p, IntBytes) = Got(p + IntBytes, u)
      /\ CutAt(input, p, WriteInt(n)) => ReadUInt(input, p, IntBytes) = NotRead
  BY <1>1, <1>2, UIntRead, WidthIsEven, KeyAssumption
<1>5. p + IntBytes # 0
  BY KeyAssumption
<1>6. ASSUME ReadUInt(input, p, IntBytes) = Got(p + IntBytes, u)
      PROVE  ReadInt(input, p) = Got(p + IntBytes, n)
  BY <1>1, <1>5, <1>6 DEF ReadInt, Then, Got
<1>7. ASSUME ReadUInt(input, p, IntBytes) = NotRead
      PROVE  ReadInt(input, p) = NotRead
  BY <1>7 DEF ReadInt, Then, NotRead, Got
<1> QED  BY <1>3, <1>4, <1>6, <1>7

(* of a flag,                                                              *)
LEMMA BoolRead ==
    ASSUME NEW input \in Seq(Bytes), NEW p \in Nat \ {0}, NEW b \in {0, 1}
    PROVE  /\ <<b>> \in Seq(Bytes) /\ Len(<<b>>) = 1
           /\ At(input, p, <<b>>) => ReadBool(input, p) = Got(p + 1, b = 1)
           /\ CutAt(input, p, <<b>>) => ReadBool(input, p) = NotRead
<1>1. b \in Bytes
  BY KeyAssumption DEF Bytes
<1>2. /\ At(input, p, <<b>>) => ReadByte(input, p) = Got(p + 1, b)
      /\ CutAt(input, p, <<b>>) => ReadByte(input, p) = NotRead
  BY <1>1, ByteRead
<1>3. p + 1 # 0
  OBVIOUS
<1>4. ASSUME ReadByte(input, p) = Got(p + 1, b)
      PROVE  ReadBool(input, p) = Got(p + 1, b = 1)
  BY <1>3, <1>4 DEF ReadBool, Then, Got
<1>5. ASSUME ReadByte(input, p) = NotRead
      PROVE  ReadBool(input, p) = NotRead
  BY <1>5 DEF ReadBool, Then, NotRead, Got
<1> QED  BY <1>1, <1>2, <1>4, <1>5

(* and of a string, whose length stands in front of it.                    *)
LEMMA StringRead ==
    ASSUME NEW input \in Seq(Bytes), NEW p \in Nat \ {0},
           NEW text \in Seq(TextBytes), TextFits(text)
    PROVE  /\ WriteString(text) \in Seq(Bytes)
           /\ Len(WriteString(text)) = LenBytes + Len(text)
           /\ At(input, p, WriteString(text)) =>
                 ReadString(input, p) = Got(p + Len(WriteString(text)), text)
           /\ CutAt(input, p, WriteString(text)) => ReadString(input, p) = NotRead
<1> DEFINE len == LittleEndian(Len(text), LenBytes)
           q == p + LenBytes
<1>1. /\ text \in Seq(Bytes) /\ Len(text) \in Nat /\ Len(text) < Power[LenBytes]
      /\ LenBytes \in Nat \ {0}
  BY FormatAssumption DEF TextFits
<1>2. len \in Seq(Bytes) /\ Len(len) = LenBytes
  BY <1>1, LittleEndianType
<1>3. /\ At(input, p, len) => ReadUInt(input, p, LenBytes) = Got(q, Len(text))
      /\ CutAt(input, p, len) => ReadUInt(input, p, LenBytes) = NotRead
  BY <1>1, UIntRead
<1>4. q \in Nat \ {0} /\ q + Len(text) # 0
  BY <1>1
<1>5. /\ At(input, q, text) => ReadExact(input, q, Len(text)) = Got(q + Len(text), text)
      /\ CutAt(input, q, text) => ReadExact(input, q, Len(text)) = NotRead
  BY <1>1, <1>4, ExactRead
<1>6. \A i \in DOMAIN text : text[i] \in TextBytes
  OBVIOUS
<1> HIDE DEF len
<1>7. WriteString(text) = len \o text
  BY DEF WriteString, len
<1>8. /\ WriteString(text) \in Seq(Bytes)
      /\ Len(WriteString(text)) = LenBytes + Len(text)
      /\ At(input, p, WriteString(text)) => At(input, p, len) /\ At(input, q, text)
      /\ CutAt(input, p, WriteString(text)) =>
            CutAt(input, p, len) \/ (At(input, p, len) /\ CutAt(input, q, text))
      /\ q + Len(text) = p + Len(WriteString(text))
  <2>1. q = p + Len(len)
    BY <1>2
  <2>2. /\ len \o text \in Seq(Bytes) /\ Len(len \o text) = Len(len) + Len(text)
        /\ q + Len(text) = p + Len(len \o text)
        /\ At(input, p, len \o text) => At(input, p, len) /\ At(input, q, text)
        /\ CutAt(input, p, len \o text) =>
              CutAt(input, p, len) \/ (At(input, p, len) /\ CutAt(input, q, text))
    <3>1. len \o text \in Seq(Bytes) /\ Len(len \o text) = Len(len) + Len(text)
      BY <1>1, <1>2, SMTT(60)
    <3>2. (p + Len(len)) + Len(text) = p + Len(len \o text)
      BY <1>1, <1>2
    <3>3. At(input, p, len \o text) => At(input, p, len) /\ At(input, p + Len(len), text)
      BY <1>1, <1>2, AtConcat
    <3>4. CutAt(input, p, len \o text) =>
             CutAt(input, p, len) \/ (At(input, p, len) /\ CutAt(input, p + Len(len), text))
      BY <1>1, <1>2, AtConcat
    <3> HIDE DEF q
    <3> QED  BY <2>1, <3>1, <3>2, <3>3, <3>4
  <2> HIDE DEF q
  <2> QED  BY <1>2, <1>7, <2>2
<1> HIDE DEF q
<1>9. ASSUME ReadUInt(input, p, LenBytes) = Got(q, Len(text)),
             ReadExact(input, q, Len(text)) = Got(q + Len(text), text)
      PROVE  ReadString(input, p) = Got(q + Len(text), text)
  BY <1>4, <1>6, <1>9, SMTT(60) DEF ReadString, Then, Got
<1>10. ASSUME ReadUInt(input, p, LenBytes) = Got(q, Len(text)),
              ReadExact(input, q, Len(text)) = NotRead
       PROVE  ReadString(input, p) = NotRead
  BY <1>4, <1>10 DEF ReadString, Then, Got, NotRead
<1>11. ASSUME ReadUInt(input, p, LenBytes) = NotRead
       PROVE  ReadString(input, p) = NotRead
  BY <1>11 DEF ReadString, Then, Got, NotRead
<1> QED  BY <1>3, <1>5, <1>8, <1>9, <1>10, <1>11

(* Of two parts, one behind the other: the second is read where the first  *)
(* ends, and an input that ends inside of them ends inside of one.         *)
LEMMA AtPair ==
    ASSUME NEW input \in Seq(Bytes), NEW p \in Nat \ {0},
           NEW a \in Seq(Bytes), NEW b \in Seq(Bytes), NEW q, q = p + Len(a)
    PROVE  /\ a \o b \in Seq(Bytes)
           /\ Len(a \o b) = Len(a) + Len(b)
           /\ q \in Nat \ {0}
           /\ q + Len(b) = p + Len(a \o b)
           /\ q + Len(b) \in Nat \ {0}
           /\ At(input, p, a \o b) => At(input, p, a) /\ At(input, q, b)
           /\ CutAt(input, p, a \o b) =>
                 CutAt(input, p, a) \/ (At(input, p, a) /\ CutAt(input, q, b))
<1>1. /\ a \o b \in Seq(Bytes) /\ Len(a \o b) = Len(a) + Len(b)
      /\ q \in Nat \ {0} /\ q + Len(b) = p + Len(a \o b) /\ q + Len(b) \in Nat \ {0}
  OBVIOUS
<1>2. /\ At(input, p, a \o b) => At(input, p, a) /\ At(input, p + Len(a), b)
      /\ CutAt(input, p, a \o b) =>
            CutAt(input, p, a) \/ (At(input, p, a) /\ CutAt(input, p + Len(a), b))
  BY AtConcat
<1> QED  BY <1>1, <1>2

(* Where the parts of a concatenation stand.                               *)
LEMMA AtMiddle ==
    ASSUME NEW a \in Seq(Bytes), NEW b \in Seq(Bytes), NEW c \in Seq(Bytes)
    PROVE  /\ a \o b \in Seq(Bytes) /\ Len(a \o b) = Len(a) + Len(b)
           /\ (a \o b) \o c \in Seq(Bytes)
           /\ Len((a \o b) \o c) = Len(a) + Len(b) + Len(c)
           /\ At(a \o b, Len(a) + 1, b)
           /\ At((a \o b) \o c, Len(a) + 1, b)
<1> DEFINE d == a \o b
           e == d \o c
<1>1. /\ d \in Seq(Bytes) /\ Len(d) = Len(a) + Len(b)
      /\ Len(a) \in Nat /\ Len(b) \in Nat /\ Len(c) \in Nat
      /\ \A i \in 1..Len(b) : d[Len(a) + i] = b[i]
  OBVIOUS
<1> HIDE DEF d
<1>2. /\ e \in Seq(Bytes) /\ Len(e) = Len(d) + Len(c)
      /\ \A i \in 1..Len(d) : e[i] = d[i]
  <2>1. d \in Seq(Bytes) /\ c \in Seq(Bytes)
    BY <1>1
  <2> QED  BY ONLY <2>1
<1> HIDE DEF e
<1>3. \A i \in 1..Len(b) : Len(a) + i \in 1..Len(d) /\ ((Len(a) + 1) - 1) + i = Len(a) + i
  BY <1>1
<1>4. At(d, Len(a) + 1, b)
  BY <1>1, <1>3 DEF At
<1>5. At(e, Len(a) + 1, b)
  <2>1. \A i \in 1..Len(b) : e[Len(a) + i] = b[i]
    BY <1>1, <1>2, <1>3
  <2>2. (Len(a) + 1) + Len(b) <= Len(e) + 1
    BY <1>1, <1>2
  <2> QED  BY <1>3, <2>1, <2>2 DEF At
<1>6. Len(e) = Len(a) + Len(b) + Len(c)
  BY <1>1, <1>2
<1> QED  BY <1>1, <1>2, <1>4, <1>5, <1>6 DEF d, e

(* What ends inside of a part.                                             *)
LEMMA CutBehind ==
    ASSUME NEW a \in Seq(Bytes), NEW b \in Seq(Bytes), NEW n \in 0..(Len(b) - 1)
    PROVE  /\ SubSeq(b, 1, n) \in Seq(Bytes) /\ Len(SubSeq(b, 1, n)) = n
           /\ a \o SubSeq(b, 1, n) \in Seq(Bytes)
           /\ Len(a \o SubSeq(b, 1, n)) = Len(a) + n
           /\ CutAt(a \o SubSeq(b, 1, n), Len(a) + 1, b)
<1> DEFINE c == SubSeq(b, 1, n)
           d == a \o c
<1>1. /\ c \in Seq(Bytes) /\ Len(c) = n
      /\ \A i \in 1..n : c[i] = b[i]
      /\ Len(a) \in Nat /\ Len(b) \in Nat /\ n \in Nat /\ n < Len(b)
  OBVIOUS
<1> HIDE DEF c
<1>2. /\ d \in Seq(Bytes) /\ Len(d) = Len(a) + Len(c)
      /\ \A i \in 1..Len(c) : d[Len(a) + i] = c[i]
  <2>1. a \in Seq(Bytes) /\ c \in Seq(Bytes)
    BY <1>1
  <2> QED  BY ONLY <2>1
<1> HIDE DEF d
<1>3. \A i \in 1..Len(b) : ((Len(a) + 1) - 1) + i = Len(a) + i
  BY <1>1
<1>4. \A i \in 1..Len(b) : Len(a) + i <= Len(d) => d[Len(a) + i] = b[i]
  <2> SUFFICES ASSUME NEW i \in 1..Len(b), Len(a) + i <= Len(d) PROVE d[Len(a) + i] = b[i]
    OBVIOUS
  <2>1. i \in 1..n
    BY <1>1, <1>2
  <2> QED  BY <1>1, <1>2, <2>1
<1>5. Len(a) + 1 <= Len(d) + 1 /\ Len(d) + 1 < (Len(a) + 1) + Len(b)
  BY <1>1, <1>2
<1>6. CutAt(d, Len(a) + 1, b)
  BY <1>3, <1>4, <1>5 DEF CutAt
<1> QED  BY <1>1, <1>2, <1>6 DEF c, d

(* The first bytes of two parts.                                           *)
LEMMA FrontOfConcat ==
    ASSUME NEW a \in Seq(Bytes), NEW b \in Seq(Bytes), NEW m \in 0..(Len(a) + Len(b))
    PROVE  /\ m <= Len(a) => SubSeq(a \o b, 1, m) = SubSeq(a, 1, m)
           /\ Len(a) <= m => SubSeq(a \o b, 1, m) = a \o SubSeq(b, 1, m - Len(a))
<1> DEFINE d == a \o b
<1>1. /\ d \in Seq(Bytes) /\ Len(d) = Len(a) + Len(b)
      /\ Len(a) \in Nat /\ Len(b) \in Nat
      /\ \A i \in 1..Len(a) : d[i] = a[i]
      /\ \A i \in 1..Len(b) : d[Len(a) + i] = b[i]
  OBVIOUS
<1> HIDE DEF d
<1> DEFINE e == SubSeq(d, 1, m)
<1>2. /\ e \in Seq(Bytes) /\ Len(e) = m
      /\ \A i \in 1..m : e[i] = d[i]
  BY <1>1
<1> HIDE DEF e
<1>3. ASSUME m <= Len(a) PROVE e = SubSeq(a, 1, m)
  <2> DEFINE f == SubSeq(a, 1, m)
  <2>1. f \in Seq(Bytes) /\ Len(f) = m /\ \A i \in 1..m : f[i] = a[i]
    BY <1>1, <1>3
  <2> HIDE DEF f
  <2>2. ASSUME NEW i \in 1..m PROVE e[i] = f[i]
    <3>1. i \in 1..Len(a)
      BY <1>1, <1>3
    <3>2. e[i] = d[i]
      BY <1>2
    <3>3. d[i] = a[i]
      BY <1>1, <3>1
    <3>4. f[i] = a[i]
      BY <2>1
    <3> QED  BY <3>2, <3>3, <3>4
  <2>3. e = f
    BY <1>2, <2>1, <2>2
  <2> QED  BY <2>3 DEF f
<1>4. ASSUME Len(a) <= m PROVE e = a \o SubSeq(b, 1, m - Len(a))
  <2> DEFINE c == SubSeq(b, 1, m - Len(a))
             f == a \o c
  <2>1. /\ c \in Seq(Bytes) /\ Len(c) = m - Len(a) /\ Len(c) \in Nat
        /\ \A i \in 1..Len(c) : c[i] = b[i] /\ i \in 1..Len(b)
    BY <1>1, <1>4
  <2> HIDE DEF c
  <2>2. /\ f \in Seq(Bytes) /\ Len(f) = Len(a) + Len(c)
        /\ \A i \in 1..Len(a) : f[i] = a[i]
        /\ \A i \in 1..Len(c) : f[Len(a) + i] = c[i]
    <3>1. c \in Seq(Bytes)
      BY <2>1
    <3> QED  BY ONLY <3>1, a \in Seq(Bytes)
  <2> HIDE DEF f
  <2>3. Len(f) = m
    BY <1>1, <2>1, <2>2
  <2>4. ASSUME NEW i \in 1..m PROVE e[i] = f[i]
    <3>1. CASE i <= Len(a)
      BY <1>1, <1>2, <2>2, <3>1
    <3>2. CASE Len(a) < i
      <4>1. i - Len(a) \in 1..Len(c) /\ Len(a) + (i - Len(a)) = i
        BY <1>1, <2>1, <3>2
      <4>2. f[i] = c[i - Len(a)] /\ d[i] = b[i - Len(a)] /\ c[i - Len(a)] = b[i - Len(a)]
        BY <1>1, <2>1, <2>2, <4>1
      <4> QED  BY <1>2, <4>2
    <3> QED  BY <1>1, <3>1, <3>2
  <2>5. e = f
    BY <1>2, <2>2, <2>3, <2>4
  <2> QED  BY <2>5 DEF f, c
<1> QED  BY <1>3, <1>4 DEF e, d

Storable(v) ==
    /\ IsKeyValue(v)
    /\ v.type = "string" => v.payload \in Seq(TextBytes)
    /\ ValueFits(v)

(* A value, whatever its type.                                             *)
LEMMA ValueRead ==
    ASSUME NEW input \in Seq(Bytes), NEW p \in Nat \ {0}, NEW v, Storable(v)
    PROVE  /\ WriteValue(v) \in Seq(Bytes)
           /\ Len(WriteValue(v)) \in Nat \ {0}
           /\ At(input, p, WriteValue(v)) =>
                 ReadValue(input, p) = Got(p + Len(WriteValue(v)), v)
           /\ CutAt(input, p, WriteValue(v)) => ReadValue(input, p) = NotRead
<1> DEFINE tag == ValueTag[v.type]
           body == CASE v.type = "null"   -> <<>>
                     [] v.type = "int"    -> WriteInt(v.payload[1])
                     [] v.type = "string" -> WriteString(v.payload)
                     [] v.type = "bool"   -> v.payload
           q == p + 1
<1>1. WriteValue(v) = <<tag>> \o body
  BY DEF WriteValue
<1>2. /\ v.type \in {"null", "int", "bool", "string"}
      /\ v.type = "null" => v = NullValue
      /\ v.type = "int" => \E n \in (-Half)..(Half - 1) : v = IntValue(n)
      /\ v.type = "bool" => \E b \in {0, 1} : v = BoolValue(b)
      /\ v.type = "string" =>
            v.payload \in Seq(TextBytes) /\ TextFits(v.payload) /\ v = StringValue(v.payload)
  BY DEF Storable, ValueFits, IsKeyValue, NullValue, IntValue, BoolValue, StringValue
<1>3. tag \in Bytes
  BY <1>2, KeyAssumption DEF ValueTag, Bytes
<1>4. q \in Nat \ {0} /\ q # 0
  OBVIOUS
<1> HIDE DEF q
<1> DEFINE Done == ReadValue(input, p) = Got(q + Len(body), v)
           Failed == ReadValue(input, p) = NotRead
<1>5. /\ body \in Seq(Bytes)
      /\ ReadByte(input, p) = Got(q, tag) /\ At(input, q, body) => Done
      /\ ReadByte(input, p) = Got(q, tag) /\ CutAt(input, q, body) => Failed
  <2>1. CASE v.type = "null"
    <3>1. tag = 0 /\ body = <<>> /\ v = NullValue
      BY <1>2, <2>1 DEF ValueTag
    <3>2. ~CutAt(input, q, <<>>) /\ q + Len(<<>>) = q /\ <<>> \in Seq(Bytes)
      BY <1>4 DEF CutAt
    <3>3. ASSUME ReadByte(input, p) = Got(q, 0)
          PROVE  ReadValue(input, p) = Got(q, NullValue)
      BY <1>4, <3>3 DEF ReadValue, Then, Got, ValueTag
    <3> HIDE DEF tag, body
    <3> QED  BY <3>1, <3>2, <3>3
  <2>2. CASE v.type = "int"
    <3>1. PICK n \in (-Half)..(Half - 1) : v = IntValue(n)
      BY <1>2, <2>2
    <3>2. tag = 1 /\ body = WriteInt(n)
      BY <2>2, <3>1 DEF ValueTag, IntValue
    <3>3. /\ WriteInt(n) \in Seq(Bytes) /\ Len(WriteInt(n)) = IntBytes
          /\ At(input, q, WriteInt(n)) => ReadInt(input, q) = Got(q + IntBytes, n)
          /\ CutAt(input, q, WriteInt(n)) => ReadInt(input, q) = NotRead
      BY <1>4, IntRead
    <3>4. q + IntBytes # 0
      BY <1>4, KeyAssumption
    <3>5. ASSUME ReadByte(input, p) = Got(q, 1), ReadInt(input, q) = Got(q + IntBytes, n)
          PROVE  ReadValue(input, p) = Got(q + IntBytes, IntValue(n))
      BY <1>4, <3>4, <3>5 DEF ReadValue, Then, Got, ValueTag
    <3>6. ASSUME ReadByte(input, p) = Got(q, 1), ReadInt(input, q) = NotRead
          PROVE  Failed
      BY <1>4, <3>6 DEF ReadValue, Then, Got, NotRead, ValueTag
    <3> HIDE DEF tag, body, Failed
    <3> QED  BY <3>1, <3>2, <3>3, <3>5, <3>6
  <2>3. CASE v.type = "string"
    <3> DEFINE text == v.payload
               len == Len(WriteString(text))
    <3>1. text \in Seq(TextBytes) /\ TextFits(text) /\ v = StringValue(text)
      BY <1>2, <2>3
    <3>2. tag = 2 /\ body = WriteString(text)
      BY <2>3 DEF ValueTag
    <3> HIDE DEF text, tag, body
    <3>3. /\ WriteString(text) \in Seq(Bytes)
          /\ At(input, q, WriteString(text)) => ReadString(input, q) = Got(q + len, text)
          /\ CutAt(input, q, WriteString(text)) => ReadString(input, q) = NotRead
      BY <1>4, <3>1, StringRead
    <3>4. q + len # 0
      BY <1>4, <3>3
    <3> HIDE DEF len
    <3>5. ASSUME ReadByte(input, p) = Got(q, 2), ReadString(input, q) = Got(q + len, text)
          PROVE  ReadValue(input, p) = Got(q + len, StringValue(text))
      BY <1>4, <3>4, <3>5 DEF ReadValue, Then, Got, ValueTag
    <3>6. ASSUME ReadByte(input, p) = Got(q, 2), ReadString(input, q) = NotRead
          PROVE  Failed
      BY <1>4, <3>6 DEF ReadValue, Then, Got, NotRead, ValueTag
    <3> HIDE DEF Failed
    <3> QED  BY <3>1, <3>2, <3>3, <3>5, <3>6 DEF len
  <2>4. CASE v.type = "bool"
    <3>1. PICK b \in {0, 1} : v = BoolValue(b)
      BY <1>2, <2>4
    <3>2. tag = 3 /\ body = <<b>>
      BY <2>4, <3>1 DEF ValueTag, BoolValue
    <3>3. /\ <<b>> \in Seq(Bytes) /\ Len(<<b>>) = 1
          /\ At(input, q, <<b>>) => ReadBool(input, q) = Got(q + 1, b = 1)
          /\ CutAt(input, q, <<b>>) => ReadBool(input, q) = NotRead
      BY <1>4, BoolRead
    <3>4. q + 1 # 0
      BY <1>4
    <3>5. ASSUME ReadByte(input, p) = Got(q, 3), ReadBool(input, q) = Got(q + 1, b = 1)
          PROVE  ReadValue(input, p) = Got(q + 1, BoolValue(b))
      <4> DEFINE bit == b = 1
                 r == q + 1
      <4>1. (IF bit THEN 1 ELSE 0) = b
        OBVIOUS
      <4>2. ReadBool(input, q) = Got(r, bit) /\ r # 0
        BY <3>4, <3>5
      <4> HIDE DEF bit, r
      <4>3. ReadValue(input, p) = Got(r, BoolValue(IF bit THEN 1 ELSE 0))
        BY <1>4, <3>5, <4>2 DEF ReadValue, Then, Got, ValueTag
      <4> QED  BY <4>1, <4>3 DEF r
    <3>6. ASSUME ReadByte(input, p) = Got(q, 3), ReadBool(input, q) = NotRead
          PROVE  Failed
      BY <1>4, <3>6 DEF ReadValue, Then, Got, NotRead, ValueTag
    <3> HIDE DEF tag, body, Failed
    <3> QED  BY <3>1, <3>2, <3>3, <3>5, <3>6
  <2> QED  BY <1>2, <2>1, <2>2, <2>3, <2>4
<1>6. ReadByte(input, p) = NotRead => Failed
  BY DEF ReadValue, Then, Got, NotRead
<1> HIDE DEF tag, body
<1>7. /\ At(input, p, <<tag>>) => ReadByte(input, p) = Got(q, tag)
      /\ CutAt(input, p, <<tag>>) => ReadByte(input, p) = NotRead
  BY <1>3, ByteRead DEF q
<1>8. /\ WriteValue(v) \in Seq(Bytes)
      /\ Len(WriteValue(v)) = 1 + Len(body)
      /\ q + Len(body) = p + Len(WriteValue(v))
      /\ At(input, p, WriteValue(v)) => At(input, p, <<tag>>) /\ At(input, q, body)
      /\ CutAt(input, p, WriteValue(v)) =>
            CutAt(input, p, <<tag>>) \/ (At(input, p, <<tag>>) /\ CutAt(input, q, body))
  <2>1. <<tag>> \in Seq(Bytes) /\ q = p + Len(<<tag>>) /\ Len(<<tag>>) = 1
    BY <1>3 DEF q
  <2> DEFINE a == <<tag>>
  <2> HIDE DEF a
  <2>2. a \in Seq(Bytes) /\ q = p + Len(a) /\ Len(a) = 1
    BY <2>1 DEF a
  <2>3. /\ a \o body \in Seq(Bytes) /\ Len(a \o body) = Len(a) + Len(body)
        /\ q + Len(body) = p + Len(a \o body)
    <3>1. a \in Seq(Bytes) /\ body \in Seq(Bytes) /\ q = p + Len(a)
      BY <1>5, <2>2
    <3> QED  BY ONLY <3>1, p \in Nat \ {0}
  <2>4. At(input, p, a \o body) => At(input, p, a) /\ At(input, q, body)
    BY <1>5, <2>2, AtPair, ZenonT(60)
  <2>5. CutAt(input, p, a \o body) =>
           CutAt(input, p, a) \/ (At(input, p, a) /\ CutAt(input, q, body))
    BY <1>5, <2>2, AtPair
  <2> QED  BY <1>1, <2>2, <2>3, <2>4, <2>5 DEF a
<1> QED  BY <1>5, <1>6, <1>7, <1>8

-----------------------------------------------------------------------------
(* Parts one behind the other.                                             *)
JoinRun(s, pre) ==
    /\ pre \in [0..Len(s) -> Seq(Bytes)]
    /\ pre[0] = <<>>
    /\ \A i \in 1..Len(s) : pre[i] = pre[i - 1] \o s[i]

(* The joins of the first parts exist as a function.                       *)
LEMMA ConcatRecursion ==
    ASSUME NEW n \in Nat, NEW s, \A i \in 1..n : s[i] \in Seq(Bytes)
    PROVE  \E f \in [0..n -> Seq(Bytes)] :
              f[0] = <<>> /\ \A i \in 1..n : f[i] = f[i - 1] \o s[i]
<1> DEFINE X == Seq(Bytes)
           x == <<>>
           h == [i \in 1..n |-> [v \in X |-> v \o s[i]]]
<1>1. x \in X /\ h \in [1..n -> [X -> X]]
  <2>1. \A i \in 1..n, v \in X : v \o s[i] \in X
    OBVIOUS
  <2> QED  BY <2>1
<1>2. \A i \in 1..n, v \in X : h[i][v] = v \o s[i]
  OBVIOUS
<1> HIDE DEF X, x, h
<1>3. \E f \in [0..n -> X] : f[0] = x /\ \A i \in 1..n : f[i] = h[i][f[i - 1]]
  BY ONLY <1>1, n \in Nat, Recursion, SMTT(60)
<1>4. PICK f \in [0..n -> X] : f[0] = x /\ \A i \in 1..n : f[i] = h[i][f[i - 1]]
  BY <1>3
<1>5. \A i \in 1..n : f[i - 1] \in X
  <2>1. \A i \in 1..n : i - 1 \in 0..n
    OBVIOUS
  <2> QED  BY <2>1
<1>6. \A i \in 1..n : f[i] = f[i - 1] \o s[i]
  BY <1>2, <1>4, <1>5
<1> QED  BY <1>4, <1>6 DEF X, x

(* They exist for every sequence of parts.                                 *)
LEMMA JoinExists ==
    ASSUME NEW s \in Seq(Seq(Bytes)) PROVE \E pre : JoinRun(s, pre)
<1>1. Len(s) \in Nat /\ \A i \in 1..Len(s) : s[i] \in Seq(Bytes)
  OBVIOUS
<1>2. \E f \in [0..Len(s) -> Seq(Bytes)] :
         f[0] = <<>> /\ \A i \in 1..Len(s) : f[i] = f[i - 1] \o s[i]
  BY ONLY <1>1, ConcatRecursion
<1> QED  BY <1>2, Zenon DEF JoinRun

(* The last of them is what FlattenSeq gives.                              *)
LEMMA JoinIsFlatten ==
    ASSUME NEW s \in Seq(Seq(Bytes)), NEW pre, JoinRun(s, pre)
    PROVE  pre[Len(s)] = FlattenSeq(s)
<1> DEFINE n == Len(s)
<1>1. n \in Nat /\ DOMAIN s = 1..n /\ \A i \in 1..n : s[i] \in Seq(Bytes)
  OBVIOUS
<1>2. CASE n = 0
  <2>1. s = <<>>
    BY <1>2
  <2>2. FlattenSeq(s) = s
    BY <1>2 DEF FlattenSeq
  <2> QED  BY <1>2, <2>1, <2>2 DEF JoinRun
<1>3. CASE n # 0
  <2> DEFINE g == CHOOSE f : f = [i \in 1..n |-> IF i = 1 THEN s[i] ELSE f[i - 1] \o s[i]]
             v == [i \in 1..n |-> pre[i]]
  <2>1. FlattenSeq(s) = g[n]
    BY <1>3 DEF FlattenSeq
  <2> HIDE DEF n
  <2>2. pre \in [0..n -> Seq(Bytes)] /\ pre[0] = <<>> /\ \A i \in 1..n : pre[i] = pre[i - 1] \o s[i]
    BY DEF JoinRun, n
  <2>3. pre[1] = s[1]
    <3>1. 1 \in 1..n
      BY <1>1, <1>3
    <3>2. pre[1] = pre[1 - 1] \o s[1]
      BY <2>2, <3>1, Zenon
    <3>3. 1 - 1 = 0 /\ pre[0] = <<>> /\ s[1] \in Seq(Bytes)
      BY <1>1, <2>2, <3>1
    <3>4. <<>> \o s[1] = s[1]
      BY <3>3
    <3> QED  BY <3>2, <3>3, <3>4
  <2>4. v = [i \in 1..n |-> IF i = 1 THEN s[i] ELSE v[i - 1] \o s[i]]
    <3>1. \A i \in 1..n : i # 1 => i - 1 \in 1..n
      BY <1>1
    <3>2. \A i \in 1..n : pre[i] = IF i = 1 THEN s[i] ELSE v[i - 1] \o s[i]
      BY <2>2, <2>3, <3>1
    <3>3. v = [i \in 1..n |-> v[i]] /\ \A i \in 1..n : v[i] = pre[i]
      BY SMTT(60)
    <3> HIDE DEF v
    <3> QED  BY <3>2, <3>3, ZenonT(60)
  <2>5. g = [i \in 1..n |-> IF i = 1 THEN s[i] ELSE g[i - 1] \o s[i]]
    BY <2>4, ZenonT(60)
  <2> HIDE DEF g, v
  <2> DEFINE S == {i \in 0..n : i = 0 \/ g[i] = pre[i]}
  <2>6. 0 \in S
    BY <1>1
  <2>7. \A i \in 1..n : i - 1 \in S => i \in S
    <3> SUFFICES ASSUME NEW i \in 1..n, i - 1 \in S PROVE g[i] = pre[i]
      OBVIOUS
    <3>1. CASE i = 1
      BY <2>3, <2>5, <3>1
    <3>2. CASE i # 1
      <4>1. g[i] = g[i - 1] \o s[i]
        BY <2>5, <3>2, Zenon
      <4>2. pre[i] = pre[i - 1] \o s[i]
        BY <2>2, Zenon
      <4>3. g[i - 1] = pre[i - 1]
        BY <1>1, <3>2
      <4> QED  BY <4>1, <4>2, <4>3
    <3> QED  BY <3>1, <3>2
  <2> HIDE DEF S
  <2>8. 0..n \subseteq S
    BY <1>1, <2>6, <2>7, UpToInduction
  <2>9. g[n] = pre[n]
    BY <1>1, <1>3, <2>8 DEF S
  <2> QED  BY <2>1, <2>9 DEF n
<1> QED  BY <1>2, <1>3

(* Where the parts stand.                                                  *)
LEMMA FlattenParts ==
    ASSUME NEW s \in Seq(Seq(Bytes))
    PROVE  /\ FlattenSeq(s) \in Seq(Bytes)
           /\ \E off \in [0..Len(s) -> Nat] :
                 /\ off[0] = 0 /\ off[Len(s)] = Len(FlattenSeq(s))
                 /\ \A k \in 1..Len(s) : off[k] = off[k - 1] + Len(s[k])
                 /\ \A k \in 1..Len(s) : \A i \in 1..Len(s[k]) :
                       FlattenSeq(s)[off[k - 1] + i] = s[k][i]
<1> DEFINE n == Len(s)
<1>1. n \in Nat /\ \A i \in 1..n : s[i] \in Seq(Bytes) /\ Len(s[i]) \in Nat
  OBVIOUS
<1>2. PICK pre : JoinRun(s, pre)
  BY JoinExists
<1>3. pre[n] = FlattenSeq(s)
  BY <1>2, JoinIsFlatten
<1> HIDE DEF n
<1>4. pre \in [0..n -> Seq(Bytes)] /\ pre[0] = <<>> /\ \A i \in 1..n : pre[i] = pre[i - 1] \o s[i]
  BY <1>2 DEF JoinRun, n
<1> DEFINE off == [k \in 0..n |-> Len(pre[k])]
<1>5. \A k \in 0..n : off[k] = Len(pre[k]) /\ off[k] \in Nat /\ pre[k] \in Seq(Bytes)
  BY <1>4
<1>6. off \in [0..n -> Nat]
  BY <1>5
<1> HIDE DEF off
<1>7. \A k \in 1..n : k - 1 \in 0..n /\ k \in 0..n
  BY <1>1
<1>8. \A k \in 1..n : off[k] = off[k - 1] + Len(s[k])
  <2> SUFFICES ASSUME NEW k \in 1..n PROVE off[k] = off[k - 1] + Len(s[k])
    OBVIOUS
  <2>1. pre[k - 1] \in Seq(Bytes) /\ s[k] \in Seq(Bytes) /\ pre[k] = pre[k - 1] \o s[k]
    BY <1>1, <1>4, <1>7
  <2>2. Len(pre[k]) = Len(pre[k - 1]) + Len(s[k])
    BY <2>1
  <2> QED  BY <1>5, <1>7, <2>2
<1> DEFINE S == {m \in 0..n : \A k \in 1..m : /\ off[k] <= Len(pre[m])
                                              /\ \A i \in 1..Len(s[k]) :
                                                    pre[m][off[k - 1] + i] = s[k][i]}
<1>9. 0 \in S
  <2>1. 0 \in 0..n /\ \A k \in 1..0 : FALSE
    BY <1>1
  <2> QED  BY <2>1, Zenon
<1>10. \A m \in 1..n : m - 1 \in S => m \in S
  <2> SUFFICES ASSUME NEW m \in 1..n, m - 1 \in S, NEW k \in 1..m
               PROVE  /\ off[k] <= Len(pre[m])
                      /\ \A i \in 1..Len(s[k]) : pre[m][off[k - 1] + i] = s[k][i]
    <3>1. \A m \in 1..n : m \in 0..n
      BY <1>1
    <3> QED  BY <3>1, Zenon
  <2>1. pre[m - 1] \in Seq(Bytes) /\ s[m] \in Seq(Bytes) /\ pre[m] = pre[m - 1] \o s[m]
    BY <1>1, <1>4, <1>7
  <2>2. /\ Len(pre[m]) = Len(pre[m - 1]) + Len(s[m])
        /\ \A i \in 1..Len(pre[m - 1]) : pre[m][i] = pre[m - 1][i]
        /\ \A i \in 1..Len(s[m]) : pre[m][Len(pre[m - 1]) + i] = s[m][i]
    <3> DEFINE a == pre[m - 1]
               b == s[m]
    <3>1. a \in Seq(Bytes) /\ b \in Seq(Bytes) /\ pre[m] = a \o b
      BY <2>1
    <3> HIDE DEF a, b
    <3>2. /\ Len(a \o b) = Len(a) + Len(b)
          /\ \A i \in 1..Len(a) : (a \o b)[i] = a[i]
          /\ \A i \in 1..Len(b) : (a \o b)[Len(a) + i] = b[i]
      BY ONLY <3>1
    <3> QED  BY <3>1, <3>2 DEF a, b
  <2>3. off[m] = Len(pre[m]) /\ off[m - 1] = Len(pre[m - 1]) /\ off[m - 1] \in Nat
    BY <1>5, <1>7
  <2>4. CASE k = m
    <3>1. off[m] <= Len(pre[m])
      BY <2>3
    <3> QED  BY <2>2, <2>3, <2>4, <3>1
  <2>5. CASE k # m
    <3>1. k \in 1..(m - 1) /\ k \in 1..n
      BY <1>1, <2>5
    <3>2. off[k] <= Len(pre[m - 1]) /\ \A i \in 1..Len(s[k]) : pre[m - 1][off[k - 1] + i] = s[k][i]
      BY <3>1
    <3>3. off[k] = off[k - 1] + Len(s[k]) /\ off[k - 1] \in Nat /\ Len(s[k]) \in Nat
      BY <1>1, <1>5, <1>7, <1>8, <3>1
    <3>4. \A i \in 1..Len(s[k]) : off[k - 1] + i \in 1..Len(pre[m - 1])
      <4>1. off[k] <= off[m - 1] /\ Len(pre[m - 1]) = off[m - 1]
        BY <2>3, <3>2
      <4> DEFINE x == off[k - 1]
                 l == Len(s[k])
                 y == Len(pre[m - 1])
      <4>2. x \in Nat /\ l \in Nat /\ y \in Nat /\ x + l <= y
        BY <2>3, <3>3, <4>1
      <4> HIDE DEF x, l, y
      <4>3. \A i \in 1..l : x + i \in 1..y
        BY ONLY <4>2
      <4> QED  BY <4>3 DEF x, l, y
    <3>5. \A i \in 1..Len(s[k]) : pre[m][off[k - 1] + i] = s[k][i]
      BY <2>2, <3>2, <3>4
    <3>6. off[k] <= Len(pre[m])
      <4>1. off[k] \in Nat /\ Len(s[m]) \in Nat
        BY <1>1, <1>5, <1>7, <3>1
      <4>2. off[k] <= off[m - 1] /\ off[m] = off[m - 1] + Len(s[m])
        BY <1>8, <2>3, <3>2
      <4>3. off[m] = Len(pre[m]) /\ off[m - 1] \in Nat
        BY <2>3
      <4> QED  BY <4>1, <4>2, <4>3, SMTT(60)
    <3> QED  BY <3>5, <3>6
  <2> QED  BY <2>4, <2>5
<1> HIDE DEF S
<1>11. 0..n \subseteq S
  BY <1>1, <1>9, <1>10, UpToInduction
<1>12. \A k \in 1..n : \A i \in 1..Len(s[k]) : pre[n][off[k - 1] + i] = s[k][i]
  <2>1. n \in S
    BY <1>1, <1>11
  <2> QED  BY <2>1 DEF S
<1>13. off[0] = 0 /\ off[n] = Len(pre[n]) /\ pre[n] \in Seq(Bytes)
  BY <1>1, <1>4, <1>5
<1>14. \E o \in [0..n -> Nat] :
          /\ o[0] = 0 /\ o[n] = Len(pre[n])
          /\ \A k \in 1..n : o[k] = o[k - 1] + Len(s[k])
          /\ \A k \in 1..n : \A i \in 1..Len(s[k]) : pre[n][o[k - 1] + i] = s[k][i]
  BY <1>6, <1>8, <1>12, <1>13
<1> QED  BY <1>3, <1>13, <1>14, ZenonT(60) DEF n

(* One more part.                                                          *)
LEMMA FlattenAppend ==
    ASSUME NEW s \in Seq(Seq(Bytes)), NEW x \in Seq(Bytes)
    PROVE  FlattenSeq(Append(s, x)) = FlattenSeq(s) \o x
<1> DEFINE t == Append(s, x)
<1> PICK n \in Nat : n = Len(s)
  OBVIOUS
<1>1. t \in Seq(Seq(Bytes)) /\ Len(t) = n + 1 /\ t[n + 1] = x /\ \A i \in 1..n : t[i] = s[i]
  OBVIOUS
<1>2. PICK pre : JoinRun(t, pre)
  BY <1>1, JoinExists
<1>3. pre[n + 1] = FlattenSeq(t)
  BY <1>1, <1>2, JoinIsFlatten
<1> HIDE DEF t
<1>4. /\ pre \in [0..(n + 1) -> Seq(Bytes)] /\ pre[0] = <<>>
      /\ \A i \in 1..(n + 1) : pre[i] = pre[i - 1] \o t[i]
  BY <1>1, <1>2 DEF JoinRun
<1>5. \A i \in 0..n : pre[i] \in Seq(Bytes)
  BY <1>4, SMTT(60)
<1> DEFINE v == [i \in 0..n |-> pre[i]]
<1>6. v \in [0..n -> Seq(Bytes)] /\ \A i \in 0..n : v[i] = pre[i]
  BY <1>5
<1> HIDE DEF v
<1>7. \A i \in 1..n : v[i] = v[i - 1] \o s[i]
  <2> SUFFICES ASSUME NEW i \in 1..n PROVE v[i] = v[i - 1] \o s[i]
    OBVIOUS
  <2>1. i \in 1..(n + 1) /\ i \in 0..n /\ i - 1 \in 0..n
    OBVIOUS
  <2>2. pre[i] = pre[i - 1] \o t[i] /\ v[i] = pre[i] /\ v[i - 1] = pre[i - 1] /\ t[i] = s[i]
    BY <1>1, <1>4, <1>6, <2>1, Zenon
  <2> QED  BY <2>2, Zenon
<1>8. v[0] = <<>>
  BY <1>4, <1>6
<1>9. v[n] = FlattenSeq(s)
  <2>1. JoinRun(s, v)
    BY <1>6, <1>7, <1>8 DEF JoinRun
  <2> QED  BY <2>1, JoinIsFlatten
<1>10. pre[n + 1] = pre[(n + 1) - 1] \o t[n + 1]
  <2>1. n + 1 \in 1..(n + 1)
    OBVIOUS
  <2> QED  BY <1>4, <2>1, Zenon
<1>11. (n + 1) - 1 = n /\ v[n] = pre[n]
  BY <1>6
<1> QED  BY <1>1, <1>3, <1>9, <1>10, <1>11 DEF t

-----------------------------------------------------------------------------
(* SortedNames lists every name of a finite set once.                      *)
LEMMA SortedNamesList ==
    ASSUME NEW D, IsFiniteSet(D), D \subseteq Seq(Bytes)
    PROVE  /\ SortedNames(D) \in Seq(D)
           /\ Cardinality(D) \in Nat
           /\ Len(SortedNames(D)) = Cardinality(D)
           /\ \A x \in D : \E i \in 1..Cardinality(D) : SortedNames(D)[i] = x
<1> DEFINE key == [x \in D |-> x]
           rank(x) == KeyRank(D, key, x)
           n == Cardinality(D)
           names == SortedNames(D)
<1>1. Ranked(D, key)
  BY DEF Ranked
<1>2. names = [i \in 1..n |-> CHOOSE x \in D : rank(x) = i - 1]
  <2>1. \A x, other \in D : KeyLess(other, x) <=> KeyLess(key[other], key[x])
    OBVIOUS
  <2>2. ASSUME NEW x \in D
        PROVE  {other \in D : KeyLess(other, x)} = {other \in D : KeyLess(key[other], key[x])}
    BY <2>1
  <2>3. \A x \in D : Cardinality({other \in D : KeyLess(other, x)}) = rank(x)
    BY <2>2 DEF KeyRank
  <2> HIDE DEF key
  <2> QED  BY <2>3 DEF SortedNames
<1> HIDE DEF key
<1>3. /\ n \in Nat
      /\ \A x \in D : rank(x) \in 0..(n - 1)
      /\ \A x, y \in D : rank(x) = rank(y) => x = y
      /\ \A i \in 0..(n - 1) : \E x \in D : rank(x) = i
  BY <1>1, EveryRank
<1> HIDE DEF n, names, rank
<1>4. ASSUME NEW i \in 1..n PROVE names[i] \in D /\ rank(names[i]) = i - 1
  <2>1. i - 1 \in 0..(n - 1)
    BY <1>3
  <2>2. \E x \in D : rank(x) = i - 1
    BY <1>3, <2>1
  <2> QED  BY <1>2, <2>2
<1>5. names \in [1..n -> D]
  BY <1>2, <1>4
<1>6. names \in Seq(D) /\ Len(names) = n
  BY <1>3, <1>5
<1>7. ASSUME NEW x \in D PROVE \E i \in 1..n : names[i] = x
  <2>1. rank(x) + 1 \in 1..n /\ (rank(x) + 1) - 1 = rank(x)
    BY <1>3
  <2>2. names[rank(x) + 1] \in D /\ rank(names[rank(x) + 1]) = rank(x)
    BY <1>4, <2>1
  <2> QED  BY <1>3, <2>1, <2>2
<1> QED  BY <1>3, <1>6, <1>7 DEF n, names


-----------------------------------------------------------------------------
(* Offsets of parts one behind the other.                                  *)
LEMMA OffsetsGrow ==
    ASSUME NEW n \in Nat, NEW off \in [0..n -> Nat], NEW len \in [1..n -> Nat],
           \A k \in 1..n : off[k] = off[k - 1] + len[k]
    PROVE  \A m \in 0..n : \A k \in 0..m : off[k] <= off[m]
<1> DEFINE S == {m \in 0..n : \A k \in 0..m : off[k] <= off[m]}
<1>1. 0 \in S
  OBVIOUS
<1>2. \A m \in 1..n : m - 1 \in S => m \in S
  <2> SUFFICES ASSUME NEW m \in 1..n, m - 1 \in S, NEW k \in 0..m PROVE off[k] <= off[m]
    <3>1. \A m \in 1..n : m \in 0..n
      OBVIOUS
    <3> QED  BY <3>1, Zenon
  <2>1. off[m - 1] \in Nat /\ off[m] \in Nat /\ len[m] \in Nat
    OBVIOUS
  <2>2. CASE k = m
    BY <2>1, <2>2
  <2>3. CASE k # m
    <3>1. k \in 0..(m - 1) /\ off[k] \in Nat
      BY <2>3
    <3> QED  BY <2>1, <3>1
  <2> QED  BY <2>2, <2>3
<1> HIDE DEF S
<1>3. 0..n \subseteq S
  BY <1>1, <1>2, UpToInduction
<1> QED  BY <1>3 DEF S

(* Where the parts of a concatenation stand in an input that holds it, and *)
(* which one an input that ends inside of it cuts.                         *)
LEMMA FlattenAt ==
    ASSUME NEW input \in Seq(Bytes), NEW p \in Nat \ {0}, NEW s \in Seq(Seq(Bytes))
    PROVE  \E off \in [0..Len(s) -> Nat] :
              /\ off[0] = 0 /\ off[Len(s)] = Len(FlattenSeq(s))
              /\ \A k \in 1..Len(s) : off[k] = off[k - 1] + Len(s[k])
              /\ At(input, p, FlattenSeq(s)) =>
                    \A k \in 1..Len(s) : At(input, p + off[k - 1], s[k])
              /\ CutAt(input, p, FlattenSeq(s)) =>
                    \E j \in 1..Len(s) :
                       /\ \A k \in 1..(j - 1) : At(input, p + off[k - 1], s[k])
                       /\ CutAt(input, p + off[j - 1], s[j])
<1> PICK n \in Nat : n = Len(s)
  OBVIOUS
<1> DEFINE w == FlattenSeq(s)
           len == [k \in 1..n |-> Len(s[k])]
<1>1. w \in Seq(Bytes) /\ \A k \in 1..n : s[k] \in Seq(Bytes)
  BY FlattenParts
<1>2. len \in [1..n -> Nat] /\ \A k \in 1..n : len[k] = Len(s[k]) /\ len[k] \in Nat
  BY <1>1
<1>3. PICK off \in [0..n -> Nat] :
         /\ off[0] = 0 /\ off[n] = Len(w)
         /\ \A k \in 1..n : off[k] = off[k - 1] + Len(s[k])
         /\ \A k \in 1..n : \A i \in 1..Len(s[k]) : w[off[k - 1] + i] = s[k][i]
  BY FlattenParts
<1> HIDE DEF w, len
<1> PICK L \in Nat : L = Len(input)
  OBVIOUS
<1>4. /\ \A k \in 1..n : off[k] = off[k - 1] + len[k] /\ off[k - 1] \in Nat /\ off[k] \in Nat
      /\ \A k \in 1..n : \A i \in 1..len[k] : w[off[k - 1] + i] = s[k][i]
  <2>1. \A k \in 1..n : off[k - 1] \in Nat /\ off[k] \in Nat
    <3>1. \A k \in 1..n : k - 1 \in 0..n /\ k \in 0..n
      OBVIOUS
    <3>2. off \in [0..n -> Nat]
      OBVIOUS
    <3> QED  BY ONLY <3>1, <3>2, Zenon
  <2> QED  BY <1>2, <1>3, <2>1, ZenonT(60)
<1>5. \A m \in 0..n : \A k \in 0..m : off[k] <= off[m]
  BY <1>2, <1>4, OffsetsGrow, ZenonT(60)
<1>6. \A k \in 0..n : off[k] \in Nat /\ off[k] <= off[n]
  BY <1>5, SMTT(60)
<1>7. \A k \in 1..n : \A i \in 1..len[k] : off[k - 1] + i \in 1..off[n]
  <2> SUFFICES ASSUME NEW k \in 1..n, NEW i \in 1..len[k] PROVE off[k - 1] + i \in 1..off[n]
    OBVIOUS
  <2>1. off[k] = off[k - 1] + len[k] /\ off[k - 1] \in Nat /\ len[k] \in Nat
    BY <1>2, <1>4
  <2>2. off[k] <= off[n] /\ off[n] \in Nat
    BY <1>6
  <2> QED  BY <2>1, <2>2, SMTT(60)
<1>8. ASSUME At(input, p, w), NEW k \in 1..n PROVE At(input, p + off[k - 1], s[k])
  <2>1. p + off[n] <= L + 1 /\ \A i \in 1..off[n] : input[(p - 1) + i] = w[i]
    BY <1>3, <1>8 DEF At
  <2>2. off[k] = off[k - 1] + len[k] /\ off[k - 1] \in Nat /\ len[k] \in Nat /\ off[k] <= off[n]
    BY <1>2, <1>4, <1>6
  <2>3. off[n] \in Nat
    BY <1>6
  <2>4. (p + off[k - 1]) + len[k] <= L + 1
    BY <2>1, <2>2, <2>3, SMTT(60)
  <2>5. ASSUME NEW i \in 1..len[k] PROVE input[((p + off[k - 1]) - 1) + i] = s[k][i]
    <3>1. input[(p - 1) + (off[k - 1] + i)] = w[off[k - 1] + i]
      BY <1>7, <2>1
    <3>2. (p - 1) + (off[k - 1] + i) = ((p + off[k - 1]) - 1) + i
      BY <2>2
    <3>3. w[off[k - 1] + i] = s[k][i]
      BY <1>4
    <3> QED  BY <3>1, <3>2, <3>3
  <2> QED  BY <1>2, <2>4, <2>5 DEF At
<1>9. ASSUME CutAt(input, p, w)
      PROVE  \E j \in 1..n : /\ \A k \in 1..(j - 1) : At(input, p + off[k - 1], s[k])
                             /\ CutAt(input, p + off[j - 1], s[j])
  <2>1. /\ p <= L + 1 /\ L + 1 < p + off[n]
        /\ \A i \in 1..off[n] : (p - 1) + i <= L => input[(p - 1) + i] = w[i]
    BY <1>3, <1>9 DEF CutAt
  <2> DEFINE T == {j \in 0..n : L + 1 < p + off[j]}
  <2>2. T \subseteq Nat /\ T # {}
    <3>1. n \in T
      BY <2>1
    <3> QED  BY <3>1
  <2>3. PICK j \in T : \A y \in T : j <= y
    <3> HIDE DEF T
    <3> QED  BY <2>2, Least
  <2>4. j # 0
    BY <1>3, <2>1, <2>3
  <2>5. j \in 1..n /\ L + 1 < p + off[j]
    BY <2>3, <2>4
  <2>6. \A k \in 0..(j - 1) : p + off[k] <= L + 1
    <3> SUFFICES ASSUME NEW k \in 0..(j - 1) PROVE ~(L + 1 < p + off[k])
      <4>1. \A k \in 0..(j - 1) : k \in 0..n /\ off[k] \in Nat
        BY <1>6, <2>5, SMTT(60)
      <4> QED  BY <4>1
    <3>1. k \in 0..n /\ ~(j <= k)
      BY <2>5
    <3> QED  BY <2>3, <3>1
  <2> HIDE DEF T
  <2>7. ASSUME NEW k \in 1..n, NEW i \in 1..len[k], ((p + off[k - 1]) - 1) + i <= L
        PROVE  input[((p + off[k - 1]) - 1) + i] = s[k][i]
    <3>1. off[k - 1] \in Nat
      BY <1>4
    <3>2. (p - 1) + (off[k - 1] + i) = ((p + off[k - 1]) - 1) + i
      BY <3>1, SMTT(60)
    <3>3. input[(p - 1) + (off[k - 1] + i)] = w[off[k - 1] + i]
      BY <1>7, <2>1, <2>7, <3>2
    <3>4. w[off[k - 1] + i] = s[k][i]
      BY <1>4
    <3> QED  BY <3>2, <3>3, <3>4
  <2>8. ASSUME NEW k \in 1..(j - 1) PROVE At(input, p + off[k - 1], s[k])
    <3>1. k \in 1..n /\ p + off[k] <= L + 1
      BY <2>5, <2>6
    <3>2. off[k] = off[k - 1] + len[k] /\ off[k - 1] \in Nat /\ len[k] \in Nat
      BY <1>2, <1>4, <3>1
    <3>3. (p + off[k - 1]) + len[k] <= L + 1
      BY <3>1, <3>2
    <3>4. \A i \in 1..len[k] : ((p + off[k - 1]) - 1) + i <= L
      BY <3>2, <3>3, SMTT(60)
    <3>5. \A i \in 1..len[k] : input[((p + off[k - 1]) - 1) + i] = s[k][i]
      BY <2>7, <3>1, <3>4
    <3> QED  BY <1>2, <3>1, <3>3, <3>5 DEF At
  <2>9. CutAt(input, p + off[j - 1], s[j])
    <3>1. p + off[j - 1] <= L + 1
      BY <2>5, <2>6
    <3>2. off[j] = off[j - 1] + len[j] /\ off[j - 1] \in Nat /\ len[j] \in Nat
      BY <1>2, <1>4, <2>5
    <3>3. L + 1 < (p + off[j - 1]) + len[j]
      BY <2>5, <3>2
    <3>4. len[j] = Len(s[j])
      BY <1>2, <2>5
    <3>5. \A i \in 1..len[j] : ((p + off[j - 1]) - 1) + i <= L
                                  => input[((p + off[j - 1]) - 1) + i] = s[j][i]
      BY <2>5, <2>7
    <3> QED  BY <3>1, <3>3, <3>4, <3>5 DEF CutAt
  <2> QED  BY <2>5, <2>8, <2>9
<1> QED  BY <1>3, <1>8, <1>9, Zenon DEF w

-----------------------------------------------------------------------------
(* What the loops of the readers give: the last of any run of their steps. *)
MapRun(input, at, n, E, g) ==
    /\ g[0] = Got(at, EmptyRecord)
    /\ \A k \in 1..n : g[k] = EntryAfter(input, g[k - 1], E)

(* ReadMap is the last of the steps of its loop.                           *)
LEMMA MapLoop ==
    ASSUME NEW input, NEW at, NEW n \in Nat, NEW E, NEW g, MapRun(input, at, n, E, g)
    PROVE  ReadMap(input, at, n, E) = g[n]
<1> USE DEF MapRun
<1> DEFINE f == CHOOSE h : h = [k \in 0..n |-> IF k = 0 THEN Got(at, EmptyRecord)
                                               ELSE EntryAfter(input, h[k - 1], E)]
           v == [k \in 0..n |-> g[k]]
<1>1. ReadMap(input, at, n, E) = f[n]
  BY DEF ReadMap
<1>2. v = [k \in 0..n |-> IF k = 0 THEN Got(at, EmptyRecord)
                          ELSE EntryAfter(input, v[k - 1], E)]
  <2>1. \A k \in 0..n : k # 0 => k \in 1..n /\ k - 1 \in 0..n
    OBVIOUS
  <2>2. \A k \in 0..n : g[k] = IF k = 0 THEN Got(at, EmptyRecord)
                                        ELSE EntryAfter(input, v[k - 1], E)
    BY <2>1
  <2>3. v = [k \in 0..n |-> v[k]] /\ \A k \in 0..n : v[k] = g[k]
    OBVIOUS
  <2> HIDE DEF v
  <2> QED  BY <2>2, <2>3
<1>3. f = [k \in 0..n |-> IF k = 0 THEN Got(at, EmptyRecord)
                          ELSE EntryAfter(input, f[k - 1], E)]
  BY <1>2
<1> HIDE DEF f, v
<1> DEFINE S == {k \in 0..n : f[k] = g[k]}
<1>4. 0 \in S
  BY <1>3
<1>5. \A k \in 1..n : k - 1 \in S => k \in S
  <2> SUFFICES ASSUME NEW k \in 1..n, k - 1 \in S PROVE f[k] = g[k]
    <3>1. \A k \in 1..n : k \in 0..n
      OBVIOUS
    <3> QED  BY <3>1, Zenon
  <2>1. k \in 0..n /\ k # 0
    OBVIOUS
  <2>2. f[k] = EntryAfter(input, f[k - 1], E)
    BY <1>3, <2>1
  <2> QED  BY <2>2
<1> HIDE DEF S
<1>6. 0..n \subseteq S
  BY <1>4, <1>5, UpToInduction
<1> QED  BY <1>1, <1>6 DEF S

AllRun(input, at, Item, g) ==
    /\ g[0] = Got(at, <<>>)
    /\ \A k \in 1..Len(input) : g[k] = ItemAfter(input, g[k - 1], Item)

(* So is ReadAll.                                                          *)
LEMMA AllLoop ==
    ASSUME NEW input, Len(input) \in Nat, NEW at, NEW Item, NEW g, AllRun(input, at, Item, g)
    PROVE  ReadAll(input, at, Item) = g[Len(input)]
<1> USE DEF AllRun
<1> PICK n \in Nat : n = Len(input)
  OBVIOUS
<1> DEFINE f == CHOOSE h : h = [k \in 0..n |-> IF k = 0 THEN Got(at, <<>>)
                                               ELSE ItemAfter(input, h[k - 1], Item)]
           v == [k \in 0..n |-> g[k]]
<1>1. ReadAll(input, at, Item) = f[n]
  BY DEF ReadAll
<1>2. v = [k \in 0..n |-> IF k = 0 THEN Got(at, <<>>)
                          ELSE ItemAfter(input, v[k - 1], Item)]
  <2>1. \A k \in 0..n : k # 0 => k \in 1..n /\ k - 1 \in 0..n
    OBVIOUS
  <2>2. \A k \in 0..n : g[k] = IF k = 0 THEN Got(at, <<>>)
                                        ELSE ItemAfter(input, v[k - 1], Item)
    BY <2>1
  <2>3. v = [k \in 0..n |-> v[k]] /\ \A k \in 0..n : v[k] = g[k]
    OBVIOUS
  <2> HIDE DEF v
  <2> QED  BY <2>2, <2>3
<1>3. f = [k \in 0..n |-> IF k = 0 THEN Got(at, <<>>)
                          ELSE ItemAfter(input, f[k - 1], Item)]
  BY <1>2
<1> HIDE DEF f, v
<1> DEFINE S == {k \in 0..n : f[k] = g[k]}
<1>4. 0 \in S
  BY <1>3
<1>5. \A k \in 1..n : k - 1 \in S => k \in S
  <2> SUFFICES ASSUME NEW k \in 1..n, k - 1 \in S PROVE f[k] = g[k]
    <3>1. \A k \in 1..n : k \in 0..n
      OBVIOUS
    <3> QED  BY <3>1, Zenon
  <2>1. k \in 0..n /\ k # 0
    OBVIOUS
  <2>2. f[k] = ItemAfter(input, f[k - 1], Item)
    BY <1>3, <2>1
  <2> QED  BY <2>2
<1> HIDE DEF S
<1>6. 0..n \subseteq S
  BY <1>4, <1>5, UpToInduction
<1> QED  BY <1>1, <1>6 DEF S

(* What E gives where the input holds w, and where it ends inside of w.    *)
ReadsPart(input, E, w, item) ==
    \A r \in Positions(input) :
        /\ At(input, r, w) => E[r] = Got(r + Len(w), item)
        /\ CutAt(input, r, w) => E[r] = NotRead

(* One entry of a map: a name, and what E reads behind it.                 *)
LEMMA EntryStep ==
    ASSUME NEW input \in Seq(Bytes), NEW q \in Nat \ {0},
           NEW name \in Seq(TextBytes), TextFits(name), NEW w \in Seq(Bytes),
           NEW E, NEW entry, ReadsPart(input, E, w, entry), NEW map
    PROVE  /\ WriteString(name) \o w \in Seq(Bytes)
           /\ At(input, q, WriteString(name) \o w) =>
                 EntryAfter(input, Got(q, map), E)
                    = Got(q + Len(WriteString(name) \o w), Put(map, name, entry))
           /\ CutAt(input, q, WriteString(name) \o w) =>
                 EntryAfter(input, Got(q, map), E) = NotRead
<1> DEFINE a == WriteString(name)
           r == q + Len(a)
           e == r + Len(w)
           result == EntryAfter(input, Got(q, map), E)
<1>1. /\ a \in Seq(Bytes)
      /\ At(input, q, a) => ReadString(input, q) = Got(r, name)
      /\ CutAt(input, q, a) => ReadString(input, q) = NotRead
  BY StringRead
<1> HIDE DEF a
<1>2. a \o w \in Seq(Bytes) /\ r \in Nat \ {0} /\ e = q + Len(a \o w) /\ e # 0
  BY <1>1
<1> HIDE DEF r, e
<1>3. At(input, q, a \o w) => At(input, q, a) /\ At(input, r, w)
  BY <1>1, AtPair DEF r
<1>4. CutAt(input, q, a \o w) =>
         CutAt(input, q, a) \/ (At(input, q, a) /\ CutAt(input, r, w))
  BY <1>1, AtPair DEF r
<1>5. At(input, r, w) \/ CutAt(input, r, w) => r \in Positions(input)
  BY <1>2 DEF At, CutAt, Positions
<1>6. /\ At(input, r, w) => E[r] = Got(e, entry)
      /\ CutAt(input, r, w) => E[r] = NotRead
  BY <1>5 DEF ReadsPart, e
<1>7. ASSUME ReadString(input, q) = Got(r, name), E[r] = Got(e, entry)
      PROVE  result = Got(e, Put(map, name, entry))
  BY <1>2, <1>7 DEF EntryAfter, Then, Got
<1>8. ASSUME ReadString(input, q) = Got(r, name), E[r] = NotRead
      PROVE  result = NotRead
  BY <1>2, <1>8 DEF EntryAfter, Then, Got, NotRead
<1>9. ASSUME ReadString(input, q) = NotRead PROVE result = NotRead
  BY <1>9 DEF EntryAfter, Then, Got, NotRead
<1> HIDE DEF result
<1>10. /\ At(input, q, a \o w) => result = Got(e, Put(map, name, entry))
       /\ CutAt(input, q, a \o w) => result = NotRead
  BY <1>1, <1>3, <1>4, <1>6, <1>7, <1>8, <1>9
<1> QED  BY <1>2, <1>10 DEF a, result

(* Behind a failure every turn of the loop fails.                          *)
LEMMA EntryAfterFailure ==
    ASSUME NEW input, NEW E PROVE EntryAfter(input, NotRead, E) = NotRead
BY DEF EntryAfter, Then, NotRead, Got

(* A counted map as it is written: W gives the bytes behind each name.     *)
MapParts(D, W) ==
    [i \in 1..Len(SortedNames(D)) |->
        WriteString(SortedNames(D)[i]) \o W[SortedNames(D)[i]]]

MapBytes(D, W) == WriteWord(Len(SortedNames(D))) \o FlattenSeq(MapParts(D, W))

MapNames(D) ==
    /\ IsFiniteSet(D) /\ Cardinality(D) < Power[WordBytes]
    /\ \A name \in D : name \in Seq(TextBytes) /\ TextFits(name)

(* The bytes of a counted map, and how long they are.                      *)
LEMMA MapPartsType ==
    ASSUME NEW D, MapNames(D), NEW W, \A name \in D : W[name] \in Seq(Bytes)
    PROVE  /\ SortedNames(D) \in Seq(D)
           /\ Len(SortedNames(D)) \in Nat
           /\ Len(SortedNames(D)) < Power[WordBytes]
           /\ \A x \in D : \E i \in 1..Len(SortedNames(D)) : SortedNames(D)[i] = x
           /\ MapParts(D, W) \in Seq(Seq(Bytes))
           /\ Len(MapParts(D, W)) = Len(SortedNames(D))
           /\ MapBytes(D, W) \in Seq(Bytes)
           /\ Len(MapBytes(D, W)) = WordBytes + Len(FlattenSeq(MapParts(D, W)))
<1> DEFINE names == SortedNames(D)
<1>1. D \subseteq Seq(Bytes)
  BY FormatAssumption DEF MapNames
<1>2. /\ names \in Seq(D) /\ Len(names) = Cardinality(D) /\ Cardinality(D) \in Nat
      /\ \A x \in D : \E i \in 1..Cardinality(D) : names[i] = x
  BY <1>1, SortedNamesList DEF MapNames
<1> HIDE DEF names
<1> PICK n \in Nat : n = Len(names)
  BY <1>2
<1>3. MapParts(D, W) = [i \in 1..n |-> WriteString(names[i]) \o W[names[i]]]
  BY DEF MapParts, names
<1>4. ASSUME NEW i \in 1..n PROVE WriteString(names[i]) \o W[names[i]] \in Seq(Bytes)
  <2>1. names[i] \in D
    BY <1>2
  <2>2. WriteString(names[i]) \in Seq(Bytes)
    <3>1. names[i] \in Seq(TextBytes) /\ TextFits(names[i])
      BY <2>1 DEF MapNames
    <3>2. LittleEndian(Len(names[i]), LenBytes) \in Seq(Bytes)
      BY <3>1, LittleEndianType, FormatAssumption
    <3>3. names[i] \in Seq(Bytes)
      BY <3>1, FormatAssumption
    <3> QED  BY <3>2, <3>3 DEF WriteString
  <2>3. W[names[i]] \in Seq(Bytes)
    BY <2>1
  <2> QED  BY <2>2, <2>3
<1>5. MapParts(D, W) \in Seq(Seq(Bytes)) /\ Len(MapParts(D, W)) = n
  <2>1. MapParts(D, W) \in [1..n -> Seq(Bytes)]
    BY <1>3, <1>4
  <2> QED  BY <2>1
<1>6. FlattenSeq(MapParts(D, W)) \in Seq(Bytes)
  BY <1>5, FlattenParts
<1>7. WriteWord(n) \in Seq(Bytes) /\ Len(WriteWord(n)) = WordBytes
  BY LittleEndianType, FormatAssumption DEF WriteWord
<1>8. MapBytes(D, W) = WriteWord(n) \o FlattenSeq(MapParts(D, W))
  BY DEF MapBytes, names
<1>9. MapBytes(D, W) \in Seq(Bytes)
      /\ Len(MapBytes(D, W)) = WordBytes + Len(FlattenSeq(MapParts(D, W)))
  <2> DEFINE a == WriteWord(n)
             z == FlattenSeq(MapParts(D, W))
  <2>1. a \in Seq(Bytes) /\ z \in Seq(Bytes) /\ Len(a) = WordBytes /\ MapBytes(D, W) = a \o z
    BY <1>6, <1>7, <1>8
  <2> HIDE DEF a, z
  <2>2. a \in Seq(Bytes) /\ z \in Seq(Bytes)
    BY <2>1
  <2>3. a \o z \in Seq(Bytes) /\ Len(a \o z) = Len(a) + Len(z)
    BY ONLY <2>2
  <2> QED  BY <2>1, <2>3 DEF z
<1>10. n < Power[WordBytes] /\ \A x \in D : \E i \in 1..n : names[i] = x
  BY <1>2 DEF MapNames
<1> QED  BY <1>2, <1>5, <1>9, <1>10 DEF names

MapReads(input, E, D, W, f) ==
    /\ MapNames(D)
    /\ \A name \in D : W[name] \in Seq(Bytes)
    /\ f = [name \in D |-> f[name]]
    /\ \A name \in D : ReadsPart(input, E, W[name], f[name])

(* A counted map is read back where it stands, and not at all where the    *)
(* bytes end inside of it.                                                 *)
LEMMA CountedMap ==
    ASSUME NEW input \in Seq(Bytes), NEW p \in Nat \ {0},
           NEW D, NEW W, NEW f, NEW E, MapReads(input, E, D, W, f)
    PROVE  /\ At(input, p, MapBytes(D, W)) =>
                 ReadCounted(input, p, E) = Got(p + Len(MapBytes(D, W)), f)
           /\ CutAt(input, p, MapBytes(D, W)) => ReadCounted(input, p, E) = NotRead
<1> MapNames(D)
  BY DEF MapReads
<1> \A name \in D : W[name] \in Seq(Bytes)
  BY DEF MapReads
<1> f = [name \in D |-> f[name]]
  BY DEF MapReads
<1> \A name \in D : ReadsPart(input, E, W[name], f[name])
  BY DEF MapReads
<1> DEFINE names == SortedNames(D)
           parts == MapParts(D, W)
<1> PICK n \in Nat : n = Len(names)
  BY MapPartsType
<1>1. /\ names \in Seq(D) /\ n < Power[WordBytes]
      /\ \A x \in D : \E i \in 1..n : names[i] = x
      /\ parts \in Seq(Seq(Bytes)) /\ Len(parts) = n
      /\ MapBytes(D, W) \in Seq(Bytes)
      /\ Len(MapBytes(D, W)) = WordBytes + Len(FlattenSeq(parts))
  BY MapPartsType
<1>2. \A i \in 1..n : names[i] \in D /\ parts[i] = WriteString(names[i]) \o W[names[i]]
  <2>1. parts = [i \in 1..n |-> WriteString(names[i]) \o W[names[i]]]
    BY DEF MapParts
  <2> HIDE DEF names, parts
  <2>2. \A i \in 1..n : names[i] \in D
    <3>1. names \in Seq(D)
      BY <1>1
    <3> QED  BY <3>1
  <2> QED  BY <2>1, <2>2
<1>3. MapBytes(D, W) = WriteWord(n) \o FlattenSeq(parts)
  BY DEF MapBytes
<1> HIDE DEF names, parts
<1> DEFINE w == FlattenSeq(parts)
           c == WriteWord(n)
           b == p + WordBytes
<1>4. w \in Seq(Bytes) /\ Len(w) \in Nat
  BY <1>1, FlattenParts
<1>5. c \in Seq(Bytes) /\ Len(c) = WordBytes
  BY LittleEndianType, FormatAssumption DEF WriteWord
<1>6. b \in Nat \ {0} /\ b # 0
  BY FormatAssumption
<1>7. /\ At(input, p, c) => ReadWord(input, p) = Got(b, n)
      /\ CutAt(input, p, c) => ReadWord(input, p) = NotRead
  BY <1>1, UIntRead, FormatAssumption DEF WriteWord, ReadWord
<1>8. PICK off \in [0..n -> Nat] :
         /\ off[0] = 0 /\ off[n] = Len(w)
         /\ \A k \in 1..n : off[k] = off[k - 1] + Len(parts[k])
         /\ At(input, b, w) => \A k \in 1..n : At(input, b + off[k - 1], parts[k])
         /\ CutAt(input, b, w) =>
               \E j \in 1..n : /\ \A k \in 1..(j - 1) : At(input, b + off[k - 1], parts[k])
                               /\ CutAt(input, b + off[j - 1], parts[j])
  <2>1. b \in Nat \ {0} /\ parts \in Seq(Seq(Bytes)) /\ Len(parts) = n
    BY <1>1, <1>6
  <2> HIDE DEF b, w
  <2>2. \E off \in [0..Len(parts) -> Nat] :
         /\ off[0] = 0 /\ off[Len(parts)] = Len(w)
         /\ \A k \in 1..Len(parts) : off[k] = off[k - 1] + Len(parts[k])
         /\ At(input, b, w) => \A k \in 1..Len(parts) : At(input, b + off[k - 1], parts[k])
         /\ CutAt(input, b, w) =>
               \E j \in 1..Len(parts) :
                  /\ \A k \in 1..(j - 1) : At(input, b + off[k - 1], parts[k])
                  /\ CutAt(input, b + off[j - 1], parts[j])
    BY <2>1, FlattenAt, Zenon DEF w
  <2> QED  BY <2>1, <2>2
<1> HIDE DEF w, c, b
<1> DEFINE map == [k \in 0..n |-> [name \in {names[i] : i \in 1..k} |-> f[name]]]
           pos == [k \in 0..n |-> b + off[k]]
<1>9. \A k \in 1..n : k - 1 \in 0..n /\ k \in 0..n
  OBVIOUS
<1>10. map[0] = EmptyRecord /\ map[n] = f
  <2>1. {names[i] : i \in 1..0} = {} /\ {names[i] : i \in 1..n} = D
    BY <1>1, <1>2
  <2>2. map[0] = [name \in {} |-> f[name]]
    BY <2>1
  <2>3. EmptyRecord = [name \in {} |-> f[name]]
    BY DEF EmptyRecord
  <2> QED  BY <2>1, <2>2, <2>3
<1>11. \A k \in 1..n : map[k] = Put(map[k - 1], names[k], f[names[k]])
  <2> SUFFICES ASSUME NEW k \in 1..n PROVE map[k] = Put(map[k - 1], names[k], f[names[k]])
    OBVIOUS
  <2> DEFINE A == {names[i] : i \in 1..(k - 1)}
             B == {names[i] : i \in 1..k}
  <2>1. B = A \cup {names[k]}
    OBVIOUS
  <2>2. map[k - 1] = [name \in A |-> f[name]] /\ map[k] = [name \in B |-> f[name]]
    BY <1>9
  <2> HIDE DEF A, B, map
  <2> QED  BY <2>1, <2>2 DEF Put
<1>12. pos[0] = b /\ pos[n] = b + Len(w)
  BY <1>6, <1>8
<1>13. \A k \in 0..n : pos[k] = b + off[k] /\ pos[k] \in Nat \ {0}
  BY <1>6
<1> HIDE DEF map, pos
<1>14. ASSUME NEW k \in 1..n
       PROVE  /\ At(input, pos[k - 1], parts[k]) =>
                    EntryAfter(input, Got(pos[k - 1], map[k - 1]), E) = Got(pos[k], map[k])
              /\ CutAt(input, pos[k - 1], parts[k]) =>
                    EntryAfter(input, Got(pos[k - 1], map[k - 1]), E) = NotRead
  <2>1. /\ names[k] \in Seq(TextBytes) /\ TextFits(names[k])
        /\ W[names[k]] \in Seq(Bytes) /\ ReadsPart(input, E, W[names[k]], f[names[k]])
    BY <1>2 DEF MapNames
  <2>2. pos[k - 1] \in Nat \ {0} /\ pos[k] = pos[k - 1] + Len(parts[k])
    <3>1. off[k - 1] \in Nat /\ Len(parts[k]) \in Nat /\ off[k] = off[k - 1] + Len(parts[k])
      <4>1. off[k - 1] \in Nat
        BY <1>9
      <4>2. off[k] = off[k - 1] + Len(parts[k])
        BY <1>8
      <4>3. parts[k] \in Seq(Bytes)
        BY <1>1
      <4> QED  BY <4>1, <4>2, <4>3
    <3>2. pos[k] = b + off[k] /\ pos[k - 1] = b + off[k - 1] /\ pos[k - 1] \in Nat \ {0}
      BY <1>9, <1>13
    <3> QED  BY <1>6, <3>1, <3>2, SMTT(60)
  <2>3. parts[k] = WriteString(names[k]) \o W[names[k]]
    BY <1>2
  <2> DEFINE q == pos[k - 1]
             m == map[k - 1]
             name == names[k]
             v == W[name]
             entry == f[name]
             r == EntryAfter(input, Got(q, m), E)
  <2>4. /\ name \in Seq(TextBytes) /\ TextFits(name) /\ v \in Seq(Bytes)
        /\ q \in Nat \ {0} /\ ReadsPart(input, E, v, entry) /\ parts[k] = WriteString(name) \o v
    BY <2>1, <2>2, <2>3
  <2> HIDE DEF q, m, name, v, entry
  <2>5. At(input, q, WriteString(name) \o v) =>
           r = Got(q + Len(WriteString(name) \o v), Put(m, name, entry))
    BY ONLY <2>4, input \in Seq(Bytes), EntryStep
  <2>6. CutAt(input, q, WriteString(name) \o v) => r = NotRead
    BY ONLY <2>4, input \in Seq(Bytes), EntryStep
  <2> QED  BY <1>11, <2>2, <2>4, <2>5, <2>6 DEF q, m, name, entry
<1>15. ASSUME \A k \in 1..n : At(input, pos[k - 1], parts[k])
       PROVE  ReadMap(input, b, n, E) = Got(b + Len(w), f)
  <2> DEFINE g == [k \in 0..n |-> Got(pos[k], map[k])]
  <2>1. \A k \in 0..n : g[k] = Got(pos[k], map[k])
    OBVIOUS
  <2> HIDE DEF g
  <2>2. g[0] = Got(b, EmptyRecord) /\ g[n] = Got(b + Len(w), f)
    BY <1>10, <1>12, <2>1
  <2>3. \A k \in 1..n : g[k] = EntryAfter(input, g[k - 1], E)
    BY <1>9, <1>14, <1>15, <2>1
  <2>4. ReadMap(input, b, n, E) = g[n]
    <3>1. MapRun(input, b, n, E, g)
      BY <2>2, <2>3 DEF MapRun
    <3> QED  BY <3>1, MapLoop
  <2> QED  BY <2>2, <2>4
<1>16. ASSUME NEW j \in 1..n, CutAt(input, pos[j - 1], parts[j]),
              \A k \in 1..(j - 1) : At(input, pos[k - 1], parts[k])
       PROVE  ReadMap(input, b, n, E) = NotRead
  <2> DEFINE g == [k \in 0..n |-> IF k < j THEN Got(pos[k], map[k]) ELSE NotRead]
  <2>1. \A k \in 0..n : g[k] = IF k < j THEN Got(pos[k], map[k]) ELSE NotRead
    OBVIOUS
  <2> HIDE DEF g
  <2>2. g[0] = Got(b, EmptyRecord) /\ g[n] = NotRead
    BY <1>10, <1>12, <2>1
  <2>3. ASSUME NEW k \in 1..n PROVE g[k] = EntryAfter(input, g[k - 1], E)
    <3>1. CASE k < j
      BY <1>9, <1>14, <1>16, <2>1, <3>1
    <3>2. CASE k = j
      BY <1>9, <1>14, <1>16, <2>1, <3>2
    <3>3. CASE k > j
      BY <1>9, <2>1, <3>3, EntryAfterFailure
    <3> QED  BY <3>1, <3>2, <3>3
  <2>4. ReadMap(input, b, n, E) = g[n]
    <3>1. MapRun(input, b, n, E, g)
      BY <2>2, <2>3 DEF MapRun
    <3> QED  BY <3>1, MapLoop
  <2> QED  BY <2>2, <2>4
<1>17. /\ At(input, b, w) => ReadMap(input, b, n, E) = Got(b + Len(w), f)
       /\ CutAt(input, b, w) => ReadMap(input, b, n, E) = NotRead
  <2>1. \A k \in 1..n : pos[k - 1] = b + off[k - 1]
    BY <1>9, <1>13
  <2>2. ASSUME At(input, b, w) PROVE \A k \in 1..n : At(input, pos[k - 1], parts[k])
    BY <1>8, <2>1, <2>2
  <2>3. ASSUME CutAt(input, b, w)
        PROVE  \E j \in 1..n : /\ \A k \in 1..(j - 1) : At(input, pos[k - 1], parts[k])
                               /\ CutAt(input, pos[j - 1], parts[j])
    <3>1. PICK j \in 1..n : /\ \A k \in 1..(j - 1) : At(input, b + off[k - 1], parts[k])
                            /\ CutAt(input, b + off[j - 1], parts[j])
      BY <1>8, <2>3
    <3>2. \A k \in 1..(j - 1) : k \in 1..n
      OBVIOUS
    <3> QED  BY <2>1, <3>1, <3>2
  <2> QED  BY <1>15, <1>16, <2>2, <2>3
<1>18. /\ c \o w = MapBytes(D, W)
       /\ b + Len(w) = p + Len(MapBytes(D, W)) /\ b + Len(w) # 0
       /\ At(input, p, c \o w) => At(input, p, c) /\ At(input, b, w)
  <2>1. b = p + Len(c)
    BY <1>5 DEF b
  <2>2. At(input, p, c \o w) => At(input, p, c) /\ At(input, b, w)
    BY <1>4, <1>5, <2>1, AtPair
  <2>3. c \o w = MapBytes(D, W)
    BY <1>3 DEF c, w
  <2>4. Len(MapBytes(D, W)) = WordBytes + Len(w)
    BY <1>1 DEF w
  <2>5. (p + WordBytes) + Len(w) = p + (WordBytes + Len(w)) /\ (p + WordBytes) + Len(w) # 0
    BY <1>4, FormatAssumption
  <2> QED  BY <2>2, <2>3, <2>4, <2>5 DEF b
<1>19. CutAt(input, p, c \o w) => CutAt(input, p, c) \/ (At(input, p, c) /\ CutAt(input, b, w))
  <2>1. b = p + Len(c)
    BY <1>5 DEF b
  <2> QED  BY <1>4, <1>5, <2>1, AtPair
<1> DEFINE result == ReadCounted(input, p, E)
<1>20. ASSUME ReadWord(input, p) = Got(b, n)
       PROVE  result = ReadMap(input, b, n, E)
  <2> DEFINE m == ReadMap(input, b, n, E)
  <2> QED  BY <1>6, <1>20 DEF ReadCounted, Then, Got
<1>21. ReadWord(input, p) = NotRead => result = NotRead
  BY DEF ReadCounted, Then, Got, NotRead
<1> HIDE DEF result
<1> QED  BY <1>7, <1>17, <1>18, <1>19, <1>20, <1>21 DEF result

(* One turn of ReadAll.                                                    *)
LEMMA ItemFails ==
    ASSUME NEW input, NEW Item, NEW q, q # 0, NEW items
    PROVE  /\ ItemAfter(input, NotRead, Item) = NotRead
           /\ q # Len(input) + 1 /\ Item[q] = NotRead =>
                 ItemAfter(input, Got(q, items), Item) = NotRead
BY DEF ItemAfter, Then, NotRead, Got, Finished

(* At the end of the bytes a turn changes nothing.                         *)
LEMMA ItemsEnd ==
    ASSUME NEW input, NEW Item, NEW q, q # 0, NEW items, q = Len(input) + 1
    PROVE  ItemAfter(input, Got(q, items), Item) = Got(q, items)
BY DEF ItemAfter, Then, Got, Finished

(* Items whose parts are all there, up to the j-th.                        *)
ItemsRead(input, Item, items, j, pos) ==
    /\ \E V : items \in Seq(V)
    /\ j \in 0..Len(items)
    /\ pos \in [0..j -> Nat \ {0}]
    /\ pos[j] <= Len(input) + 1
    /\ \A k \in 1..j : pos[k - 1] < pos[k] /\ Item[pos[k - 1]] = Got(pos[k], items[k])

(* ReadAll ends with the items that were read when the bytes end, and      *)
(* fails at an item that fails.                                            *)
LEMMA AllSteps ==
    ASSUME NEW input \in Seq(Bytes), NEW Item, NEW items, NEW j, NEW pos,
           ItemsRead(input, Item, items, j, pos)
    PROVE  /\ pos[j] = Len(input) + 1 =>
                 ReadAll(input, pos[0], Item) = Got(pos[j], SubSeq(items, 1, j))
           /\ pos[j] # Len(input) + 1 /\ Item[pos[j]] = NotRead =>
                 ReadAll(input, pos[0], Item) = NotRead
<1> PICK n \in Nat : n = Len(input)
  OBVIOUS
<1> PICK V : items \in Seq(V)
  BY DEF ItemsRead
<1>0. j \in 0..Len(items) /\ Len(items) \in Nat
  BY DEF ItemsRead
<1> USE <1>0
<1> DEFINE first == [k \in 0..j |-> SubSeq(items, 1, k)]
<1>1. /\ pos \in [0..j -> Nat \ {0}] /\ pos[j] <= n + 1 /\ j \in Nat
      /\ \A k \in 1..j : pos[k - 1] < pos[k] /\ Item[pos[k - 1]] = Got(pos[k], items[k])
  BY DEF ItemsRead
<1>2. first[0] = <<>> /\ first[j] = SubSeq(items, 1, j)
      /\ \A k \in 1..j : first[k] = Append(first[k - 1], items[k])
  <2>1. first[0] = <<>>
    BY <1>1
  <2>2. first[j] = SubSeq(items, 1, j)
    BY <1>1
  <2>3. ASSUME NEW k \in 1..j PROVE first[k] = Append(first[k - 1], items[k])
    <3>1. k \in 0..j /\ k - 1 \in 0..j /\ k \in 1..Len(items) /\ k - 1 \in 0..Len(items)
      OBVIOUS
    <3>2. first[k] = SubSeq(items, 1, k) /\ first[k - 1] = SubSeq(items, 1, k - 1)
      BY <3>1
    <3>3. SubSeq(items, 1, k) = Append(SubSeq(items, 1, k - 1), items[k])
      BY <3>1
    <3> QED  BY <3>2, <3>3
  <2> QED  BY <2>1, <2>2, <2>3
<1> HIDE DEF first
<1>3. \A k \in 0..j : pos[k] \in Nat \ {0}
  BY <1>1
<1> DEFINE S == {k \in 0..j : pos[k] >= k + 1}
           T == {k \in 0..j : pos[j - k] <= (n + 1) - k}
<1>4. 0..j \subseteq S
  <2>1. 0 \in S
    BY <1>1, <1>3
  <2>2. \A k \in 1..j : k - 1 \in S => k \in S
    <3> SUFFICES ASSUME NEW k \in 1..j, pos[k - 1] >= (k - 1) + 1 PROVE pos[k] >= k + 1
      <4>1. \A k \in 1..j : k \in 0..j
        OBVIOUS
      <4> QED  BY <4>1, Zenon
    <3>1. pos[k - 1] < pos[k] /\ pos[k] \in Nat /\ pos[k - 1] \in Nat
      BY <1>1, <1>3
    <3> QED  BY <3>1
  <2> HIDE DEF S
  <2> QED  BY <1>1, <2>1, <2>2, UpToInduction
<1>5. 0..j \subseteq T
  <2>1. 0 \in T
    BY <1>1, <1>3
  <2>2. \A k \in 1..j : k - 1 \in T => k \in T
    <3> SUFFICES ASSUME NEW k \in 1..j, pos[j - (k - 1)] <= (n + 1) - (k - 1)
                 PROVE  pos[j - k] <= (n + 1) - k
      <4>1. \A k \in 1..j : k \in 0..j
        OBVIOUS
      <4> QED  BY <4>1, Zenon
    <3>1. (j - k) + 1 \in 1..j /\ ((j - k) + 1) - 1 = j - k /\ j - (k - 1) = (j - k) + 1
      BY <1>1
    <3>2. pos[((j - k) + 1) - 1] < pos[(j - k) + 1]
      BY <1>1, <3>1
    <3>3. pos[j - k] \in Nat /\ pos[(j - k) + 1] \in Nat
      BY <1>1, <1>3
    <3>4. pos[j - k] < pos[(j - k) + 1] /\ pos[(j - k) + 1] <= (n + 1) - (k - 1)
      BY <3>1, <3>2
    <3> QED  BY <3>3, <3>4
  <2> HIDE DEF T
  <2> QED  BY <1>1, <2>1, <2>2, UpToInduction
<1>6. \A k \in 1..j : pos[k - 1] # n + 1
  <2> SUFFICES ASSUME NEW k \in 1..j PROVE pos[k - 1] # n + 1
    OBVIOUS
  <2>1. (j - k) + 1 \in 0..j /\ j - ((j - k) + 1) = k - 1
    BY <1>1
  <2>2. (j - k) + 1 \in T
    BY <1>5, <2>1
  <2>3. pos[j - ((j - k) + 1)] <= (n + 1) - ((j - k) + 1)
    BY <2>2
  <2> HIDE DEF T
  <2>4. pos[k - 1] <= (n + 1) - ((j - k) + 1) /\ pos[k - 1] \in Nat
    BY <1>3, <2>1, <2>3
  <2> QED  BY <1>1, <2>4
<1>7. pos[j] >= j + 1
  <2>1. j \in S
    BY <1>1, <1>4
  <2> QED  BY <2>1
<1> HIDE DEF S, T
<1>8. ASSUME NEW k \in 1..j
      PROVE  ItemAfter(input, Got(pos[k - 1], first[k - 1]), Item) = Got(pos[k], first[k])
  <2>1. pos[k - 1] \in Nat \ {0} /\ pos[k] \in Nat \ {0}
    BY <1>1, <1>3
  <2>2. pos[k - 1] # Len(input) + 1 /\ Item[pos[k - 1]] = Got(pos[k], items[k])
    BY <1>1, <1>6
  <2> DEFINE q == pos[k - 1]
             r == pos[k]
             item == items[k]
             before == first[k - 1]
  <2>3. q # 0 /\ r # 0 /\ q # Len(input) + 1 /\ Item[q] = Got(r, item)
    BY <2>1, <2>2
  <2>4. first[k] = Append(before, item)
    BY <1>2
  <2> HIDE DEF q, r, item, before
  <2>5. ItemAfter(input, Got(q, before), Item) = Got(r, Append(before, item))
    BY <2>3 DEF ItemAfter, Then, Got, Finished
  <2> QED  BY <2>4, <2>5 DEF q, r, before
<1>9. ASSUME NEW end, ItemAfter(input, Got(pos[j], first[j]), Item) = end,
             ItemAfter(input, end, Item) = end, j < n \/ end = Got(pos[j], first[j])
      PROVE  ReadAll(input, pos[0], Item) = end
  <2> DEFINE g == [k \in 0..n |-> IF k <= j THEN Got(pos[k], first[k]) ELSE end]
  <2>1. \A k \in 0..n : g[k] = IF k <= j THEN Got(pos[k], first[k]) ELSE end
    OBVIOUS
  <2>2. j <= n
    BY <1>1, <1>3, <1>7
  <2> HIDE DEF g
  <2>3. g[0] = Got(pos[0], <<>>)
    BY <1>1, <1>2, <2>1
  <2>4. g[n] = end
    <3>1. n \in 0..n /\ (n = j \/ ~(n <= j)) /\ (n = j => n <= j)
      BY <1>1, <2>2
    <3>2. g[n] = IF n <= j THEN Got(pos[n], first[n]) ELSE end
      BY <2>1
    <3>3. n = j => ~(j < n)
      BY <1>1
    <3> QED  BY <1>9, <3>1, <3>2, <3>3
  <2>5. ASSUME NEW k \in 1..n PROVE g[k] = ItemAfter(input, g[k - 1], Item)
    <3>1. CASE k <= j
      <4>1. k \in 0..n /\ k - 1 \in 0..n /\ k - 1 <= j /\ k \in 1..j
        BY <1>1, <3>1
      <4>2. g[k] = Got(pos[k], first[k]) /\ g[k - 1] = Got(pos[k - 1], first[k - 1])
        BY <2>1, <3>1, <4>1
      <4> QED  BY <1>8, <4>1, <4>2
    <3>2. CASE k = j + 1
      <4>1. k \in 0..n /\ k - 1 \in 0..n /\ k - 1 <= j /\ k - 1 = j /\ ~(k <= j)
        BY <1>1, <3>2
      <4>2. g[k] = end /\ g[k - 1] = Got(pos[j], first[j])
        BY <2>1, <4>1
      <4> QED  BY <1>9, <4>2
    <3>3. CASE k > j + 1
      BY <1>1, <1>9, <2>1, <3>3, SMTT(60)
    <3> QED  BY <1>1, <3>1, <3>2, <3>3
  <2>6. AllRun(input, pos[0], Item, g)
    BY <2>3, <2>5 DEF AllRun
  <2> QED  BY <2>4, <2>6, AllLoop
<1>10. pos[j] \in Nat \ {0}
  BY <1>1, <1>3
<1>11. ASSUME pos[j] = Len(input) + 1
       PROVE  ReadAll(input, pos[0], Item) = Got(pos[j], SubSeq(items, 1, j))
  <2>1. ItemAfter(input, Got(pos[j], first[j]), Item) = Got(pos[j], first[j])
    BY <1>10, <1>11, ItemsEnd
  <2> QED  BY <1>2, <1>9, <2>1
<1>12. ASSUME pos[j] # Len(input) + 1, Item[pos[j]] = NotRead
       PROVE  ReadAll(input, pos[0], Item) = NotRead
  <2>1. ItemAfter(input, Got(pos[j], first[j]), Item) = NotRead
    BY <1>10, <1>12, ItemFails
  <2>2. ItemAfter(input, NotRead, Item) = NotRead
    BY <1>10, ItemFails
  <2>3. j < n
    <3>1. pos[j] <= n + 1 /\ j \in Nat
      BY <1>1
    <3> QED  BY <1>7, <1>10, <1>12, <3>1
  <2> QED  BY <1>9, <2>1, <2>2, <2>3
<1> QED  BY <1>11, <1>12

(* The failure, with the place of the item named.                          *)
LEMMA StepsFail ==
    ASSUME NEW input \in Seq(Bytes), NEW Item, NEW items, NEW j, NEW pos, NEW p,
           ItemsRead(input, Item, items, j, pos), pos[0] = p,
           NEW q, pos[j] = q, q # Len(input) + 1, Item[q] = NotRead
    PROVE  ReadAll(input, p, Item) = NotRead
BY AllSteps

(* All items are read from an input that ends with the last of them; one   *)
(* that ends inside of an item is refused.  An input that ends between two *)
(* gives those in front.                                                   *)
PartsOf(input, Item, s, items) ==
    /\ Len(items) = Len(s)
    /\ \A k \in 1..Len(s) : Len(s[k]) # 0 /\ ReadsPart(input, Item, s[k], items[k])

(* All items of an input are read, and none is made up of a part of one.   *)
LEMMA AllItems ==
    ASSUME NEW input \in Seq(Bytes), NEW p \in Nat \ {0}, NEW Item,
           NEW s \in Seq(Seq(Bytes)), NEW V, NEW items \in Seq(V),
           PartsOf(input, Item, s, items)
    PROVE  /\ At(input, p, FlattenSeq(s)) /\ p + Len(FlattenSeq(s)) = Len(input) + 1 =>
                 ReadAll(input, p, Item) = Got(Len(input) + 1, items)
           /\ CutAt(input, p, FlattenSeq(s)) =>
                 \/ ReadAll(input, p, Item) = NotRead
                 \/ \E j \in 0..(Len(s) - 1) :
                       ReadAll(input, p, Item) = Got(Len(input) + 1, SubSeq(items, 1, j))
           /\ \A x, item :
                 /\ At(input, p, FlattenSeq(s))
                 /\ p + Len(FlattenSeq(s)) # Len(input) + 1
                 /\ CutAt(input, p + Len(FlattenSeq(s)), x)
                 /\ ReadsPart(input, Item, x, item)
                 => ReadAll(input, p, Item) = NotRead
<1> PICK n \in Nat : n = Len(s)
  OBVIOUS
<1> PICK L \in Nat : L = Len(input)
  OBVIOUS
<1> DEFINE w == FlattenSeq(s)
<1>1. PICK off \in [0..Len(s) -> Nat] :
         /\ off[0] = 0 /\ off[Len(s)] = Len(w)
         /\ \A k \in 1..Len(s) : off[k] = off[k - 1] + Len(s[k])
         /\ At(input, p, w) => \A k \in 1..Len(s) : At(input, p + off[k - 1], s[k])
         /\ CutAt(input, p, w) =>
               \E j \in 1..Len(s) :
                  /\ \A k \in 1..(j - 1) : At(input, p + off[k - 1], s[k])
                  /\ CutAt(input, p + off[j - 1], s[j])
  BY FlattenAt
<1>2. \A k \in 1..n : s[k] \in Seq(Bytes) /\ Len(s[k]) \in Nat
  OBVIOUS
<1> HIDE DEF w
<1>3. /\ off \in [0..n -> Nat] /\ off[0] = 0 /\ off[n] = Len(w)
      /\ \A k \in 1..n : off[k] = off[k - 1] + Len(s[k])
  BY <1>1
<1>4. \A k \in 1..n : Len(s[k]) # 0 /\ ReadsPart(input, Item, s[k], items[k])
  BY DEF PartsOf
<1>5. \A k \in 1..n : k - 1 \in 0..n /\ k \in 0..n /\ off[k] \in Nat /\ off[k - 1] \in Nat
  <2>1. \A k \in 1..n : k - 1 \in 0..n /\ k \in 0..n
    OBVIOUS
  <2> QED  BY <1>3, <2>1
<1> DEFINE pos(j) == [k \in 0..j |-> p + off[k]]
<1>6. ASSUME NEW j \in 0..n, \A k \in 1..j : At(input, p + off[k - 1], s[k]), p + off[j] <= L + 1
      PROVE  ItemsRead(input, Item, items, j, pos(j))
  <2> DEFINE q == pos(j)
  <2>1. \A k \in 0..j : q[k] = p + off[k]
    OBVIOUS
  <2>2. \A k \in 0..j : p + off[k] \in Nat \ {0}
    <3>1. \A k \in 0..j : k \in 0..n
      OBVIOUS
    <3>2. \A k \in 0..j : off[k] \in Nat
      BY <1>3, <3>1
    <3> QED  BY <3>2
  <2>3. q \in [0..j -> Nat \ {0}]
    BY <2>2
  <2> HIDE DEF q
  <2>4. ASSUME NEW k \in 1..j PROVE q[k - 1] < q[k] /\ Item[q[k - 1]] = Got(q[k], items[k])
    <3>1. k \in 1..n /\ k \in 0..j /\ k - 1 \in 0..j
      OBVIOUS
    <3>2. /\ q[k] = p + off[k] /\ q[k - 1] = p + off[k - 1]
          /\ off[k - 1] \in Nat /\ Len(s[k]) \in Nat \ {0} /\ off[k] = off[k - 1] + Len(s[k])
      BY <1>2, <1>3, <1>4, <1>5, <2>1, <3>1
    <3>3. q[k] = q[k - 1] + Len(s[k]) /\ q[k - 1] < q[k] /\ q[k - 1] \in Nat \ {0}
      BY <3>2, SMTT(60)
    <3>4. At(input, q[k - 1], s[k])
      BY <1>6, <3>2
    <3>5. q[k - 1] \in Positions(input)
      BY <3>2, <3>3, <3>4, SMTT(60) DEF At, Positions
    <3> QED  BY <1>4, <3>1, <3>3, <3>4, <3>5 DEF ReadsPart
  <2>5. q[j] <= L + 1
    BY <1>6, <2>1
  <2>6. j \in 0..Len(items) /\ \E U : items \in Seq(U)
    BY DEF PartsOf
  <2> QED  BY <2>3, <2>4, <2>5, <2>6 DEF ItemsRead, q
<1>7. \A j \in 0..n : pos(j)[0] = p /\ pos(j)[j] = p + off[j]
  BY <1>3
<1> HIDE DEF pos
<1>8. ASSUME At(input, p, w) PROVE ItemsRead(input, Item, items, n, pos(n))
  <2>1. \A k \in 1..n : At(input, p + off[k - 1], s[k])
    BY <1>1, <1>8
  <2>2. p + off[n] <= L + 1
    BY <1>3, <1>8 DEF At
  <2>3. n \in 0..n
    OBVIOUS
  <2> QED  BY <1>6, <2>1, <2>2, <2>3
<1>9. n = Len(items) /\ n \in 0..Len(items) /\ n \in 0..n
  BY DEF PartsOf
<1>10. ASSUME At(input, p, w), p + Len(w) = L + 1
       PROVE  ReadAll(input, p, Item) = Got(L + 1, items)
  <2>1. PICK q : ItemsRead(input, Item, items, n, q) /\ q[0] = p /\ q[n] = Len(input) + 1
    BY <1>3, <1>7, <1>8, <1>9, <1>10, ZenonT(60)
  <2>2. ReadAll(input, q[0], Item) = Got(q[n], SubSeq(items, 1, n))
    BY <1>9, <2>1, AllSteps, SMTT(60)
  <2>3. SubSeq(items, 1, n) = items
    BY <1>9
  <2> QED  BY <2>1, <2>2, <2>3
<1>11. ASSUME CutAt(input, p, w)
       PROVE  \/ ReadAll(input, p, Item) = NotRead
              \/ \E j \in 0..(n - 1) :
                    ReadAll(input, p, Item) = Got(L + 1, SubSeq(items, 1, j))
  <2>1. PICK j \in 1..n : /\ \A k \in 1..(j - 1) : At(input, p + off[k - 1], s[k])
                          /\ CutAt(input, p + off[j - 1], s[j])
    BY <1>1, <1>11
  <2> DEFINE i == j - 1
  <2>2. i \in 0..(n - 1) /\ i \in 0..n /\ i \in 0..Len(items)
    BY <1>9
  <2>3. p + off[i] <= L + 1
    BY <2>1 DEF CutAt
  <2>4. \A k \in 1..i : At(input, p + off[k - 1], s[k])
    BY <2>1
  <2>5. j \in 1..n /\ CutAt(input, p + off[i], s[j])
    BY <2>1
  <2> HIDE DEF i
  <2>6. p + off[i] \in Nat \ {0}
    <3>1. off[i] \in Nat
      BY <1>3, <2>2
    <3> QED  BY <3>1, SMTT(60)
  <2>7. Item[p + off[i]] = NotRead
    <3>1. p + off[i] \in Positions(input)
      BY <2>3, <2>6 DEF Positions
    <3> QED  BY <1>4, <2>5, <3>1 DEF ReadsPart
  <2>8. PICK q : ItemsRead(input, Item, items, i, q) /\ q[0] = p /\ q[i] = p + off[i]
    BY <1>6, <1>7, <2>2, <2>3, <2>4
  <2>9. CASE p + off[i] = L + 1
    <3>1. q[i] = Len(input) + 1
      BY <2>8, <2>9
    <3>2. ReadAll(input, q[0], Item) = Got(q[i], SubSeq(items, 1, i))
      BY <2>2, <2>8, <3>1, AllSteps
    <3> QED  BY <2>2, <2>8, <2>9, <3>2
  <2>10. CASE p + off[i] # L + 1
    <3>1. q[i] # Len(input) + 1 /\ Item[q[i]] = NotRead
      BY <2>7, <2>8, <2>10
    <3>2. ReadAll(input, q[0], Item) = NotRead
      BY <2>2, <2>8, <3>1, AllSteps
    <3> QED  BY <2>8, <3>2
  <2> QED  BY <2>9, <2>10
<1>12. ASSUME NEW x, NEW item, At(input, p, w), p + Len(w) # L + 1,
              CutAt(input, p + Len(w), x), ReadsPart(input, Item, x, item)
       PROVE  ReadAll(input, p, Item) = NotRead
  <2>1. PICK q : ItemsRead(input, Item, items, n, q) /\ q[0] = p /\ q[n] = p + Len(w)
    BY <1>3, <1>7, <1>8, <1>9, <1>12
  <2>2. p + Len(w) \in Nat \ {0}
    BY <1>3, <1>9
  <2>3. p + Len(w) \in Positions(input)
    BY <1>12, <2>2 DEF CutAt, Positions
  <2>4. Item[p + Len(w)] = NotRead
    BY <1>12, <2>3 DEF ReadsPart
  <2>5. p + Len(w) # Len(input) + 1
    BY <1>12
  <2> QED  BY <2>1, <2>4, <2>5, StepsFail, SMTT(60)
<1> QED  BY <1>10, <1>11, <1>12 DEF w

-----------------------------------------------------------------------------
(* A record is written as the map of its fields.                           *)
ValueBytes(record) == [name \in DOMAIN record |-> WriteValue(record[name])]

(* encode_record writes a record as the map of its fields.                 *)
LEMMA RecordAsMap ==
    ASSUME NEW record \in Record, RecordFits(record)
    PROVE  /\ MapNames(DOMAIN record)
           /\ \A name \in DOMAIN record : Storable(record[name])
           /\ \A name \in DOMAIN record :
                 ValueBytes(record)[name] = WriteValue(record[name])
           /\ record = [name \in DOMAIN record |-> record[name]]
           /\ encode_record(record) = MapBytes(DOMAIN record, ValueBytes(record))
<1> PICK D \in SUBSET Fields : record \in [D -> Values]
  BY DEF Record
<1>1. DOMAIN record = D /\ record = [name \in D |-> record[name]]
  OBVIOUS
<1>2. \A name \in D : record[name] \in Values /\ TextFits(name) /\ ValueFits(record[name])
  BY <1>1 DEF RecordFits
<1>3. MapNames(D)
  <2>1. /\ IsFiniteSet(Fields) /\ Cardinality(Fields) < Power[WordBytes]
        /\ Fields \subseteq Seq(TextBytes)
    BY FormatAssumption
  <2>2. IsFiniteSet(D) /\ Cardinality(D) <= Cardinality(Fields)
    BY <2>1, FS_Subset
  <2>3. Cardinality(D) \in Nat /\ Cardinality(Fields) \in Nat /\ Power[WordBytes] \in Nat
    BY <2>1, <2>2, FS_CardinalityType, PowerValues, FormatAssumption
  <2>4. Cardinality(D) < Power[WordBytes]
    BY <2>1, <2>2, <2>3
  <2> QED  BY <1>2, <2>1, <2>2, <2>4 DEF MapNames
<1>4. \A name \in D : Storable(record[name])
  BY <1>2, FormatAssumption DEF Storable
<1> DEFINE W == ValueBytes(record)
<1>5. \A name \in D : W[name] = WriteValue(record[name])
  BY <1>1 DEF ValueBytes
<1> DEFINE names == SortedNames(D)
<1>6. names \in Seq(D)
  <2>1. D \subseteq Seq(Bytes) /\ IsFiniteSet(D)
    BY <1>3, FormatAssumption DEF MapNames
  <2> QED  BY <2>1, SortedNamesList
<1> HIDE DEF W, names
<1>7. DOMAIN names = 1..Len(names) /\ \A i \in 1..Len(names) : names[i] \in D
  BY <1>6
<1>8. [i \in DOMAIN names |-> WriteString(names[i]) \o WriteValue(record[names[i]])]
         = MapParts(D, W)
  <2>1. MapParts(D, W) = [i \in 1..Len(names) |-> WriteString(names[i]) \o W[names[i]]]
    BY DEF MapParts, names
  <2>2. \A i \in 1..Len(names) : W[names[i]] = WriteValue(record[names[i]])
    BY <1>5, <1>7
  <2> QED  BY <1>7, <2>1, <2>2
<1>9. encode_record(record) = WriteWord(Len(names)) \o
          FlattenSeq([i \in DOMAIN names |-> WriteString(names[i]) \o WriteValue(record[names[i]])])
  BY <1>1 DEF encode_record, names
<1>10. encode_record(record) = MapBytes(D, W)
  BY <1>8, <1>9 DEF MapBytes, names
<1> QED  BY <1>1, <1>3, <1>4, <1>5, <1>10 DEF W

(* decode_record gives every record back from what encode_record writes of *)
(* it (record.rs).                                                         *)
THEOREM RecordReadBack ==
    ASSUME NEW record \in Record, RecordFits(record)
    PROVE  /\ encode_record(record) \in Seq(Bytes)
           /\ decode_record(encode_record(record))
                 = Got(Len(encode_record(record)) + 1, record)
<1> DEFINE D == DOMAIN record
           W == ValueBytes(record)
           input == encode_record(record)
           E == [q \in Positions(input) |-> ReadValue(input, q)]
<1>1. /\ MapNames(D) /\ \A name \in D : Storable(record[name])
      /\ \A name \in D : W[name] = WriteValue(record[name])
      /\ record = [name \in D |-> record[name]]
      /\ input = MapBytes(D, W)
  BY RecordAsMap
<1>2. \A name \in D : W[name] \in Seq(Bytes)
  <2>1. <<>> \in Seq(Bytes) /\ 1 \in Nat \ {0}
    OBVIOUS
  <2>2. \A v : Storable(v) => WriteValue(v) \in Seq(Bytes)
    BY <2>1, ValueRead
  <2> QED  BY <1>1, <2>2
<1>3. input \in Seq(Bytes)
  BY <1>1, <1>2, MapPartsType
<1> HIDE DEF input, W
<1>4. ASSUME NEW name \in D PROVE ReadsPart(input, E, W[name], record[name])
  <2> DEFINE v == record[name]
  <2>1. Storable(v) /\ W[name] = WriteValue(v)
    BY <1>1
  <2> HIDE DEF v
  <2>2. ASSUME NEW r \in Positions(input)
        PROVE  /\ At(input, r, WriteValue(v)) => E[r] = Got(r + Len(WriteValue(v)), v)
               /\ CutAt(input, r, WriteValue(v)) => E[r] = NotRead
    <3>1. r \in Nat \ {0} /\ E[r] = ReadValue(input, r)
      BY <1>3 DEF Positions
    <3> QED  BY <1>3, <2>1, <3>1, ValueRead
  <2>3. ReadsPart(input, E, WriteValue(v), v)
    BY <2>2 DEF ReadsPart
  <2> QED  BY <2>1, <2>3 DEF v
<1> HIDE DEF E
<1>5. At(input, 1, input)
  BY <1>3 DEF At
<1> DEFINE e == 1 + Len(input)
<1>6. ReadCounted(input, 1, E) = Got(e, record)
  <2>1. 1 \in Nat \ {0}
    OBVIOUS
  <2>2. MapReads(input, E, D, W, record)
    BY <1>1, <1>2, <1>4 DEF MapReads
  <2> HIDE DEF D
  <2>4. At(input, 1, MapBytes(D, W)) =>
           ReadCounted(input, 1, E) = Got(1 + Len(MapBytes(D, W)), record)
    BY <1>3, <2>1, <2>2, CountedMap
  <2> QED  BY <1>1, <1>5, <2>4 DEF e, D
<1>7. e # 0 /\ e = Len(input) + 1
  BY <1>3
<1>8. decode_record(input) =
         Then(ReadCounted(input, 1, E),
              LAMBDA p, r : IF Finished(input, p) THEN Got(p, r) ELSE NotRead)
  BY DEF decode_record, E
<1> HIDE DEF e
<1>9. decode_record(input) = Got(e, record)
  BY <1>6, <1>7, <1>8 DEF Then, Got, Finished
<1> QED  BY <1>3, <1>7, <1>9 DEF input
=============================================================================
