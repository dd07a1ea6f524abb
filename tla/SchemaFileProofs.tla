-------------------------- MODULE SchemaFileProofs --------------------------
(***************************************************************************)
(* The theorems about SchemaFile and their proofs, checked by TLAPS for    *)
(* every value of the constants.  The bytes of a set of schemas are read   *)
(* back as that set, and a strict part of them does not load; from that    *)
(* follow what the runs check of the file and of the engine's memory.      *)
(***************************************************************************)
EXTENDS SchemaFile, ByteProofs

(* A reader that starts at p turns a step of its result, from here to end, *)
(* where the input holds w, and fails where the input ends inside of w.    *)
Goes(input, p, w, here, end) ==
    /\ w \in Seq(Bytes)
    /\ At(input, p, w) => here = end
    /\ CutAt(input, p, w) => here = NotRead

(* One reader behind the other.                                            *)
LEMMA GoesOn ==
    ASSUME NEW input \in Seq(Bytes), NEW p \in Nat \ {0}, NEW a, NEW b, NEW q,
           NEW here, NEW mid, NEW end,
           Goes(input, p, a, here, mid), q = p + Len(a), Goes(input, q, b, mid, end)
    PROVE  /\ Goes(input, p, a \o b, here, end)
           /\ q \in Nat \ {0}
           /\ q + Len(b) = p + Len(a \o b)
<1>1. a \in Seq(Bytes) /\ b \in Seq(Bytes)
  BY DEF Goes
<1>2. /\ a \o b \in Seq(Bytes) /\ q \in Nat \ {0}
      /\ q + Len(b) = p + Len(a \o b)
  BY <1>1, AtPair
<1>3. At(input, p, a \o b) => At(input, p, a) /\ At(input, q, b)
  BY <1>1, AtPair
<1>4. CutAt(input, p, a \o b) =>
         CutAt(input, p, a) \/ (At(input, p, a) /\ CutAt(input, q, b))
  BY <1>1, AtPair
<1> QED  BY <1>2, <1>3, <1>4 DEF Goes

(* Where the second one ends.                                              *)
LEMMA GoesTo ==
    ASSUME NEW input, NEW p \in Nat, NEW a, NEW b, NEW q, NEW r,
           NEW here, NEW mid, NEW next, NEW end,
           Goes(input, p, a, here, mid), Goes(input, q, b, next, end),
           q = p + Len(a), r = q + Len(b)
    PROVE  r = p + Len(a \o b)
<1>1. a \in Seq(Bytes) /\ b \in Seq(Bytes)
  BY DEF Goes
<1>2. Len(a \o b) = Len(a) + Len(b) /\ Len(a) \in Nat /\ Len(b) \in Nat
  BY ONLY <1>1
<1> QED  BY <1>2

(* What a reader gives is used by the one around it.                       *)
LEMMA Follows ==
    ASSUME NEW input, NEW p, NEW w, NEW read, NEW good, NEW here, NEW end,
           Goes(input, p, w, read, good),
           read = good => here = end, read = NotRead => here = NotRead
    PROVE  Goes(input, p, w, here, end)
BY DEF Goes

(* The readers of the byte format, in this form.                           *)
LEMMA FormatGoes ==
    ASSUME NEW input \in Seq(Bytes), NEW p \in Nat \ {0}
    PROVE  /\ \A b \in Bytes : Goes(input, p, <<b>>, ReadByte(input, p), Got(p + 1, b))
           /\ \A b \in BOOLEAN :
                 Goes(input, p, WriteBool(b), ReadBool(input, p), Got(p + 1, b))
           /\ \A n \in (-Half)..(Half - 1) :
                 Goes(input, p, WriteInt(n), ReadInt(input, p), Got(p + IntBytes, n))
           /\ \A v : Storable(v) =>
                 Goes(input, p, WriteValue(v), ReadValue(input, p),
                      Got(p + Len(WriteValue(v)), v))
<1>1. ASSUME NEW b \in Bytes
      PROVE  Goes(input, p, <<b>>, ReadByte(input, p), Got(p + 1, b))
  <2>1. <<b>> \in Seq(Bytes)
    OBVIOUS
  <2> QED  BY <2>1, ByteRead DEF Goes
<1>2. ASSUME NEW b \in BOOLEAN
      PROVE  Goes(input, p, WriteBool(b), ReadBool(input, p), Got(p + 1, b))
  <2> DEFINE n == IF b THEN 1 ELSE 0
  <2>1. n \in {0, 1} /\ (n = 1) = b /\ WriteBool(b) = <<n>>
    BY DEF WriteBool
  <2> HIDE DEF n
  <2>2. /\ <<n>> \in Seq(Bytes)
        /\ At(input, p, <<n>>) => ReadBool(input, p) = Got(p + 1, n = 1)
        /\ CutAt(input, p, <<n>>) => ReadBool(input, p) = NotRead
    BY <2>1, BoolRead
  <2> QED  BY <2>1, <2>2 DEF Goes
<1>3. ASSUME NEW n \in (-Half)..(Half - 1)
      PROVE  Goes(input, p, WriteInt(n), ReadInt(input, p), Got(p + IntBytes, n))
  BY IntRead DEF Goes
<1>4. ASSUME NEW v, Storable(v)
      PROVE  Goes(input, p, WriteValue(v), ReadValue(input, p),
                  Got(p + Len(WriteValue(v)), v))
  BY <1>4, ValueRead DEF Goes
<1> QED  BY <1>1, <1>2, <1>3, <1>4

-----------------------------------------------------------------------------
(* The range of a field, two integers.                                     *)
Range64 == ((-Half)..(Half - 1)) \X ((-Half)..(Half - 1))

(* The two integers of a range are read back.                              *)
LEMMA RangeRead ==
    ASSUME NEW input \in Seq(Bytes), NEW p \in Nat \ {0}, NEW r \in Range64
    PROVE  LET w == WriteInt(r[1]) \o WriteInt(r[2])
           IN  Goes(input, p, w, ReadRange(input, p), Got(p + Len(w), r))
<1> PICK low \in (-Half)..(Half - 1), high \in (-Half)..(Half - 1) : r = <<low, high>>
  BY DEF Range64
<1> DEFINE a == WriteInt(low)
           b == WriteInt(high)
           q == p + Len(a)
           mid == Then(ReadInt(input, q), LAMBDA e, top : Got(e, <<low, top>>))
<1>1. Goes(input, p, a, ReadInt(input, p), Got(p + IntBytes, low)) /\ Len(a) = IntBytes
  BY FormatGoes, IntRead
<1>2. q \in Nat \ {0} /\ IntBytes \in Nat
  BY <1>1, KeyAssumption
<1>3. Goes(input, q, b, ReadInt(input, q), Got(q + IntBytes, high)) /\ Len(b) = IntBytes
  BY <1>2, FormatGoes, IntRead
<1> HIDE DEF a, b
<1>4. Goes(input, p, a, ReadRange(input, p), mid)
  <2>1. ReadInt(input, p) = Got(q, low) => ReadRange(input, p) = mid
    BY <1>2 DEF ReadRange, Then, Got
  <2>2. ReadInt(input, p) = NotRead => ReadRange(input, p) = NotRead
    BY DEF ReadRange, Then, Got, NotRead
  <2>3. Goes(input, p, a, ReadInt(input, p), Got(q, low))
    BY <1>1
  <2> HIDE DEF mid, q
  <2> QED  BY <2>1, <2>2, <2>3, Follows
<1> DEFINE end == q + IntBytes
<1>5. end \in Nat \ {0} /\ end # 0
  BY <1>2
<1>6. Goes(input, q, b, mid, Got(end, <<low, high>>))
  <2>1. ReadInt(input, q) = Got(end, high) => mid = Got(end, <<low, high>>)
    BY <1>5 DEF Then, Got
  <2>2. ReadInt(input, q) = NotRead => mid = NotRead
    BY DEF Then, Got, NotRead
  <2>3. Goes(input, q, b, ReadInt(input, q), Got(end, high))
    BY <1>3
  <2> HIDE DEF mid, q, end
  <2> QED  BY <2>1, <2>2, <2>3, Follows
<1> HIDE DEF mid
<1>7. q = p + Len(a)
  OBVIOUS
<1>8. end = q + Len(b)
  BY <1>3
<1> HIDE DEF q, end
<1>9. /\ Goes(input, p, a \o b, ReadRange(input, p), Got(end, <<low, high>>))
      /\ q + Len(b) = p + Len(a \o b)
  BY <1>4, <1>6, <1>7, GoesOn
<1>10. r[1] = low /\ r[2] = high
  OBVIOUS
<1> QED  BY <1>8, <1>9, <1>10 DEF a, b

(* An optional item: a byte that says whether it is there, and the item.   *)
Optional(present, read) ==
    IF present THEN IF read.at = 0 THEN NotRead ELSE Got(read.at, {read.value})
               ELSE NotRead

(* An item that is there.                                                  *)
LEMMA OptionGoes ==
    ASSUME NEW input \in Seq(Bytes), NEW p \in Nat \ {0}, NEW w, NEW q, q = p + 1,
           NEW item, NEW read, Goes(input, q, w, read, Got(q + Len(w), item)),
           NEW here,
           ReadBool(input, p) = Got(q, TRUE) => here = Optional(TRUE, read),
           ReadBool(input, p) = NotRead => here = NotRead
    PROVE  Goes(input, p, WriteBool(TRUE) \o w, here,
                Got(p + Len(WriteBool(TRUE) \o w), {item}))
<1> DEFINE a == WriteBool(TRUE)
           end == q + Len(w)
<1>1. Goes(input, p, a, ReadBool(input, p), Got(q, TRUE))
  BY FormatGoes
<1>2. Len(a) = 1
  BY DEF WriteBool
<1> HIDE DEF a
<1>3. Goes(input, p, a, here, Optional(TRUE, read))
  BY <1>1, Follows
<1>4. w \in Seq(Bytes) /\ q \in Nat \ {0}
  BY DEF Goes
<1>5. end # 0
  BY <1>4
<1>6. Goes(input, q, w, read, Got(end, item))
  OBVIOUS
<1> HIDE DEF end
<1>7. read = Got(end, item) => Optional(TRUE, read) = Got(end, {item})
  BY <1>5 DEF Optional, Got
<1>8. read = NotRead => Optional(TRUE, read) = NotRead
  BY DEF Optional, Got, NotRead
<1>9. Goes(input, q, w, Optional(TRUE, read), Got(end, {item}))
  BY <1>6, <1>7, <1>8, Follows, ZenonT(60)
<1>10. q = p + Len(a)
  BY <1>2
<1>11. Goes(input, p, a \o w, here, Got(end, {item}))
  BY <1>3, <1>9, <1>10, GoesOn
<1>12. q + Len(w) = p + Len(a \o w)
  <2>1. a \in Seq(Bytes) /\ w \in Seq(Bytes)
    BY <1>3, <1>4 DEF Goes
  <2>2. Len(a \o w) = Len(a) + Len(w) /\ Len(a) \in Nat /\ Len(w) \in Nat
    BY ONLY <2>1
  <2> QED  BY <1>4, <1>10, <2>2
<1> QED  BY <1>11, <1>12 DEF a, end

(* An item that is not there.                                              *)
LEMMA NoOptionGoes ==
    ASSUME NEW input \in Seq(Bytes), NEW p \in Nat \ {0}, NEW q, q = p + 1, NEW here,
           ReadBool(input, p) = Got(q, FALSE) => here = Got(q, {}),
           ReadBool(input, p) = NotRead => here = NotRead
    PROVE  Goes(input, p, WriteBool(FALSE), here, Got(p + Len(WriteBool(FALSE)), {}))
<1>1. Goes(input, p, WriteBool(FALSE), ReadBool(input, p), Got(q, FALSE))
  BY FormatGoes
<1>2. Len(WriteBool(FALSE)) = 1
  BY DEF WriteBool
<1>3. Goes(input, p, WriteBool(FALSE), here, Got(q, {}))
  BY <1>1, Follows
<1> QED  BY <1>2, <1>3

(* The range of a field, there or not,                                     *)
LEMMA RangeOptionRead ==
    ASSUME NEW input \in Seq(Bytes), NEW p \in Nat \ {0},
           NEW range \in SUBSET Range64, IsOption(range)
    PROVE  Goes(input, p, WriteRange(range), ReadOption(input, p, ReadRange),
                Got(p + Len(WriteRange(range)), range))
<1> PICK q \in Nat \ {0} : q = p + 1
  OBVIOUS
<1> DEFINE here == ReadOption(input, p, ReadRange)
<1>1. q # 0
  OBVIOUS
<1>2. ReadBool(input, p) = Got(q, TRUE) => here = Optional(TRUE, ReadRange(input, q))
  BY <1>1 DEF ReadOption, Then, Got, NotRead, Optional
<1>3. ReadBool(input, p) = Got(q, FALSE) => here = Got(q, {})
  BY <1>1 DEF ReadOption, Then, Got
<1>4. ReadBool(input, p) = NotRead => here = NotRead
  BY DEF ReadOption, Then, Got, NotRead
<1> HIDE DEF here
<1>5. CASE range = {}
  <2>1. WriteRange(range) = WriteBool(FALSE)
    BY <1>5 DEF WriteRange
  <2>2. Goes(input, p, WriteBool(FALSE), here, Got(p + Len(WriteBool(FALSE)), {}))
    BY <1>3, <1>4, NoOptionGoes
  <2> QED  BY <1>5, <2>1, <2>2 DEF here
<1>6. CASE range # {}
  <2> DEFINE r == CHOOSE x \in range : TRUE
  <2>1. r \in range
    BY <1>6
  <2>2. WriteRange(range) = WriteBool(TRUE) \o WriteInt(r[1]) \o WriteInt(r[2])
    BY <1>6 DEF WriteRange
  <2> HIDE DEF r
  <2>3. r \in Range64 /\ range = {r}
    BY <2>1 DEF IsOption
  <2> DEFINE w == WriteInt(r[1]) \o WriteInt(r[2])
  <2>4. Goes(input, q, w, ReadRange(input, q), Got(q + Len(w), r))
    BY <2>3, RangeRead
  <2>5. WriteRange(range) = WriteBool(TRUE) \o w
    <3>1. r[1] \in (-Half)..(Half - 1) /\ r[2] \in (-Half)..(Half - 1)
      BY <2>3 DEF Range64
    <3>2. WriteInt(r[1]) \in Seq(Bytes) /\ WriteInt(r[2]) \in Seq(Bytes)
      BY <3>1, IntRead
    <3>3. WriteBool(TRUE) \in Seq(Bytes)
      BY FormatGoes DEF Goes
    <3>4. \A x, y, z \in Seq(Bytes) : (x \o y) \o z = x \o (y \o z)
      BY ConcatAssociative, SMTT(60)
    <3> QED  BY <2>2, <3>2, <3>3, <3>4
  <2> HIDE DEF w
  <2>6. Goes(input, p, WriteBool(TRUE) \o w, here, Got(p + Len(WriteBool(TRUE) \o w), {r}))
    BY <1>2, <1>4, <2>4, OptionGoes
  <2> QED  BY <2>3, <2>5, <2>6 DEF here
<1> QED  BY <1>5, <1>6

(* and its default.                                                        *)
LEMMA DefaultOptionRead ==
    ASSUME NEW input \in Seq(Bytes), NEW p \in Nat \ {0},
           NEW default, IsOption(default), \A v \in default : Storable(v)
    PROVE  Goes(input, p, WriteDefault(default), ReadOption(input, p, ReadValue),
                Got(p + Len(WriteDefault(default)), default))
<1> PICK q \in Nat \ {0} : q = p + 1
  OBVIOUS
<1> DEFINE here == ReadOption(input, p, ReadValue)
<1>1. q # 0
  OBVIOUS
<1>2. ReadBool(input, p) = Got(q, TRUE) => here = Optional(TRUE, ReadValue(input, q))
  BY <1>1 DEF ReadOption, Then, Got, NotRead, Optional
<1>3. ReadBool(input, p) = Got(q, FALSE) => here = Got(q, {})
  BY <1>1 DEF ReadOption, Then, Got
<1>4. ReadBool(input, p) = NotRead => here = NotRead
  BY DEF ReadOption, Then, Got, NotRead
<1> HIDE DEF here
<1>5. CASE default = {}
  <2>1. WriteDefault(default) = WriteBool(FALSE)
    BY <1>5 DEF WriteDefault
  <2>2. Goes(input, p, WriteBool(FALSE), here, Got(p + Len(WriteBool(FALSE)), {}))
    BY <1>3, <1>4, NoOptionGoes
  <2> QED  BY <1>5, <2>1, <2>2 DEF here
<1>6. CASE default # {}
  <2> DEFINE v == CHOOSE x \in default : TRUE
             w == WriteValue(v)
  <2>1. v \in default
    BY <1>6
  <2>2. WriteDefault(default) = WriteBool(TRUE) \o w
    BY <1>6 DEF WriteDefault
  <2> HIDE DEF v
  <2>3. Storable(v) /\ default = {v}
    BY <2>1 DEF IsOption
  <2>4. Goes(input, q, w, ReadValue(input, q), Got(q + Len(w), v))
    BY <2>3, FormatGoes
  <2> HIDE DEF w
  <2>5. Goes(input, p, WriteBool(TRUE) \o w, here, Got(p + Len(WriteBool(TRUE) \o w), {v}))
    BY <1>2, <1>4, <2>4, OptionGoes
  <2> QED  BY <2>2, <2>3, <2>5 DEF here
<1> QED  BY <1>5, <1>6

(* The type of a field.                                                    *)
LEMMA TypeRead ==
    ASSUME NEW input \in Seq(Bytes), NEW p \in Nat \ {0}, NEW type \in DataTypes
    PROVE  Goes(input, p, <<TypeCode[type]>>, ReadType(input, p), Got(p + 1, type))
<1> PICK q \in Nat \ {0} : q = p + 1
  OBVIOUS
<1>1. TypeCode[type] \in Bytes
  BY KeyAssumption DEF TypeCode, Bytes, DataTypes
<1>2. Goes(input, p, <<TypeCode[type]>>, ReadByte(input, p), Got(q, TypeCode[type]))
  BY <1>1, FormatGoes
<1>3. q # 0
  OBVIOUS
<1>4. ReadByte(input, p) = Got(q, TypeCode[type]) => ReadType(input, p) = Got(q, type)
  <2>1. CASE type = "Int"
    <3>1. TypeCode[type] = 1
      BY <2>1 DEF TypeCode
    <3>2. ReadByte(input, p) = Got(q, 1) => ReadType(input, p) = Got(q, "Int")
      BY <1>3 DEF ReadType, Then, Got, TypeCode
    <3> QED  BY <2>1, <3>1, <3>2
  <2>2. CASE type = "String"
    <3>1. TypeCode[type] = 2
      BY <2>2 DEF TypeCode
    <3>2. ReadByte(input, p) = Got(q, 2) => ReadType(input, p) = Got(q, "String")
      BY <1>3 DEF ReadType, Then, Got, TypeCode
    <3> QED  BY <2>2, <3>1, <3>2
  <2> QED  BY <2>1, <2>2 DEF DataTypes
<1>5. ReadByte(input, p) = NotRead => ReadType(input, p) = NotRead
  BY DEF ReadType, Then, Got, NotRead
<1> QED  BY <1>2, <1>4, <1>5, Follows

-----------------------------------------------------------------------------
(* What is left to read of a field behind its type, its id, and so on.     *)
AfterRange(input, p, type, id, unique, required, range) ==
    Then(ReadOption(input, p, ReadValue), LAMBDA p6, default :
         Got(p6, [data_type |-> type, id |-> id, unique |-> unique,
                  required |-> required, range |-> range, default |-> default]))

AfterRequired(input, p, type, id, unique, required) ==
    Then(ReadOption(input, p, ReadRange), LAMBDA p5, range :
         AfterRange(input, p5, type, id, unique, required, range))

AfterUnique(input, p, type, id, unique) ==
    Then(ReadBool(input, p), LAMBDA p4, required :
         AfterRequired(input, p4, type, id, unique, required))

AfterId(input, p, type, id) ==
    Then(ReadBool(input, p), LAMBDA p3, unique : AfterUnique(input, p3, type, id, unique))

AfterType(input, p, type) ==
    Then(ReadBool(input, p), LAMBDA p2, id : AfterId(input, p2, type, id))

(* ReadField reads the type, and then the rest.                            *)
LEMMA FieldSteps ==
    ASSUME NEW input, NEW p
    PROVE  ReadField(input, p) =
              Then(ReadType(input, p), LAMBDA p1, type : AfterType(input, p1, type))
BY DEF ReadField, AfterType, AfterId, AfterUnique, AfterRequired, AfterRange

(* The first four parts of a field, each behind the one before,            *)
LEMMA FieldFlags ==
    ASSUME NEW input \in Seq(Bytes), NEW p \in Nat \ {0}, NEW q, q = p + 1,
           NEW type \in DataTypes, NEW id \in BOOLEAN, NEW unique \in BOOLEAN,
           NEW required \in BOOLEAN
    PROVE  /\ Goes(input, p, <<TypeCode[type]>>, ReadField(input, p), AfterType(input, q, type))
           /\ Goes(input, p, WriteBool(id), AfterType(input, p, type),
                   AfterId(input, q, type, id))
           /\ Goes(input, p, WriteBool(unique), AfterId(input, p, type, id),
                   AfterUnique(input, q, type, id, unique))
           /\ Goes(input, p, WriteBool(required), AfterUnique(input, p, type, id, unique),
                   AfterRequired(input, q, type, id, unique, required))
<1>1. q # 0
  OBVIOUS
<1>2. \A b \in BOOLEAN : Goes(input, p, WriteBool(b), ReadBool(input, p), Got(q, b))
  BY FormatGoes
<1>3. Goes(input, p, <<TypeCode[type]>>, ReadField(input, p), AfterType(input, q, type))
  <2>1. Goes(input, p, <<TypeCode[type]>>, ReadType(input, p), Got(q, type))
    BY TypeRead
  <2>2. ReadType(input, p) = Got(q, type) => ReadField(input, p) = AfterType(input, q, type)
    BY <1>1, FieldSteps DEF Then, Got
  <2>3. ReadType(input, p) = NotRead => ReadField(input, p) = NotRead
    BY FieldSteps DEF Then, Got, NotRead
  <2> QED  BY <2>1, <2>2, <2>3, Follows
<1>4. Goes(input, p, WriteBool(id), AfterType(input, p, type), AfterId(input, q, type, id))
  <2>1. ReadBool(input, p) = Got(q, id) =>
           AfterType(input, p, type) = AfterId(input, q, type, id)
    BY <1>1 DEF AfterType, Then, Got
  <2>2. ReadBool(input, p) = NotRead => AfterType(input, p, type) = NotRead
    BY DEF AfterType, Then, Got, NotRead
  <2> QED  BY <1>2, <2>1, <2>2, Follows
<1>5. Goes(input, p, WriteBool(unique), AfterId(input, p, type, id),
           AfterUnique(input, q, type, id, unique))
  <2>1. ReadBool(input, p) = Got(q, unique) =>
           AfterId(input, p, type, id) = AfterUnique(input, q, type, id, unique)
    BY <1>1 DEF AfterId, Then, Got
  <2>2. ReadBool(input, p) = NotRead => AfterId(input, p, type, id) = NotRead
    BY DEF AfterId, Then, Got, NotRead
  <2> QED  BY <1>2, <2>1, <2>2, Follows
<1>6. Goes(input, p, WriteBool(required), AfterUnique(input, p, type, id, unique),
           AfterRequired(input, q, type, id, unique, required))
  <2>1. ReadBool(input, p) = Got(q, required) =>
           AfterUnique(input, p, type, id, unique)
              = AfterRequired(input, q, type, id, unique, required)
    BY <1>1 DEF AfterUnique, Then, Got
  <2>2. ReadBool(input, p) = NotRead => AfterUnique(input, p, type, id, unique) = NotRead
    BY DEF AfterUnique, Then, Got, NotRead
  <2> QED  BY <1>2, <2>1, <2>2, Follows
<1> QED  BY <1>3, <1>4, <1>5, <1>6

(* and the last two.                                                       *)
LEMMA FieldOptions ==
    ASSUME NEW input \in Seq(Bytes), NEW p \in Nat \ {0},
           NEW type, NEW id, NEW unique, NEW required,
           NEW range \in SUBSET Range64, IsOption(range),
           NEW default, IsOption(default), \A v \in default : Storable(v)
    PROVE  /\ Goes(input, p, WriteRange(range),
                   AfterRequired(input, p, type, id, unique, required),
                   AfterRange(input, p + Len(WriteRange(range)), type, id, unique,
                              required, range))
           /\ Goes(input, p, WriteDefault(default),
                   AfterRange(input, p, type, id, unique, required, range),
                   Got(p + Len(WriteDefault(default)),
                       [data_type |-> type, id |-> id, unique |-> unique,
                        required |-> required, range |-> range, default |-> default]))
<1> DEFINE rq == p + Len(WriteRange(range))
           dq == p + Len(WriteDefault(default))
           rread == ReadOption(input, p, ReadRange)
           dread == ReadOption(input, p, ReadValue)
           here == AfterRequired(input, p, type, id, unique, required)
           mid == AfterRange(input, rq, type, id, unique, required, range)
           there == AfterRange(input, p, type, id, unique, required, range)
           field == [data_type |-> type, id |-> id, unique |-> unique,
                     required |-> required, range |-> range, default |-> default]
<1>1. Goes(input, p, WriteRange(range), rread, Got(rq, range))
  BY RangeOptionRead
<1>2. Goes(input, p, WriteDefault(default), dread, Got(dq, default))
  BY DefaultOptionRead
<1>3. rq # 0 /\ dq # 0
  <2>1. WriteRange(range) \in Seq(Bytes) /\ WriteDefault(default) \in Seq(Bytes)
    BY <1>1, <1>2 DEF Goes
  <2> QED  BY <2>1
<1>4. here = Then(rread, LAMBDA p5, x :
                     AfterRange(input, p5, type, id, unique, required, x))
  BY DEF AfterRequired
<1>5. there = Then(dread, LAMBDA p6, x :
                      Got(p6, [data_type |-> type, id |-> id, unique |-> unique,
                               required |-> required, range |-> range, default |-> x]))
  BY DEF AfterRange
<1> HIDE DEF rq, dq, rread, dread, here, there
<1>6. rread = Got(rq, range) => here = mid
  BY <1>3, <1>4 DEF Then, Got
<1>7. rread = NotRead => here = NotRead
  BY <1>4 DEF Then, Got, NotRead
<1>8. dread = Got(dq, default) => there = Got(dq, field)
  BY <1>3, <1>5 DEF Then, Got
<1>9. dread = NotRead => there = NotRead
  BY <1>5 DEF Then, Got, NotRead
<1> HIDE DEF mid, field
<1>10. Goes(input, p, WriteRange(range), here, mid)
  BY <1>1, <1>6, <1>7, Follows
<1>11. Goes(input, p, WriteDefault(default), there, Got(dq, field))
  BY <1>2, <1>8, <1>9, Follows
<1> QED  BY <1>10, <1>11 DEF here, mid, there, field, rq, dq

(* A field is read back where it stands (read_field of schema_file.rs), and *)
(* not at all where the bytes end inside of it.                            *)
LEMMA FieldRead ==
    ASSUME NEW input \in Seq(Bytes), NEW p \in Nat \ {0}, NEW field \in FieldSchema,
           field.range \subseteq Range64, \A v \in field.default : ValueFits(v)
    PROVE  Goes(input, p, WriteField(field), ReadField(input, p),
                Got(p + Len(WriteField(field)), field))
<1> PICK type \in DataTypes, id \in BOOLEAN, unique \in BOOLEAN, required \in BOOLEAN,
         range \in SUBSET (Int \X Int), default \in SUBSET Values :
         field = [data_type |-> type, id |-> id, unique |-> unique,
                  required |-> required, range |-> range, default |-> default]
  BY DEF FieldSchema
<1>0. input \in Seq(Bytes) /\ p \in Nat \ {0}
  OBVIOUS
<1>1. /\ range \in SUBSET Range64 /\ IsOption(range) /\ IsOption(default)
      /\ \A v \in default : v \in Values /\ ValueFits(v)
  BY DEF FieldSchema
<1>2. \A v \in default : Storable(v)
  BY <1>1, FormatAssumption DEF Storable
<1> DEFINE a == <<TypeCode[type]>>
           b == WriteBool(id)
           c == WriteBool(unique)
           d == WriteBool(required)
           e == WriteRange(range)
           f == WriteDefault(default)
<1>3. WriteField(field) = ((((a \o b) \o c) \o d) \o e) \o f
  BY DEF WriteField
<1>4. Len(a) = 1 /\ Len(b) = 1 /\ Len(c) = 1 /\ Len(d) = 1
  BY DEF WriteBool
<1>5. PICK p1 \in Nat \ {0}, p2 \in Nat \ {0}, p3 \in Nat \ {0}, p4 \in Nat \ {0} :
         p1 = p + 1 /\ p2 = p1 + 1 /\ p3 = p2 + 1 /\ p4 = p3 + 1
  <2>1. /\ p + 1 \in Nat \ {0} /\ (p + 1) + 1 \in Nat \ {0}
        /\ ((p + 1) + 1) + 1 \in Nat \ {0} /\ (((p + 1) + 1) + 1) + 1 \in Nat \ {0}
    OBVIOUS
  <2> QED  BY <2>1
<1>6. Goes(input, p, a, ReadField(input, p), AfterType(input, p1, type))
  BY <1>5, FieldFlags
<1>7. Goes(input, p1, b, AfterType(input, p1, type), AfterId(input, p2, type, id))
  BY <1>5, FieldFlags
<1>8. Goes(input, p2, c, AfterId(input, p2, type, id),
           AfterUnique(input, p3, type, id, unique))
  BY <1>5, FieldFlags
<1>9. Goes(input, p3, d, AfterUnique(input, p3, type, id, unique),
           AfterRequired(input, p4, type, id, unique, required))
  BY <1>5, FieldFlags, ZenonT(60)
<1> PICK p5 : p5 = p4 + Len(e)
  OBVIOUS
<1>10. Goes(input, p4, e, AfterRequired(input, p4, type, id, unique, required),
            AfterRange(input, p5, type, id, unique, required, range))
  BY <1>1, <1>2, FieldOptions, ZenonT(60)
<1>11. p5 \in Nat \ {0}
  <2>1. e \in Seq(Bytes)
    BY <1>10 DEF Goes
  <2> QED  BY <2>1
<1> PICK p6 : p6 = p5 + Len(f)
  OBVIOUS
<1>12. Goes(input, p5, f, AfterRange(input, p5, type, id, unique, required, range),
            Got(p6, field))
  BY <1>1, <1>2, <1>11, FieldOptions, ZenonT(60)
<1> HIDE DEF a, b, c, d, e, f
<1>13. /\ Goes(input, p, a \o b, ReadField(input, p), AfterId(input, p2, type, id))
       /\ p2 = p + Len(a \o b)
  <2>1. p1 = p + Len(a) /\ p2 = p1 + Len(b)
    BY <1>4, <1>5
  <2>2. Goes(input, p, a \o b, ReadField(input, p), AfterId(input, p2, type, id))
    BY <1>6, <1>7, <2>1, GoesOn
  <2>3. p1 + Len(b) = p + Len(a \o b)
    BY <1>6, <1>7, <2>1, GoesOn
  <2> QED  BY <2>1, <2>2, <2>3
<1> PICK done : done = Got(p6, field)
  OBVIOUS
<1> PICK ab : ab = a \o b
  OBVIOUS
<1>14. /\ Goes(input, p, ab \o c, ReadField(input, p), AfterUnique(input, p3, type, id, unique))
       /\ p3 = p + Len(ab \o c)
  <2>1. p2 = p + Len(ab) /\ p3 = p2 + Len(c)
    BY <1>4, <1>5, <1>13
  <2>2. Goes(input, p, ab, ReadField(input, p), AfterId(input, p2, type, id))
    BY <1>13
  <2>3. Goes(input, p, ab \o c, ReadField(input, p), AfterUnique(input, p3, type, id, unique))
    BY ONLY <1>0, <1>8, <2>1, <2>2, GoesOn
  <2>4. p3 = p + Len(ab \o c)
    BY <1>8, <2>1, <2>2, GoesTo
  <2> QED  BY <2>1, <2>3, <2>4
<1> PICK abc : abc = ab \o c
  OBVIOUS
<1>15. /\ Goes(input, p, abc \o d, ReadField(input, p),
               AfterRequired(input, p4, type, id, unique, required))
       /\ p4 = p + Len(abc \o d)
  <2>1. p3 = p + Len(abc) /\ p4 = p3 + Len(d)
    BY <1>4, <1>5, <1>14
  <2>2. Goes(input, p, abc, ReadField(input, p), AfterUnique(input, p3, type, id, unique))
    BY <1>14
  <2>3. Goes(input, p, abc \o d, ReadField(input, p),
             AfterRequired(input, p4, type, id, unique, required))
    BY ONLY <1>0, <1>9, <2>1, <2>2, GoesOn
  <2>4. p4 = p + Len(abc \o d)
    BY <1>9, <2>1, <2>2, GoesTo
  <2> QED  BY <2>1, <2>3, <2>4
<1> PICK abcd : abcd = abc \o d
  OBVIOUS
<1>16. /\ Goes(input, p, abcd \o e, ReadField(input, p),
               AfterRange(input, p5, type, id, unique, required, range))
       /\ p5 = p + Len(abcd \o e)
  <2>1. p4 = p + Len(abcd) /\ p5 = p4 + Len(e)
    BY <1>15 DEF e
  <2>2. Goes(input, p, abcd, ReadField(input, p),
             AfterRequired(input, p4, type, id, unique, required))
    BY <1>15
  <2>3. Goes(input, p, abcd \o e, ReadField(input, p),
             AfterRange(input, p5, type, id, unique, required, range))
    BY ONLY <1>0, <1>10, <2>1, <2>2, GoesOn
  <2>4. p5 = p + Len(abcd \o e)
    BY <1>10, <2>1, <2>2, GoesTo
  <2> QED  BY <2>1, <2>3, <2>4
<1> PICK abcde : abcde = abcd \o e
  OBVIOUS
<1>17. /\ Goes(input, p, abcde \o f, ReadField(input, p), Got(p6, field))
       /\ p6 = p + Len(abcde \o f)
  <2>1. p5 = p + Len(abcde) /\ p6 = p5 + Len(f)
    BY <1>16 DEF f
  <2>2. Goes(input, p, abcde, ReadField(input, p),
             AfterRange(input, p5, type, id, unique, required, range))
    BY <1>16
  <2>3. Goes(input, p5, f, AfterRange(input, p5, type, id, unique, required, range), done)
    BY <1>12
  <2>5. Goes(input, p, abcde \o f, ReadField(input, p), done)
    BY ONLY <1>0, <2>1, <2>2, <2>3, GoesOn
  <2>4. p6 = p + Len(abcde \o f)
    BY <1>12, <2>1, <2>2, GoesTo
  <2> QED  BY <2>1, <2>4, <2>5
<1>18. WriteField(field) = abcde \o f
  BY <1>3
<1> QED  BY <1>17, <1>18

-----------------------------------------------------------------------------
(* A schema is written as the map of its fields, and the file as the map   *)
(* of its schemas.                                                         *)
FieldBytes(schema) == [name \in DOMAIN schema |-> WriteField(schema[name])]

SchemaFits(schema) ==
    \A name \in DOMAIN schema :
        TextFits(name) /\ \A v \in schema[name].default : ValueFits(v)

(* WriteSchema writes a schema as the map of its fields.                   *)
LEMMA SchemaAsMap ==
    ASSUME NEW schema \in Schemas, SchemaFits(schema)
    PROVE  /\ MapNames(DOMAIN schema)
           /\ \A name \in DOMAIN schema :
                 /\ schema[name] \in FieldSchema
                 /\ schema[name].range \subseteq Range64
                 /\ \A v \in schema[name].default : ValueFits(v)
                 /\ FieldBytes(schema)[name] = WriteField(schema[name])
           /\ schema = [name \in DOMAIN schema |-> schema[name]]
           /\ WriteSchema(schema) = MapBytes(DOMAIN schema, FieldBytes(schema))
<1>1. PICK D \in SUBSET Fields : schema \in [D -> FieldSchema]
  BY SchemaAssumption DEF IsModelSchema
<1>2. /\ DOMAIN schema = D /\ schema = [name \in D |-> schema[name]]
      /\ \A name \in D : schema[name] \in FieldSchema
  BY <1>1
<1>3. \A name \in D : schema[name].range \subseteq Range64
  BY <1>2, SchemaAssumption DEF Range64
<1>4. \A name \in D : TextFits(name) /\ \A v \in schema[name].default : ValueFits(v)
  BY <1>2 DEF SchemaFits
<1>5. MapNames(D)
  <2>1. /\ IsFiniteSet(Fields) /\ Cardinality(Fields) < Power[WordBytes]
        /\ Fields \subseteq Seq(TextBytes)
    BY FormatAssumption
  <2>2. IsFiniteSet(D) /\ Cardinality(D) <= Cardinality(Fields)
    BY <2>1, FS_Subset
  <2>3. /\ Cardinality(D) \in Nat /\ Cardinality(Fields) \in Nat
        /\ Power[WordBytes] \in Nat
    BY <2>1, <2>2, FS_CardinalityType, PowerValues, FormatAssumption
  <2>4. Cardinality(D) < Power[WordBytes]
    BY <2>1, <2>2, <2>3
  <2> QED  BY <1>4, <2>1, <2>2, <2>4 DEF MapNames
<1> DEFINE W == FieldBytes(schema)
           names == SortedNames(D)
<1>6. \A name \in D : W[name] = WriteField(schema[name])
  BY <1>2 DEF FieldBytes
<1>7. names \in Seq(D)
  <2>1. D \subseteq Seq(Bytes) /\ IsFiniteSet(D)
    BY <1>5, FormatAssumption DEF MapNames
  <2> QED  BY <2>1, SortedNamesList
<1> HIDE DEF W, names
<1>8. DOMAIN names = 1..Len(names) /\ \A i \in 1..Len(names) : names[i] \in D
  BY <1>7
<1>9. [i \in DOMAIN names |-> WriteString(names[i]) \o WriteField(schema[names[i]])]
         = MapParts(D, W)
  <2>1. MapParts(D, W) = [i \in 1..Len(names) |-> WriteString(names[i]) \o W[names[i]]]
    BY DEF MapParts, names
  <2>2. \A i \in 1..Len(names) : W[names[i]] = WriteField(schema[names[i]])
    BY <1>6, <1>8
  <2> QED  BY <1>8, <2>1, <2>2
<1>10. WriteSchema(schema) = WriteWord(Len(names)) \o FlattenSeq(
          [i \in DOMAIN names |-> WriteString(names[i]) \o WriteField(schema[names[i]])])
  BY <1>2 DEF WriteSchema, names
<1>11. WriteSchema(schema) = MapBytes(D, W)
  BY <1>9, <1>10 DEF MapBytes, names
<1> QED  BY <1>2, <1>3, <1>4, <1>5, <1>6, <1>11 DEF W

(* Where a reader goes at every position, it reads the part of a map.      *)
LEMMA GoesReads ==
    ASSUME NEW input, NEW E, NEW w, NEW item,
           \A r \in Positions(input) : Goes(input, r, w, E[r], Got(r + Len(w), item))
    PROVE  ReadsPart(input, E, w, item)
BY DEF Goes, ReadsPart

(* A schema is read back where it stands.                                  *)
LEMMA SchemaRead ==
    ASSUME NEW input \in Seq(Bytes), NEW p \in Nat \ {0},
           NEW schema \in Schemas, SchemaFits(schema)
    PROVE  Goes(input, p, WriteSchema(schema), ReadSchema(input, p),
                Got(p + Len(WriteSchema(schema)), schema))
<1> DEFINE D == DOMAIN schema
           W == FieldBytes(schema)
           E == [q \in Positions(input) |-> ReadField(input, q)]
<1>1. /\ MapNames(D)
      /\ \A name \in D :
            /\ schema[name] \in FieldSchema /\ schema[name].range \subseteq Range64
            /\ \A v \in schema[name].default : ValueFits(v)
            /\ W[name] = WriteField(schema[name])
      /\ schema = [name \in D |-> schema[name]]
      /\ WriteSchema(schema) = MapBytes(D, W)
  BY SchemaAsMap
<1> HIDE DEF W, D
<1>2. ASSUME NEW name \in D
      PROVE  W[name] \in Seq(Bytes) /\ ReadsPart(input, E, W[name], schema[name])
  <2> PICK field \in FieldSchema : field = schema[name]
    BY <1>1
  <2>1. /\ field.range \subseteq Range64 /\ \A v \in field.default : ValueFits(v)
        /\ W[name] = WriteField(field)
    BY <1>1
  <2>2. ASSUME NEW r \in Positions(input)
        PROVE  Goes(input, r, WriteField(field), E[r], Got(r + Len(WriteField(field)), field))
    <3>1. r \in Nat \ {0} /\ E[r] = ReadField(input, r)
      BY DEF Positions
    <3> QED  BY <2>1, <3>1, FieldRead
  <2> HIDE DEF E
  <2>3. ReadsPart(input, E, WriteField(field), field)
    BY <2>2, GoesReads
  <2>4. WriteField(field) \in Seq(Bytes)
    <3>1. Goes(input, p, WriteField(field), ReadField(input, p),
               Got(p + Len(WriteField(field)), field))
      BY <2>1, FieldRead
    <3> QED  BY <3>1 DEF Goes
  <2> QED  BY <2>1, <2>3, <2>4
<1>3. ReadSchema(input, p) = ReadCounted(input, p, E)
  BY DEF ReadSchema, E
<1> HIDE DEF E
<1>4. MapReads(input, E, D, W, schema)
  BY <1>1, <1>2 DEF MapReads
<1>5. MapBytes(D, W) \in Seq(Bytes)
  BY <1>1, <1>2, MapPartsType
<1>6. At(input, p, MapBytes(D, W)) =>
         ReadCounted(input, p, E) = Got(p + Len(MapBytes(D, W)), schema)
  BY <1>4, CountedMap
<1>7. CutAt(input, p, MapBytes(D, W)) => ReadCounted(input, p, E) = NotRead
  BY <1>4, CountedMap
<1> QED  BY <1>1, <1>3, <1>5, <1>6, <1>7 DEF Goes

-----------------------------------------------------------------------------
Contracts == [Models -> Schemas \cup {None}]

ContractBytes(S) == [m \in Known(S) |-> WriteSchema(S[m])]

KnownSchemas(S) == [m \in Known(S) |-> S[m]]

(* SchemaBytes writes the schemas as a map behind the magic.               *)
LEMMA ContractsAsMap ==
    ASSUME NEW S \in Contracts, SchemasFit(S)
    PROVE  /\ MapNames(Known(S))
           /\ \A m \in Known(S) :
                 /\ S[m] \in Schemas /\ SchemaFits(S[m])
                 /\ ContractBytes(S)[m] = WriteSchema(S[m])
           /\ MapBytes(Known(S), ContractBytes(S)) \in Seq(Bytes)
           /\ SchemaBytes(S) = SchemaMagic \o MapBytes(Known(S), ContractBytes(S))
<1> DEFINE D == Known(S)
           W == ContractBytes(S)
           names == SortedNames(D)
<1>1. \A m \in D : m \in Models /\ S[m] \in Schemas /\ TextFits(m) /\ SchemaFits(S[m])
  BY DEF Known, Contracts, SchemasFit, SchemaFits
<1>2. MapNames(D)
  <2>1. /\ IsFiniteSet(Models) /\ Cardinality(Models) < Power[WordBytes]
        /\ Models \subseteq Seq(TextBytes)
    BY SchemaAssumption
  <2>2. D \subseteq Models
    BY <1>1
  <2>3. IsFiniteSet(D) /\ Cardinality(D) <= Cardinality(Models)
    BY <2>1, <2>2, FS_Subset
  <2>4. /\ Cardinality(D) \in Nat /\ Cardinality(Models) \in Nat
        /\ Power[WordBytes] \in Nat
    BY <2>1, <2>3, FS_CardinalityType, PowerValues, FormatAssumption
  <2>5. Cardinality(D) < Power[WordBytes]
    BY <2>1, <2>3, <2>4
  <2> QED  BY <1>1, <2>1, <2>3, <2>5 DEF MapNames
<1>3. \A m \in D : W[m] = WriteSchema(S[m])
  BY DEF ContractBytes
<1>4. names \in Seq(D)
  <2>1. D \subseteq Seq(Bytes) /\ IsFiniteSet(D)
    BY <1>2, FormatAssumption DEF MapNames
  <2> QED  BY <2>1, SortedNamesList
<1>5. \A m \in D : W[m] \in Seq(Bytes)
  <2>1. <<>> \in Seq(Bytes) /\ 1 \in Nat \ {0}
    OBVIOUS
  <2>2. \A s \in Schemas : SchemaFits(s) => WriteSchema(s) \in Seq(Bytes)
    BY <2>1, SchemaRead DEF Goes
  <2> QED  BY <1>1, <1>3, <2>2
<1> HIDE DEF D, W, names
<1>6. MapBytes(D, W) \in Seq(Bytes)
  BY <1>2, <1>5, MapPartsType
<1>7. DOMAIN names = 1..Len(names) /\ \A i \in 1..Len(names) : names[i] \in D
  BY <1>4
<1>8. [i \in DOMAIN names |-> WriteString(names[i]) \o WriteSchema(S[names[i]])]
         = MapParts(D, W)
  <2>1. MapParts(D, W) = [i \in 1..Len(names) |-> WriteString(names[i]) \o W[names[i]]]
    BY DEF MapParts, names
  <2>2. \A i \in 1..Len(names) : W[names[i]] = WriteSchema(S[names[i]])
    BY <1>3, <1>7
  <2> QED  BY <1>7, <2>1, <2>2
<1>9. SchemaBytes(S) = (SchemaMagic \o WriteWord(Len(names))) \o FlattenSeq(
         [i \in DOMAIN names |-> WriteString(names[i]) \o WriteSchema(S[names[i]])])
  BY DEF SchemaBytes, names, D
<1>10. SchemaBytes(S) = (SchemaMagic \o WriteWord(Len(names))) \o FlattenSeq(MapParts(D, W))
  BY <1>8, <1>9
<1>11. MapBytes(D, W) = WriteWord(Len(names)) \o FlattenSeq(MapParts(D, W))
  BY DEF MapBytes, names
<1>12. /\ SchemaMagic \in Seq(Bytes) /\ WriteWord(Len(names)) \in Seq(Bytes)
       /\ FlattenSeq(MapParts(D, W)) \in Seq(Bytes)
  <2>1. Len(names) \in Nat
    BY <1>4
  <2>2. WriteWord(Len(names)) \in Seq(Bytes)
    BY <2>1, LittleEndianType, FormatAssumption DEF WriteWord
  <2>3. MapParts(D, W) \in Seq(Seq(Bytes))
    BY <1>2, <1>5, MapPartsType
  <2> QED  BY <2>2, <2>3, FlattenParts, SchemaAssumption
<1>13. SchemaBytes(S) = SchemaMagic \o MapBytes(D, W)
  <2>1. \A x, y, z \in Seq(Bytes) : (x \o y) \o z = x \o (y \o z)
    BY ConcatAssociative, SMTT(60)
  <2> QED  BY <1>10, <1>11, <1>12, <2>1, SMTT(60)
<1> QED  BY <1>1, <1>2, <1>3, <1>6, <1>13 DEF D, W

(* All schemas are read back from behind the magic, and none where the     *)
(* bytes end inside of one.                                                *)
ReadsSchemas(input) == [q \in Positions(input) |-> ReadSchema(input, q)]

(* Such a map is read back behind the magic, and not at all where the      *)
(* bytes end inside of it.                                                 *)
LEMMA ModelsRead ==
    ASSUME NEW input \in Seq(Bytes), NEW p \in Nat \ {0}, NEW S \in Contracts, SchemasFit(S)
    PROVE  LET w == MapBytes(Known(S), ContractBytes(S))
           IN  Goes(input, p, w, ReadCounted(input, p, ReadsSchemas(input)),
                    Got(p + Len(w), KnownSchemas(S)))
<1> DEFINE D == Known(S)
           W == ContractBytes(S)
           E == ReadsSchemas(input)
           f == KnownSchemas(S)
<1>1. /\ MapNames(D) /\ MapBytes(D, W) \in Seq(Bytes)
      /\ \A m \in D : S[m] \in Schemas /\ SchemaFits(S[m]) /\ W[m] = WriteSchema(S[m])
  BY ContractsAsMap
<1>2. f = [m \in D |-> f[m]] /\ \A m \in D : f[m] = S[m]
  BY DEF KnownSchemas
<1>3. \A r \in Positions(input) : r \in Nat \ {0} /\ E[r] = ReadSchema(input, r)
  BY DEF Positions, ReadsSchemas
<1> HIDE DEF D, W, E, f
<1>4. ASSUME NEW m \in D
      PROVE  W[m] \in Seq(Bytes) /\ ReadsPart(input, E, W[m], f[m])
  <2> PICK schema \in Schemas : schema = S[m]
    BY <1>1
  <2>1. SchemaFits(schema) /\ W[m] = WriteSchema(schema) /\ f[m] = schema
    BY <1>1, <1>2
  <2>2. ASSUME NEW r \in Positions(input)
        PROVE  Goes(input, r, WriteSchema(schema), E[r],
                    Got(r + Len(WriteSchema(schema)), schema))
    <3>1. r \in Nat \ {0} /\ E[r] = ReadSchema(input, r)
      BY <1>3
    <3> QED  BY <2>1, <3>1, SchemaRead
  <2>3. ReadsPart(input, E, WriteSchema(schema), schema)
    BY <2>2, GoesReads
  <2>4. WriteSchema(schema) \in Seq(Bytes)
    <3>1. Goes(input, p, WriteSchema(schema), ReadSchema(input, p),
               Got(p + Len(WriteSchema(schema)), schema))
      BY <2>1, SchemaRead
    <3> QED  BY <3>1 DEF Goes
  <2> QED  BY <2>1, <2>3, <2>4
<1>5. MapReads(input, E, D, W, f)
  BY <1>1, <1>2, <1>4 DEF MapReads
<1>6. At(input, p, MapBytes(D, W)) =>
         ReadCounted(input, p, E) = Got(p + Len(MapBytes(D, W)), f)
  BY <1>5, CountedMap
<1>7. CutAt(input, p, MapBytes(D, W)) => ReadCounted(input, p, E) = NotRead
  BY <1>5, CountedMap
<1>8. Goes(input, p, MapBytes(D, W), ReadCounted(input, p, E),
           Got(p + Len(MapBytes(D, W)), f))
  BY <1>1, <1>6, <1>7 DEF Goes
<1> QED  BY <1>8 DEF D, W, E, f

(* Any bytes behind the magic are read as schemas.                         *)
LEMMA BehindSchemaMagic ==
    ASSUME NEW w \in Seq(Bytes)
    PROVE  /\ SchemaMagic \o w \in Seq(Bytes)
           /\ Len(SchemaMagic \o w) = Len(SchemaMagic) + Len(w)
           /\ IsPrefix(SchemaMagic, SchemaMagic \o w)
           /\ Len(SchemaMagic) + 1 \in Nat \ {0}
<1> DEFINE a == SchemaMagic
           d == a \o w
<1>1. a \in Seq(Bytes) /\ Len(a) \in Nat
  BY SchemaAssumption
<1> HIDE DEF a
<1>2. d \in Seq(Bytes) /\ Len(d) = Len(a) + Len(w)
  BY ONLY <1>1, w \in Seq(Bytes)
<1>3. SubSeq(d, 1, Len(a)) = SubSeq(a, 1, Len(a))
  BY <1>1
<1> HIDE DEF d
<1>4. IsPrefix(a, d)
  BY <1>1, <1>2, <1>3 DEF IsPrefix
<1>5. Len(a) + 1 \in Nat \ {0}
  BY <1>1
<1> QED  BY <1>2, <1>4, <1>5 DEF a, d

(* What save_schemas writes, load_schemas reads back: every schema of every *)
(* model as it was, and no other (schema_file.rs).                         *)
THEOREM SchemasReadBack ==
    ASSUME NEW S \in Contracts, SchemasFit(S)
    PROVE  SchemaBytes(S) \in Seq(Bytes) /\ load_schemas(SchemaBytes(S)) = S
<1> DEFINE w == MapBytes(Known(S), ContractBytes(S))
           f == KnownSchemas(S)
           input == SchemaBytes(S)
           p == Len(SchemaMagic) + 1
           e == p + Len(w)
           read == ReadCounted(input, p, ReadsSchemas(input))
<1>1. w \in Seq(Bytes) /\ input = SchemaMagic \o w
  BY ContractsAsMap
<1> HIDE DEF w, input
<1>2. /\ input \in Seq(Bytes) /\ IsPrefix(SchemaMagic, input) /\ p \in Nat \ {0}
      /\ Len(input) = Len(SchemaMagic) + Len(w)
  BY <1>1, BehindSchemaMagic
<1>3. At(input, p, w)
  <2>1. SchemaMagic \in Seq(Bytes)
    BY SchemaAssumption
  <2> QED  BY <1>1, <2>1, AtMiddle
<1>4. e = Len(input) + 1 /\ e # 0
  BY <1>1, <1>2, SchemaAssumption
<1>5. ReadModels(input) = Then(read, LAMBDA q, models :
                              IF Finished(input, q) THEN Got(q, models) ELSE NotRead)
  BY DEF ReadModels, ReadsSchemas
<1> HIDE DEF p
<1>6. Goes(input, p, w, read, Got(e, f))
  BY <1>2, ModelsRead DEF w
<1>7. read = Got(e, f)
  BY <1>3, <1>6 DEF Goes
<1> HIDE DEF e, read, f
<1>8. ReadModels(input) = Got(e, f)
  BY <1>4, <1>5, <1>7 DEF Then, Got, Finished
<1>9. load_schemas(input) = [m \in Models |-> IF m \in DOMAIN f THEN f[m] ELSE None]
  BY <1>2, <1>4, <1>8 DEF load_schemas, Got
<1>10. \A m \in Models : (IF m \in DOMAIN f THEN f[m] ELSE None) = S[m]
  BY DEF f, KnownSchemas, Known
<1>11. S = [m \in Models |-> S[m]]
  BY DEF Contracts
<1> QED  BY <1>2, <1>9, <1>10, <1>11 DEF input

(* A file that ends inside of them does not load, wherever it ends.        *)
LEMMA CutSchemas ==
    ASSUME NEW S \in Contracts, SchemasFit(S), NEW n \in 0..(Len(SchemaBytes(S)) - 1)
    PROVE  /\ SubSeq(SchemaBytes(S), 1, n) \in Seq(Bytes)
           /\ load_schemas(SubSeq(SchemaBytes(S), 1, n)) = Unreadable
<1> DEFINE w == MapBytes(Known(S), ContractBytes(S))
           input == SubSeq(SchemaBytes(S), 1, n)
           p == Len(SchemaMagic) + 1
           read == ReadCounted(input, p, ReadsSchemas(input))
<1>1. /\ w \in Seq(Bytes) /\ SchemaBytes(S) = SchemaMagic \o w
      /\ SchemaMagic \in Seq(Bytes) /\ Len(SchemaMagic) \in Nat /\ Len(w) \in Nat
  BY ContractsAsMap, SchemaAssumption
<1> HIDE DEF w
<1>2. SchemaBytes(S) \in Seq(Bytes) /\ Len(SchemaBytes(S)) = Len(SchemaMagic) + Len(w)
  BY <1>1, BehindSchemaMagic
<1>3. input \in Seq(Bytes) /\ Len(input) = n
  BY <1>2
<1>4. n \in 0..(Len(SchemaMagic) + Len(w)) /\ n < Len(SchemaMagic) + Len(w)
  BY <1>1, <1>2
<1>5. CASE n < Len(SchemaMagic)
  <2>1. ~IsPrefix(SchemaMagic, input)
    BY <1>1, <1>3, <1>5 DEF IsPrefix
  <2> QED  BY <1>3, <2>1 DEF load_schemas, NotRead, Got
<1>6. CASE Len(SchemaMagic) <= n
  <2> DEFINE k == n - Len(SchemaMagic)
  <2>1. k \in 0..(Len(w) - 1)
    BY <1>1, <1>4, <1>6
  <2>2. input = SchemaMagic \o SubSeq(w, 1, k)
    BY <1>1, <1>4, <1>6, FrontOfConcat, SMTT(60)
  <2> HIDE DEF input, k
  <2>3. CutAt(input, p, w)
    BY <1>1, <2>1, <2>2, CutBehind
  <2>4. p \in Nat \ {0}
    BY <1>1
  <2>5. ReadModels(input) = Then(read, LAMBDA q, models :
                                IF Finished(input, q) THEN Got(q, models) ELSE NotRead)
    BY DEF ReadModels, ReadsSchemas
  <2> HIDE DEF p
  <2>6. Goes(input, p, w, read, Got(p + Len(w), KnownSchemas(S)))
    BY <1>3, <2>4, ModelsRead DEF w
  <2>7. read = NotRead
    BY <2>3, <2>6 DEF Goes
  <2> HIDE DEF read
  <2>8. ReadModels(input) = NotRead
    BY <2>5, <2>7 DEF Then, Got, NotRead
  <2>9. load_schemas(input) = Unreadable
    BY <2>8 DEF load_schemas, NotRead, Got
  <2> QED  BY <1>3, <2>9 DEF input
<1>7. n < Len(SchemaMagic) \/ Len(SchemaMagic) <= n
  BY <1>1
<1> QED  BY <1>5, <1>6, <1>7

-----------------------------------------------------------------------------
(* The inductive invariant: the file is absent, holds the bytes of some    *)
(* schemas or does not load, and the memory covers what it gives.          *)
FileInv ==
    \/ file = None
    \/ \E S \in Contracts : SchemasFit(S) /\ file = SchemaBytes(S)
    \/ file \in Seq(Bytes) /\ load_schemas(file) = Unreadable

SchemaInv ==
    /\ FileInv /\ MemoryCoversFile
    /\ schemas \in Contracts
    /\ pc \in {"down", "idle", "save"}
    /\ outcome \in {"none", "ok", "err"}
    /\ pc = "down" => schemas = Nothing

(* What such a file gives.                                                 *)
LEMMA FileGives ==
    ASSUME FileInv
    PROVE  /\ file = None \/ file \in Seq(Bytes)
           /\ Loaded = Unreadable \/ Loaded \in Contracts
<1>1. Nothing \in Contracts
  BY DEF Nothing, Contracts
<1>2. CASE file = None
  BY <1>1, <1>2 DEF Loaded
<1>3. ASSUME NEW S \in Contracts, SchemasFit(S), file = SchemaBytes(S)
      PROVE  file \in Seq(Bytes) /\ Loaded \in Contracts
  <2>1. file \in Seq(Bytes) /\ load_schemas(file) = S
    BY <1>3, SchemasReadBack
  <2>2. file # None
    BY <2>1, SchemaAssumption
  <2> QED  BY <2>1, <2>2 DEF Loaded
<1>4. CASE file \in Seq(Bytes) /\ load_schemas(file) = Unreadable
  BY <1>4, SchemaAssumption DEF Loaded
<1> QED  BY <1>2, <1>3, <1>4 DEF FileInv

(* A save that completes gives the schemas that were saved.                *)
LEMMA SavedFile ==
    ASSUME schemas \in Contracts, SchemasFit(schemas), file' = SchemaBytes(schemas)
    PROVE  FileInv' /\ Loaded' = schemas
<1>1. file' \in Seq(Bytes) /\ load_schemas(file') = schemas
  BY SchemasReadBack
<1>2. file' # None
  BY <1>1, SchemaAssumption
<1> QED  BY <1>1, <1>2 DEF FileInv, Loaded

(* One that is cut short leaves the file as it was or gives nothing.       *)
LEMMA CutFile ==
    ASSUME FileInv, schemas \in Contracts, CutWrite
    PROVE  /\ FileInv'
           /\ Loaded' = Loaded \/ (pc = "save" /\ Loaded' = Unreadable)
<1>1. CASE file' = file
  BY <1>1 DEF FileInv, Loaded
<1>2. CASE /\ pc = "save" /\ SchemasFit(schemas)
           /\ \E n \in 0..(Len(SchemaBytes(schemas)) - 1) :
                 file' = SubSeq(SchemaBytes(schemas), 1, n)
  <2>1. file' \in Seq(Bytes) /\ load_schemas(file') = Unreadable
    BY <1>2, CutSchemas
  <2>2. file' # None
    BY <2>1, SchemaAssumption
  <2> QED  BY <1>2, <2>1, <2>2 DEF FileInv, Loaded
<1> QED  BY <1>1, <1>2 DEF CutWrite

(* The invariant holds at the start.                                       *)
LEMMA SchemaInvInit == Init => SchemaInv
<1>1. Nothing \in Contracts
  BY DEF Nothing, Contracts
<1> QED  BY <1>1 DEF Init, SchemaInv, FileInv, MemoryCoversFile

(* Every step keeps the invariant.                                         *)
LEMMA SchemaInvStep == SchemaInv /\ [Next]_vars => SchemaInv'
<1> SUFFICES ASSUME SchemaInv, [Next]_vars PROVE SchemaInv'
  OBVIOUS
<1>1. CASE Open
  <2>1. file' = file /\ FileInv' /\ Loaded' = Loaded
    BY <1>1 DEF Open, SchemaInv, FileInv, Loaded
  <2>2. CASE Loaded = Unreadable
    BY <1>1, <2>1, <2>2 DEF Open, SchemaInv, MemoryCoversFile
  <2>3. CASE Loaded # Unreadable
    <3>1. schemas' = Loaded /\ pc' = "idle" /\ outcome' = "ok"
      BY <1>1, <2>3 DEF Open
    <3>2. Loaded \in Contracts
      BY <2>3, FileGives DEF SchemaInv
    <3> QED  BY <2>1, <3>1, <3>2 DEF SchemaInv, MemoryCoversFile
  <2> QED  BY <2>2, <2>3
<1>2. ASSUME NEW m \in Models, NEW schema \in Schemas, Register(m, schema)
      PROVE  SchemaInv'
  <2>1. /\ file' = file /\ FileInv' /\ Loaded' = Loaded
        /\ pc = "idle" /\ pc' = "save" /\ outcome' = "none"
        /\ schemas[m] = None /\ schemas' = [schemas EXCEPT ![m] = schema]
    BY <1>2 DEF Register, SchemaInv, FileInv, Loaded
  <2>2. schemas' \in Contracts
    BY <2>1 DEF SchemaInv, Contracts
  <2>3. Loaded # Unreadable => \A x \in Models : Loaded[x] \in {None, schemas[x]}
    BY <2>1 DEF SchemaInv, MemoryCoversFile
  <2>4. \A x \in Models : schemas[x] \in {None, schemas'[x]}
    BY <2>1 DEF SchemaInv, Contracts
  <2>5. MemoryCoversFile'
    BY <2>1, <2>3, <2>4 DEF MemoryCoversFile
  <2> QED  BY <2>1, <2>2, <2>5 DEF SchemaInv
<1>3. CASE save_schemas
  <2>1. pc = "save" /\ pc' = "idle" /\ schemas' = schemas
    BY <1>3 DEF save_schemas
  <2>2. CASE SchemasFit(schemas)
    <3>1. file' = SchemaBytes(schemas) /\ outcome' = "ok"
      BY <1>3, <2>2 DEF save_schemas
    <3>2. FileInv' /\ Loaded' = schemas
      BY <2>2, <3>1, SavedFile DEF SchemaInv
    <3> QED  BY <2>1, <3>1, <3>2 DEF SchemaInv, MemoryCoversFile
  <2>3. CASE ~SchemasFit(schemas)
    <3>1. file' = file /\ outcome' = "err"
      BY <1>3, <2>3 DEF save_schemas
    <3>2. FileInv' /\ Loaded' = Loaded
      BY <3>1 DEF SchemaInv, FileInv, Loaded
    <3> QED  BY <2>1, <3>1, <3>2 DEF SchemaInv, MemoryCoversFile
  <2> QED  BY <2>2, <2>3
<1>4. CASE Crash
  <2>1. CutWrite /\ schemas' = Nothing /\ pc' = "down" /\ outcome' = "none"
    BY <1>4 DEF Crash
  <2>2. FileInv'
    BY <2>1, CutFile DEF SchemaInv
  <2>3. Nothing \in Contracts
    BY DEF Nothing, Contracts
  <2> QED  BY <2>1, <2>2, <2>3 DEF SchemaInv, MemoryCoversFile
<1>5. CASE IoError
  <2>1. /\ pc = "save" /\ CutWrite
        /\ schemas' = schemas /\ pc' = "idle" /\ outcome' = "err"
    BY <1>5 DEF IoError
  <2>2. FileInv' /\ (Loaded' = Loaded \/ Loaded' = Unreadable)
    BY <2>1, CutFile DEF SchemaInv
  <2> QED  BY <2>1, <2>2 DEF SchemaInv, MemoryCoversFile
<1>6. CASE UNCHANGED vars
  <2>1. FileInv' /\ Loaded' = Loaded
    BY <1>6 DEF vars, SchemaInv, FileInv, Loaded
  <2> QED  BY <1>6, <2>1 DEF vars, SchemaInv, MemoryCoversFile
<1> QED  BY <1>1, <1>2, <1>3, <1>4, <1>5, <1>6 DEF Next

(* The invariant holds in every reachable state.                           *)
LEMMA SchemaInvariant == Spec => []SchemaInv
BY SchemaInvInit, SchemaInvStep, PTL DEF Spec

(* What the file gives is a schema of a caller for every model, or it does *)
(* not load.                                                               *)
THEOREM SchemaTypes == Spec => []TypeOK
<1>1. SchemaInv => TypeOK
  BY FileGives DEF SchemaInv, TypeOK, Contracts
<1> QED  BY <1>1, SchemaInvariant, PTL

(* No schema the engine knows is changed, mixed or lost in the file.       *)
THEOREM MemoryCoversTheFile == Spec => []MemoryCoversFile
<1>1. SchemaInv => MemoryCoversFile
  BY DEF SchemaInv
<1> QED  BY <1>1, SchemaInvariant, PTL

(* Every step of the bytes is a step of the contracts or leaves them.      *)
LEMMA StepsAreContractSteps == SchemaInv /\ [Next]_vars => [Promise!Next]_Promise!vars
<1> SUFFICES ASSUME SchemaInv, [Next]_vars PROVE [Promise!Next]_Promise!vars
  OBVIOUS
<1>1. Promise!Nothing = Nothing
  BY DEF Promise!Nothing, Nothing
<1>2. CASE Open
  <2>1. Loaded' = Loaded
    BY <1>2 DEF Open, Loaded
  <2>2. CASE Loaded = Unreadable
    BY <1>2, <2>1, <2>2 DEF Open, Promise!vars
  <2>3. CASE Loaded # Unreadable
    <3>1. Promise!Load
      BY <1>1, <1>2, <2>1, <2>3 DEF Open, SchemaInv, Promise!Load
    <3> QED  BY <3>1 DEF Promise!Next
  <2> QED  BY <2>2, <2>3
<1>3. ASSUME NEW m \in Models, NEW schema \in Schemas, Register(m, schema)
      PROVE  Promise!Next
  <2>1. Loaded' = Loaded
    BY <1>3 DEF Register, Loaded
  <2>2. Promise!Register(m, schema)
    BY <1>3, <2>1 DEF Register, Promise!Register
  <2> QED  BY <2>2 DEF Promise!Next
<1>4. CASE save_schemas
  <2>1. CASE SchemasFit(schemas)
    <3>1. Loaded' = schemas
      BY <1>4, <2>1, SavedFile DEF save_schemas, SchemaInv
    <3>2. Promise!Save
      BY <1>4, <3>1 DEF save_schemas, Promise!Save
    <3> QED  BY <3>2 DEF Promise!Next
  <2>2. CASE ~SchemasFit(schemas)
    <3>1. Loaded' = Loaded
      BY <1>4, <2>2 DEF save_schemas, Loaded
    <3>2. Promise!Fail
      BY <1>4, <3>1 DEF save_schemas, Promise!Fail
    <3> QED  BY <3>2 DEF Promise!Next
  <2> QED  BY <2>1, <2>2
<1>5. CASE Crash
  <2>1. Loaded' = Loaded \/ (pc = "save" /\ Loaded' = Unreadable)
    BY <1>5, CutFile DEF Crash, SchemaInv
  <2>2. Promise!Stop
    BY <1>1, <1>5, <2>1 DEF Crash, Promise!Stop
  <2> QED  BY <2>2 DEF Promise!Next
<1>6. CASE IoError
  <2>1. Loaded' = Loaded \/ Loaded' = Unreadable
    BY <1>6, CutFile DEF IoError, SchemaInv
  <2>2. Promise!Fail
    BY <1>6, <2>1 DEF IoError, Promise!Fail
  <2> QED  BY <2>2 DEF Promise!Next
<1>7. CASE UNCHANGED vars
  <2>1. Loaded' = Loaded
    BY <1>7 DEF vars, Loaded
  <2> QED  BY <1>7, <2>1 DEF vars, Promise!vars
<1> QED  BY <1>2, <1>3, <1>4, <1>5, <1>6, <1>7 DEF Next

(* The bytes of schema.crust implement the contracts the engine takes them *)
(* for: a save stores all schemas, and one that is cut short leaves a file *)
(* that does not load, never a part of the schemas.                        *)
THEOREM BytesImplementContracts == Spec => ImplementsContracts
<1>1. Init => Promise!Init
  BY DEF Init, Promise!Init, Promise!Nothing, Nothing, Loaded
<1> QED  BY <1>1, StepsAreContractSteps, SchemaInvariant, PTL
         DEF Spec, Promise!Spec, ImplementsContracts
=============================================================================
