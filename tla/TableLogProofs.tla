--------------------------- MODULE TableLogProofs ---------------------------
(***************************************************************************)
(* The theorems about TableLog and their proofs, checked by TLAPS for      *)
(* every value of the constants.  A log loads as the replay of what was    *)
(* written to it, and a log that was cut short inside of an operation does *)
(* not load; a file of the old format loads as the rows its migration      *)
(* writes.  From that follow the properties that the runs check.           *)
(***************************************************************************)
EXTENDS TableLog, TableProofs, ByteProofs

(* The operations a caller may append, and those that can be written.      *)
Calls ==
    {o \in Operation : IF o.op = "delete" THEN o.record = EmptyRecord
                                          ELSE o.record \in Records}

Written == {o \in Calls : RecordFits(o.record)}

-----------------------------------------------------------------------------
(* A record behind its length is read back where it stands, and not at all *)
(* where the bytes end inside of it.                                       *)
LEMMA RecordRead ==
    ASSUME NEW input \in Seq(Bytes), NEW p \in Nat \ {0},
           NEW record \in Records, RecordFits(record)
    PROVE  /\ WriteRecord(record) \in Seq(Bytes)
           /\ Len(WriteRecord(record)) \in Nat \ {0}
           /\ At(input, p, WriteRecord(record)) =>
                 ReadRecord(input, p) = Got(p + Len(WriteRecord(record)), record)
           /\ CutAt(input, p, WriteRecord(record)) => ReadRecord(input, p) = NotRead
<1> DEFINE payload == encode_record(record)
           n == Len(payload)
           len == WriteWord(n)
           q == p + WordBytes
           w == WriteRecord(record)
<1>1. record \in Record /\ n < Power[WordBytes]
  BY LogAssumption
<1>2. /\ payload \in Seq(Bytes)
      /\ decode_record(payload) = Got(n + 1, record)
  BY <1>1, RecordReadBack
<1>3. w = len \o payload
  BY DEF WriteRecord
<1> HIDE DEF payload, w
<1>4. n \in Nat
  BY <1>2
<1> HIDE DEF n
<1>5. len \in Seq(Bytes) /\ Len(len) = WordBytes /\ WordBytes \in Nat \ {0}
  BY <1>4, LittleEndianType, FormatAssumption DEF WriteWord
<1>6. /\ At(input, p, len) => ReadWord(input, p) = Got(q, n)
      /\ CutAt(input, p, len) => ReadWord(input, p) = NotRead
  BY <1>1, <1>4, UIntRead, FormatAssumption DEF ReadWord, WriteWord
<1> HIDE DEF len
<1>7. q = p + Len(len) /\ q \in Nat \ {0}
  BY <1>5
<1> HIDE DEF q
<1>8. w \in Seq(Bytes) /\ Len(w) = WordBytes + n
  <2>1. len \o payload \in Seq(Bytes) /\ Len(len \o payload) = Len(len) + Len(payload)
    BY ONLY <1>2, <1>5
  <2> QED  BY <1>3, <1>5, <2>1 DEF n
<1>9. At(input, p, w) => At(input, p, len) /\ At(input, q, payload)
  BY <1>2, <1>3, <1>5, <1>7, AtPair, ZenonT(60)
<1>10. CutAt(input, p, w) =>
          CutAt(input, p, len) \/ (At(input, p, len) /\ CutAt(input, q, payload))
  BY <1>2, <1>3, <1>5, <1>7, AtPair, ZenonT(60)
<1> DEFINE e == q + n
<1>11. /\ At(input, q, payload) => ReadExact(input, q, n) = Got(e, payload)
       /\ CutAt(input, q, payload) => ReadExact(input, q, n) = NotRead
  BY <1>2, <1>7, ExactRead DEF n
<1>12. e = p + Len(w) /\ e # 0 /\ n + 1 # 0 /\ q # 0
  BY <1>4, <1>5, <1>7, <1>8
<1> HIDE DEF e
<1>13. ASSUME ReadWord(input, p) = Got(q, n), ReadExact(input, q, n) = Got(e, payload)
       PROVE  ReadRecord(input, p) = Got(e, record)
  BY <1>2, <1>12, <1>13 DEF ReadRecord, Then, Got
<1>14. ASSUME ReadWord(input, p) = Got(q, n), ReadExact(input, q, n) = NotRead
       PROVE  ReadRecord(input, p) = NotRead
  BY <1>12, <1>14 DEF ReadRecord, Then, Got, NotRead
<1>15. ASSUME ReadWord(input, p) = NotRead PROVE ReadRecord(input, p) = NotRead
  BY <1>15 DEF ReadRecord, Then, Got, NotRead
<1>16. Len(w) \in Nat \ {0}
  BY <1>4, <1>5, <1>8
<1> QED
  BY <1>6, <1>8, <1>9, <1>10, <1>11, <1>12, <1>13, <1>14, <1>15, <1>16 DEF w

(* An operation is read back where it stands, and not at all where the     *)
(* bytes end inside of it.                                                 *)
LEMMA OperationRead ==
    ASSUME NEW input \in Seq(Bytes), NEW p \in Nat \ {0}, NEW o \in Written
    PROVE  /\ WriteOperation(o) \in Seq(Bytes)
           /\ Len(WriteOperation(o)) \in Nat \ {0}
           /\ At(input, p, WriteOperation(o)) =>
                 ReadOperation(input, p) = Got(p + Len(WriteOperation(o)), o)
           /\ CutAt(input, p, WriteOperation(o)) => ReadOperation(input, p) = NotRead
<1> DEFINE code == OpCode[o.op]
           id == o.row_id
           body == IF o.op = "delete" THEN <<>> ELSE WriteRecord(o.record)
           a == <<code>>
           b == WriteInt(id)
           q == p + 1
           r == q + IntBytes
           w == WriteOperation(o)
<1>1. /\ o.op \in {"insert", "update", "delete"}
      /\ id \in RowIds
      /\ o = Op(o.op, id, o.record)
      /\ o.op = "delete" => o.record = EmptyRecord
      /\ o.op # "delete" => o.record \in Records /\ RecordFits(o.record)
  BY DEF Written, Calls, Operation, Op, OpCode
<1>2. /\ code \in Bytes
      /\ o.op = "insert" => code = 1
      /\ o.op = "delete" => code = 2
      /\ o.op = "update" => code = 3
  BY <1>1, KeyAssumption DEF OpCode, Bytes
<1>3. id \in Nat /\ id < Width /\ id % Width = id
  <2>1. id \in 1..MaxRowId /\ MaxRowId \in Nat /\ MaxRowId < Width /\ Width \in Nat
    BY <1>1, TableAssumption, LogAssumption, WidthIsEven DEF RowIds
  <2> HIDE DEF id
  <2>2. id \in Nat /\ id < Width
    BY <2>1
  <2> QED  BY <2>1, <2>2
<1>4. w = (a \o b) \o body
  BY DEF WriteOperation
<1> HIDE DEF code, id, w, body
<1>5. /\ a \in Seq(Bytes) /\ Len(a) = 1
      /\ At(input, p, a) => ReadByte(input, p) = Got(q, code)
      /\ CutAt(input, p, a) => ReadByte(input, p) = NotRead
  BY <1>2, ByteRead
<1>6. IntBytes \in Nat /\ q \in Nat \ {0} /\ r \in Nat \ {0}
  BY KeyAssumption
<1>7. b = LittleEndian(id, IntBytes)
  BY <1>3 DEF WriteInt
<1> HIDE DEF a, b, q
<1>8. /\ b \in Seq(Bytes) /\ Len(b) = IntBytes
      /\ At(input, q, b) => ReadUInt(input, q, IntBytes) = Got(r, id)
      /\ CutAt(input, q, b) => ReadUInt(input, q, IntBytes) = NotRead
  BY <1>3, <1>6, <1>7, LittleEndianType, UIntRead DEF Width
<1> HIDE DEF r
<1>9. /\ body \in Seq(Bytes)
      /\ o.op # "delete" =>
            /\ At(input, r, body) => ReadRecord(input, r) = Got(r + Len(body), o.record)
            /\ CutAt(input, r, body) => ReadRecord(input, r) = NotRead
      /\ o.op = "delete" => Len(body) = 0 /\ ~CutAt(input, r, body)
  <2>1. CASE o.op = "delete"
    <3>1. body = <<>>
      BY <2>1 DEF body
    <3>2. body \in Seq(Bytes) /\ Len(body) = 0
      BY <3>1
    <3>3. ~CutAt(input, r, body)
      BY <1>6, <3>2 DEF CutAt
    <3> QED  BY <2>1, <3>2, <3>3
  <2>2. CASE o.op # "delete"
    <3>1. body = WriteRecord(o.record) /\ o.record \in Records /\ RecordFits(o.record)
      BY <1>1, <2>2 DEF body
    <3> QED  BY <1>6, <2>2, <3>1, RecordRead
  <2> QED  BY <2>1, <2>2
<1> DEFINE e == r + Len(body)
<1>10. /\ a \o b \in Seq(Bytes) /\ Len(a \o b) = Len(a) + Len(b)
       /\ (a \o b) \o body \in Seq(Bytes)
       /\ Len((a \o b) \o body) = Len(a \o b) + Len(body)
  <2>1. a \in Seq(Bytes) /\ b \in Seq(Bytes) /\ body \in Seq(Bytes)
    BY <1>5, <1>8, <1>9
  <2>2. a \o b \in Seq(Bytes) /\ Len(a \o b) = Len(a) + Len(b)
    BY ONLY <2>1
  <2> DEFINE c == a \o b
  <2> HIDE DEF c
  <2>3. c \o body \in Seq(Bytes) /\ Len(c \o body) = Len(c) + Len(body)
    <3>1. c \in Seq(Bytes)
      BY <2>2 DEF c
    <3> QED  BY ONLY <2>1, <3>1
  <2> QED  BY <2>2, <2>3 DEF c
<1>11. /\ r = p + Len(a \o b) /\ q = p + Len(a) /\ e = p + Len(w)
       /\ e # 0 /\ r # 0 /\ q # 0
       /\ w \in Seq(Bytes) /\ Len(w) \in Nat \ {0}
  <2>1. Len(body) \in Nat
    BY <1>9
  <2> QED  BY <1>4, <1>5, <1>6, <1>8, <1>10, <2>1 DEF q, r
<1> HIDE DEF e
<1>12. At(input, p, w) => At(input, p, a \o b) /\ At(input, r, body)
  <2> DEFINE c == a \o b
  <2>1. c \in Seq(Bytes) /\ body \in Seq(Bytes) /\ r = p + Len(c) /\ w = c \o body
    BY <1>4, <1>9, <1>10, <1>11
  <2> HIDE DEF c
  <2>2. At(input, p, w) => At(input, p, c) /\ At(input, r, body)
    BY <2>1, AtPair
  <2> QED  BY <2>2 DEF c
<1>13. CutAt(input, p, w) =>
          CutAt(input, p, a \o b) \/ (At(input, p, a \o b) /\ CutAt(input, r, body))
  <2> DEFINE c == a \o b
  <2>1. c \in Seq(Bytes) /\ body \in Seq(Bytes) /\ r = p + Len(c) /\ w = c \o body
    BY <1>4, <1>9, <1>10, <1>11
  <2> HIDE DEF c
  <2>2. CutAt(input, p, w) =>
           CutAt(input, p, c) \/ (At(input, p, c) /\ CutAt(input, r, body))
    BY <2>1, AtPair
  <2> QED  BY <2>2 DEF c
<1>14. At(input, p, a \o b) => At(input, p, a) /\ At(input, q, b)
  BY <1>5, <1>8, <1>11, AtPair, ZenonT(60)
<1>15. CutAt(input, p, a \o b) =>
          CutAt(input, p, a) \/ (At(input, p, a) /\ CutAt(input, q, b))
  BY <1>5, <1>8, <1>11, AtPair, ZenonT(60)
<1> DEFINE result == ReadOperation(input, p)
<1>16. ASSUME ReadByte(input, p) = Got(q, code), ReadUInt(input, q, IntBytes) = Got(r, id),
              o.op = "delete"
       PROVE  result = Got(r, Op("delete", id, EmptyRecord))
  BY <1>2, <1>11, <1>16, SMTT(60) DEF ReadOperation, Then, Got, OpCode
<1>17. ASSUME ReadByte(input, p) = Got(q, code), ReadUInt(input, q, IntBytes) = Got(r, id),
              o.op = "insert"
       PROVE  /\ ReadRecord(input, r) = Got(e, o.record) =>
                    result = Got(e, Op("insert", id, o.record))
              /\ ReadRecord(input, r) = NotRead => result = NotRead
  <2>1. code = 1
    BY <1>2, <1>17
  <2>2. ASSUME ReadRecord(input, r) = Got(e, o.record)
        PROVE  result = Got(e, Op("insert", id, o.record))
    BY <1>11, <1>17, <2>1, <2>2 DEF ReadOperation, Then, Got, OpCode
  <2>3. ASSUME ReadRecord(input, r) = NotRead PROVE result = NotRead
    BY <1>11, <1>17, <2>1, <2>3 DEF ReadOperation, Then, Got, NotRead, OpCode
  <2> QED  BY <2>2, <2>3
<1>18. ASSUME ReadByte(input, p) = Got(q, code), ReadUInt(input, q, IntBytes) = Got(r, id),
              o.op = "update"
       PROVE  /\ ReadRecord(input, r) = Got(e, o.record) =>
                    result = Got(e, Op("update", id, o.record))
              /\ ReadRecord(input, r) = NotRead => result = NotRead
  <2>1. code = 3
    BY <1>2, <1>18
  <2>2. ASSUME ReadRecord(input, r) = Got(e, o.record)
        PROVE  result = Got(e, Op("update", id, o.record))
    BY <1>11, <1>18, <2>1, <2>2 DEF ReadOperation, Then, Got, OpCode
  <2>3. ASSUME ReadRecord(input, r) = NotRead PROVE result = NotRead
    BY <1>11, <1>18, <2>1, <2>3 DEF ReadOperation, Then, Got, NotRead, OpCode
  <2> QED  BY <2>2, <2>3
<1>19. ASSUME ReadByte(input, p) = Got(q, code), ReadUInt(input, q, IntBytes) = NotRead
       PROVE  result = NotRead
  BY <1>11, <1>19 DEF ReadOperation, Then, Got, NotRead
<1>20. ASSUME ReadByte(input, p) = NotRead PROVE result = NotRead
  BY <1>20 DEF ReadOperation, Then, Got, NotRead
<1> HIDE DEF result
<1>21. o.op = "delete" => e = r
  <2>1. o.op = "delete" => Len(body) = 0
    BY <1>9
  <2> QED  BY <1>6, <2>1 DEF e, r
<1>22. At(input, p, w) => result = Got(e, o)
  <2> SUFFICES ASSUME At(input, p, w) PROVE result = Got(e, o)
    OBVIOUS
  <2>1. ReadByte(input, p) = Got(q, code) /\ ReadUInt(input, q, IntBytes) = Got(r, id)
    BY <1>5, <1>8, <1>12, <1>14
  <2>2. o.op # "delete" => ReadRecord(input, r) = Got(e, o.record)
    BY <1>9, <1>12 DEF e
  <2>3. CASE o.op = "delete"
    BY <1>1, <1>16, <1>21, <2>1, <2>3 DEF id
  <2>4. CASE o.op = "insert"
    BY <1>1, <1>17, <2>1, <2>2, <2>4 DEF id
  <2>5. CASE o.op = "update"
    BY <1>1, <1>18, <2>1, <2>2, <2>5 DEF id
  <2> QED  BY <1>1, <2>3, <2>4, <2>5
<1>23. CutAt(input, p, w) => result = NotRead
  <2> SUFFICES ASSUME CutAt(input, p, w) PROVE result = NotRead
    OBVIOUS
  <2>1. CASE CutAt(input, p, a)
    BY <1>5, <1>20, <2>1
  <2>2. CASE At(input, p, a) /\ CutAt(input, q, b)
    BY <1>5, <1>8, <1>19, <2>2
  <2>3. CASE At(input, p, a \o b) /\ CutAt(input, r, body)
    <3>1. ReadByte(input, p) = Got(q, code) /\ ReadUInt(input, q, IntBytes) = Got(r, id)
      BY <1>5, <1>8, <1>14, <2>3
    <3>2. o.op # "delete" /\ ReadRecord(input, r) = NotRead
      BY <1>9, <2>3
    <3> QED  BY <1>1, <1>17, <1>18, <3>1, <3>2
  <2> QED  BY <1>13, <1>15, <2>1, <2>2, <2>3
<1> QED  BY <1>11, <1>22, <1>23 DEF w, result

-----------------------------------------------------------------------------
(* Any run of the loop of replay_operations gives what TableAfter gives.   *)
ReplayRun(operations, g) ==
    /\ g[0] = EmptyTable
    /\ \A k \in 1..Len(operations) : g[k] = Replay(g[k - 1], operations[k])

(* TableAfter is the last of the steps of its loop.                        *)
LEMMA ReplayLoop ==
    ASSUME NEW operations, Len(operations) \in Nat, NEW g, ReplayRun(operations, g)
    PROVE  TableAfter(operations) = g[Len(operations)]
<1> PICK n \in Nat : n = Len(operations)
  OBVIOUS
<1> DEFINE One(x) == CHOOSE table \in x : TRUE
           f == CHOOSE h : h = [k \in 0..n |->
                   IF k = 0 THEN EmptyTable
                   ELSE CHOOSE table \in
                           {Replay(old, operations[k]) : old \in {h[k - 1]}} : TRUE]
           v == [k \in 0..n |-> g[k]]
<1>0. ASSUME NEW old, NEW o
      PROVE  (CHOOSE table \in {Replay(x, o) : x \in {old}} : TRUE) = Replay(old, o)
  <2>1. {Replay(x, o) : x \in {old}} = {Replay(old, o)}
    OBVIOUS
  <2> QED  BY <2>1
<1>1. TableAfter(operations) = f[n]
  BY DEF TableAfter
<1>2. v = [k \in 0..n |->
             IF k = 0 THEN EmptyTable
             ELSE CHOOSE table \in
                     {Replay(old, operations[k]) : old \in {v[k - 1]}} : TRUE]
  <2>1. \A k \in 0..n : k # 0 => k \in 1..n /\ k - 1 \in 0..n
    OBVIOUS
  <2>2. \A k \in 0..n : v[k] = g[k]
    OBVIOUS
  <2> HIDE DEF v
  <2>3. \A k \in 0..n : g[k] = IF k = 0 THEN EmptyTable ELSE Replay(v[k - 1], operations[k])
    BY <2>1, <2>2 DEF ReplayRun
  <2>4. v = [k \in 0..n |-> g[k]]
    BY DEF v
  <2>5. \A k \in 0..n : g[k] = IF k = 0 THEN EmptyTable
             ELSE CHOOSE table \in
                     {Replay(old, operations[k]) : old \in {v[k - 1]}} : TRUE
    BY <1>0, <2>3
  <2> QED  BY <2>4, <2>5, Zenon
<1>3. f = [k \in 0..n |->
             IF k = 0 THEN EmptyTable
             ELSE CHOOSE table \in
                     {Replay(old, operations[k]) : old \in {f[k - 1]}} : TRUE]
  BY <1>2, Zenon
<1> HIDE DEF f, v
<1>4. \A k \in 0..n : f[k] = IF k = 0 THEN EmptyTable ELSE Replay(f[k - 1], operations[k])
  <2>1. \A k \in 0..n : f[k] = IF k = 0 THEN EmptyTable
             ELSE CHOOSE table \in
                     {Replay(old, operations[k]) : old \in {f[k - 1]}} : TRUE
    BY <1>3, Zenon
  <2> QED  BY <1>0, <2>1
<1> DEFINE S == {k \in 0..n : f[k] = g[k]}
<1>5. 0 \in S
  BY <1>4 DEF ReplayRun
<1>6. \A k \in 1..n : k - 1 \in S => k \in S
  <2> SUFFICES ASSUME NEW k \in 1..n, k - 1 \in S PROVE f[k] = g[k]
    <3>1. \A k \in 1..n : k \in 0..n
      OBVIOUS
    <3> QED  BY <3>1, Zenon
  <2>1. k \in 0..n /\ k # 0
    OBVIOUS
  <2>2. f[k] = Replay(f[k - 1], operations[k])
    BY <1>4, <2>1
  <2>3. f[k - 1] = g[k - 1] /\ g[k] = Replay(g[k - 1], operations[k])
    BY DEF ReplayRun
  <2> QED  BY <2>2, <2>3
<1> HIDE DEF S
<1>7. 0..n \subseteq S
  BY <1>5, <1>6, UpToInduction
<1> QED  BY <1>1, <1>7 DEF S

(* Replay of any operation gives a table file.                             *)
LEMMA ReplayType ==
    ASSUME NEW file \in TableFiles, NEW o \in Operation
    PROVE  Replay(file, o) \in TableFiles
<1>1. o.op \in {"insert", "update", "delete"} /\ o.row_id \in RowIds /\ o.record \in Record
  BY DEF Operation, OpCode
<1> QED  BY <1>1, ReplayTypes DEF Replay

(* The loop of replay_operations, an operation at a time.                  *)
LEMMA TableAfterSteps ==
    ASSUME NEW operations \in Seq(Operation)
    PROVE  /\ TableAfter(operations) \in TableFiles
           /\ \A o \in Operation :
                 TableAfter(Append(operations, o)) = Replay(TableAfter(operations), o)
<1> PICK n \in Nat : n = Len(operations)
  OBVIOUS
<1>1. \A k \in 1..n : operations[k] \in Operation
  OBVIOUS
<1>2. PICK h \in [1..n -> [TableFiles -> TableFiles]] :
         \A k \in 1..n : \A t \in TableFiles : h[k][t] = Replay(t, operations[k])
  <2> DEFINE e == [k \in 1..n |-> [t \in TableFiles |-> Replay(t, operations[k])]]
  <2>1. e \in [1..n -> [TableFiles -> TableFiles]]
    BY <1>1, ReplayType
  <2>2. \A k \in 1..n : \A t \in TableFiles : e[k][t] = Replay(t, operations[k])
    OBVIOUS
  <2> HIDE DEF e
  <2> QED  BY <2>1, <2>2
<1>3. Turns(n, TableFiles, EmptyTable, h)
  BY EmptyTableType DEF Turns, TableFiles
<1>4. PICK f : Taken(n, TableFiles, EmptyTable, h, f)
  BY <1>3, TurnsTaken
<1>5. f \in [0..n -> TableFiles] /\ f[0] = EmptyTable
      /\ \A k \in 1..n : f[k] = h[k][f[k - 1]]
  BY <1>4 DEF Taken
<1>7. \A k \in 1..n : f[k] = Replay(f[k - 1], operations[k])
  <2>1. \A k \in 1..n : k - 1 \in 0..n
    OBVIOUS
  <2>2. \A k \in 1..n : f[k - 1] \in TableFiles
    BY <1>5, <2>1
  <2> QED  BY <1>2, <1>5, <2>2
<1>8. TableAfter(operations) = f[n]
  <2>1. ReplayRun(operations, f)
    BY <1>5, <1>7 DEF ReplayRun
  <2> QED  BY <2>1, ReplayLoop
<1>9. f[n] \in TableFiles
  BY <1>5
<1>10. ASSUME NEW o \in Operation
       PROVE  TableAfter(Append(operations, o)) = Replay(f[n], o)
  <2> DEFINE more == Append(operations, o)
             g == [k \in 0..(n + 1) |-> IF k <= n THEN f[k] ELSE Replay(f[n], o)]
  <2>1. /\ Len(more) = n + 1 /\ more[n + 1] = o
        /\ \A k \in 1..n : more[k] = operations[k]
    OBVIOUS
  <2>2. \A k \in 0..n : g[k] = f[k]
    OBVIOUS
  <2>3. g[n + 1] = Replay(f[n], o)
    OBVIOUS
  <2> HIDE DEF more, g
  <2>4. ASSUME NEW k \in 1..(n + 1) PROVE g[k] = Replay(g[k - 1], more[k])
    <3>1. CASE k = n + 1
      <4>1. k - 1 = n /\ g[n] = f[n]
        BY <2>2, <3>1
      <4> QED  BY <2>1, <2>3, <3>1, <4>1
    <3>2. CASE k # n + 1
      <4>1. k \in 1..n /\ k \in 0..n /\ k - 1 \in 0..n
        BY <3>2
      <4> QED  BY <1>7, <2>1, <2>2, <4>1
    <3> QED  BY <3>1, <3>2
  <2>5. g[0] = EmptyTable
    BY <1>5, <2>2
  <2>6. ReplayRun(more, g)
    BY <2>1, <2>4, <2>5 DEF ReplayRun
  <2>7. TableAfter(more) = g[n + 1]
    BY <2>1, <2>6, ReplayLoop
  <2> QED  BY <2>3, <2>7 DEF more
<1> QED  BY <1>8, <1>9, <1>10

(* No operations leave no rows.                                            *)
LEMMA TableAfterNone == TableAfter(<<>>) = EmptyTable
<1> DEFINE g == [k \in 0..0 |-> EmptyTable]
<1>1. g[0] = EmptyTable
  OBVIOUS
<1> HIDE DEF g
<1>2. Len(<<>>) = 0
  OBVIOUS
<1>3. ReplayRun(<<>>, g)
  BY <1>1, <1>2 DEF ReplayRun
<1> QED  BY <1>1, <1>2, <1>3, ReplayLoop

-----------------------------------------------------------------------------
(* What a log of operations loads as.                                      *)
OperationParts(operations) ==
    [i \in DOMAIN operations |-> WriteOperation(operations[i])]

ReadsOperations(input) == [at \in Positions(input) |-> ReadOperation(input, at)]

(* An operation that can be written has bytes, one at least.               *)
LEMMA WrittenType ==
    ASSUME NEW o \in Written
    PROVE  /\ o \in Operation
           /\ WriteOperation(o) \in Seq(Bytes)
           /\ Len(WriteOperation(o)) \in Nat \ {0}
<1>1. <<>> \in Seq(Bytes) /\ 1 \in Nat \ {0}
  OBVIOUS
<1>2. WriteOperation(o) \in Seq(Bytes) /\ Len(WriteOperation(o)) \in Nat \ {0}
  BY <1>1, OperationRead
<1> QED  BY <1>2 DEF Written, Calls

(* An operation is one part of what ReadAll reads.                         *)
LEMMA OperationPart ==
    ASSUME NEW input \in Seq(Bytes), NEW o \in Written
    PROVE  ReadsPart(input, ReadsOperations(input), WriteOperation(o), o)
<1> DEFINE E == ReadsOperations(input)
           w == WriteOperation(o)
<1>1. ASSUME NEW r \in Positions(input)
      PROVE  /\ At(input, r, w) => E[r] = Got(r + Len(w), o)
             /\ CutAt(input, r, w) => E[r] = NotRead
  <2>1. r \in Nat \ {0} /\ E[r] = ReadOperation(input, r)
    BY DEF Positions, ReadsOperations
  <2> HIDE DEF E
  <2> QED  BY <2>1, OperationRead
<1> HIDE DEF E, w
<1>2. ReadsPart(input, E, w, o)
  BY <1>1 DEF ReadsPart
<1> QED  BY <1>2 DEF E, w

(* The parts of a log, and how they grow.                                  *)
LEMMA OperationPartsType ==
    ASSUME NEW operations \in Seq(Written)
    PROVE  /\ operations \in Seq(Operation)
           /\ OperationParts(operations) \in Seq(Seq(Bytes))
           /\ Len(OperationParts(operations)) = Len(operations)
           /\ FlattenSeq(OperationParts(operations)) \in Seq(Bytes)
           /\ \A input \in Seq(Bytes) :
                 PartsOf(input, ReadsOperations(input), OperationParts(operations), operations)
           /\ \A o \in Written : OperationParts(Append(operations, o))
                                  = Append(OperationParts(operations), WriteOperation(o))
<1> PICK n \in Nat : n = Len(operations)
  OBVIOUS
<1> DEFINE s == OperationParts(operations)
<1>1. \A i \in 1..n : operations[i] \in Written /\ operations[i] \in Operation
  <2>1. \A i \in 1..n : operations[i] \in Written
    OBVIOUS
  <2> QED  BY <2>1, WrittenType
<1>2. DOMAIN operations = 1..n
  OBVIOUS
<1>3. s = [i \in 1..n |-> WriteOperation(operations[i])]
  BY <1>2 DEF OperationParts
<1> HIDE DEF s
<1>4. \A i \in 1..n : /\ s[i] = WriteOperation(operations[i]) /\ s[i] \in Seq(Bytes)
                      /\ Len(s[i]) \in Nat \ {0}
  BY <1>1, <1>3, WrittenType
<1>5. s \in Seq(Seq(Bytes)) /\ Len(s) = n
  <2>1. s \in [1..n -> Seq(Bytes)]
    BY <1>3, <1>4
  <2> QED  BY <2>1
<1>6. FlattenSeq(s) \in Seq(Bytes)
  BY <1>5, FlattenParts
<1>7. ASSUME NEW input \in Seq(Bytes)
      PROVE  PartsOf(input, ReadsOperations(input), s, operations)
  <2>1. \A k \in 1..n : ReadsPart(input, ReadsOperations(input), s[k], operations[k])
    BY <1>1, <1>4, OperationPart
  <2> QED  BY <1>4, <1>5, <2>1 DEF PartsOf
<1>8. ASSUME NEW o \in Written
      PROVE  OperationParts(Append(operations, o)) = Append(s, WriteOperation(o))
  <2> PICK x \in Seq(Bytes) : x = WriteOperation(o)
    BY WrittenType
  <2> DEFINE more == Append(operations, o)
             t == Append(s, x)
  <2>1. /\ DOMAIN more = 1..(n + 1) /\ more[n + 1] = o
        /\ \A i \in 1..n : more[i] = operations[i]
    OBVIOUS
  <2>2. /\ t = [i \in 1..(n + 1) |-> t[i]] /\ t[n + 1] = WriteOperation(o)
        /\ \A i \in 1..n : t[i] = s[i]
    <3>1. s \in Seq(Seq(Bytes)) /\ Len(s) = n
      BY <1>5
    <3>2. t \in Seq(Seq(Bytes)) /\ Len(t) = n + 1 /\ t[n + 1] = x
      BY <3>1
    <3>3. \A i \in 1..n : t[i] = s[i]
      BY <3>1
    <3> HIDE DEF t
    <3>4. t = [i \in 1..(n + 1) |-> t[i]]
      BY <3>2
    <3> QED  BY <3>2, <3>3, <3>4
  <2> HIDE DEF more, t
  <2>3. ASSUME NEW i \in 1..(n + 1) PROVE t[i] = WriteOperation(more[i])
    <3>1. CASE i = n + 1
      BY <2>1, <2>2, <3>1
    <3>2. CASE i # n + 1
      <4>1. i \in 1..n
        BY <3>2
      <4> QED  BY <1>4, <2>1, <2>2, <4>1
    <3> QED  BY <3>1, <3>2
  <2>4. OperationParts(more) = [i \in 1..(n + 1) |-> WriteOperation(more[i])]
    BY <2>1 DEF OperationParts
  <2>5. OperationParts(more) = t
    BY <2>2, <2>3, <2>4
  <2> QED  BY <2>5 DEF more, t
<1>9. operations \in Seq(Operation)
  BY <1>1
<1> QED  BY <1>5, <1>6, <1>7, <1>8, <1>9 DEF s

(* The magic has a byte at least.                                          *)
LEMMA MagicType == TableMagic \in Seq(Bytes) /\ Len(TableMagic) \in Nat \ {0}
BY LogAssumption, MagicAssumption, FormatAssumption

(* Any bytes behind the magic make a log.                                  *)
LEMMA BehindMagic ==
    ASSUME NEW w \in Seq(Bytes)
    PROVE  /\ TableMagic \o w \in Seq(Bytes)
           /\ Len(TableMagic \o w) = Len(TableMagic) + Len(w)
           /\ TableMagic \o w # <<>>
           /\ IsLog(TableMagic \o w)
           /\ Contents(TableMagic \o w) =
                 Replayed(ReadAll(TableMagic \o w, Len(TableMagic) + 1,
                                  ReadsOperations(TableMagic \o w)))
<1> DEFINE a == TableMagic
           d == a \o w
<1>1. a \in Seq(Bytes) /\ Len(a) \in Nat \ {0} /\ Len(w) \in Nat
  BY MagicType
<1> HIDE DEF a
<1>2. d \in Seq(Bytes) /\ Len(d) = Len(a) + Len(w)
  BY ONLY <1>1, w \in Seq(Bytes)
<1>3. SubSeq(d, 1, Len(a)) = SubSeq(a, 1, Len(a))
  BY <1>1
<1> HIDE DEF d
<1>4. d # <<>>
  BY <1>1, <1>2
<1>5. IsPrefix(a, d)
  BY <1>1, <1>2, <1>3 DEF IsPrefix
<1>6. IsLog(d)
  BY <1>5 DEF IsLog, a
<1>7. Contents(d) = Replayed(ReadAll(d, Len(TableMagic) + 1, ReadsOperations(d)))
  BY <1>4, <1>6 DEF Contents, ReadsOperations
<1> QED  BY <1>2, <1>4, <1>6, <1>7 DEF a, d

(* A log of operations loads as the table their replay gives.              *)
LEMMA LogContents ==
    ASSUME NEW operations \in Seq(Written)
    PROVE  /\ LogOf(operations) \in Seq(Bytes)
           /\ LogOf(operations) # <<>>
           /\ IsLog(LogOf(operations))
           /\ Contents(LogOf(operations)) = TableAfter(operations)
<1> DEFINE s == OperationParts(operations)
           w == FlattenSeq(s)
           input == TableMagic \o w
           p == Len(TableMagic) + 1
           Item == ReadsOperations(input)
<1>1. /\ s \in Seq(Seq(Bytes)) /\ w \in Seq(Bytes)
      /\ \A d \in Seq(Bytes) : PartsOf(d, ReadsOperations(d), s, operations)
  BY OperationPartsType
<1>2. LogOf(operations) = input
  BY DEF LogOf, OperationParts
<1>3. TableMagic \in Seq(Bytes) /\ p \in Nat \ {0}
  BY MagicType
<1> HIDE DEF s
<1>4. /\ input \in Seq(Bytes) /\ input # <<>> /\ IsLog(input)
      /\ Len(input) = Len(TableMagic) + Len(w)
      /\ Contents(input) = Replayed(ReadAll(input, p, Item))
  BY <1>1, BehindMagic
<1>5. At(input, p, w)
  BY <1>1, <1>3, AtMiddle
<1>6. p + Len(w) = Len(input) + 1 /\ Len(input) + 1 # 0
  BY <1>1, <1>4, MagicType
<1>7. PartsOf(input, Item, s, operations)
  BY <1>1, <1>4
<1> HIDE DEF w, input, p, Item
<1>8. ReadAll(input, p, Item) = Got(Len(input) + 1, operations)
  BY <1>1, <1>3, <1>4, <1>5, <1>6, <1>7, AllItems DEF w
<1>9. Contents(input) = TableAfter(operations)
  BY <1>4, <1>6, <1>8 DEF Replayed, Got
<1> QED  BY <1>2, <1>4, <1>9

(* One more operation is one more replay, also while it is written: until  *)
(* its last byte is there the log does not load.                           *)
LEMMA LogAppend ==
    ASSUME NEW operations \in Seq(Written), NEW o \in Written
    PROVE  /\ Append(operations, o) \in Seq(Written)
           /\ LogOf(operations) \o WriteOperation(o) = LogOf(Append(operations, o))
           /\ TableAfter(Append(operations, o)) = Replay(TableAfter(operations), o)
<1> DEFINE s == OperationParts(operations)
           x == WriteOperation(o)
<1>1. /\ s \in Seq(Seq(Bytes)) /\ FlattenSeq(s) \in Seq(Bytes)
      /\ OperationParts(Append(operations, o)) = Append(s, x)
      /\ operations \in Seq(Operation)
  BY OperationPartsType
<1>2. x \in Seq(Bytes) /\ o \in Operation
  BY WrittenType
<1>3. /\ LogOf(operations) = TableMagic \o FlattenSeq(s)
      /\ LogOf(Append(operations, o)) = TableMagic \o FlattenSeq(Append(s, x))
  BY <1>1, Zenon DEF LogOf, OperationParts
<1> HIDE DEF s, x
<1>4. FlattenSeq(Append(s, x)) = FlattenSeq(s) \o x
  BY <1>1, <1>2, FlattenAppend
<1>5. (TableMagic \o FlattenSeq(s)) \o x = TableMagic \o (FlattenSeq(s) \o x)
  BY <1>1, <1>2, MagicType, ConcatAssociative, SMTT(60)
<1>6. TableAfter(Append(operations, o)) = Replay(TableAfter(operations), o)
  BY <1>1, <1>2, TableAfterSteps
<1> QED  BY <1>3, <1>4, <1>5, <1>6 DEF x

(* A log whose last operation is cut short does not load.                  *)
LEMMA LogCut ==
    ASSUME NEW operations \in Seq(Written), NEW o \in Written,
           NEW n \in 1..(Len(WriteOperation(o)) - 1)
    PROVE  /\ LogOf(operations) \o SubSeq(WriteOperation(o), 1, n) \in Seq(Bytes)
           /\ Contents(LogOf(operations) \o SubSeq(WriteOperation(o), 1, n)) = Torn
<1> DEFINE s == OperationParts(operations)
           w == FlattenSeq(s)
           x == WriteOperation(o)
           c == SubSeq(x, 1, n)
           a == TableMagic \o w
           input == a \o c
           p == Len(TableMagic) + 1
           Item == ReadsOperations(input)
<1>1. /\ s \in Seq(Seq(Bytes)) /\ w \in Seq(Bytes)
      /\ \A d \in Seq(Bytes) : PartsOf(d, ReadsOperations(d), s, operations)
  BY OperationPartsType
<1>2. LogOf(operations) = a
  BY DEF LogOf, OperationParts
<1> HIDE DEF s, w
<1>3. /\ TableMagic \in Seq(Bytes) /\ p \in Nat \ {0} /\ Len(TableMagic) \in Nat
      /\ Len(w) \in Nat
  BY <1>1, MagicType
<1>4. x \in Seq(Bytes) /\ Len(x) \in Nat /\ n \in 0..(Len(x) - 1) /\ n \in Nat \ {0}
  BY WrittenType
<1> HIDE DEF x
<1>5. a \in Seq(Bytes) /\ Len(a) = Len(TableMagic) + Len(w)
  BY <1>1, <1>3, AtMiddle
<1>6. /\ c \in Seq(Bytes) /\ Len(c) = n
      /\ input \in Seq(Bytes) /\ Len(input) = Len(a) + n
      /\ CutAt(input, Len(a) + 1, x)
  <2> HIDE DEF a
  <2> QED  BY <1>4, <1>5, CutBehind, ZenonT(60)
<1>7. At(input, p, w)
  <2> HIDE DEF c
  <2> QED  BY <1>1, <1>3, <1>6, AtMiddle
<1>8. input = TableMagic \o (w \o c) /\ w \o c \in Seq(Bytes)
  <2> HIDE DEF c
  <2>1. (TableMagic \o w) \o c = TableMagic \o (w \o c)
    <3>1. TableMagic \in Seq(Bytes) /\ w \in Seq(Bytes) /\ c \in Seq(Bytes)
      BY <1>1, <1>3, <1>6
    <3> QED  BY ONLY <3>1, ConcatAssociative, SMTT(60)
  <2> QED  BY <1>1, <1>6, <2>1
<1>9. Contents(input) = Replayed(ReadAll(input, p, Item))
  <2> DEFINE d == w \o c
  <2>1. d \in Seq(Bytes) /\ input = TableMagic \o d
    BY <1>8
  <2> HIDE DEF d, input
  <2> QED  BY <2>1, BehindMagic
<1>10. p + Len(w) = Len(a) + 1 /\ p + Len(w) # Len(input) + 1
  <2> HIDE DEF a, input
  <2> QED  BY <1>3, <1>4, <1>5, <1>6
<1>11. PartsOf(input, Item, s, operations)
  BY <1>1, <1>6
<1>12. ReadsPart(input, Item, x, o)
  BY <1>6, OperationPart DEF x
<1> HIDE DEF a, c, input, p, Item
<1>13. CutAt(input, p + Len(w), x)
  BY <1>6, <1>10
<1>14. ReadAll(input, p, Item) = NotRead
  BY <1>1, <1>3, <1>6, <1>7, <1>10, <1>11, <1>12, <1>13, AllItems, SMTT(60) DEF w
<1>15. Contents(input) = Torn
  BY <1>9, <1>14 DEF Replayed, NotRead, Got
<1> QED  BY <1>2, <1>6, <1>15 DEF input, c, x

-----------------------------------------------------------------------------
(* Files of the old format.  The rows the first k records of one give.     *)
FirstInserted(records, k) ==
    [id \in RowIds |-> IF id <= k THEN LiveRow(records[id]) ELSE NoRow]

(* The records of a file of the old format.                                *)
LEMMA LegacyRecords ==
    ASSUME NEW records \in LegacyFiles
    PROVE  /\ records \in Seq(Records)
           /\ Len(records) \in Nat \ {0} /\ Len(records) < MaxRowId
           /\ \A i \in 1..Len(records) :
                 /\ i \in RowIds
                 /\ records[i] \in Records /\ records[i] \in Record
                 /\ RecordFits(records[i])
<1>1. /\ records \in Seq({record \in Records : RecordFits(record)})
      /\ records # <<>> /\ Len(records) < MaxRowId /\ Records \subseteq Record
  BY LogAssumption
<1>2. Len(records) \in Nat \ {0}
  BY <1>1
<1>3. \A i \in 1..Len(records) : records[i] \in Records /\ RecordFits(records[i])
  BY <1>1
<1>4. \A i \in 1..Len(records) : i \in RowIds
  BY <1>1, <1>2, TableAssumption DEF RowIds
<1>5. records \in Seq(Records)
  BY <1>1, <1>3
<1> QED  BY <1>1, <1>2, <1>3, <1>4, <1>5

(* They are migrated as operations that can be written.                    *)
LEMMA InsertsType ==
    ASSUME NEW records \in LegacyFiles
    PROVE  /\ InsertsOf(records) \in Seq(Written)
           /\ Len(InsertsOf(records)) = Len(records)
           /\ \A i \in 1..Len(records) :
                 InsertsOf(records)[i] = Op("insert", i, records[i])
<1> PICK n \in Nat : n = Len(records)
  BY LegacyRecords
<1>1. \A i \in 1..n : /\ i \in RowIds /\ records[i] \in Records
                      /\ records[i] \in Record /\ RecordFits(records[i])
  BY LegacyRecords
<1>2. InsertsOf(records) = [i \in 1..n |-> Op("insert", i, records[i])]
  <2>1. DOMAIN records = 1..n
    BY LegacyRecords
  <2> QED  BY <2>1 DEF InsertsOf
<1>3. ASSUME NEW i \in 1..n PROVE Op("insert", i, records[i]) \in Written
  <2>1. i \in RowIds /\ records[i] \in Record /\ "insert" \in DOMAIN OpCode
    BY <1>1 DEF OpCode
  <2>2. Op("insert", i, records[i]) \in Operation
    BY <2>1 DEF Operation, Op
  <2> QED  BY <1>1, <2>2 DEF Written, Calls, Op
<1>4. InsertsOf(records) \in [1..n -> Written]
  BY <1>2, <1>3
<1>5. InsertsOf(records) \in Seq(Written) /\ Len(InsertsOf(records)) = n
  BY <1>4
<1> QED  BY <1>2, <1>5

(* What the first k inserts of a migrated file leave.                      *)
LEMMA FirstInserts ==
    ASSUME NEW records \in LegacyFiles, NEW k \in 0..Len(records)
    PROVE  /\ SubSeq(InsertsOf(records), 1, k) \in Seq(Written)
           /\ TableAfter(SubSeq(InsertsOf(records), 1, k)) = FirstInserted(records, k)
           /\ FirstInserted(records, k) \in Tables
<1> PICK n \in Nat : n = Len(records)
  BY LegacyRecords
<1> DEFINE o == InsertsOf(records)
           S == {i \in 0..n : TableAfter(SubSeq(o, 1, i)) = FirstInserted(records, i)}
<1>1. /\ o \in Seq(Written) /\ Len(o) = n
      /\ \A i \in 1..n : o[i] = Op("insert", i, records[i]) /\ i \in RowIds
      /\ \A i \in 1..n : records[i] \in Record
  BY InsertsType, LegacyRecords
<1> HIDE DEF o
<1>2. \A i \in 0..n : SubSeq(o, 1, i) \in Seq(Written)
  BY <1>1
<1>3. \A i \in 0..n : FirstInserted(records, i) \in Tables
  <2> SUFFICES ASSUME NEW i \in 0..n, NEW id \in RowIds
               PROVE  (IF id <= i THEN LiveRow(records[id]) ELSE NoRow) \in Cell
    BY DEF FirstInserted, Tables
  <2>1. id <= i => id \in 1..n
    BY TableAssumption DEF RowIds
  <2>2. NoRow \in Cell
    BY CellTypes DEF NoRow, Cell
  <2> QED  BY <1>1, <2>1, <2>2, CellTypes
<1>4. 0 \in S
  <2>1. SubSeq(o, 1, 0) = <<>>
    BY <1>1
  <2>2. FirstInserted(records, 0) = EmptyTable
    <3>1. \A id \in RowIds : ~(id <= 0)
      BY TableAssumption DEF RowIds
    <3> QED  BY <3>1 DEF FirstInserted, EmptyTable
  <2>3. TableAfter(SubSeq(o, 1, 0)) = FirstInserted(records, 0)
    BY <2>1, <2>2, TableAfterNone
  <2> QED  BY <2>3
<1>5. ASSUME NEW i \in 1..n, i - 1 \in S PROVE i \in S
  <2> DEFINE before == FirstInserted(records, i - 1)
             old == SubSeq(o, 1, i - 1)
             op == Op("insert", i, records[i])
  <2>1. i \in 0..n /\ i - 1 \in 0..n /\ i \in 1..Len(o)
    BY <1>1
  <2>2. SubSeq(o, 1, i) = Append(old, op)
    BY <1>1, <2>1
  <2>3. old \in Seq(Operation) /\ op \in Operation
    <3>1. old \in Seq(Written) /\ op \in Written
      BY <1>1, <1>2, <2>1
    <3> QED  BY <3>1, OperationPartsType, WrittenType
  <2>4. TableAfter(old) = before
    BY <1>5
  <2>5. before \in Tables
    BY <1>3, <2>1
  <2>6. i \in RowIds
    BY <1>1
  <2>7. before[i] = NoRow
    BY <2>6 DEF FirstInserted
  <2>8. [before EXCEPT ![i] = LiveRow(records[i])] = FirstInserted(records, i)
    <3> DEFINE after == [before EXCEPT ![i] = LiveRow(records[i])]
    <3>1. \A id \in RowIds : id # i => (id <= i <=> id <= i - 1)
      BY TableAssumption DEF RowIds
    <3>2. \A id \in RowIds : before[id] = IF id <= i - 1 THEN LiveRow(records[id]) ELSE NoRow
      BY DEF FirstInserted
    <3>3. after = [id \in RowIds |-> IF id = i THEN LiveRow(records[i]) ELSE before[id]]
      BY DEF FirstInserted
    <3> HIDE DEF before
    <3>4. \A id \in RowIds : (IF id = i THEN LiveRow(records[i]) ELSE before[id])
                              = IF id <= i THEN LiveRow(records[id]) ELSE NoRow
      BY <3>1, <3>2
    <3> HIDE DEF after
    <3>5. after = FirstInserted(records, i)
      BY <3>3, <3>4 DEF FirstInserted
    <3> QED  BY <3>5 DEF after
  <2> HIDE DEF before, old
  <2>9. Readable(before) /\ i \notin UsedIds(before)
    BY <2>5, <2>7, TableAssumption DEF Readable, UsedIds, NoRow
  <2>10. Replay(before, op) = ReplayInsert(before, i, records[i])
    BY DEF Replay, Op
  <2>11. ReplayInsert(before, i, records[i]) = FirstInserted(records, i)
    BY <2>8, <2>9 DEF ReplayInsert
  <2> HIDE DEF op
  <2>12. TableAfter(Append(old, op)) = Replay(TableAfter(old), op)
    BY <2>3, TableAfterSteps
  <2> QED  BY <2>1, <2>2, <2>4, <2>10, <2>11, <2>12
<1> HIDE DEF S
<1>6. 0..n \subseteq S
  BY <1>4, <1>5, UpToInduction
<1> QED  BY <1>2, <1>3, <1>6 DEF S, o

(* A file of the old format loads as its records under the ids 1, 2, ...   *)
LEMMA LegacyContents ==
    ASSUME NEW records \in LegacyFiles
    PROVE  /\ LegacyBytes(records) \in Seq(Bytes)
           /\ LegacyBytes(records) # <<>>
           /\ ~IsLog(LegacyBytes(records))
           /\ Contents(LegacyBytes(records)) = FirstInserted(records, Len(records))
<1> DEFINE s == [i \in DOMAIN records |-> WriteRecord(records[i])]
           input == FlattenSeq(s)
           Item == [at \in Positions(input) |-> ReadRecord(input, at)]
<1> PICK n \in Nat \ {0} : n = Len(records)
  BY LegacyRecords
<1>1. /\ records \in Seq(Records) /\ DOMAIN records = 1..n
      /\ \A i \in 1..n : records[i] \in Records /\ RecordFits(records[i])
  BY LegacyRecords
<1>2. \A i \in 1..n : /\ WriteRecord(records[i]) \in Seq(Bytes)
                      /\ Len(WriteRecord(records[i])) \in Nat \ {0}
  <2>1. <<>> \in Seq(Bytes) /\ 1 \in Nat \ {0}
    OBVIOUS
  <2> QED  BY <1>1, <2>1, RecordRead
<1>3. \A i \in 1..n : s[i] = WriteRecord(records[i])
  BY <1>1
<1>4. s \in Seq(Seq(Bytes)) /\ Len(s) = n
  <2>1. s \in [1..n -> Seq(Bytes)]
    BY <1>1, <1>2
  <2> HIDE DEF s
  <2> QED  BY <2>1
<1>5. LegacyBytes(records) = input
  BY DEF LegacyBytes
<1> HIDE DEF s
<1>6. input \in Seq(Bytes)
  BY <1>4, FlattenParts
<1>7. At(input, 1, input) /\ 1 + Len(input) = Len(input) + 1 /\ Len(input) + 1 # 0
  <2> HIDE DEF input
  <2> QED  BY <1>6 DEF At
<1>8. Len(input) # 0
  <2>1. PICK off \in [0..Len(s) -> Nat] :
           /\ off[0] = 0 /\ off[Len(s)] = Len(input)
           /\ \A k \in 1..Len(s) : off[k] = off[k - 1] + Len(s[k])
    BY <1>4, FlattenParts
  <2> HIDE DEF input
  <2>2. n \in 1..n /\ n - 1 \in 0..n /\ n \in 1..Len(s)
    BY <1>4
  <2>3. off[n] = off[n - 1] + Len(s[n]) /\ off[n - 1] \in Nat
    BY <1>4, <2>1, <2>2
  <2>4. Len(s[n]) \in Nat \ {0}
    BY <1>2, <1>3, <2>2
  <2> QED  BY <1>4, <2>1, <2>3, <2>4
<1> HIDE DEF input
<1>9. input # <<>>
  BY <1>8
<1>10. PartsOf(input, Item, s, records)
  <2>1. ASSUME NEW k \in 1..n PROVE Len(s[k]) # 0 /\ ReadsPart(input, Item, s[k], records[k])
    <3> DEFINE w == WriteRecord(records[k])
    <3>1. Len(w) # 0 /\ s[k] = w
      BY <1>2, <1>3
    <3>2. ASSUME NEW r \in Positions(input)
          PROVE  /\ At(input, r, w) => Item[r] = Got(r + Len(w), records[k])
                 /\ CutAt(input, r, w) => Item[r] = NotRead
      <4>1. r \in Nat \ {0} /\ Item[r] = ReadRecord(input, r)
        BY <1>6 DEF Positions
      <4>2. records[k] \in Records /\ RecordFits(records[k])
        BY <1>1
      <4> HIDE DEF Item
      <4> QED  BY <1>6, <4>1, <4>2, RecordRead
    <3> HIDE DEF Item, w
    <3>3. ReadsPart(input, Item, w, records[k])
      BY <3>2 DEF ReadsPart
    <3> QED  BY <3>1, <3>3
  <2> HIDE DEF Item
  <2> QED  BY <1>4, <2>1 DEF PartsOf
<1>11. ReadAll(input, 1, Item) = Got(Len(input) + 1, records)
  <2> PICK p \in Nat \ {0} : p = 1
    OBVIOUS
  <2>1. input = FlattenSeq(s)
    BY DEF input
  <2> HIDE DEF Item
  <2>2. At(input, p, FlattenSeq(s)) /\ p + Len(FlattenSeq(s)) = Len(input) + 1
    BY <1>7, <2>1
  <2>3. s \in Seq(Seq(Bytes)) /\ records \in Seq(Records)
    BY <1>1, <1>4
  <2>4. ReadAll(input, p, Item) = Got(Len(input) + 1, records)
    BY <1>6, <1>10, <2>2, <2>3, AllItems
  <2> QED  BY <2>4
<1>12. ~IsLog(input)
  BY <1>5, MagicAssumption
<1>13. Contents(input) = TableAfter(InsertsOf(records))
  <2> DEFINE read == ReadAll(input, 1, Item)
             e == Len(input) + 1
  <2>1. Contents(input) = Replayed(Then(read, LAMBDA p, r : Got(p, InsertsOf(r))))
    BY <1>9, <1>12 DEF Contents
  <2>2. read = Got(e, records) /\ e # 0
    BY <1>7, <1>11
  <2> HIDE DEF read, e
  <2>3. Then(read, LAMBDA p, r : Got(p, InsertsOf(r))) = Got(e, InsertsOf(records))
    BY <2>2 DEF Then, Got
  <2>4. Replayed(Got(e, InsertsOf(records))) = TableAfter(InsertsOf(records))
    BY <2>2 DEF Replayed, Got
  <2> QED  BY <2>1, <2>3, <2>4
<1>14. TableAfter(InsertsOf(records)) = FirstInserted(records, n)
  <2>1. InsertsOf(records) \in Seq(Written) /\ Len(InsertsOf(records)) = n
    BY InsertsType
  <2>2. SubSeq(InsertsOf(records), 1, n) = InsertsOf(records)
    BY <2>1
  <2>3. n \in 0..Len(records)
    OBVIOUS
  <2> QED  BY <2>2, <2>3, FirstInserts
<1> QED  BY <1>5, <1>6, <1>9, <1>12, <1>13, <1>14

(* A file that ends inside of the magic does not load.                     *)
LEMMA MagicCut ==
    ASSUME NEW n \in 1..(Len(TableMagic) - 1)
    PROVE  /\ SubSeq(TableMagic, 1, n) \in Seq(Bytes)
           /\ Contents(SubSeq(TableMagic, 1, n)) = Torn
<1> DEFINE input == SubSeq(TableMagic, 1, n)
           Item == [at \in Positions(input) |-> ReadRecord(input, at)]
           number == FromLittleEndian(SubSeq(TableMagic, 1, WordBytes))
<1>1. /\ TableMagic \in Seq(Bytes) /\ Len(TableMagic) \in Nat
      /\ WordBytes \in Nat \ {0} /\ WordBytes <= Len(TableMagic)
      /\ number \in Nat /\ number > Len(TableMagic)
  BY MagicType, MagicAssumption, FormatAssumption
<1>2. /\ input \in Seq(Bytes) /\ Len(input) = n /\ n \in Nat \ {0} /\ n < Len(TableMagic)
      /\ \A i \in 1..n : input[i] = TableMagic[i]
  BY <1>1
<1> HIDE DEF input, number
<1>3. input # <<>>
  BY <1>2
<1>4. ~IsLog(input)
  BY <1>1, <1>2 DEF IsLog, IsPrefix
<1>5. ReadRecord(input, 1) = NotRead
  <2>1. CASE n < WordBytes
    <3>1. ReadExact(input, 1, WordBytes) = NotRead
      BY <1>1, <1>2, <2>1 DEF ReadExact
    <3>2. ReadWord(input, 1) = NotRead
      BY <3>1 DEF ReadWord, ReadUInt, Then, NotRead, Got
    <3> QED  BY <3>2 DEF ReadRecord, Then, NotRead, Got
  <2>2. CASE WordBytes <= n
    <3> DEFINE q == 1 + WordBytes
               word == SubSeq(input, 1, WordBytes)
    <3>1. word = SubSeq(TableMagic, 1, WordBytes)
      BY <1>1, <1>2, <2>2
    <3>2. q \in Nat \ {0} /\ q # 0 /\ ~(1 + WordBytes - 1 > Len(input))
          /\ 1 + WordBytes - 1 = WordBytes
      BY <1>1, <1>2, <2>2
    <3>3. ReadExact(input, 1, WordBytes) = Got(q, word)
      BY <3>2 DEF ReadExact
    <3>4. FromLittleEndian(word) = number
      BY <3>1 DEF number
    <3>5. ReadExact(input, q, number) = NotRead
      BY <1>1, <1>2, <3>2 DEF ReadExact
    <3> HIDE DEF q, word
    <3>6. ReadWord(input, 1) = Got(q, number)
      BY <3>2, <3>3, <3>4 DEF ReadWord, ReadUInt, Then, Got
    <3> QED  BY <3>2, <3>5, <3>6 DEF ReadRecord, Then, NotRead, Got
  <2> QED  BY <1>1, <1>2, <2>1, <2>2
<1>6. Item[1] = NotRead
  BY <1>2, <1>5 DEF Positions
<1> HIDE DEF Item
<1> DEFINE pos == [k \in 0..0 |-> 1]
<1>7. pos[0] = 1 /\ pos \in [0..0 -> Nat \ {0}]
  OBVIOUS
<1> HIDE DEF pos
<1>8. ItemsRead(input, Item, <<>>, 0, pos)
  <2>1. \E V : <<>> \in Seq(V)
    BY EmptySeq
  <2>2. 0 \in 0..Len(<<>>)
    OBVIOUS
  <2>3. \A k \in 1..0 : FALSE
    OBVIOUS
  <2>4. pos[0] <= Len(input) + 1
    BY <1>2, <1>7
  <2> QED  BY <1>7, <2>1, <2>2, <2>3, <2>4 DEF ItemsRead
<1>9. ReadAll(input, 1, Item) = NotRead
  <2>1. 1 # Len(input) + 1
    BY <1>2
  <2> QED  BY <1>2, <1>6, <1>7, <1>8, <2>1, StepsFail
<1>10. Contents(input) = Torn
  <2>1. Then(NotRead, LAMBDA p, r : Got(p, InsertsOf(r))) = NotRead
    BY DEF Then, NotRead, Got
  <2>2. Contents(input) = Replayed(Then(ReadAll(input, 1, Item),
                                        LAMBDA p, r : Got(p, InsertsOf(r))))
    BY <1>3, <1>4 DEF Contents, Item
  <2>3. Replayed(NotRead) = Torn
    BY DEF Replayed, NotRead, Got
  <2> QED  BY <1>9, <2>1, <2>2, <2>3
<1> QED  BY <1>2, <1>10 DEF input

-----------------------------------------------------------------------------
(* A log of no operations is the magic.                                    *)
LEMMA MagicLog == LogOf(<<>>) = TableMagic
<1> DEFINE s == [i \in DOMAIN <<>> |-> WriteOperation(<<>>[i])]
<1>1. s = <<>>
  OBVIOUS
<1> HIDE DEF s
<1>2. FlattenSeq(s) = <<>>
  BY <1>1 DEF FlattenSeq
<1>3. LogOf(<<>>) = TableMagic \o FlattenSeq(s)
  BY DEF LogOf, s
<1> QED  BY <1>2, <1>3, MagicType

(* What a write of a whole log leaves when it is cut short behind the      *)
(* magic: some operations, and a part of the next one.                     *)
LEMMA LogPrefix ==
    ASSUME NEW operations \in Seq(Written),
           NEW m \in Nat, Len(TableMagic) <= m, m < Len(LogOf(operations))
    PROVE  \E j \in 0..(Len(operations) - 1) :
           \E i \in 0..(Len(WriteOperation(operations[j + 1])) - 1) :
              SubSeq(LogOf(operations), 1, m)
                 = LogOf(SubSeq(operations, 1, j))
                      \o SubSeq(WriteOperation(operations[j + 1]), 1, i)
<1> PICK n \in Nat : n = Len(operations)
  OBVIOUS
<1> DEFINE Log(k) == LogOf(SubSeq(operations, 1, k))
           x(j) == WriteOperation(operations[j + 1])
           CutAfter(k, q) ==
              \E j \in 0..(k - 1) : \E i \in 0..(Len(x(j)) - 1) :
                 SubSeq(Log(k), 1, q) = Log(j) \o SubSeq(x(j), 1, i)
           S == {k \in 0..n : \A q \in Nat : Len(TableMagic) <= q /\ q < Len(Log(k)) => CutAfter(k, q)}
<1>1. \A k \in 0..n : SubSeq(operations, 1, k) \in Seq(Written)
  OBVIOUS
<1>2. \A k \in 0..n : Log(k) \in Seq(Bytes)
  BY <1>1, LogContents
<1>3. ASSUME NEW k \in 1..n
      PROVE  /\ Log(k) = Log(k - 1) \o x(k - 1)
             /\ x(k - 1) \in Seq(Bytes)
             /\ k - 1 \in 0..n
  <2>1. k - 1 \in 0..n /\ (k - 1) + 1 = k /\ operations[k] \in Written
    OBVIOUS
  <2>2. SubSeq(operations, 1, k) = Append(SubSeq(operations, 1, k - 1), operations[k])
    OBVIOUS
  <2>3. LogOf(SubSeq(operations, 1, k - 1)) \o WriteOperation(operations[k])
           = LogOf(Append(SubSeq(operations, 1, k - 1), operations[k]))
    BY <1>1, <2>1, LogAppend
  <2> QED  BY <2>1, <2>2, <2>3, WrittenType
<1>4. Log(0) = TableMagic
  <2>1. SubSeq(operations, 1, 0) = <<>>
    OBVIOUS
  <2>2. LogOf(<<>>) = TableMagic
    BY MagicLog
  <2> QED  BY <2>1, <2>2
<1> HIDE DEF Log, x
<1>5. 0 \in S
  BY <1>4, MagicType
<1>6. ASSUME NEW k \in 1..n, k - 1 \in S PROVE k \in S
  <2> SUFFICES ASSUME NEW q \in Nat, Len(TableMagic) <= q, q < Len(Log(k))
               PROVE  CutAfter(k, q)
    <3>1. k \in 0..n
      OBVIOUS
    <3> QED  BY <3>1
  <2> DEFINE a == Log(k - 1)
             b == x(k - 1)
  <2>1. a \in Seq(Bytes) /\ b \in Seq(Bytes) /\ Log(k) = a \o b
    BY <1>2, <1>3
  <2> HIDE DEF a, b
  <2>2. Len(Log(k)) = Len(a) + Len(b) /\ Len(a) \in Nat /\ Len(b) \in Nat
    BY <2>1
  <2>3. q \in 0..(Len(a) + Len(b))
    BY <2>2
  <2>4. CASE q < Len(a)
    <3>1. SubSeq(Log(k), 1, q) = SubSeq(a, 1, q)
      BY <2>1, <2>2, <2>3, <2>4, FrontOfConcat
    <3>2. CutAfter(k - 1, q)
      BY <1>6, <2>4 DEF a
    <3>3. PICK j \in 0..((k - 1) - 1) : \E i \in 0..(Len(x(j)) - 1) :
             SubSeq(Log(k - 1), 1, q) = Log(j) \o SubSeq(x(j), 1, i)
      BY <3>2
    <3>4. j \in 0..(k - 1)
      OBVIOUS
    <3> QED  BY <3>1, <3>3, <3>4 DEF a
  <2>5. CASE Len(a) <= q
    <3>1. SubSeq(Log(k), 1, q) = a \o SubSeq(b, 1, q - Len(a))
      BY <2>1, <2>3, <2>5, FrontOfConcat, ZenonT(60)
    <3>2. q - Len(a) \in 0..(Len(b) - 1)
      BY <2>2, <2>5
    <3>3. k - 1 \in 0..(k - 1)
      OBVIOUS
    <3> QED  BY <3>1, <3>2, <3>3 DEF a, b
  <2>6. q < Len(a) \/ Len(a) <= q
    BY <2>2
  <2> HIDE DEF CutAfter
  <2> QED  BY <2>4, <2>5, <2>6
<1> HIDE DEF S
<1>7. 0..n \subseteq S
  BY <1>5, <1>6, UpToInduction
<1>8. SubSeq(operations, 1, n) = operations
  OBVIOUS
<1>9. Log(n) = LogOf(operations)
  BY <1>8 DEF Log
<1>10. CutAfter(n, m)
  <2>1. n \in S
    BY <1>7
  <2> QED  BY <1>9, <2>1 DEF S
<1> QED  BY <1>9, <1>10 DEF Log, x
-----------------------------------------------------------------------------
(* The bytes a file has: nothing or a log whose operations replay; a file  *)
(* of the old format; or bytes that a write left half done.                *)
Stored(b) ==
    \/ b = <<>>
    \/ \E operations \in Seq(Written) :
          Readable(TableAfter(operations)) /\ b = LogOf(operations)

Old(b) == \E records \in LegacyFiles : b = LegacyBytes(records)

HalfDone(b) == b \in Seq(Bytes) /\ b # <<>> /\ Contents(b) = Torn

(* No bytes are no log, but a table without rows.                          *)
LEMMA NoBytesIsNoLog == ~IsLog(<<>>) /\ Contents(<<>>) = EmptyTable
<1>1. Len(<<>>) = 0
  OBVIOUS
<1>2. Len(TableMagic) > 0
  BY MagicType
<1>3. ~IsLog(<<>>)
  BY <1>1, <1>2 DEF IsLog, IsPrefix
<1> QED  BY <1>3 DEF Contents

(* A stored file loads as a table and takes operations.                    *)
LEMMA StoredFile ==
    ASSUME NEW b, Stored(b)
    PROVE  b \in Seq(Bytes) /\ Contents(b) \in Tables /\ (b = <<>> \/ IsLog(b))
<1>1. CASE b = <<>>
  <2>1. Contents(b) = EmptyTable
    BY <1>1, NoBytesIsNoLog
  <2>2. <<>> \in Seq(Bytes)
    OBVIOUS
  <2> QED  BY <1>1, <2>1, <2>2, EmptyTableType
<1>2. ASSUME NEW operations \in Seq(Written),
             Readable(TableAfter(operations)), b = LogOf(operations)
      PROVE  b \in Seq(Bytes) /\ Contents(b) \in Tables /\ IsLog(b)
  <2>1. b \in Seq(Bytes) /\ IsLog(b) /\ Contents(b) = TableAfter(operations)
    BY <1>2, LogContents
  <2>2. operations \in Seq(Operation)
    BY OperationPartsType
  <2>3. TableAfter(operations) \in TableFiles
    BY <2>2, TableAfterSteps
  <2> QED  BY <1>2, <2>1, <2>3 DEF TableFiles, Readable
<1> QED  BY <1>1, <1>2 DEF Stored

(* So does a file of the old format, which is no log.                      *)
LEMMA OldFile ==
    ASSUME NEW b, Old(b)
    PROVE  b \in Seq(Bytes) /\ b # <<>> /\ ~IsLog(b) /\ Contents(b) \in Tables
<1>1. PICK records \in LegacyFiles : b = LegacyBytes(records)
  BY DEF Old
<1>2. Len(records) \in 0..Len(records)
  BY LegacyRecords
<1>3. FirstInserted(records, Len(records)) \in Tables
  BY <1>2, FirstInserts
<1> QED  BY <1>1, <1>3, LegacyContents

(* The magic alone is the log of an empty table, and a part of it is half  *)
(* a file.                                                                 *)
LEMMA MagicStored ==
    /\ Stored(TableMagic) /\ IsLog(TableMagic) /\ Contents(TableMagic) = EmptyTable
    /\ \A b \in CutOff(TableMagic) : b = <<>> \/ HalfDone(b)
<1>1. <<>> \in Seq(Written)
  OBVIOUS
<1>2. IsLog(TableMagic) /\ Contents(TableMagic) = EmptyTable
  BY <1>1, LogContents, MagicLog, TableAfterNone
<1>3. Readable(EmptyTable)
  BY EmptyTableType, TableAssumption DEF Readable
<1>4. Stored(TableMagic)
  BY <1>1, <1>3, MagicLog, TableAfterNone DEF Stored
<1>5. ASSUME NEW b \in CutOff(TableMagic) PROVE b = <<>> \/ HalfDone(b)
  <2>1. PICK n \in 0..(Len(TableMagic) - 1) : b = SubSeq(TableMagic, 1, n)
    BY DEF CutOff
  <2>2. CASE n = 0
    BY <2>1, <2>2
  <2>3. CASE n # 0
    <3>1. n \in 1..(Len(TableMagic) - 1)
      BY <2>3, MagicType
    <3>2. b \in Seq(Bytes) /\ Contents(b) = Torn
      BY <2>1, <3>1, MagicCut
    <3>3. CASE b = <<>>
      BY <3>3
    <3>4. CASE b # <<>>
      BY <3>2, <3>4 DEF HalfDone
    <3> QED  BY <3>3, <3>4
  <2> QED  BY <2>2, <2>3
<1> QED  BY <1>2, <1>4, <1>5

(* An operation behind a log that replays changes what the file loads as   *)
(* by its replay.  Cut short, it leaves the log as it was or half a file.  *)
LEMMA StoredAppend ==
    ASSUME NEW b, Stored(b), IsLog(b), NEW o \in Written
    PROVE  /\ Contents(b \o WriteOperation(o)) = Replay(Contents(b), o)
           /\ Readable(Replay(Contents(b), o)) => Stored(b \o WriteOperation(o))
           /\ IsLog(b \o WriteOperation(o))
           /\ \A part \in CutOff(WriteOperation(o)) :
                 b \o part = b \/ HalfDone(b \o part)
<1>1. PICK operations \in Seq(Written) :
         Readable(TableAfter(operations)) /\ b = LogOf(operations)
  BY NoBytesIsNoLog DEF Stored
<1>2. /\ Append(operations, o) \in Seq(Written)
      /\ b \o WriteOperation(o) = LogOf(Append(operations, o))
      /\ TableAfter(Append(operations, o)) = Replay(TableAfter(operations), o)
  BY <1>1, LogAppend
<1>3. b \in Seq(Bytes) /\ Contents(b) = TableAfter(operations)
  BY <1>1, LogContents
<1>4. /\ Contents(b \o WriteOperation(o)) = Replay(Contents(b), o)
      /\ IsLog(b \o WriteOperation(o))
  BY <1>2, <1>3, LogContents
<1>5. ASSUME Readable(Replay(Contents(b), o)) PROVE Stored(b \o WriteOperation(o))
  BY <1>2, <1>3, <1>5 DEF Stored
<1>6. ASSUME NEW part \in CutOff(WriteOperation(o))
      PROVE  b \o part = b \/ HalfDone(b \o part)
  <2>1. PICK n \in 0..(Len(WriteOperation(o)) - 1) : part = SubSeq(WriteOperation(o), 1, n)
    BY DEF CutOff
  <2>2. CASE n = 0
    <3>1. part = <<>>
      BY <2>1, <2>2
    <3> QED  BY <1>3, <3>1
  <2>3. CASE n # 0
    <3>1. n \in 1..(Len(WriteOperation(o)) - 1)
      BY <2>3, WrittenType
    <3>2. b \o part \in Seq(Bytes) /\ Contents(b \o part) = Torn
      BY <1>1, <2>1, <3>1, LogCut
    <3>3. part \in Seq(Bytes) /\ Len(part) = n
      BY <2>1, <3>1, WrittenType
    <3>4. b \o part # <<>>
      <4>1. b \in Seq(Bytes) /\ part \in Seq(Bytes)
        BY <1>3, <3>3
      <4>2. Len(b \o part) = Len(b) + Len(part) /\ Len(b) \in Nat
        BY ONLY <4>1
      <4>3. Len(b \o part) > 0
        BY <3>1, <3>3, <4>2
      <4> QED  BY <4>3
    <3> QED  BY <3>2, <3>4 DEF HalfDone
  <2> QED  BY <2>2, <2>3
<1> QED  BY <1>4, <1>5, <1>6
-----------------------------------------------------------------------------
(* The rows of a file of the old format are written as the inserts it was  *)
(* read as.                                                                *)
LEMMA InsertsAgain ==
    ASSUME NEW records \in LegacyFiles, rows = FirstInserted(records, Len(records))
    PROVE  InsertsOfRows = InsertsOf(records)
<1> DEFINE n == Len(records)
<1>1. n \in Nat /\ n < MaxRowId
  BY LegacyRecords
<1>2. DOMAIN records = 1..n
  BY LegacyRecords
<1> HIDE DEF n
<1>3. rows = [id \in RowIds |-> IF id <= n THEN LiveRow(records[id]) ELSE NoRow]
  BY DEF FirstInserted, n
<1>4. \A id \in RowIds : id <= n <=> rows[id].state # "none"
  BY <1>3 DEF LiveRow, NoRow
<1>5. UsedIds(rows) = 1..n
  BY <1>1, <1>4, TableAssumption DEF UsedIds, RowIds
<1>6. Cardinality(1..n) = n
  BY <1>1, FS_Interval
<1>7. \A id \in 1..n : rows[id].record = records[id]
  BY <1>1, <1>3, TableAssumption DEF RowIds, LiveRow
<1>8. InsertsOfRows = [id \in 1..n |-> Op("insert", id, rows[id].record)]
  BY <1>5, <1>6 DEF InsertsOfRows
<1>9. InsertsOfRows = [id \in 1..n |-> Op("insert", id, records[id])]
  BY <1>7, <1>8
<1> QED  BY <1>2, <1>9 DEF InsertsOf

(* The operators of the abstract table are those of the rows.              *)
LEMMA PromiseOperators ==
    /\ Promise!RowIds = RowIds /\ Promise!Record = Record
    /\ Promise!NoRow = NoRow /\ Promise!Tables = Tables
    /\ \A t : Promise!Readable(t) <=> Readable(t)
    /\ \A t, id, r : Promise!ReplayInsert(t, id, r) = ReplayInsert(t, id, r)
    /\ \A t, id, r : Promise!ReplayUpdate(t, id, r) = ReplayUpdate(t, id, r)
    /\ \A t, id : Promise!ReplayDelete(t, id) = ReplayDelete(t, id)
<1>1. Promise!RowIds = RowIds /\ Promise!Record = Record
  BY DEF Promise!RowIds, RowIds, Promise!Record, Record
<1>2. Promise!EmptyRecord = EmptyRecord
  BY DEF Promise!EmptyRecord, EmptyRecord
<1>3. /\ Promise!NoRow = NoRow /\ Promise!DeadRow = DeadRow
      /\ \A r : Promise!LiveRow(r) = LiveRow(r)
  BY <1>2 DEF Promise!NoRow, NoRow, Promise!DeadRow, DeadRow, Promise!LiveRow, LiveRow
<1>4. Promise!Tables = Tables
  BY <1>1 DEF Promise!Tables, Tables, Promise!Cell, Cell
<1>5. \A t : /\ Promise!Readable(t) <=> Readable(t)
             /\ Promise!Refused(t) = Refused(t)
  BY DEF Promise!Readable, Readable, Promise!Refused, Refused
<1>6. \A t : Promise!UsedIds(t) = UsedIds(t) /\ Promise!LiveIds(t) = LiveIds(t)
  BY <1>1 DEF Promise!UsedIds, UsedIds, Promise!LiveIds, LiveIds
<1>7. \A t, id, r : Promise!ReplayInsert(t, id, r) = ReplayInsert(t, id, r)
  BY <1>3, <1>5, <1>6 DEF Promise!ReplayInsert, ReplayInsert
<1>8. \A t, id, r : Promise!ReplayUpdate(t, id, r) = ReplayUpdate(t, id, r)
  BY <1>3, <1>5, <1>6 DEF Promise!ReplayUpdate, ReplayUpdate
<1>9. \A t, id : Promise!ReplayDelete(t, id) = ReplayDelete(t, id)
  BY <1>3, <1>5, <1>6 DEF Promise!ReplayDelete, ReplayDelete
<1> QED  BY <1>1, <1>3, <1>4, <1>5, <1>7, <1>8, <1>9

(* The first rows of a migrated file are those of its first inserts.       *)
LEMMA FirstRowsInserted ==
    ASSUME NEW records \in LegacyFiles, NEW k \in 0..Len(records)
    PROVE  /\ k \in 0..MaxRowId
           /\ Promise!FirstRows(FirstInserted(records, Len(records)), k)
                 = FirstInserted(records, k)
<1> DEFINE n == Len(records)
<1>1. n \in Nat /\ n < MaxRowId /\ k \in 0..n
  BY LegacyRecords
<1> HIDE DEF n
<1>2. \A id \in RowIds : id \in Nat
  BY TableAssumption DEF RowIds
<1>3. FirstInserted(records, n) =
         [id \in RowIds |-> IF id <= n THEN LiveRow(records[id]) ELSE NoRow]
  BY DEF FirstInserted
<1>4. \A id \in RowIds : id <= k => FirstInserted(records, n)[id] = LiveRow(records[id])
  BY <1>1, <1>2, <1>3
<1>5. Promise!FirstRows(FirstInserted(records, n), k) =
         [id \in RowIds |-> IF id <= k THEN FirstInserted(records, n)[id] ELSE NoRow]
  BY PromiseOperators DEF Promise!FirstRows
<1>6. Promise!FirstRows(FirstInserted(records, n), k) = FirstInserted(records, k)
  BY <1>4, <1>5 DEF FirstInserted
<1>7. k \in 0..MaxRowId
  BY <1>1, TableAssumption
<1> QED  BY <1>6, <1>7 DEF n

(* A migration leaves a log that loads as the same table.  Cut short it    *)
(* leaves half a file, or a log that loads as the first rows of the table. *)
LEMMA Migration ==
    ASSUME NEW b, Old(b), rows = Contents(b)
    PROVE  /\ Stored(LogOf(InsertsOfRows)) /\ IsLog(LogOf(InsertsOfRows))
           /\ Contents(LogOf(InsertsOfRows)) = rows
           /\ \A part \in CutOff(LogOf(InsertsOfRows)) :
                 \/ HalfDone(part)
                 \/ /\ Stored(part)
                    /\ \E k \in 0..MaxRowId : Contents(part) = Promise!FirstRows(rows, k)
<1>1. PICK records \in LegacyFiles : b = LegacyBytes(records)
  BY DEF Old
<1> PICK n \in Nat : n = Len(records)
  BY LegacyRecords
<1> DEFINE o == InsertsOf(records)
<1>2. rows = FirstInserted(records, n)
  BY <1>1, LegacyContents
<1>3. InsertsOfRows = o
  BY <1>2, InsertsAgain
<1>4. o \in Seq(Written) /\ Len(o) = n
  BY InsertsType
<1>5. ASSUME NEW k \in 0..n
      PROVE  /\ SubSeq(o, 1, k) \in Seq(Written)
             /\ Stored(LogOf(SubSeq(o, 1, k)))
             /\ Contents(LogOf(SubSeq(o, 1, k))) = FirstInserted(records, k)
             /\ k \in 0..MaxRowId /\ FirstInserted(records, k) = Promise!FirstRows(rows, k)
  <2>1. /\ SubSeq(o, 1, k) \in Seq(Written)
        /\ TableAfter(SubSeq(o, 1, k)) = FirstInserted(records, k)
        /\ FirstInserted(records, k) \in Tables
    BY FirstInserts
  <2>2. Readable(FirstInserted(records, k))
    BY <2>1, TableAssumption DEF Readable
  <2>3. Stored(LogOf(SubSeq(o, 1, k)))
    BY <2>1, <2>2 DEF Stored
  <2>4. k \in 0..MaxRowId /\ FirstInserted(records, k) = Promise!FirstRows(rows, k)
    BY <1>2, FirstRowsInserted
  <2> QED  BY <2>1, <2>3, <2>4, LogContents
<1>6. SubSeq(o, 1, n) = o /\ SubSeq(o, 1, 0) = <<>>
  BY <1>4
<1>7. Stored(LogOf(o)) /\ Contents(LogOf(o)) = rows /\ IsLog(LogOf(o))
  <2>1. n \in 0..n
    OBVIOUS
  <2> QED  BY <1>2, <1>4, <1>5, <1>6, <2>1, LogContents
<1>8. ASSUME NEW part \in CutOff(LogOf(o))
      PROVE  \/ HalfDone(part)
             \/ /\ Stored(part)
                /\ \E k \in 0..MaxRowId : Contents(part) = Promise!FirstRows(rows, k)
  <2>1. PICK m \in 0..(Len(LogOf(o)) - 1) : part = SubSeq(LogOf(o), 1, m)
    BY DEF CutOff
  <2>2. CASE m < Len(TableMagic)
    <3>1. LogOf(o) = TableMagic \o FlattenSeq(OperationParts(o))
      BY DEF LogOf, OperationParts
    <3>2. FlattenSeq(OperationParts(o)) \in Seq(Bytes)
      BY <1>4, OperationPartsType
    <3> DEFINE w == FlattenSeq(OperationParts(o))
    <3> HIDE DEF w
    <3>3. w \in Seq(Bytes) /\ Len(w) \in Nat
      BY <3>2 DEF w
    <3>4. m \in 0..(Len(TableMagic) + Len(w)) /\ m <= Len(TableMagic)
      BY <2>2, <3>3, MagicType
    <3>5. SubSeq(TableMagic \o w, 1, m) = SubSeq(TableMagic, 1, m)
      BY <3>3, <3>4, MagicType, FrontOfConcat
    <3>6. part = SubSeq(TableMagic, 1, m)
      BY <2>1, <3>1, <3>5 DEF w
    <3>7. m \in 0..(Len(TableMagic) - 1)
      BY <2>2, MagicType
    <3>8. part \in CutOff(TableMagic)
      BY <3>6, <3>7 DEF CutOff
    <3>9. CASE part = <<>>
      <4>1. 0 \in 0..n
        OBVIOUS
      <4>2. Contents(<<>>) = EmptyTable
        BY NoBytesIsNoLog
      <4>3. Stored(<<>>)
        BY DEF Stored
      <4>4. Contents(LogOf(SubSeq(o, 1, 0))) = EmptyTable
        BY <1>6, MagicLog, MagicStored
      <4> QED  BY <1>5, <3>9, <4>1, <4>2, <4>3, <4>4
    <3>10. CASE HalfDone(part)
      BY <3>10
    <3> QED  BY <3>8, <3>9, <3>10, MagicStored
  <2>3. CASE Len(TableMagic) <= m
    <3>1. m \in Nat /\ m < Len(LogOf(o))
      <4>1. LogOf(o) \in Seq(Bytes)
        BY <1>4, LogContents
      <4> QED  BY <4>1
    <3>2. PICK j \in 0..(Len(o) - 1) : \E i \in 0..(Len(WriteOperation(o[j + 1])) - 1) :
             part = LogOf(SubSeq(o, 1, j)) \o SubSeq(WriteOperation(o[j + 1]), 1, i)
      BY <1>4, <2>1, <2>3, <3>1, LogPrefix
    <3> DEFINE x == WriteOperation(o[j + 1])
               a == LogOf(SubSeq(o, 1, j))
    <3> PICK i \in 0..(Len(x) - 1) : part = a \o SubSeq(x, 1, i)
      BY <3>2
    <3>3. j \in 0..n /\ o[j + 1] \in Written
      BY <1>4
    <3>4. Stored(a) /\ IsLog(a)
      BY <1>5, <3>3, LogContents
    <3>5. SubSeq(x, 1, i) \in CutOff(x)
      BY DEF CutOff
    <3>6. part = a \/ HalfDone(part)
      BY <3>3, <3>4, <3>5, StoredAppend
    <3> QED  BY <1>5, <3>3, <3>6
  <2>4. m < Len(TableMagic) \/ Len(TableMagic) <= m
    BY MagicType
  <2> QED  BY <2>2, <2>3, <2>4
<1> QED  BY <1>3, <1>7, <1>8
-----------------------------------------------------------------------------
(* The inductive invariant: what the file is made of while the caller is   *)
(* where it is, that its memory is what the file gives, and that the call  *)
(* it is in will be replayed.                                              *)
Applicable(o, t) ==
    IF o.op = "insert" THEN o.row_id \notin UsedIds(t) ELSE o.row_id \in LiveIds(t)

FileInv ==
    \/ Stored(bytes) /\ pc # "migrate"
    \/ Old(bytes) /\ pc \in {"down", "migrate"}
    \/ HalfDone(bytes) /\ pc = "down"

CallInv ==
    IF pc \in {"ensure", "append"}
    THEN pending \in Calls /\ Applicable(pending, rows)
    ELSE pending = NoOp

LogInv ==
    /\ pc \in {"down", "migrate", "up", "ensure", "append"}
    /\ FileInv /\ CallInv
    /\ rows \in Tables
    /\ pc # "down" => rows = Contents(bytes)
    /\ pc = "append" => IsLog(bytes)

(* An operation that applies to a table is replayed as the memory is       *)
(* changed.                                                                *)
LEMMA ReplayApplicable ==
    ASSUME NEW t \in Tables, NEW o \in Calls, Applicable(o, t)
    PROVE  /\ Replay(t, o) = [t EXCEPT ![o.row_id] =
                  IF o.op = "delete" THEN DeadRow ELSE LiveRow(o.record)]
           /\ Replay(t, o) \in Tables
           /\ Readable(Replay(t, o))
<1>1. /\ o \in Operation /\ o.row_id \in RowIds /\ o.record \in Record
      /\ o.op \in {"insert", "update", "delete"}
  BY DEF Calls, Operation, OpCode
<1>2. Readable(t)
  BY TableAssumption DEF Readable
<1>3. Replay(t, o) = [t EXCEPT ![o.row_id] =
          IF o.op = "delete" THEN DeadRow ELSE LiveRow(o.record)]
  BY <1>1, <1>2 DEF Replay, Applicable, ReplayInsert, ReplayUpdate, ReplayDelete
<1>4. Replay(t, o) \in Tables
  BY <1>1, <1>3, CellTypes DEF Tables
<1> QED  BY <1>3, <1>4, TableAssumption DEF Readable

(* An engine that is up or in a call has a file that takes operations.     *)
LEMMA FileOfCaller ==
    ASSUME LogInv
    PROVE  /\ bytes \in Seq(Bytes)
           /\ pc = "migrate" => Old(bytes) /\ IsLegacy
           /\ pc \in {"up", "ensure", "append"} => Stored(bytes) /\ ~IsLegacy
           /\ pc = "append" /\ RecordFits(pending.record) => pending \in Written
<1>1. bytes \in Seq(Bytes)
  BY StoredFile, OldFile DEF LogInv, FileInv, HalfDone
<1>2. pc = "migrate" => Old(bytes) /\ IsLegacy
  BY OldFile DEF LogInv, FileInv, IsLegacy
<1>3. pc \in {"up", "ensure", "append"} => Stored(bytes) /\ ~IsLegacy
  BY StoredFile DEF LogInv, FileInv, IsLegacy
<1>4. pc = "append" /\ RecordFits(pending.record) => pending \in Written
  BY DEF LogInv, CallInv, Written
<1> QED  BY <1>1, <1>2, <1>3, <1>4

(* What a write that is cut short leaves.                                  *)
LEMMA CutWrites ==
    ASSUME LogInv, pc # "down", CutWrite
    PROVE  \/ bytes' = bytes
           \/ ~IsLegacy /\ HalfDone(bytes')
           \/ /\ Old(bytes) /\ pc = "migrate"
              /\ \/ HalfDone(bytes')
                 \/ /\ Stored(bytes')
                    /\ \E k \in 0..MaxRowId :
                          Contents(bytes') = Promise!FirstRows(Contents(bytes), k)
<1>1. CASE bytes' = bytes
  BY <1>1
<1>2. CASE pc = "ensure" /\ bytes = <<>> /\ bytes' \in CutOff(TableMagic)
  BY <1>2, MagicStored, FileOfCaller
<1>3. CASE pc = "migrate" /\ bytes' \in CutOff(LogOf(InsertsOfRows))
  <2>1. Old(bytes) /\ rows = Contents(bytes)
    BY <1>3, FileOfCaller DEF LogInv
  <2> QED  BY <1>3, <2>1, Migration
<1>4. CASE /\ pc = "append" /\ RecordFits(pending.record)
           /\ \E part \in CutOff(WriteOperation(pending)) : bytes' = bytes \o part
  <2>1. Stored(bytes) /\ IsLog(bytes) /\ pending \in Written /\ ~IsLegacy
    BY <1>4, FileOfCaller DEF LogInv
  <2>2. \A part \in CutOff(WriteOperation(pending)) :
           bytes \o part = bytes \/ HalfDone(bytes \o part)
    BY <2>1, StoredAppend
  <2> QED  BY <1>4, <2>1, <2>2
<1> QED  BY <1>1, <1>2, <1>3, <1>4 DEF CutWrite

(* The invariant holds at the start.                                       *)
LEMMA LogInvInit == Init => LogInv
<1> SUFFICES ASSUME Init PROVE LogInv
  OBVIOUS
<1>1. Stored(bytes) \/ Old(bytes)
  BY DEF Init, Stored, Old
<1> QED  BY <1>1, EmptyTableType DEF Init, LogInv, FileInv, CallInv

(* Every step keeps the invariant.                                         *)
LEMMA LogInvStep == LogInv /\ [Next]_vars => LogInv'
<1> SUFFICES ASSUME LogInv, [Next]_vars PROVE LogInv'
  OBVIOUS
<1>1. CASE LoadRows
  <2>1. CASE Readable(Contents(bytes))
    <3>1. ~HalfDone(bytes)
      BY <2>1 DEF HalfDone, Readable
    <3>2. Contents(bytes) \in Tables
      BY <3>1, StoredFile, OldFile DEF LogInv, FileInv
    <3>3. /\ pc = "down" /\ bytes' = bytes /\ pending' = pending
          /\ rows' = Contents(bytes) /\ pc' = IF IsLegacy THEN "migrate" ELSE "up"
      BY <1>1, <2>1 DEF LoadRows, LoadedTable
    <3>4. Stored(bytes) \/ Old(bytes)
      BY <3>1 DEF LogInv, FileInv
    <3>5. (Stored(bytes) => ~IsLegacy) /\ (Old(bytes) => IsLegacy)
      BY StoredFile, OldFile DEF IsLegacy
    <3>6. FileInv'
      BY <3>3, <3>4, <3>5 DEF FileInv
    <3>7. CallInv'
      BY <3>3 DEF LogInv, CallInv
    <3> QED  BY <3>2, <3>3, <3>6, <3>7 DEF LogInv
  <2>2. CASE ~Readable(Contents(bytes))
    BY <1>1, <2>2 DEF LoadRows, LoadedTable, LogInv, FileInv, CallInv
  <2> QED  BY <2>1, <2>2
<1>2. CASE RewriteAsOperationLog
  <2>1. /\ pc = "migrate" /\ pc' = "up" /\ bytes' = LogOf(InsertsOfRows)
        /\ pending' = pending /\ rows' = rows
    BY <1>2 DEF RewriteAsOperationLog
  <2>2. Old(bytes) /\ rows = Contents(bytes)
    BY <2>1, FileOfCaller DEF LogInv
  <2>3. Stored(bytes') /\ Contents(bytes') = rows
    BY <2>1, <2>2, Migration
  <2>4. FileInv'
    BY <2>1, <2>3 DEF FileInv
  <2>5. CallInv'
    BY <2>1 DEF LogInv, CallInv
  <2> QED  BY <2>1, <2>3, <2>4, <2>5 DEF LogInv
<1>3. ASSUME NEW o \in Calls, Begin(o), Applicable(o, rows) PROVE LogInv'
  <2>1. /\ pc = "up" /\ pc' = "ensure" /\ pending' = o
        /\ bytes' = bytes /\ rows' = rows
    BY <1>3 DEF Begin
  <2>2. FileInv'
    BY <2>1 DEF LogInv, FileInv
  <2>3. CallInv'
    BY <1>3, <2>1 DEF CallInv
  <2> QED  BY <2>1, <2>2, <2>3 DEF LogInv
<1>4. ASSUME NEW record \in Records, AppendInsert(record) PROVE LogInv'
  <2> DEFINE o == Op("insert", NextRowId(rows), record)
  <2>1. NextRowId(rows) \in RowIds /\ NextRowId(rows) \notin UsedIds(rows)
    BY <1>4, NextRowIdAbove, TableAssumption DEF LogInv, AppendInsert, RowIds
  <2>2. record \in Record
    BY LogAssumption
  <2>3. o \in Calls /\ Applicable(o, rows)
    BY <2>1, <2>2 DEF Op, Calls, Operation, OpCode, Applicable
  <2>4. Begin(o)
    BY <1>4 DEF AppendInsert
  <2> HIDE DEF o
  <2> QED  BY <1>3, <2>3, <2>4
<1>5. ASSUME NEW id \in RowIds, NEW record \in Records, AppendUpdate(id, record)
      PROVE  LogInv'
  <2> DEFINE o == Op("update", id, record)
  <2>1. record \in Record
    BY LogAssumption
  <2>2. o \in Calls /\ Applicable(o, rows)
    BY <1>5, <2>1 DEF Op, Calls, Operation, OpCode, Applicable, AppendUpdate
  <2>3. Begin(o)
    BY <1>5 DEF AppendUpdate
  <2> HIDE DEF o
  <2> QED  BY <1>3, <2>2, <2>3
<1>6. ASSUME NEW id \in RowIds, AppendDelete(id) PROVE LogInv'
  <2> DEFINE o == Op("delete", id, EmptyRecord)
  <2>1. o \in Calls /\ Applicable(o, rows)
    BY <1>6, CellTypes DEF Op, Calls, Operation, OpCode, Applicable, AppendDelete
  <2>2. Begin(o)
    BY <1>6 DEF AppendDelete
  <2> HIDE DEF o
  <2> QED  BY <1>3, <2>1, <2>2
<1>7. CASE EnsureOperationFile
  <2>1. Stored(bytes) /\ ~IsLegacy /\ pc = "ensure"
    BY <1>7, FileOfCaller DEF EnsureOperationFile
  <2>2. /\ pc' = "append" /\ pending' = pending /\ rows' = rows
        /\ bytes' = IF bytes = <<>> THEN TableMagic ELSE bytes
    BY <1>7, <2>1 DEF EnsureOperationFile
  <2>3. Stored(bytes') /\ IsLog(bytes') /\ Contents(bytes') = Contents(bytes)
    BY <2>1, <2>2, MagicStored, NoBytesIsNoLog, StoredFile
  <2>4. FileInv'
    BY <2>2, <2>3 DEF FileInv
  <2>5. CallInv'
    BY <2>1, <2>2 DEF LogInv, CallInv
  <2> QED  BY <2>1, <2>2, <2>3, <2>4, <2>5 DEF LogInv
<1>8. CASE AppendOperation
  <2>1. /\ pc = "append" /\ pc' = "up" /\ pending' = NoOp
        /\ Stored(bytes) /\ IsLog(bytes) /\ rows \in Tables /\ rows = Contents(bytes)
    BY <1>8, FileOfCaller DEF AppendOperation, LogInv
  <2>2. CallInv'
    BY <2>1 DEF CallInv
  <2>3. CASE RecordFits(pending.record)
    <3>1. pending \in Written /\ pending \in Calls /\ Applicable(pending, rows)
      BY <2>1, <2>3, FileOfCaller DEF Written, LogInv, CallInv
    <3>2. /\ bytes' = bytes \o WriteOperation(pending)
          /\ rows' = [rows EXCEPT ![pending.row_id] =
                IF pending.op = "delete" THEN DeadRow ELSE LiveRow(pending.record)]
      BY <1>8, <2>3 DEF AppendOperation
    <3>3. rows' = Replay(rows, pending) /\ rows' \in Tables /\ Readable(rows')
      BY <2>1, <3>1, <3>2, ReplayApplicable, ZenonT(60)
    <3>4. Stored(bytes') /\ Contents(bytes') = rows'
      BY <2>1, <3>1, <3>2, <3>3, StoredAppend
    <3>5. FileInv'
      BY <2>1, <3>4 DEF FileInv
    <3> QED  BY <2>1, <2>2, <3>3, <3>4, <3>5 DEF LogInv
  <2>4. CASE ~RecordFits(pending.record)
    <3>1. bytes' = bytes /\ rows' = rows
      BY <1>8, <2>4 DEF AppendOperation
    <3>2. FileInv'
      BY <2>1, <3>1 DEF FileInv
    <3> QED  BY <2>1, <2>2, <3>1, <3>2 DEF LogInv
  <2> QED  BY <2>3, <2>4
<1>9. CASE Crash
  <2>1. /\ pc # "down" /\ pc' = "down" /\ CutWrite
        /\ pending' = NoOp /\ rows' = EmptyTable
    BY <1>9 DEF Crash
  <2>2. Stored(bytes') \/ Old(bytes') \/ HalfDone(bytes')
    BY <2>1, CutWrites DEF LogInv, FileInv
  <2>3. FileInv'
    BY <2>1, <2>2 DEF FileInv
  <2>4. CallInv'
    BY <2>1 DEF CallInv
  <2> QED  BY <2>1, <2>3, <2>4, EmptyTableType DEF LogInv
<1>10. CASE UNCHANGED vars
  BY <1>10 DEF vars, LogInv, FileInv, CallInv
<1> QED  BY <1>1, <1>2, <1>4, <1>5, <1>6, <1>7, <1>8, <1>9, <1>10 DEF Next

(* The invariant holds in every reachable state.                           *)
LEMMA LogInvariant == Spec => []LogInv
BY LogInvInit, LogInvStep, PTL DEF Spec

(* Between its calls the caller has no operation at hand, in a call it has *)
(* one of the log, and a file that takes it.                               *)
THEOREM LogTypes == Spec => []TypeOK
<1>1. LogInv => TypeOK
  <2> SUFFICES ASSUME LogInv PROVE TypeOK
    OBVIOUS
  <2>1. pending \in Operation \cup {NoOp}
    BY DEF LogInv, CallInv, Calls
  <2> QED  BY <2>1, FileOfCaller DEF TypeOK, LogInv
<1> QED  BY <1>1, LogInvariant, PTL

(* While the engine is up its memory is what the file gives.               *)
THEOREM MemoryIsTheFile == Spec => []MemoryMatchesFile
<1>1. LogInv => MemoryMatchesFile
  BY DEF LogInv, MemoryMatchesFile, LoadedTable
<1> QED  BY <1>1, LogInvariant, PTL
-----------------------------------------------------------------------------
(* Steps of the bytes as steps of the abstract table.                      *)
Legacy(b) == b # <<>> /\ ~IsLog(b) /\ Readable(Contents(b))

(* A step that leaves what the file loads as is no step of the table.      *)
LEMMA SameContents ==
    ASSUME Contents(bytes') = Contents(bytes), Legacy(bytes') <=> Legacy(bytes)
    PROVE  [Promise!Next]_Promise!vars
BY DEF Promise!vars, LoadedTable, IsLegacy, Legacy

(* An operation is replayed on the table, or cut short and tears it.       *)
LEMMA AppendStep ==
    ASSUME ~Legacy(bytes), ~Legacy(bytes'),
           \/ Contents(bytes') = Torn
           \/ \E o \in Operation : Contents(bytes') = Replay(Contents(bytes), o)
    PROVE  [Promise!Next]_Promise!vars
<1> DEFINE old == Contents(bytes)
           new == Contents(bytes')
<1>1. new = Torn \/ Promise!Insert(old, new) \/ Promise!Update(old, new)
        \/ Promise!Delete(old, new)
  <2>1. ASSUME NEW o \in Operation, new = Replay(old, o)
        PROVE  Promise!Insert(old, new) \/ Promise!Update(old, new)
                  \/ Promise!Delete(old, new)
    <3>1. /\ o.row_id \in RowIds /\ o.record \in Record
          /\ o.op \in {"insert", "update", "delete"}
      BY DEF Operation, OpCode
    <3> HIDE DEF old, new
    <3>2. CASE o.op = "insert"
      BY <2>1, <3>1, <3>2, PromiseOperators DEF Replay, Promise!Insert
    <3>3. CASE o.op = "update"
      BY <2>1, <3>1, <3>3, PromiseOperators DEF Replay, Promise!Update
    <3>4. CASE o.op = "delete"
      BY <2>1, <3>1, <3>4, PromiseOperators DEF Replay, Promise!Delete
    <3> QED  BY <3>1, <3>2, <3>3, <3>4
  <2> QED  BY <2>1
<1>2. old = LoadedTable /\ new = LoadedTable'
  BY DEF LoadedTable
<1>3. /\ ~(IsLegacy /\ Readable(LoadedTable))
      /\ UNCHANGED (IsLegacy /\ Readable(LoadedTable))
  BY DEF Legacy, IsLegacy, LoadedTable
<1> HIDE DEF old, new
<1>4. Promise!Append(old, new)
  BY <1>1, <1>3 DEF Promise!Append
<1> QED  BY <1>2, <1>4 DEF Promise!Next

(* A migration keeps the table; cut short it leaves its first rows or      *)
(* tears it.                                                               *)
LEMMA MigrateStep ==
    ASSUME Legacy(bytes), ~Legacy(bytes'),
           \/ Contents(bytes') = Contents(bytes)
           \/ Contents(bytes') = Torn
           \/ \E k \in 0..MaxRowId :
                 Contents(bytes') = Promise!FirstRows(Contents(bytes), k)
    PROVE  [Promise!Next]_Promise!vars
<1> DEFINE old == Contents(bytes)
           new == Contents(bytes')
<1>1. old = LoadedTable /\ new = LoadedTable'
  BY DEF LoadedTable
<1>2. /\ IsLegacy /\ Readable(LoadedTable)
      /\ ~(IsLegacy /\ Readable(LoadedTable))'
  BY DEF Legacy, IsLegacy, LoadedTable
<1>3. Readable(old)
  BY DEF Legacy
<1>4. new = old \/ new = Torn \/ \E k \in 0..MaxRowId : new = Promise!FirstRows(old, k)
  OBVIOUS
<1> HIDE DEF old, new
<1>5. new = old \/ Promise!CutMigration(old, new) \/ new = Torn
  BY <1>3, <1>4, PromiseOperators DEF Promise!CutMigration
<1>6. Promise!Migrate(old, new)
  BY <1>2, <1>5 DEF Promise!Migrate
<1> QED  BY <1>1, <1>6 DEF Promise!Next

(* What a file is decides whether it has the old format.                   *)
LEMMA LegacyFacts ==
    /\ \A b : Stored(b) => ~Legacy(b)
    /\ \A b : HalfDone(b) => ~Legacy(b) /\ Contents(b) = Torn
    /\ \A b : Old(b) => Legacy(b)
<1>1. ASSUME NEW b, Stored(b) PROVE ~Legacy(b)
  BY <1>1, StoredFile DEF Legacy
<1>2. ASSUME NEW b, HalfDone(b) PROVE ~Legacy(b) /\ Contents(b) = Torn
  BY <1>2 DEF HalfDone, Legacy, Readable
<1>3. ASSUME NEW b, Old(b) PROVE Legacy(b)
  BY <1>3, OldFile, TableAssumption DEF Legacy, Readable
<1> QED  BY <1>1, <1>2, <1>3

(* Every step of the bytes is a step of the table or leaves it as it is.   *)
LEMMA StepsAreTableSteps == LogInv /\ [Next]_vars => [Promise!Next]_Promise!vars
<1> SUFFICES ASSUME LogInv, [Next]_vars PROVE [Promise!Next]_Promise!vars
  OBVIOUS
<1>1. CASE bytes' = bytes
  BY <1>1, SameContents
<1>2. CASE RewriteAsOperationLog
  <2>1. Old(bytes) /\ rows = Contents(bytes)
    BY <1>2, FileOfCaller DEF RewriteAsOperationLog, LogInv
  <2>2. Stored(bytes') /\ Contents(bytes') = Contents(bytes)
    BY <1>2, <2>1, Migration DEF RewriteAsOperationLog
  <2> QED  BY <2>1, <2>2, LegacyFacts, MigrateStep
<1>3. CASE EnsureOperationFile /\ bytes' # bytes
  <2>1. bytes = <<>> /\ bytes' = TableMagic
    BY <1>3 DEF EnsureOperationFile
  <2>2. Contents(bytes') = Contents(bytes)
    BY <2>1, MagicStored, NoBytesIsNoLog
  <2>3. Stored(bytes) /\ Stored(bytes')
    BY <2>1, MagicStored DEF Stored
  <2> QED  BY <2>2, <2>3, LegacyFacts, SameContents
<1>4. CASE AppendOperation /\ bytes' # bytes
  <2>1. /\ pc = "append" /\ RecordFits(pending.record)
        /\ bytes' = bytes \o WriteOperation(pending)
    BY <1>4 DEF AppendOperation
  <2>2. /\ Stored(bytes) /\ IsLog(bytes) /\ pending \in Written
        /\ pending \in Calls /\ Applicable(pending, rows)
        /\ rows = Contents(bytes) /\ rows \in Tables
    BY <2>1, FileOfCaller DEF LogInv, CallInv
  <2>3. Contents(bytes') = Replay(Contents(bytes), pending) /\ Stored(bytes')
    BY <2>1, <2>2, ReplayApplicable, StoredAppend
  <2>4. pending \in Operation
    BY <2>2, WrittenType
  <2> QED  BY <2>2, <2>3, <2>4, LegacyFacts, AppendStep
<1>5. CASE Crash /\ bytes' # bytes
  <2>1. pc # "down" /\ CutWrite
    BY <1>5 DEF Crash
  <2>2. CASE ~IsLegacy /\ HalfDone(bytes')
    <3>1. ~Legacy(bytes)
      BY <2>2 DEF IsLegacy, Legacy
    <3> QED  BY <2>2, <3>1, LegacyFacts, AppendStep
  <2>3. CASE Old(bytes) /\ HalfDone(bytes')
    BY <2>3, LegacyFacts, MigrateStep
  <2>4. CASE /\ Old(bytes) /\ Stored(bytes')
             /\ \E k \in 0..MaxRowId :
                   Contents(bytes') = Promise!FirstRows(Contents(bytes), k)
    BY <2>4, LegacyFacts, MigrateStep
  <2> QED  BY <1>5, <2>1, <2>2, <2>3, <2>4, CutWrites
<1> QED  BY <1>1, <1>2, <1>3, <1>4, <1>5
         DEF Next, vars, LoadRows, AppendInsert, AppendUpdate, AppendDelete, Begin

(* The bytes of a table file implement the table the engine takes them     *)
(* for: an operation that was appended is replayed, one that was cut short *)
(* is torn and never read as another one, and a migration keeps the rows.  *)
THEOREM BytesImplementTable == Spec => ImplementsTable
<1>1. Init => Promise!Init
  <2> SUFFICES ASSUME Init PROVE Promise!Init
    OBVIOUS
  <2>1. Stored(bytes) \/ Old(bytes)
    BY DEF Init, Stored, Old
  <2>2. LoadedTable \in Tables
    BY <2>1, StoredFile, OldFile DEF LoadedTable
  <2> QED  BY <2>2, PromiseOperators DEF Promise!Init
<1> QED  BY <1>1, StepsAreTableSteps, LogInvariant, PTL
         DEF Spec, Promise!Spec, ImplementsTable
=============================================================================
