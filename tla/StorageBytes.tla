---------------------------- MODULE StorageBytes ----------------------------
(***************************************************************************)
(* The byte format shared by the table files and the schema file: how      *)
(* integers, strings, values and records are written, and how a Cursor     *)
(* reads them.  Names of fields and models are byte strings; values are    *)
(* those of IndexKey.  A reader takes the position at which it starts and  *)
(* gives the position behind what it read, or 0 when it failed.            *)
(***************************************************************************)
EXTENDS Schema, IndexKey

CONSTANTS LenBytes,     \* the bytes of the length of a string (2)
          WordBytes,    \* the bytes of a count or of a record length (4)
          TextBytes     \* the bytes that may stand in a string: UTF-8

ASSUME FormatAssumption ==
          /\ LenBytes \in Nat \ {0}
          /\ WordBytes \in Nat \ {0}
          /\ TextBytes \subseteq Bytes
          /\ \A v \in Values :
                IsKeyValue(v) /\ (v.type = "string" => v.payload \in Seq(TextBytes))
          /\ Fields \subseteq Seq(TextBytes)
          /\ IsFiniteSet(Fields) /\ Cardinality(Fields) < Power[WordBytes]

-----------------------------------------------------------------------------
(***************************************************************************)
(* Writing                                                                 *)
(***************************************************************************)
LittleEndian(n, width) == [i \in 1..width |-> (n \div Power[i - 1]) % Base]

WriteWord(n) == LittleEndian(n, WordBytes)
WriteInt(n) == LittleEndian(n % Width, IntBytes)

(* usize_to_u16: what write_string refuses.                                *)
TextFits(text) == Len(text) < Power[LenBytes]

WriteString(text) == LittleEndian(Len(text), LenBytes) \o text

ValueTag == [null |-> 0, int |-> 1, string |-> 2, bool |-> 3]

WriteValue(v) ==
    <<ValueTag[v.type]>> \o
        CASE v.type = "null"   -> <<>>
          [] v.type = "int"    -> WriteInt(v.payload[1])
          [] v.type = "string" -> WriteString(v.payload)
          [] v.type = "bool"   -> v.payload

ValueFits(v) == v.type = "string" => TextFits(v.payload)

(* The keys of a BTreeMap come in the order of their bytes.                *)
SortedNames(names) ==
    [i \in 1..Cardinality(names) |->
        CHOOSE name \in names :
            Cardinality({other \in names : KeyLess(other, name)}) = i - 1]

encode_record(record) ==
    LET names == SortedNames(DOMAIN record)
    IN  WriteWord(Len(names)) \o
        FlattenSeq([i \in DOMAIN names |->
                       WriteString(names[i]) \o WriteValue(record[names[i]])])

RecordFits(record) ==
    \A name \in DOMAIN record : TextFits(name) /\ ValueFits(record[name])

-----------------------------------------------------------------------------
(***************************************************************************)
(* Reading                                                                 *)
(***************************************************************************)
Got(at, value) == [at |-> at, value |-> value]
NotRead == Got(0, <<>>)

(* Once a reader has failed everything after it fails.  (The set binds the *)
(* result of the read, which TLC would else compute at every use of it.)   *)
Then(read, Next(_, _)) ==
    CHOOSE result \in
        {IF r.at = 0 THEN NotRead ELSE Next(r.at, r.value) : r \in {read}} : TRUE

(* Seeded defect: fewer bytes than asked for are taken for all of them.    *)
ReadAtMost(bytes, at, len) ==
    IF at + len - 1 > Len(bytes)
    THEN Got(Len(bytes) + 1, SubSeq(bytes, at, Len(bytes)))
    ELSE Got(at + len, SubSeq(bytes, at, at + len - 1))

ReadExact(bytes, at, len) ==
    IF at + len - 1 > Len(bytes)
    THEN NotRead
    ELSE Got(at + len, SubSeq(bytes, at, at + len - 1))

Finished(bytes, at) == at = Len(bytes) + 1

FromLittleEndian(bytes) ==
    LET upTo[i \in 0..Len(bytes)] ==
            IF i = 0 THEN 0 ELSE upTo[i - 1] + bytes[i] * Power[i - 1]
    IN  upTo[Len(bytes)]

ReadUInt(bytes, at, width) ==
    Then(ReadExact(bytes, at, width),
         LAMBDA p, digits : Got(p, FromLittleEndian(digits)))

ReadByte(bytes, at) == ReadUInt(bytes, at, 1)
ReadWord(bytes, at) == ReadUInt(bytes, at, WordBytes)

(* Seeded defect: the sign is lost.                                        *)
ReadUnsigned(bytes, at) == ReadUInt(bytes, at, IntBytes)

ReadInt(bytes, at) ==
    Then(ReadUInt(bytes, at, IntBytes), LAMBDA p, u : Got(p, AsSigned(u)))

ReadBool(bytes, at) ==
    Then(ReadByte(bytes, at),
         LAMBDA p, b : IF b \in {0, 1} THEN Got(p, b = 1) ELSE NotRead)

ReadString(bytes, at) ==
    Then(ReadUInt(bytes, at, LenBytes), LAMBDA p, len :
    Then(ReadExact(bytes, p, len), LAMBDA q, text :
         IF \A i \in DOMAIN text : text[i] \in TextBytes
         THEN Got(q, text) ELSE NotRead))

ReadValue(bytes, at) ==
    Then(ReadByte(bytes, at), LAMBDA p, tag :
        CASE tag = ValueTag.null   -> Got(p, NullValue)
          [] tag = ValueTag.int    -> Then(ReadInt(bytes, p),
                                           LAMBDA q, n : Got(q, IntValue(n)))
          [] tag = ValueTag.string -> Then(ReadString(bytes, p),
                                           LAMBDA q, text : Got(q, StringValue(text)))
          [] tag = ValueTag.bool   -> Then(ReadBool(bytes, p), LAMBDA q, b :
                                           Got(q, BoolValue(IF b THEN 1 ELSE 0)))
          [] OTHER                 -> NotRead)

(* What is read at each position: the reader of an entry or of an item is  *)
(* a function of where it starts.                                          *)
Positions(bytes) == 1..(Len(bytes) + 1)

Put(map, name, entry) ==
    [key \in DOMAIN map \cup {name} |-> IF key = name THEN entry ELSE map[key]]

(* One more entry of a map, a name and what Entry reads behind it; a later *)
(* entry of a name replaces an earlier one.                                *)
EntryAfter(bytes, read, Entry) ==
    Then(read, LAMBDA p, map :
    Then(ReadString(bytes, p), LAMBDA q, name :
    Then(Entry[q], LAMBDA r, entry : Got(r, Put(map, name, entry)))))

ReadMap(bytes, at, count, Entry) ==
    LET read[n \in 0..count] ==
            IF n = 0 THEN Got(at, EmptyRecord)
            ELSE EntryAfter(bytes, read[n - 1], Entry)
    IN  read[count]

(* A word that counts the entries of a map, and the map.                   *)
ReadCounted(bytes, at, Entry) ==
    Then(ReadWord(bytes, at), LAMBDA p, count : ReadMap(bytes, p, count, Entry))

(* All of the bytes, item by item, as a sequence.  An item has a byte at   *)
(* least, so that there are no more turns than bytes.                      *)
ItemAfter(bytes, read, Item) ==
    Then(read, LAMBDA p, items :
         IF Finished(bytes, p) THEN Got(p, items)
         ELSE Then(Item[p], LAMBDA q, item : Got(q, Append(items, item))))

ReadAll(bytes, at, Item) ==
    LET read[n \in 0..Len(bytes)] ==
            IF n = 0 THEN Got(at, <<>>) ELSE ItemAfter(bytes, read[n - 1], Item)
    IN  read[Len(bytes)]

decode_record(bytes) ==
    Then(ReadCounted(bytes, 1, [q \in Positions(bytes) |-> ReadValue(bytes, q)]),
         LAMBDA p, record : IF Finished(bytes, p) THEN Got(p, record) ELSE NotRead)

(* A record behind its length, as table files hold it.                     *)
ReadRecord(bytes, at) ==
    Then(ReadWord(bytes, at), LAMBDA p, len :
    Then(ReadExact(bytes, p, len), LAMBDA q, payload :
    Then(decode_record(payload), LAMBDA end, record : Got(q, record))))
=============================================================================
