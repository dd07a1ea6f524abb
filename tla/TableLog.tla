------------------------------ MODULE TableLog ------------------------------
(***************************************************************************)
(* One table file, byte by byte: the operations appended to it, their      *)
(* replay, and the old format, whose records are read once and rewritten   *)
(* in place as inserts.  The caller is an engine that loads the file,      *)
(* keeps the rows in memory and appends one operation per call.  A write   *)
(* that is cut short leaves the bytes it got to; the process stops with it *)
(* (Crash) or goes on with an error (IoError).                             *)
(***************************************************************************)
EXTENDS TableRows, StorageBytes

CONSTANTS TableMagic,   \* the first bytes of an operation log (b"CRUSTTB1")
          Records,      \* the records a caller may insert
          LegacyFiles,  \* the files of the old format: sequences of records
          MaxLen        \* bound on the bytes of a file an operation goes to

ASSUME LogAssumption ==
          /\ TableMagic \in Seq(Bytes)
          /\ Records \subseteq Record
          /\ \A record \in Records :
                RecordFits(record) => Len(encode_record(record)) < Power[WordBytes]
          /\ \A records \in LegacyFiles :
                /\ records \in Seq({record \in Records : RecordFits(record)})
                /\ records # <<>> /\ Len(records) < MaxRowId
          /\ MaxRowId < Width
          /\ MaxLen \in Nat

VARIABLES
    bytes,          \* the file; <<>> also when there is none
    pc,             \* where the caller is
    pending,        \* the operation it appends
    rows            \* the table it has in memory, of StoredRow

vars == <<bytes, pc, pending, rows>>

OpCode == [insert |-> 1, delete |-> 2, update |-> 3]

Operation == [op : DOMAIN OpCode, row_id : RowIds, record : Record]

Op(op, id, record) == [op |-> op, row_id |-> id, record |-> record]

NoOp == [op |-> "none"]

-----------------------------------------------------------------------------
(***************************************************************************)
(* Writing                                                                 *)
(***************************************************************************)
WriteRecord(record) ==
    LET payload == encode_record(record)
    IN  WriteWord(Len(payload)) \o payload

WriteOperation(o) ==
    <<OpCode[o.op]>> \o WriteInt(o.row_id) \o
        IF o.op = "delete" THEN <<>> ELSE WriteRecord(o.record)

LogOf(operations) ==
    TableMagic \o FlattenSeq([i \in DOMAIN operations |-> WriteOperation(operations[i])])

LegacyBytes(records) ==
    FlattenSeq([i \in DOMAIN records |-> WriteRecord(records[i])])

-----------------------------------------------------------------------------
(***************************************************************************)
(* Reading                                                                 *)
(***************************************************************************)
ReadOperation(input, at) ==
    Then(ReadByte(input, at), LAMBDA p, code :
    Then(ReadUInt(input, p, IntBytes), LAMBDA q, id :
        CASE code = OpCode.delete -> Got(q, Op("delete", id, EmptyRecord))
          [] code = OpCode.insert -> Then(ReadRecord(input, q),
                LAMBDA r, record : Got(r, Op("insert", id, record)))
          [] code = OpCode.update -> Then(ReadRecord(input, q),
                LAMBDA r, record : Got(r, Op("update", id, record)))
          [] OTHER -> NotRead))

Replay(table, o) ==
    CASE o.op = "insert" -> ReplayInsert(table, o.row_id, o.record)
      [] o.op = "update" -> ReplayUpdate(table, o.row_id, o.record)
      [] o.op = "delete" -> ReplayDelete(table, o.row_id)

(* replay_operations, whose loop applies one operation after the other.    *)
(* (The set binds the table of the turn before, which TLC would else       *)
(* compute at every use of it.)                                            *)
TableAfter(operations) ==
    LET after[i \in 0..Len(operations)] ==
            IF i = 0 THEN EmptyTable
            ELSE CHOOSE table \in
                    {Replay(old, operations[i]) : old \in {after[i - 1]}} : TRUE
    IN  after[Len(operations)]

Replayed(read) == IF read.at = 0 THEN Torn ELSE TableAfter(read.value)

(* load_legacy_records: the rows get the ids 1, 2 and so on.               *)
InsertsOf(records) == [i \in DOMAIN records |-> Op("insert", i, records[i])]

IsLog(input) == IsPrefix(TableMagic, input)

Contents(input) ==
    CASE input = <<>> -> EmptyTable
      [] IsLog(input) ->
            Replayed(ReadAll(input, Len(TableMagic) + 1,
                       [at \in Positions(input) |-> ReadOperation(input, at)]))
      [] OTHER ->
            Replayed(Then(ReadAll(input, 1,
                            [at \in Positions(input) |-> ReadRecord(input, at)]),
                          LAMBDA p, records : Got(p, InsertsOf(records))))

(* The magic is told from the length of a first record: read as a word it  *)
(* is more than a file that ends inside of it can hold.                    *)
ASSUME MagicAssumption ==
          /\ WordBytes <= Len(TableMagic)
          /\ FromLittleEndian(SubSeq(TableMagic, 1, WordBytes)) \in Nat
          /\ FromLittleEndian(SubSeq(TableMagic, 1, WordBytes)) > Len(TableMagic)
          /\ \A records \in LegacyFiles : ~IsLog(LegacyBytes(records))

LoadedTable == Contents(bytes)

IsLegacy == bytes # <<>> /\ ~IsLog(bytes)

-----------------------------------------------------------------------------
Init ==
    /\ bytes \in {<<>>} \cup {LegacyBytes(records) : records \in LegacyFiles}
    /\ pc = "down" /\ pending = NoOp /\ rows = EmptyTable

(* Seeded defect: a file of the old format stays as it is.                 *)
LoadUnmigrated ==
    /\ pc = "down"
    /\ IF Readable(LoadedTable)
       THEN rows' = LoadedTable /\ pc' = "up"
       ELSE UNCHANGED <<rows, pc>>
    /\ UNCHANGED <<bytes, pending>>

(* load_rows.  A file that does not load leaves the caller down.           *)
LoadRows ==
    /\ pc = "down"
    /\ IF Readable(LoadedTable)
       THEN /\ rows' = LoadedTable
            /\ pc' = IF IsLegacy THEN "migrate" ELSE "up"
       ELSE UNCHANGED <<rows, pc>>
    /\ UNCHANGED <<bytes, pending>>

(* rewrite_as_operation_log: fs::write truncates the file and writes it.   *)
InsertsOfRows ==
    [id \in 1..Cardinality(UsedIds(rows)) |-> Op("insert", id, rows[id].record)]

RewriteAsOperationLog ==
    /\ pc = "migrate"
    /\ bytes' = LogOf(InsertsOfRows)
    /\ pc' = "up"
    /\ UNCHANGED <<pending, rows>>

(* append_insert, append_update and append_delete, with what the engine    *)
(* calls them with: a new row id, or a live row.                           *)
Begin(o) ==
    /\ pc = "up" /\ Len(bytes) < MaxLen
    /\ pending' = o
    /\ pc' = "ensure"
    /\ UNCHANGED <<bytes, rows>>

AppendInsert(record) ==
    NextRowId(rows) < MaxRowId /\ Begin(Op("insert", NextRowId(rows), record))

AppendUpdate(id, record) == id \in LiveIds(rows) /\ Begin(Op("update", id, record))

AppendDelete(id) == id \in LiveIds(rows) /\ Begin(Op("delete", id, EmptyRecord))

(* Seeded defect: the magic is written whether the file is new or not.     *)
EnsureNewFile ==
    /\ pc = "ensure"
    /\ bytes' = TableMagic
    /\ pc' = "append"
    /\ UNCHANGED <<pending, rows>>

(* ensure_operation_file: a new file gets its magic, any other must have   *)
(* it, else the append is refused.                                         *)
EnsureOperationFile ==
    /\ pc = "ensure"
    /\ bytes' = IF bytes = <<>> THEN TableMagic ELSE bytes
    /\ IF IsLegacy
       THEN pc' = "up" /\ pending' = NoOp
       ELSE pc' = "append" /\ UNCHANGED pending
    /\ UNCHANGED rows

(* The operation is encoded and written, and the engine's memory follows.  *)
AppendOperation ==
    /\ pc = "append"
    /\ IF RecordFits(pending.record)
       THEN /\ bytes' = bytes \o WriteOperation(pending)
            /\ rows' = [rows EXCEPT ![pending.row_id] =
                   IF pending.op = "delete" THEN DeadRow ELSE LiveRow(pending.record)]
       ELSE UNCHANGED <<bytes, rows>>
    /\ pc' = "up" /\ pending' = NoOp

-----------------------------------------------------------------------------
(***************************************************************************)
(* A write that does not complete leaves a strict prefix of what it was to *)
(* write, in place of the file or behind it.                               *)
(***************************************************************************)
CutOff(output) == {SubSeq(output, 1, n) : n \in 0..(Len(output) - 1)}

CutWrite ==
    \/ UNCHANGED bytes
    \/ pc = "ensure" /\ bytes = <<>> /\ bytes' \in CutOff(TableMagic)
    \/ pc = "migrate" /\ bytes' \in CutOff(LogOf(InsertsOfRows))
    \/ /\ pc = "append" /\ RecordFits(pending.record)
       /\ \E part \in CutOff(WriteOperation(pending)) : bytes' = bytes \o part

Crash ==
    /\ pc # "down"
    /\ CutWrite
    /\ pc' = "down" /\ pending' = NoOp /\ rows' = EmptyTable

(* The write returns an error and so does the call; a caller that was      *)
(* loading the file does not come up.                                      *)
IoError ==
    /\ pc \in {"migrate", "ensure", "append"}
    /\ CutWrite
    /\ pending' = NoOp
    /\ IF pc = "migrate"
       THEN pc' = "down" /\ rows' = EmptyTable
       ELSE pc' = "up" /\ UNCHANGED rows

Next ==
    \/ LoadRows \/ RewriteAsOperationLog
    \/ \E record \in Records : AppendInsert(record)
    \/ \E id \in RowIds, record \in Records : AppendUpdate(id, record)
    \/ \E id \in RowIds : AppendDelete(id)
    \/ EnsureOperationFile \/ AppendOperation
    \/ Crash

FaultyNext == Next \/ IoError

Spec == Init /\ [][Next]_vars

FaultySpec == Init /\ [][FaultyNext]_vars

-----------------------------------------------------------------------------
(***************************************************************************)
(* Properties                                                              *)
(***************************************************************************)
(* The caller is never in a call with a file that would refuse it.         *)
TypeOK ==
    /\ bytes \in Seq(Bytes)
    /\ pc \in {"down", "migrate", "up", "ensure", "append"}
    /\ pending \in Operation \cup {NoOp}
    /\ rows \in Tables
    /\ pc = "migrate" => IsLegacy
    /\ pc \in {"up", "ensure"} => ~IsLegacy
    /\ pc = "append" => IsLog(bytes)

(* While an engine is up its memory is what the file gives: everything it  *)
(* acknowledged, through any number of reopenings, migrations and stops    *)
(* before, is there for the next open, and nothing else.                   *)
MemoryMatchesFile == pc \in {"up", "ensure", "append"} => rows = LoadedTable

(* The file implements TableCell: its bytes load as a table that every     *)
(* operation changes as its replay does, and wherever a write is cut short *)
(* they load as they did before or not at all.                             *)
Promise == INSTANCE TableCell WITH
              table <- LoadedTable, legacy <- IsLegacy /\ Readable(LoadedTable)

ImplementsTable == Promise!Spec

(* An append that returns Ok has changed what the file loads as in the way *)
(* it changed the memory, also when a write of the session failed before.  *)
AcknowledgedLoads ==
    [][ (pc = "append" /\ rows' # rows /\ pc' = "up") => LoadedTable' = rows' ]_vars
=============================================================================
