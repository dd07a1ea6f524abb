-------------------------- MODULE EngineInvariant --------------------------
(***************************************************************************)
(* The inductive invariant of Spec when every value fits an index page     *)
(* and every default the schema file: why the index files the manifest     *)
(* calls clean are those of the log.  It holds at every point where the    *)
(* process may stop, so it says for every place in a handler how far       *)
(* memory, log and index files are in step.                                *)
(***************************************************************************)
EXTENDS Engine

(* Every value fits an index page, and every default the schema file.      *)
Storable == Oversized = {} /\ \A s \in Schemas : EncodesSchema(s)

(* The schema file and the tables have been read.                          *)
Loaded == pc \notin {"down", "manifest", "load"}

(* Where the handler of each operation can be, and for which task.         *)
Placed ==
    /\ \/ pc \in {"down", "idle"} /\ call = NoCall
       \/ call.op = "open" /\ call.task = "none" /\ pc \in Opening
       \/ /\ call.op = "open" /\ call.task = "rebuild"
          /\ pc \in {"dirty", "rebuild", "save", "clean"}
       \/ /\ call.op = "register" /\ call.task = "none"
          /\ pc \in {"save_schemas", "load_rows", "index"}
       \/ /\ call.op = "register" /\ call.task = "model"
          /\ pc \in {"dirty", "save", "clean"}
       \/ /\ call.op \in {"insert", "update"} /\ call.task = "none"
          /\ pc = "unique"
       \/ /\ call.op \in {"insert", "update", "delete"}
          /\ call.task = "write"
          /\ pc \in {"dirty", "append", "save", "clean"}
    /\ pc \notin {"down", "idle"} => outcome = "none"
    /\ (call.op # "open" \/ pc = "clean") => call.left = {}

(* The schemas in memory are those of the file, but for the one about to   *)
(* be written to it.                                                       *)
SchemasKept ==
    Loaded =>
        /\ schemaFile # Unreadable
        /\ \A m \in Models :
              \/ schemas[m] = schemaFile[m]
              \/ /\ pc = "save_schemas" /\ m = call.model
                 /\ schemaFile[m] = None

(* Every id in use is below the next one, unless that is the last of all.  *)
Above(id, t) ==
    /\ id \in RowIds
    /\ id = MaxRowId \/ \A used \in UsedIds(t) : used < id

(* The rows in memory are those of the log, but for a model that is being  *)
(* registered for the first time.                                          *)
Unknown(m) ==
    schemas[m] = None /\ rows[m] = None /\ next_row_ids[m] = 0 /\ indexes[m] = None

RowsLoaded(m) ==
    schemas[m] # None /\ rows[m] = table[m] /\ Above(next_row_ids[m], table[m])

RowsToLoad(m) ==
    /\ pc \in {"save_schemas", "load_rows"} /\ m = call.model
    /\ schemas[m] # None /\ rows[m] = None /\ table[m] = EmptyTable

RowsKept ==
    IF Loaded
    THEN \A m \in Models : Unknown(m) \/ RowsLoaded(m) \/ RowsToLoad(m)
    ELSE NoMemory(schemas, rows, next_row_ids, indexes)

(* A model the schema file does not name has neither rows nor indexes.     *)
NothingUnnamed ==
    schemaFile # Unreadable =>
        \A m \in Models :
            schemaFile[m] = None =>
                table[m] = EmptyTable /\ \A f \in Fields : ixFile[m][f] = NoMap

(* No live row but id shares a unique value with the row.                  *)
RowUnique(schema, t, id, row) ==
    \A other \in LiveIds(t) \ {id} :
        \A f \in UniqueFields(schema) :
            (f \in DOMAIN row /\ f \in DOMAIN t[other].record) =>
                row[f] # t[other].record[f]

(* The row a write has in hand is valid, conflicts with no other row, and  *)
(* goes to a row id that is new for an insert and live for the others.     *)
RowInHand ==
    LET m == call.model
    IN  /\ call.op \in {"insert", "update"} => ValidRow(schemas[m], call.row)
        /\ (call.op \in {"update", "delete"}
              /\ pc \in {"unique", "dirty", "append"}) =>
              call.row_id \in LiveIds(table[m])
        /\ (call.op = "insert" /\ pc \in {"unique", "dirty", "append"}) =>
              next_row_ids[m] < MaxRowId
        /\ (call.op = "insert" /\ pc = "unique") => call.row_id = 0
        /\ (call.op = "insert" /\ pc \in {"dirty", "append"}) =>
              call.row_id = next_row_ids[m]
        /\ (call.op \in {"insert", "update"} /\ pc \in {"dirty", "append"}) =>
              RowUnique(schemas[m], table[m], call.row_id, call.row)

(* The indexes of a model, in memory and in files, are those of its log.   *)
Saved(m, S) == \A f \in S : ixFile[m][f] = EntriesOf(table[m], f)

Steady(m) ==
    /\ indexes[m] = IndexOf(schemas[m], table[m])
    /\ Saved(m, UniqueFields(schemas[m]))

(* The models whose indexes the running handler may not have seen to yet.  *)
Unsettled(m) ==
    \/ call.op = "open" /\ (pc = "indexes" \/ m \in call.left)
    \/ call.op = "register" /\ m = call.model
    \/ pc = "save" /\ m = call.model

OthersSteady ==
    Loaded => \A m \in KnownModels : Unsettled(m) \/ Steady(m)

(* What a handler that saves indexes has in hand, and what it has saved.   *)
BuiltInHand ==
    LET m == call.model
    IN  /\ (pc = "save" \/ (call.task = "model" /\ pc \in {"dirty", "clean"})) =>
              call.built = IndexOf(schemas[m], table[m])
        /\ pc = "save" =>
              /\ schemas[m] # None
              /\ call.todo \subseteq UniqueFields(schemas[m])
              /\ Saved(m, UniqueFields(schemas[m]) \ call.todo)
              /\ call.task # "model" => indexes[m] = call.built
        /\ (call.task = "model" /\ pc = "dirty") =>
              call.todo = UniqueFields(schemas[m])
        /\ (call.task = "model" /\ pc = "clean") =>
              Saved(m, UniqueFields(schemas[m]))

(* While a log and its index files are out of step the manifest says so.   *)
MarkedDirty == pc \in {"append", "rebuild", "save", "clean"} => ~ixClean

(* What holds of the files, and what of the handler and its memory.        *)
FileInv ==
    /\ NothingUnnamed
    /\ LogReplays
    /\ UniqueInLog
    /\ StoredRowsValid
    /\ CleanImpliesFresh

HandlerInv ==
    /\ Placed
    /\ SchemasKept
    /\ RowsKept
    /\ RowInHand
    /\ OthersSteady
    /\ BuiltInHand
    /\ MarkedDirty
    /\ OpenSucceeds

(* The inductive invariant: the files are always such that the next open   *)
(* may believe them, and at every place of every handler memory, log and   *)
(* index files differ only in what that handler has still to write.        *)
SafetyInv == FileInv /\ HandlerInv

-----------------------------------------------------------------------------
(***************************************************************************)
(* What holds when file operations fail, too, and whatever does not fit a  *)
(* page or the schema file (FaultySpec, without Storable).                 *)
(***************************************************************************)
OneSchema(row) == \E schema \in Schemas : ValidRow(schema, row)

(* Every row in a log or on its way to one was checked against a schema.   *)
RowsChecked ==
    /\ RowsOfOneSchema
    /\ call.op \in {"insert", "update"} => OneSchema(call.row)

(* The rows in memory are those of the log and the counter is the one that *)
(* replay counts; without rows it stands at the first id, which a log with *)
(* operations has used.                                                    *)
RowsOfLog(m) ==
    /\ Readable(table[m]) => table[m] = EmptyTable \/ 1 \in UsedIds(table[m])
    /\ rows[m] = None => next_row_ids[m] \in {0, 1}
    /\ rows[m] # None => next_row_ids[m] # 0
    /\ (rows[m] # None /\ Readable(table[m])) =>
          rows[m] = table[m] /\ next_row_ids[m] = NextRowId(table[m])

IdInHand ==
    (call.op = "insert" /\ call.task = "write" /\ pc \in {"dirty", "append"}) =>
        call.row_id = next_row_ids[call.model]

MemoryKept == IdInHand /\ \A m \in Models : RowsOfLog(m)

(* The index files of the model at hand hold the fields already saved; and *)
(* no field is left when the manifest is about to be marked clean.         *)
FieldsSaved(S) == \A f \in S : ixFile[call.model][f] = call.built[f]

IndexesInHand ==
    /\ pc \in {"manifest", "load", "indexes"} => call.model = None
    /\ (pc = "dirty" /\ call.task = "rebuild") => call.model = None
    /\ (pc = "dirty" /\ call.task = "model") =>
          IndexedFields(call.built) \subseteq call.todo
    /\ pc = "save" =>
          /\ FieldsSaved(IndexedFields(call.built) \ call.todo)
          /\ call.task # "model" => indexes[call.model] = call.built
    /\ (pc = "clean" /\ call.task = "model") =>
          FieldsSaved(IndexedFields(call.built))
    /\ (pc \in {"rebuild", "clean"} /\ call.task # "model" /\ call.model # None) =>
          ~Lagging(call.model)

FaultInv == RowsChecked /\ MemoryKept /\ MarkedDirty /\ IndexesInHand
=============================================================================
