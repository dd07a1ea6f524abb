------------------------------- MODULE Engine -------------------------------
(***************************************************************************)
(* The native engine over its directory of files: opening, registering a   *)
(* schema, insert, update and delete, with the exact indexes and their     *)
(* clean/dirty manifest.  A handler that writes several files is a         *)
(* sequence of actions, one per file write, so that the process may stop   *)
(* (Crash) or a write may fail (IoError) between any two of them or in the *)
(* middle of one.  pc is the point the engine has reached, call what the   *)
(* handler has in hand.                                                    *)
(***************************************************************************)
EXTENDS TableIndexes

CONSTANTS Models,       \* model names
          Schemas,      \* the schemas a caller may register
          Inserts,      \* the records a caller may insert
          Updates,      \* the changes a caller may ask of update
          Filters,      \* the filters a caller may search with
          Oversized,    \* values whose key does not fit an index page
          Unencodable,  \* strings longer than a file can hold
          Unreadable    \* a schema file that does not parse

ASSUME EngineAssumption ==
          /\ \A s \in Schemas : IsModelSchema(s)
          /\ Inserts \subseteq Record
          /\ Updates \subseteq Record
          /\ Filters \subseteq Record
          /\ Oversized \subseteq Values
          /\ Unencodable \subseteq Values
          /\ None \notin Schemas
          /\ None \notin Models
          /\ Unreadable \notin [Models -> Schemas \cup {None}]

VARIABLES
    (* files *)
    meta,           \* manifest.crust: "absent", "ok" or "bad"
    schemaFile,     \* schema.crust
    table,          \* tables/<model>.tbl, as replay reads it
    ixClean,        \* indexes/manifest.crustix exists and says clean
    ixFile,         \* indexes/<model>/<field>.idx
    (* struct Engine *)
    schemas, rows, next_row_ids, indexes,
    (* the handler that runs *)
    pc, call, outcome

files == <<meta, schemaFile, table, ixClean, ixFile>>
memory == <<schemas, rows, next_row_ids, indexes>>
control == <<pc, call, outcome>>
vars == <<meta, schemaFile, table, ixClean, ixFile,
          schemas, rows, next_row_ids, indexes, pc, call, outcome>>

-----------------------------------------------------------------------------
(***************************************************************************)
(* States                                                                  *)
(***************************************************************************)
Opening == {"manifest", "load", "indexes"}
Locations == Opening \cup
    {"down", "idle", "save_schemas", "load_rows", "index", "unique",
     "dirty", "append", "rebuild", "save", "clean"}

(***************************************************************************)
(* op is the public operation, task what the dirty flag is set for:        *)
(* rebuild_all, load_or_rebuild_model ("model") or a write of one row.     *)
(* built and todo are the indexes being saved and the fields left to save, *)
(* left the models rebuild_all has not reached.                            *)
(***************************************************************************)
Call == [op     : {"none", "open", "register", "insert", "update", "delete"},
         task   : {"none", "rebuild", "model", "write"},
         model  : Models \cup {None},
         row_id : 0..MaxRowId,
         row    : Record,
         built  : Indexes,
         todo   : SUBSET Fields,
         left   : SUBSET Models]

CallOf(op, m, id, row) ==
    [op |-> op, task |-> "none", model |-> m, row_id |-> id, row |-> row,
     built |-> NoIndexes, todo |-> {}, left |-> {}]

NoCall == CallOf("none", None, 0, EmptyRecord)

NoMemory(S, R, N, I) ==
    /\ S = [m \in Models |-> None]
    /\ R = [m \in Models |-> None]
    /\ N = [m \in Models |-> 0]
    /\ I = [m \in Models |-> None]

Init ==
    /\ meta = "absent"
    /\ schemaFile = [m \in Models |-> None]
    /\ table = [m \in Models |-> EmptyTable]
    /\ ixClean = FALSE
    /\ ixFile = [m \in Models |-> [f \in Fields |-> NoMap]]
    /\ NoMemory(schemas, rows, next_row_ids, indexes)
    /\ pc = "down" /\ call = NoCall /\ outcome = "none"

KnownModels == {m \in Models : schemas[m] # None}

(* unwrap_or(&[]): a model with no rows loaded has an empty table.         *)
RowsOf(m) == IF rows[m] = None THEN EmptyTable ELSE rows[m]

(* ensure_next_row_id: the id next_row_id hands out.                       *)
NextIdOf(m) ==
    IF next_row_ids[m] = 0 THEN NextRowId(RowsOf(m)) ELSE next_row_ids[m]

(* load_model succeeds: every index file of the model can be read.         *)
Loadable(m, schema) == \A f \in UniqueFields(schema) : ixFile[m][f] # NoMap

(* Seeded defect: the index manifest is not asked.                         *)
ReadableOnly(S) == \A m \in S : Loadable(m, schemas[m])

(* Whether the indexes of a set of models are loaded and not rebuilt.      *)
CleanAndReadable(S) == ixClean /\ \A m \in S : Loadable(m, schemas[m])

LoadedIndexes(m, schema) ==
    [f \in Fields |-> IF f \in UniqueFields(schema) THEN ixFile[m][f] ELSE NoMap]

(* save_index refuses entries with a key too large for a leaf page.        *)
Fits(entries) == \A p \in entries : p[1] \notin Oversized

-----------------------------------------------------------------------------
(***************************************************************************)
(* Returning from a handler                                                *)
(***************************************************************************)
ReturnOk ==
    /\ pc' = "idle" /\ call' = NoCall /\ outcome' = "ok"

(* An error while opening leaves no engine; any other leaves it running.   *)
ReturnErr ==
    /\ call' = NoCall /\ outcome' = "err"
    /\ IF call.op = "open"
       THEN /\ pc' = "down"
            /\ NoMemory(schemas', rows', next_row_ids', indexes')
       ELSE /\ pc' = "idle"
            /\ UNCHANGED memory

-----------------------------------------------------------------------------
(***************************************************************************)
(* find_row_id: one filter on an indexed field is looked up in the index   *)
(* file and the row found is only checked to be live; any other filters    *)
(* are matched against the rows in memory.                                 *)
(***************************************************************************)
ByIndex(m, filters) ==
    /\ rows[m] # None
    /\ indexes[m] # None
    /\ \E f \in IndexedFields(indexes[m]) : DOMAIN filters = {f}

FilterField(filters) == CHOOSE f \in DOMAIN filters : TRUE

LookupHits(m, filters) ==
    LET f == FilterField(filters)
    IN  Hits(ixFile[m][f], filters[f]) \cap LiveIds(rows[m])

FindFails(m, filters) ==
    /\ ByIndex(m, filters)
    /\ ixFile[m][FilterField(filters)] = NoMap

FindRowId(m, filters) ==
    IF ByIndex(m, filters)
    THEN IF LookupHits(m, filters) = {}
         THEN 0
         ELSE CHOOSE id \in LookupHits(m, filters) : TRUE
    ELSE FirstMatch(RowsOf(m), filters)

-----------------------------------------------------------------------------
(***************************************************************************)
(* Engine::open                                                            *)
(***************************************************************************)
Open ==
    /\ pc = "down"
    /\ pc' = "manifest"
    /\ call' = CallOf("open", None, 0, EmptyRecord)
    /\ outcome' = "none"
    /\ UNCHANGED <<files, memory>>

LoadOrCreateManifest ==
    /\ pc = "manifest"
    /\ IF meta = "bad"
       THEN ReturnErr /\ UNCHANGED meta
       ELSE /\ meta' = "ok" /\ pc' = "load"
            /\ UNCHANGED <<memory, call, outcome>>
    /\ UNCHANGED <<schemaFile, table, ixClean, ixFile>>

(* load_schemas, and load_rows of every model it names.                    *)
LoadTables ==
    /\ pc = "load"
    /\ IF \/ schemaFile = Unreadable
          \/ \E m \in Models : schemaFile[m] # None /\ ~Readable(table[m])
       THEN ReturnErr
       ELSE /\ schemas' = schemaFile
            /\ rows' = [m \in Models |->
                          IF schemaFile[m] = None THEN None ELSE table[m]]
            /\ next_row_ids' = [m \in Models |->
                          IF schemaFile[m] = None THEN 0
                                                  ELSE NextRowId(table[m])]
            /\ pc' = "indexes"
            /\ UNCHANGED <<indexes, call, outcome>>
    /\ UNCHANGED files

(* load_or_rebuild_all                                                     *)
LoadOrRebuildAll ==
    /\ pc = "indexes"
    /\ IF CleanAndReadable(KnownModels)
       THEN /\ indexes' = [m \in Models |->
                             IF schemas[m] = None
                             THEN None ELSE LoadedIndexes(m, schemas[m])]
            /\ ReturnOk
       ELSE /\ pc' = "dirty"
            /\ call' = [call EXCEPT !.task = "rebuild", !.left = KnownModels]
            /\ UNCHANGED <<indexes, outcome>>
    /\ UNCHANGED <<files, schemas, rows, next_row_ids>>

(* rebuild_all: one model after the other, in the order of a HashMap.      *)
RebuildModel ==
    /\ pc = "rebuild"
    /\ \E m \in call.left :
          LET built == IndexOf(schemas[m], RowsOf(m))
          IN  IF BuildFails(schemas[m], RowsOf(m))
              THEN ReturnErr
              ELSE /\ indexes' = [indexes EXCEPT ![m] = built]
                   /\ pc' = "save"
                   /\ call' = [call EXCEPT !.model = m, !.built = built,
                                           !.todo = UniqueFields(schemas[m]),
                                           !.left = call.left \ {m}]
                   /\ UNCHANGED <<schemas, rows, next_row_ids, outcome>>
    /\ UNCHANGED files

RebuildDone ==
    /\ pc = "rebuild" /\ call.left = {}
    /\ pc' = "clean"
    /\ UNCHANGED <<files, memory, call, outcome>>

-----------------------------------------------------------------------------
(***************************************************************************)
(* The index manifest and the index files: mark_dirty, save_model and      *)
(* mark_clean, for whichever task they run.                                *)
(***************************************************************************)
AfterDirty ==
    IF call.task = "rebuild" THEN "rebuild"
    ELSE IF call.task = "model" THEN "save" ELSE "append"

(* Seeded defect: the manifest stays clean.                                *)
MarkNothing ==
    /\ pc = "dirty"
    /\ pc' = AfterDirty
    /\ UNCHANGED <<files, memory, call, outcome>>

MarkDirty ==
    /\ pc = "dirty"
    /\ ixClean' = FALSE
    /\ pc' = AfterDirty
    /\ UNCHANGED <<meta, schemaFile, table, ixFile, memory, call, outcome>>

(* Seeded defect: the field just saved is still to be saved.               *)
SaveIndexAgain ==
    /\ pc = "save"
    /\ \E f \in call.todo :
          /\ Fits(call.built[f])
          /\ ixFile' = [ixFile EXCEPT ![call.model][f] = call.built[f]]
    /\ UNCHANGED <<meta, schemaFile, table, ixClean, memory, control>>

SaveIndex ==
    /\ pc = "save"
    /\ \E f \in call.todo :
          /\ Fits(call.built[f])
          /\ ixFile' = [ixFile EXCEPT ![call.model][f] = call.built[f]]
          /\ call' = [call EXCEPT !.todo = call.todo \ {f}]
    /\ UNCHANGED <<meta, schemaFile, table, ixClean, memory, pc, outcome>>

(* Seeded defect: the error of save_model is ignored.                      *)
SaveIndexSkipped ==
    /\ pc = "save"
    /\ \E f \in call.todo : ~Fits(call.built[f])
    /\ pc' = "clean"
    /\ UNCHANGED <<files, memory, call, outcome>>

SaveIndexRefused ==
    /\ pc = "save"
    /\ \E f \in call.todo : ~Fits(call.built[f])
    /\ ReturnErr
    /\ UNCHANGED files

(* Seeded defect: a rebuild is over with its first model.                  *)
FirstModelDone ==
    /\ pc = "save" /\ call.todo = {}
    /\ pc' = "clean"
    /\ UNCHANGED <<files, memory, call, outcome>>

SaveModelDone ==
    /\ pc = "save" /\ call.todo = {}
    /\ pc' = IF call.task = "rebuild" THEN "rebuild" ELSE "clean"
    /\ UNCHANGED <<files, memory, call, outcome>>

(***************************************************************************)
(* After mark_clean a rebuild and a write are done; load_or_rebuild_model  *)
(* hands its indexes to register_schema, which is done, or to an insert or *)
(* an update, which goes on.                                               *)
(***************************************************************************)
UseIndexes(m, loaded) ==
    /\ indexes' = [indexes EXCEPT ![m] = loaded]
    /\ UNCHANGED <<schemas, rows, next_row_ids>>
    /\ IF call.op = "register"
       THEN ReturnOk
       ELSE /\ pc' = "unique"
            /\ call' = [call EXCEPT !.task = "none", !.built = NoIndexes]
            /\ UNCHANGED outcome

MarkClean ==
    /\ pc = "clean"
    /\ ixClean' = TRUE
    /\ IF call.task = "model"
       THEN UseIndexes(call.model, call.built)
       ELSE ReturnOk /\ UNCHANGED memory
    /\ UNCHANGED <<meta, schemaFile, table, ixFile>>

(* load_or_rebuild_model                                                   *)
LoadOrRebuildModel ==
    /\ pc = "index"
    /\ LET m      == call.model
           schema == schemas[m]
           built  == IndexOf(schema, RowsOf(m))
       IN  \/ /\ CleanAndReadable({m})
              /\ UseIndexes(m, LoadedIndexes(m, schema))
           \/ /\ ~CleanAndReadable({m})
              /\ BuildFails(schema, RowsOf(m))
              /\ ReturnErr
           \/ /\ ~CleanAndReadable({m})
              /\ ~BuildFails(schema, RowsOf(m))
              /\ pc' = "dirty"
              /\ call' = [call EXCEPT !.task = "model", !.built = built,
                                      !.todo = UniqueFields(schema)]
              /\ UNCHANGED <<memory, outcome>>
    /\ UNCHANGED files

-----------------------------------------------------------------------------
(***************************************************************************)
(* Engine::register_schema                                                 *)
(***************************************************************************)
(* Seeded defect: a new schema is not written.                             *)
RegisterUnsaved(m, schema) ==
    /\ pc = "idle"
    /\ schemas[m] \in {None, schema}
    /\ call' = CallOf("register", m, 0, EmptyRecord)
    /\ schemas' = [schemas EXCEPT ![m] = schema]
    /\ pc' = "load_rows"
    /\ outcome' = "none"
    /\ UNCHANGED <<files, rows, next_row_ids, indexes>>

RegisterSchema(m, schema) ==
    /\ pc = "idle"
    /\ schemas[m] \in {None, schema}
    /\ call' = CallOf("register", m, 0, EmptyRecord)
    /\ schemas' = [schemas EXCEPT ![m] = schema]
    /\ pc' = IF schemas[m] = None THEN "save_schemas" ELSE "load_rows"
    /\ outcome' = "none"
    /\ UNCHANGED <<files, rows, next_row_ids, indexes>>

RegisterIncompatible(m, schema) ==
    /\ pc = "idle"
    /\ schemas[m] \notin {None, schema}
    /\ ReturnErr
    /\ UNCHANGED files

(***************************************************************************)
(* save_schemas writes all the schemas in memory, and refuses all of them  *)
(* for one default that is too long; the new schema stays in memory.       *)
(***************************************************************************)
EncodesSchema(schema) ==
    \A f \in DOMAIN schema : schema[f].default \cap Unencodable = {}

EncodesSchemas == \A m \in Models : schemas[m] # None => EncodesSchema(schemas[m])

(* Seeded defect: only the schema just registered is written.              *)
SaveOneSchema ==
    /\ pc = "save_schemas" /\ EncodesSchemas
    /\ schemaFile' = [m \in Models |->
                         IF m = call.model THEN schemas[m] ELSE None]
    /\ pc' = "load_rows"
    /\ UNCHANGED <<meta, table, ixClean, ixFile, memory, call, outcome>>

SaveSchemas ==
    /\ pc = "save_schemas" /\ EncodesSchemas
    /\ schemaFile' = schemas
    /\ pc' = "load_rows"
    /\ UNCHANGED <<meta, table, ixClean, ixFile, memory, call, outcome>>

SaveSchemasRefused ==
    /\ pc = "save_schemas" /\ ~EncodesSchemas
    /\ ReturnErr
    /\ UNCHANGED files

LoadRows ==
    /\ pc = "load_rows"
    /\ LET m == call.model
       IN  \/ /\ rows[m] # None
              /\ next_row_ids' = [next_row_ids EXCEPT ![m] = NextIdOf(m)]
              /\ pc' = "index"
              /\ UNCHANGED <<schemas, rows, indexes, call, outcome>>
           \/ /\ rows[m] = None /\ Readable(table[m])
              /\ rows' = [rows EXCEPT ![m] = table[m]]
              /\ next_row_ids' =
                    [next_row_ids EXCEPT ![m] = NextRowId(table[m])]
              /\ pc' = "index"
              /\ UNCHANGED <<schemas, indexes, call, outcome>>
           \/ /\ rows[m] = None /\ ~Readable(table[m])
              /\ ReturnErr
    /\ UNCHANGED files

-----------------------------------------------------------------------------
(***************************************************************************)
(* Engine::insert, Engine::update and Engine::delete up to the first write *)
(* they may do.  A call that validation refuses, that finds no row or      *)
(* whose lookup fails returns without a trace and is not a step.           *)
(*                                                                         *)
(* Bound: a row id is handed out only while it is below MaxRowId, so that  *)
(* the saturating counter never hands out the same id twice.               *)
(***************************************************************************)
CheckUniqueNext(m) == IF indexes[m] = None THEN "index" ELSE "unique"

Insert(m, values) ==
    /\ pc = "idle"
    /\ schemas[m] # None
    /\ Accepts(schemas[m], values)
    /\ NextIdOf(m) < MaxRowId
    /\ pc' = CheckUniqueNext(m)
    /\ call' = CallOf("insert", m, 0, NormalizeRow(schemas[m], values))
    /\ outcome' = "none"
    /\ UNCHANGED <<files, memory>>

(* The row update and delete go on with.                                   *)
Found(m, filters) ==
    /\ schemas[m] # None
    /\ ValidFilters(schemas[m], filters)
    /\ ~FindFails(m, filters)
    /\ FindRowId(m, filters) # 0

Update(m, filters, values) ==
    /\ pc = "idle"
    /\ DOMAIN values # {}
    /\ Found(m, filters)
    /\ LET id  == FindRowId(m, filters)
           old == rows[m][id].record
       IN  /\ AcceptsUpdate(schemas[m], old, values)
           /\ call' = CallOf("update", m, id,
                             NormalizeRow(schemas[m], MergeRecord(old, values)))
    /\ pc' = CheckUniqueNext(m)
    /\ outcome' = "none"
    /\ UNCHANGED <<files, memory>>

Delete(m, filters) ==
    /\ pc = "idle"
    /\ Found(m, filters)
    /\ call' = [CallOf("delete", m, FindRowId(m, filters), EmptyRecord)
                  EXCEPT !.task = "write"]
    /\ pc' = "dirty"
    /\ outcome' = "none"
    /\ UNCHANGED <<files, memory>>

(* validate_unique, and for an insert the row id it will use.              *)
ValidateUnique ==
    /\ pc = "unique"
    /\ IF UniqueConflict(indexes[call.model], call.row, call.row_id)
       THEN ReturnErr
       ELSE LET m == call.model
            IN  /\ pc' = "dirty"
                /\ IF call.op = "insert"
                   THEN /\ call' = [call EXCEPT !.task = "write",
                                                !.row_id = NextIdOf(m)]
                        /\ next_row_ids' =
                              [next_row_ids EXCEPT ![m] = NextIdOf(m)]
                   ELSE /\ call' = [call EXCEPT !.task = "write"]
                        /\ UNCHANGED next_row_ids
                /\ UNCHANGED <<schemas, rows, indexes, outcome>>
    /\ UNCHANGED files

-----------------------------------------------------------------------------
(***************************************************************************)
(* append_operation, and the change of the rows and indexes in memory that *)
(* follows it with no other file write in between.                         *)
(***************************************************************************)
EncodesRow == \A f \in DOMAIN call.row : call.row[f] \notin Unencodable

SaveNext(built) ==
    /\ call' = [call EXCEPT !.built = built, !.todo = IndexedFields(built)]
    /\ pc' = "save"

AppendInsert ==
    /\ pc = "append" /\ call.op = "insert" /\ EncodesRow
    /\ LET m     == call.model
           id    == call.row_id
           built == IndexInsert(indexes[m], id, call.row)
       IN  /\ table' = [table EXCEPT ![m] = ReplayInsert(@, id, call.row)]
           /\ rows' = [rows EXCEPT ![m] =
                          [RowsOf(m) EXCEPT ![id] = LiveRow(call.row)]]
           /\ next_row_ids' = [next_row_ids EXCEPT ![m] = SaturatingNext(id)]
           /\ indexes' = [indexes EXCEPT ![m] = built]
           /\ SaveNext(built)
    /\ UNCHANGED <<meta, schemaFile, ixClean, ixFile, schemas, outcome>>

AppendUpdate ==
    /\ pc = "append" /\ call.op = "update" /\ EncodesRow
    /\ LET m     == call.model
           id    == call.row_id
           old   == rows[m][id].record
           built == IndexInsert(IndexRemove(indexes[m], id, old), id, call.row)
       IN  /\ table' = [table EXCEPT ![m] = ReplayUpdate(@, id, call.row)]
           /\ rows' = [rows EXCEPT ![m][id] = LiveRow(call.row)]
           /\ indexes' = [indexes EXCEPT ![m] = built]
           /\ SaveNext(built)
    /\ UNCHANGED <<meta, schemaFile, ixClean, ixFile, schemas, next_row_ids,
                   outcome>>

(* A delete with no indexes in memory saves none, and still marks clean.   *)
AppendDelete ==
    /\ pc = "append" /\ call.op = "delete"
    /\ LET m     == call.model
           id    == call.row_id
           built == IndexRemove(indexes[m], id, rows[m][id].record)
       IN  /\ table' = [table EXCEPT ![m] = ReplayDelete(@, id)]
           /\ rows' = [rows EXCEPT ![m][id] = DeadRow]
           /\ IF indexes[m] = None
              THEN pc' = "clean" /\ UNCHANGED <<indexes, call>>
              ELSE indexes' = [indexes EXCEPT ![m] = built] /\ SaveNext(built)
    /\ UNCHANGED <<meta, schemaFile, ixClean, ixFile, schemas, next_row_ids,
                   outcome>>

(* encode_record refuses the row, of which nothing reaches the table file. *)
AppendRefused ==
    /\ pc = "append" /\ call.op # "delete" /\ ~EncodesRow
    /\ ReturnErr
    /\ UNCHANGED files

-----------------------------------------------------------------------------
(***************************************************************************)
(* Failures.  PartialWrite is what the write the engine is about to make   *)
(* may leave behind when it does not complete: nothing, or a file cut      *)
(* short (fs::write and File::create truncate the file before they write). *)
(* A new table file gets its magic before the row is encoded, so it may be *)
(* cut there for a row that will be refused, too; EmptyTable is a file     *)
(* that is absent or holds the magic alone.                                *)
(***************************************************************************)
PartialWrite ==
    \/ UNCHANGED files
    \/ /\ pc = "manifest" /\ meta = "absent"
       /\ meta' = "bad"
       /\ UNCHANGED <<schemaFile, table, ixClean, ixFile>>
    \/ /\ pc = "save_schemas" /\ EncodesSchemas
       /\ schemaFile' = Unreadable
       /\ UNCHANGED <<meta, table, ixClean, ixFile>>
    \/ /\ pc \in {"dirty", "clean"}
       /\ ixClean' = FALSE
       /\ UNCHANGED <<meta, schemaFile, table, ixFile>>
    \/ /\ pc = "append"
       /\ EncodesRow \/ table[call.model] = EmptyTable
       /\ Readable(table[call.model])
       /\ table' = [table EXCEPT ![call.model] = Torn]
       /\ UNCHANGED <<meta, schemaFile, ixClean, ixFile>>
    \/ /\ pc = "save"
       /\ \E f \in call.todo :
             /\ Fits(call.built[f])
             /\ ixFile' = [ixFile EXCEPT ![call.model][f] = NoMap]
       /\ UNCHANGED <<meta, schemaFile, table, ixClean>>

(* The process stops; between calls this is also how an engine is closed.  *)
Crash ==
    /\ pc # "down"
    /\ PartialWrite
    /\ NoMemory(schemas', rows', next_row_ids', indexes')
    /\ pc' = "down" /\ call' = NoCall /\ outcome' = "none"

(* A file operation of the running handler fails and the handler returns.  *)
IoError ==
    /\ pc \notin {"down", "idle", "unique", "rebuild"}
    /\ PartialWrite
    /\ ReturnErr

-----------------------------------------------------------------------------
Work ==
    \/ LoadOrCreateManifest \/ LoadTables \/ LoadOrRebuildAll
    \/ RebuildModel \/ RebuildDone
    \/ MarkDirty \/ SaveIndex \/ SaveIndexRefused \/ SaveModelDone \/ MarkClean
    \/ LoadOrRebuildModel \/ SaveSchemas \/ SaveSchemasRefused \/ LoadRows
    \/ ValidateUnique
    \/ AppendInsert \/ AppendUpdate \/ AppendDelete \/ AppendRefused

Request ==
    \E m \in Models :
        \/ \E s \in Schemas : RegisterSchema(m, s) \/ RegisterIncompatible(m, s)
        \/ \E values \in Inserts : Insert(m, values)
        \/ \E filters \in Filters, values \in Updates :
              Update(m, filters, values)
        \/ \E filters \in Filters : Delete(m, filters)

Next == Open \/ Request \/ Work \/ Crash

FaultyNext == Next \/ IoError

Spec == Init /\ [][Next]_vars

FaultySpec == Init /\ [][FaultyNext]_vars

(* One thread runs a handler to its end, and a stopped engine is reopened. *)
Fairness == WF_vars(Work) /\ WF_vars(Open)

FairSpec == Spec /\ Fairness

-----------------------------------------------------------------------------
(***************************************************************************)
(* Properties                                                              *)
(***************************************************************************)
FilesOK ==
    /\ meta \in {"absent", "ok", "bad"}
    /\ schemaFile \in [Models -> Schemas \cup {None}] \cup {Unreadable}
    /\ table \in [Models -> TableFiles]
    /\ ixClean \in BOOLEAN
    /\ ixFile \in [Models -> [Fields -> Entries \cup {NoMap}]]

MemoryOK ==
    /\ schemas \in [Models -> Schemas \cup {None}]
    /\ rows \in [Models -> Tables \cup {None}]
    /\ next_row_ids \in [Models -> 0..MaxRowId]
    /\ indexes \in [Models -> Indexes \cup {None}]

ControlOK ==
    /\ pc \in Locations
    /\ call \in Call
    /\ outcome \in {"none", "ok", "err"}

(* Every variable holds a value of its kind: the files something a reader  *)
(* distinguishes, the fields of struct Engine what their types allow.      *)
TypeOK == FilesOK /\ MemoryOK /\ ControlOK

(* The models whose schema and table a reopening engine can read.          *)
PersistedModels ==
    IF schemaFile = Unreadable
    THEN {}
    ELSE {m \in Models : schemaFile[m] # None /\ Readable(table[m])}

(* Whenever the index manifest says clean, every index file that can be    *)
(* read holds exactly the entries of the live rows in the table log, at    *)
(* every point where the process may stop: this is what lets open skip the *)
(* rebuild (load_or_rebuild_all never compares an index with its table).   *)
CleanImpliesFresh ==
    ixClean =>
        \A m \in PersistedModels :
            \A f \in UniqueFields(schemaFile[m]) :
                ixFile[m][f] \in {NoMap, EntriesOf(table[m], f)}

(* No two live rows of a table log share a value of a unique field, though *)
(* uniqueness is only ever checked against indexes loaded from other       *)
(* files (TableIndexes::check_unique).                                     *)
UniqueInLog ==
    \A m \in PersistedModels : ~BuildFails(schemaFile[m], table[m])

(* Between calls, find answers what the table log says: the lookup does    *)
(* not fail, and it returns the first live row that matches the filters,   *)
(* whether it goes through an index file or through the rows in memory.    *)
FindMatchesLog ==
    pc = "idle" =>
        \A m \in KnownModels, filters \in Filters :
            (ValidFilters(schemas[m], filters) /\ Readable(table[m])) =>
                /\ ~FindFails(m, filters)
                /\ FindRowId(m, filters) = FirstMatch(table[m], filters)

(* The rows in memory are what replaying the log gives, and the row id     *)
(* handed out next was never used in it (next_row_id, replay_operations),  *)
(* also after a write of the session failed.                               *)
MemoryMatchesLog ==
    \A m \in Models :
        (rows[m] # None /\ Readable(table[m])) =>
            /\ rows[m] = table[m]
            /\ NextIdOf(m) < MaxRowId => NextIdOf(m) \notin UsedIds(table[m])

(* The engine never writes a log whose own replay refuses an operation: no *)
(* row id is inserted twice, none is updated or deleted when not live.     *)
LogReplays == \A m \in Models : table[m] # Corrupt

(* A row with the fields of the schema, each valid.                        *)
ValidRow(schema, row) ==
    /\ DOMAIN row = DOMAIN schema
    /\ \A f \in DOMAIN row : ValidValue(schema[f], row[f])

(* Every live row of a log is valid under the schema persisted for it.     *)
StoredRowsValid ==
    \A m \in PersistedModels :
        \A id \in LiveIds(table[m]) :
            ValidRow(schemaFile[m], table[m][id].record)

(* Every live row of a log is valid, as a whole, under one of the schemas  *)
(* a caller may register: an update that meets a row of another schema     *)
(* (load_rows checks none) never leaves a row that is half of the one and  *)
(* half of the other (prepare_update_row).                                 *)
RowsOfOneSchema ==
    \A m \in Models :
        Readable(table[m]) =>
            \A id \in LiveIds(table[m]) :
                \E schema \in Schemas : ValidRow(schema, table[m][id].record)

(* The index files of a model say something else than its memory.          *)
Lagging(m) ==
    /\ indexes[m] # None
    /\ \E f \in IndexedFields(indexes[m]) : indexes[m][f] # ixFile[m][f]

KeepsUp(m) ==
    (ixClean' /\ Lagging(m)') => Lagging(m) /\ (ixClean \/ call.model # m)

(* While the index manifest says clean, the index files that find reads    *)
(* fall behind the indexes in memory for no model but one whose save       *)
(* failed before another model's write marked the database clean: a write  *)
(* that fails after its append (engine.rs:113) leaves the manifest dirty.  *)
CleanKeepsUp == [][ \A m \in Models : KeepsUp(m) ]_vars

FilesIntact ==
    /\ meta # "bad"
    /\ schemaFile # Unreadable
    /\ \A m \in Models : Readable(table[m])

(* Opening fails only on a damaged manifest, schema file or table log; a   *)
(* missing, torn or stale index file never keeps a database from opening.  *)
OpenSucceeds == (pc = "down" /\ outcome = "err") => ~FilesIntact

(* A schema that reached the schema file is never replaced or dropped.     *)
SchemaLocked ==
    [][ (schemaFile # Unreadable /\ schemaFile' # Unreadable) =>
          \A m \in Models :
              schemaFile[m] # None => schemaFile'[m] = schemaFile[m] ]_vars

(* register_schema returns Ok only once the schema is in the schema file.  *)
RegisterOkPersists ==
    [][ (call.op = "register" /\ outcome' = "ok") =>
          /\ schemaFile # Unreadable
          /\ schemaFile[call.model] = schemas[call.model] ]_vars

(* Once the process stops crashing every call returns, and every open    *)
(* gives an engine that is up, unless the files it needs were damaged      *)
(* before: no handler loops (rebuild_all, save_model) and no state on disk *)
(* keeps open failing.                                                     *)
CallsReturn ==
    <>[][~Crash]_vars => ([]<>(pc = "idle") \/ <>[](~FilesIntact))
=============================================================================
