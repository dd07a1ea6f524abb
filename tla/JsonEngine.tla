----------------------------- MODULE JsonEngine -----------------------------
(***************************************************************************)
(* The JSON development engine behind the Python API: schemas live in      *)
(* memory, the rows of a model in memory and in a file that every change   *)
(* rewrites, and schema.json is written and never read.  Nothing ties a    *)
(* session to the contracts of an earlier one.  A write that is cut short  *)
(* leaves text that does not parse (Torn); the process stops with it       *)
(* (Crash) or goes on with an exception (IoError).                         *)
(***************************************************************************)
EXTENDS Schema, Sequences

CONSTANTS Models,       \* model names
          Schemas,      \* the schemas a caller may register
          Inserts,      \* the records a caller may insert
          Updates,      \* the changes a caller may ask of update
          Filters,      \* the filters a caller may search with
          Alike,        \* different values that Python holds equal: 1 and True
          MaxRows,      \* bound on the rows of a model
          None,         \* no schema, no rows, no file
          Torn          \* a file that does not parse

ASSUME JsonAssumption ==
          /\ \A schema \in Schemas : IsModelSchema(schema)
          /\ Inserts \subseteq Record
          /\ Updates \subseteq Record
          /\ Filters \subseteq Record
          /\ Alike \subseteq Values \X Values
          /\ MaxRows \in Nat
          /\ None \notin Schemas /\ None \notin Models
          /\ None \notin Seq(Record) /\ Torn \notin Seq(Record) /\ None # Torn
          /\ Torn \notin [Models -> Schemas \cup {None}]

VARIABLES
    (* files *)
    rowsFile,       \* <model>.json
    schemaJson,     \* schema.json
    (* JsonEngine and CrustDB *)
    schemas, rows,
    tables,         \* the models whose Table the caller has
    (* the call that runs *)
    pc, model, outcome,
    (* auxiliary: the contracts every model was ever registered with, and   *)
    (* the models whose last save in this session failed                    *)
    given, unsaved

vars == <<rowsFile, schemaJson, schemas, rows, tables, pc, model, outcome,
          given, unsaved>>

files == <<rowsFile, schemaJson>>
memory == <<schemas, rows, tables>>

Nothing == [m \in Models |-> None]

Init ==
    /\ rowsFile = Nothing /\ schemaJson = Nothing
    /\ schemas = Nothing /\ rows = Nothing /\ tables = {}
    /\ pc = "down" /\ model = None /\ outcome = "none"
    /\ given = [m \in Models |-> {}] /\ unsaved = {}

-----------------------------------------------------------------------------
(***************************************************************************)
(* Rows: lists of dicts                                                    *)
(***************************************************************************)
(* v == w in Python                                                        *)
Same(v, w) == v = w \/ <<v, w>> \in Alike \/ <<w, v>> \in Alike

(* row.get(name)                                                           *)
Get(row, f) == IF f \in DOMAIN row THEN row[f] ELSE Null

MatchesRow(row, filters) == \A f \in DOMAIN filters : Same(Get(row, f), filters[f])

MatchingRows(list, filters) == {i \in DOMAIN list : MatchesRow(list[i], filters)}

(* The first row that matches, 0 when none does.                           *)
Position(list, filters) ==
    IF MatchingRows(list, filters) = {}
    THEN 0
    ELSE CHOOSE i \in MatchingRows(list, filters) :
             \A j \in MatchingRows(list, filters) : i <= j

Without(list, i) ==
    [j \in 1..(Len(list) - 1) |-> IF j < i THEN list[j] ELSE list[j + 1]]

(* Every field of the schema, from the changes, the stored row, its        *)
(* default or null; fields of a stored row that the schema does not know   *)
(* are dropped.                                                            *)
UpdatedRow(schema, existing, values) ==
    NormalizeRow(schema, MergeRecord(existing, values))

(* Seeded defect: only the changed fields are validated.                   *)
AcceptsChanges(schema, existing, values) ==
    /\ UnknownFields(schema, values) = {}
    /\ \A f \in DOMAIN values : ValidValue(schema[f], values[f])

AcceptsUpdatedRow(schema, existing, values) ==
    /\ UnknownFields(schema, values) = {}
    /\ \A f \in DOMAIN schema :
          ValidValue(schema[f], UpdatedRow(schema, existing, values)[f])

(* Seeded defect: the rows behind the one updated are not looked at.       *)
DuplicateBefore(schema, list, row, ignore) ==
    \E i \in DOMAIN list, f \in UniqueFields(schema) :
        (ignore = 0 \/ i < ignore) /\ Same(Get(list[i], f), Get(row, f))

(* _validate_unique: another row has the value of a unique field.          *)
Duplicate(schema, list, row, ignore) ==
    \E i \in DOMAIN list \ {ignore}, f \in UniqueFields(schema) :
        Same(Get(list[i], f), Get(row, f))

-----------------------------------------------------------------------------
(***************************************************************************)
(* Returning from a call, and CrustDB(path)                                *)
(***************************************************************************)
Return(result) == pc' = "idle" /\ model' = None /\ outcome' = result

Open ==
    /\ pc = "down"
    /\ Return("ok")
    /\ UNCHANGED <<files, memory, given, unsaved>>

-----------------------------------------------------------------------------
(***************************************************************************)
(* register: the schema replaces any other, the rows are read again, then  *)
(* schema.json is written from the schemas of this session.                *)
(***************************************************************************)
Register(m, schema) ==
    /\ pc = "idle"
    /\ schemas' = [schemas EXCEPT ![m] = schema]
    /\ given' = [given EXCEPT ![m] = @ \cup {schema}]
    /\ pc' = "load_rows" /\ model' = m /\ outcome' = "none"
    /\ UNCHANGED <<files, rows, tables, unsaved>>

Contents(file) == IF file = None THEN <<>> ELSE file

(* Seeded defect: the file is taken to parse.                              *)
LoadUnparsed ==
    /\ pc = "load_rows"
    /\ rows' = [rows EXCEPT ![model] = Contents(rowsFile[model])]
    /\ unsaved' = unsaved \ {model}
    /\ pc' = "write_schema"
    /\ UNCHANGED <<files, schemas, tables, model, outcome, given>>

(* Seeded defect: rows that are in memory are not read again.              *)
LoadOnce ==
    /\ pc = "load_rows"
    /\ IF rowsFile[model] = Torn
       THEN Return("err") /\ UNCHANGED <<rows, unsaved>>
       ELSE /\ rows' = [rows EXCEPT ![model] =
                            IF @ = None THEN Contents(rowsFile[model]) ELSE @]
            /\ unsaved' = unsaved \ {model}
            /\ pc' = "write_schema"
            /\ UNCHANGED <<model, outcome>>
    /\ UNCHANGED <<files, schemas, tables, given>>

LoadRows ==
    /\ pc = "load_rows"
    /\ IF rowsFile[model] = Torn
       THEN Return("err") /\ UNCHANGED <<rows, unsaved>>
       ELSE /\ rows' = [rows EXCEPT ![model] = Contents(rowsFile[model])]
            /\ unsaved' = unsaved \ {model}
            /\ pc' = "write_schema"
            /\ UNCHANGED <<model, outcome>>
    /\ UNCHANGED <<files, schemas, tables, given>>

(* The Table is made once the engine has returned.                         *)
WriteSchema ==
    /\ pc = "write_schema"
    /\ schemaJson' = schemas
    /\ tables' = tables \cup {model}
    /\ Return("ok")
    /\ UNCHANGED <<rowsFile, schemas, rows, given, unsaved>>

-----------------------------------------------------------------------------
(***************************************************************************)
(* insert, update and delete change the rows in memory and save them all.  *)
(* A call that validation refuses or that finds no row is not a step.      *)
(***************************************************************************)
Change(m, list) ==
    /\ rows' = [rows EXCEPT ![m] = list]
    /\ pc' = "save_rows" /\ model' = m /\ outcome' = "none"
    /\ UNCHANGED <<files, schemas, tables, given, unsaved>>

Insert(m, values) ==
    /\ pc = "idle" /\ m \in tables
    /\ Len(rows[m]) < MaxRows
    /\ Accepts(schemas[m], values)
    /\ LET row == NormalizeRow(schemas[m], values)
       IN  /\ ~Duplicate(schemas[m], rows[m], row, 0)
           /\ Change(m, Append(rows[m], row))

Found(m, filters) ==
    /\ pc = "idle" /\ m \in tables
    /\ ValidFilters(schemas[m], filters)
    /\ Position(rows[m], filters) # 0

Update(m, filters, values) ==
    /\ Found(m, filters) /\ DOMAIN values # {}
    /\ LET i   == Position(rows[m], filters)
           row == UpdatedRow(schemas[m], rows[m][i], values)
       IN  /\ AcceptsUpdatedRow(schemas[m], rows[m][i], values)
           /\ ~Duplicate(schemas[m], rows[m], row, i)
           /\ Change(m, [rows[m] EXCEPT ![i] = row])

Delete(m, filters) ==
    /\ Found(m, filters)
    /\ Change(m, Without(rows[m], Position(rows[m], filters)))

SaveRows ==
    /\ pc = "save_rows"
    /\ rowsFile' = [rowsFile EXCEPT ![model] = rows[model]]
    /\ unsaved' = unsaved \ {model}
    /\ Return("ok")
    /\ UNCHANGED <<schemaJson, memory, given>>

-----------------------------------------------------------------------------
(***************************************************************************)
(* Failures.  write_text truncates the file before it writes, and no part  *)
(* of a JSON text but the whole parses.                                    *)
(***************************************************************************)
PartialWrite ==
    \/ UNCHANGED files
    \/ /\ pc = "write_schema"
       /\ schemaJson' = Torn
       /\ UNCHANGED rowsFile
    \/ /\ pc = "save_rows"
       /\ rowsFile' = [rowsFile EXCEPT ![model] = Torn]
       /\ UNCHANGED schemaJson

Crash ==
    /\ pc # "down"
    /\ PartialWrite
    /\ schemas' = Nothing /\ rows' = Nothing /\ tables' = {}
    /\ pc' = "down" /\ model' = None /\ outcome' = "none"
    /\ unsaved' = {}
    /\ UNCHANGED given

IoError ==
    /\ pc \in {"load_rows", "write_schema", "save_rows"}
    /\ PartialWrite
    /\ unsaved' = IF pc = "save_rows" THEN unsaved \cup {model} ELSE unsaved
    /\ Return("err")
    /\ UNCHANGED <<memory, given>>

Next ==
    \/ Open \/ LoadRows \/ WriteSchema \/ SaveRows
    \/ \E m \in Models :
          \/ \E schema \in Schemas : Register(m, schema)
          \/ \E values \in Inserts : Insert(m, values)
          \/ \E filters \in Filters, values \in Updates : Update(m, filters, values)
          \/ \E filters \in Filters : Delete(m, filters)
    \/ Crash \/ IoError

Spec == Init /\ [][Next]_vars

-----------------------------------------------------------------------------
(***************************************************************************)
(* Properties                                                              *)
(***************************************************************************)
Lists == Seq(Record)

(* Every variable holds a value of its kind, and the caller has a Table    *)
(* only for a model with a schema and rows in memory.                      *)
TypeOK ==
    /\ rowsFile \in [Models -> Lists \cup {None, Torn}]
    /\ schemaJson \in [Models -> Schemas \cup {None}] \cup {Torn}
    /\ schemas \in [Models -> Schemas \cup {None}]
    /\ rows \in [Models -> Lists \cup {None}]
    /\ tables \subseteq {m \in Models : schemas[m] # None /\ rows[m] # None}
    /\ pc \in {"down", "idle", "load_rows", "write_schema", "save_rows"}
    /\ model \in Models \cup {None}
    /\ model = None <=> pc \in {"down", "idle"}
    /\ outcome \in {"none", "ok", "err"}
    /\ given \in [Models -> SUBSET Schemas]
    /\ unsaved \subseteq Models

(* The lists of rows a model has: in memory, and in a file that parses.    *)
ListsOf(m) == {rows[m], rowsFile[m]} \ {None, Torn}

ValidRow(schema, row) ==
    /\ DOMAIN row = DOMAIN schema
    /\ \A f \in DOMAIN schema : ValidValue(schema[f], row[f])

(* Every row is valid as a whole under one contract its model was given,   *)
(* never half under one and half under another, although rows outlive the  *)
(* contract they were written under, updates start from such rows, and a   *)
(* register that fails leaves the new schema over the old rows.            *)
RowsValid ==
    \A m \in Models : \A list \in ListsOf(m) : \A i \in DOMAIN list :
        \E schema \in given[m] : ValidRow(schema, list[i])

DistinctRows(schema, list) ==
    \A i, j \in DOMAIN list : \A f \in UniqueFields(schema) :
        (f \in DOMAIN list[i] /\ f \in DOMAIN list[j] /\ Same(list[i][f], list[j][f]))
            => i = j

(* A model that was only ever given one contract has no two rows with the  *)
(* same value of a unique field, in memory or in its file, whatever saves  *)
(* failed and however often it was registered again.                       *)
UniqueRows ==
    \A m \in Models : \A schema \in given[m] :
        given[m] = {schema} => \A list \in ListsOf(m) : DistinctRows(schema, list)

(* Memory and file agree, except for a model that is being saved or whose  *)
(* last save failed: then memory is ahead until it is saved or read again. *)
FileMatchesMemory ==
    \A m \in Models :
        (rows[m] # None /\ m \notin unsaved /\ ~(pc = "save_rows" /\ model = m))
            => rowsFile[m] # Torn /\ Contents(rowsFile[m]) = rows[m]
=============================================================================
