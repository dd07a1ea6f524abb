---------------------------- MODULE EngineProofs ----------------------------
(***************************************************************************)
(* The engine, for every value of the constants, in four parts: its types  *)
(* under every failure the model has; its safety properties when the       *)
(* process may stop anywhere and every value fits an index page; what      *)
(* still holds when file operations fail, too; and that it implements      *)
(* TableStore.                                                             *)
(***************************************************************************)
EXTENDS EngineStore, TableProofs

-----------------------------------------------------------------------------
(***************************************************************************)
(* Types, under crashes, file operations that fail and values too large to *)
(* store.  TypeOK is not inductive by itself: that append finds indexes    *)
(* and rows to change depends on what the handlers established before,     *)
(* which CallInv records.                                                  *)
(***************************************************************************)

-----------------------------------------------------------------------------
(* The operations of TableIndexes give indexes.                            *)
LEMMA NoMapIsNoMap == NoMap \notin Entries
BY DEF NoMap, Entries, RowIds

(* The entries of a table are pairs of a value and a row id.               *)
LEMMA EntriesOfType ==
    ASSUME NEW t \in Tables, NEW f
    PROVE  EntriesOf(t, f) \in Entries
<1>1. \A id \in RowIds : t[id].record \in Record
  BY DEF Tables, Cell
<1>2. \A r \in Record : f \in DOMAIN r => r[f] \in Values
  BY DEF Record
<1> QED  BY <1>1, <1>2 DEF EntriesOf, Entries, LiveIds

(* insert and remove give indexes.                                         *)
LEMMA IndexTypes ==
    ASSUME NEW ix \in Indexes, NEW id \in RowIds, NEW row \in Record
    PROVE  /\ IndexInsert(ix, id, row) \in Indexes
           /\ IndexRemove(ix, id, row) \in Indexes
<1>1. \A f \in DOMAIN row : row[f] \in Values
  BY DEF Record
<1>2. \A f \in IndexedFields(ix) : ix[f] \in Entries
  BY DEF IndexedFields, Indexes
<1>3. \A f \in IndexedFields(ix) \cap DOMAIN row :
        /\ PutEntry(ix[f], row[f], id) \in Entries
        /\ ix[f] \ {<<row[f], id>>} \in Entries
  BY <1>1, <1>2 DEF PutEntry, Entries
<1> QED  BY <1>3 DEF IndexInsert, IndexRemove, Indexes

(* build gives indexes.                                                    *)
LEMMA IndexOfType ==
    ASSUME NEW schema, NEW t \in Tables
    PROVE  IndexOf(schema, t) \in Indexes
BY EntriesOfType DEF IndexOf, Indexes

-----------------------------------------------------------------------------
(* What is known of a call under way.                                      *)
CallInv ==
    /\ call.op \in {"register", "insert", "update", "delete"} =>
          call.model \in Models /\ schemas[call.model] # None
    /\ \A m \in call.left : schemas[m] # None
    /\ call.op \in {"update", "delete"} =>
          rows[call.model] # None /\ call.row_id \in RowIds
    /\ call.task = "rebuild" => call.op = "open"
    /\ call.task = "model" => call.op \in {"register", "insert", "update"}
    /\ call.task = "write" =>
          /\ call.op \in {"insert", "update", "delete"}
          /\ call.row_id \in RowIds
          /\ call.op # "delete" => indexes[call.model] # None
    /\ pc \in {"save_schemas", "load_rows"} => call.op = "register"
    /\ pc = "index" => call.op \in {"register", "insert", "update"}
    /\ pc = "unique" =>
          call.op \in {"insert", "update"} /\ indexes[call.model] # None
    /\ pc \in {"dirty", "save", "clean"} => call.task # "none"
    /\ pc = "append" => call.task = "write"
    /\ pc = "rebuild" => call.task = "rebuild"
    /\ pc \in Opening =>
          call.op = "open" /\ call.task = "none" /\ call.left = {}
    /\ pc = "save" => call.model \in Models

TypeInv == TypeOK /\ CallInv

-----------------------------------------------------------------------------
(* Helpers of the handlers return values of their kind.                    *)
LEMMA RecordTypes ==
    ASSUME NEW schema \in Schemas, NEW values \in Record
    PROVE  NormalizeRow(schema, values) \in Record
<1>1. PICK D \in SUBSET Fields : schema \in [D -> FieldSchema]
  BY EngineAssumption DEF IsModelSchema
<1>2. \A f \in DOMAIN values : values[f] \in Values
  BY DEF Record
<1>3. \A field \in FieldSchema : Default(field) \in Values
  BY ValuesAssumption DEF FieldSchema, Default
<1>4. \A f \in D : FieldValue(schema[f], f, values) \in Values
  BY <1>1, <1>2, <1>3 DEF FieldValue
<1>5. NormalizeRow(schema, values) \in [D -> Values]
  BY <1>1, <1>4 DEF NormalizeRow
<1> QED  BY <1>5 DEF Record

(* Merging an update into a stored record gives a record.                  *)
LEMMA MergeTypes ==
    ASSUME NEW old \in Record, NEW values \in Record
    PROVE  MergeRecord(old, values) \in Record
<1>1. /\ DOMAIN old \cup DOMAIN values \in SUBSET Fields
      /\ \A f \in DOMAIN old : old[f] \in Values
      /\ \A f \in DOMAIN values : values[f] \in Values
  BY DEF Record
<1>2. MergeRecord(old, values) \in [DOMAIN old \cup DOMAIN values -> Values]
  BY <1>1 DEF MergeRecord
<1> QED  BY <1>1, <1>2 DEF Record

(* CallOf makes a call of its arguments.                                   *)
LEMMA CallOfType ==
    ASSUME NEW op \in {"none", "open", "register", "insert", "update", "delete"},
           NEW m \in Models \cup {None}, NEW id \in 0..MaxRowId,
           NEW row \in Record
    PROVE  CallOf(op, m, id, row) \in Call
<1>1. NoIndexes \in Indexes
  BY DEF NoIndexes, Indexes
<1> QED  BY <1>1 DEF CallOf, Call

(* Having no call in hand is a state of call.                              *)
LEMMA NoCallType == NoCall \in Call
BY CallOfType, CellTypes, TableAssumption DEF NoCall

(* The next row id is a row id, whether it was counted or has to be        *)
(* computed.                                                               *)
LEMMA NextIdType ==
    ASSUME MemoryOK, NEW m \in Models
    PROVE  NextIdOf(m) \in RowIds
<1>1. RowsOf(m) \in Tables
  BY EmptyTableType DEF MemoryOK, RowsOf
<1> QED  BY <1>1, NextRowIdAbove DEF NextIdOf, MemoryOK, RowIds

(* A row that find_row_id returns has a row id, and its table is in        *)
(* memory.                                                                 *)
LEMMA FindRowIdType ==
    ASSUME MemoryOK, NEW m \in Models, NEW filters,
           FindRowId(m, filters) # 0
    PROVE  FindRowId(m, filters) \in RowIds /\ rows[m] # None
<1>1. CASE ByIndex(m, filters)
  <2>1. LookupHits(m, filters) \subseteq RowIds
    BY DEF LookupHits, LiveIds
  <2> QED  BY <1>1, <2>1 DEF FindRowId, ByIndex
<1>2. CASE ~ByIndex(m, filters)
  <2>1. RowsOf(m) \in Tables
    BY EmptyTableType DEF MemoryOK, RowsOf
  <2>2. FirstMatch(RowsOf(m), filters) \in MatchingIds(RowsOf(m), filters)
    BY <1>2, <2>1, FirstMatchMatches DEF FindRowId
  <2>3. LiveIds(EmptyTable) = {}
    BY EmptyTableType DEF LiveIds, UsedIds
  <2> QED  BY <1>2, <2>2, <2>3 DEF FindRowId, MatchingIds, LiveIds, RowsOf
<1> QED  BY <1>1, <1>2

-----------------------------------------------------------------------------
(* Returning from a handler, and stopping, keep the invariant.             *)
LEMMA NoMemoryType ==
    ASSUME NoMemory(schemas', rows', next_row_ids', indexes')
    PROVE  MemoryOK'
BY TableAssumption DEF NoMemory, MemoryOK

(* What having no call in hand means.                                      *)
LEMMA NoCallFields ==
    NoCall.op = "none" /\ NoCall.task = "none" /\ NoCall.left = {}
BY DEF NoCall, CallOf

(* Returning Ok leaves no call.                                            *)
LEMMA ReturnOkInv ==
    ASSUME ReturnOk
    PROVE  ControlOK' /\ CallInv'
BY NoCallType, NoCallFields DEF ReturnOk, ControlOK, CallInv, Locations, Opening

(* Returning an error leaves no call, and no memory when it was an open.   *)
LEMMA ReturnErrInv ==
    ASSUME TypeInv, ReturnErr
    PROVE  MemoryOK' /\ ControlOK' /\ CallInv'
<1>1. MemoryOK'
  <2>1. CASE call.op = "open"
    BY <2>1, NoMemoryType DEF ReturnErr
  <2>2. CASE call.op # "open"
    BY <2>2 DEF ReturnErr, TypeInv, TypeOK, MemoryOK, memory
  <2> QED  BY <2>1, <2>2
<1>2. ControlOK' /\ CallInv'
  BY NoCallType, NoCallFields DEF ReturnErr, ControlOK, CallInv, Locations, Opening
<1> QED  BY <1>1, <1>2

(* A write that stops half-way leaves something a reader distinguishes.    *)
LEMMA PartialWriteType ==
    ASSUME TypeInv, PartialWrite
    PROVE  FilesOK'
<1> USE DEF TypeInv, TypeOK, FilesOK, ControlOK
<1>1. CASE UNCHANGED files
  BY <1>1 DEF files
<1>2. CASE pc = "append" /\ table' = [table EXCEPT ![call.model] = Torn]
             /\ UNCHANGED <<meta, schemaFile, ixClean, ixFile>>
  BY <1>2 DEF TableFiles
<1>3. CASE /\ pc = "save"
           /\ \E f \in call.todo :
                  ixFile' = [ixFile EXCEPT ![call.model][f] = NoMap]
           /\ UNCHANGED <<meta, schemaFile, table, ixClean>>
  <2>1. PICK f \in call.todo :
            ixFile' = [ixFile EXCEPT ![call.model][f] = NoMap]
    BY <1>3
  <2>2. f \in Fields /\ call.model \in Models
    BY <1>3 DEF Call, CallInv
  <2>3. ixFile' \in [Models -> [Fields -> Entries \cup {NoMap}]]
    BY <2>1, <2>2
  <2> QED  BY <1>3, <2>3
<1> QED  BY <1>1, <1>2, <1>3 DEF PartialWrite

-----------------------------------------------------------------------------
(* The empty directory and the empty engine are well typed.                *)
THEOREM InitTypeInv == Init => TypeInv
<1> SUFFICES ASSUME Init PROVE TypeInv
  OBVIOUS
<1>1. FilesOK
  BY EmptyTableType DEF Init, FilesOK, TableFiles
<1>2. MemoryOK
  BY TableAssumption DEF Init, NoMemory, MemoryOK
<1>3. ControlOK /\ CallInv
  BY NoCallType, NoCallFields DEF Init, ControlOK, CallInv, Locations, Opening
<1> QED  BY <1>1, <1>2, <1>3 DEF TypeInv, TypeOK

(* What every step lemma below shows of the step it assumes.               *)
LEMMA OpenStep ==
    ASSUME TypeInv, Open
    PROVE  TypeInv'
<1>1. /\ call' \in Call /\ call'.op = "open" /\ call'.task = "none"
      /\ call'.left = {}
  <2>1. CallOf("open", None, 0, EmptyRecord) \in Call
    BY CallOfType, CellTypes, TableAssumption
  <2> QED  BY <2>1 DEF Open, CallOf
<1>2. FilesOK' /\ MemoryOK'
  BY DEF TypeInv, TypeOK, FilesOK, MemoryOK, Open, files, memory
<1>3. ControlOK' /\ CallInv'
  BY <1>1 DEF Open, ControlOK, CallInv, Locations, Opening
<1> QED  BY <1>2, <1>3 DEF TypeInv, TypeOK

(* load_or_create, load_schemas and load_rows.                             *)
LEMMA LoadStep ==
    ASSUME TypeInv, LoadOrCreateManifest \/ LoadTables
    PROVE  TypeInv'
<1> USE DEF TypeInv, TypeOK
<1>1. CASE LoadOrCreateManifest
  <2>1. CASE meta = "bad"
    BY <1>1, <2>1, ReturnErrInv DEF LoadOrCreateManifest, FilesOK
  <2>2. CASE meta # "bad"
    BY <1>1, <2>2 DEF LoadOrCreateManifest, FilesOK, MemoryOK, ControlOK,
                      CallInv, Locations, Opening, memory
  <2> QED  BY <2>1, <2>2
<1>2. CASE LoadTables
  <2>1. FilesOK'
    BY <1>2 DEF LoadTables, FilesOK, files
  <2>2. CASE \/ schemaFile = Unreadable
             \/ \E m \in Models : schemaFile[m] # None /\ ~Readable(table[m])
    BY <1>2, <2>1, <2>2, ReturnErrInv DEF LoadTables
  <2>3. CASE ~ \/ schemaFile = Unreadable
               \/ \E m \in Models : schemaFile[m] # None /\ ~Readable(table[m])
    <3>1. schemaFile \in [Models -> Schemas \cup {None}]
      BY <2>3 DEF FilesOK
    <3>2. \A m \in Models : schemaFile[m] # None => table[m] \in Tables
      BY <2>3 DEF FilesOK, TableFiles, Readable
    <3>3. \A m \in Models : schemaFile[m] # None =>
             NextRowId(table[m]) \in 0..MaxRowId
      BY <3>2, NextRowIdAbove DEF RowIds
    <3>4. MemoryOK'
      BY <1>2, <2>3, <3>1, <3>2, <3>3, TableAssumption
      DEF LoadTables, MemoryOK, memory
    <3>5. ControlOK' /\ CallInv'
      BY <1>2, <2>3 DEF LoadTables, ControlOK, CallInv, Locations, Opening
    <3> QED  BY <2>1, <3>4, <3>5
  <2> QED  BY <2>2, <2>3
<1> QED  BY <1>1, <1>2

(* What load_model returns is the indexes of a model.                      *)
LEMMA LoadedType ==
    ASSUME FilesOK, NEW m \in Models, NEW schema
    PROVE  LoadedIndexes(m, schema) \in Indexes
BY DEF FilesOK, LoadedIndexes, Indexes

(* The id and unique fields of a schema are fields.                        *)
LEMMA UniqueFieldsType ==
    ASSUME NEW schema \in Schemas
    PROVE  UniqueFields(schema) \subseteq Fields
BY EngineAssumption DEF UniqueFields, IsModelSchema

(* load_or_rebuild_all and rebuild_all.                                    *)
LEMMA RebuildStep ==
    ASSUME TypeInv, LoadOrRebuildAll \/ RebuildModel \/ RebuildDone
    PROVE  TypeInv'
<1> USE DEF TypeInv, TypeOK
<1>1. FilesOK'
  BY DEF LoadOrRebuildAll, RebuildModel, RebuildDone, FilesOK, files
<1>2. CASE LoadOrRebuildAll
  <2>1. CASE CleanAndReadable(KnownModels)
    <3>1. indexes' \in [Models -> Indexes \cup {None}]
      BY <1>2, <2>1, LoadedType DEF LoadOrRebuildAll
    <3>2. MemoryOK'
      BY <1>2, <3>1 DEF LoadOrRebuildAll, MemoryOK
    <3> QED  BY <1>1, <1>2, <2>1, <3>2, ReturnOkInv DEF LoadOrRebuildAll
  <2>2. CASE ~CleanAndReadable(KnownModels)
    <3>1. MemoryOK'
      BY <1>2, <2>2 DEF LoadOrRebuildAll, MemoryOK
    <3>2. call.op = "open"
      BY <1>2 DEF LoadOrRebuildAll, CallInv, Opening
    <3>3. call' = [call EXCEPT !.task = "rebuild", !.left = KnownModels]
      BY <1>2, <2>2 DEF LoadOrRebuildAll
    <3>4. call' \in Call
      BY <3>3 DEF ControlOK, Call, KnownModels
    <3>5. /\ call'.op = "open" /\ call'.task = "rebuild"
          /\ \A m \in call'.left : schemas[m] # None
      BY <3>2, <3>3 DEF ControlOK, Call, KnownModels
    <3>6. ControlOK' /\ CallInv'
      BY <1>2, <2>2, <3>4, <3>5
      DEF LoadOrRebuildAll, ControlOK, CallInv, Locations, Opening
    <3> QED  BY <1>1, <3>1, <3>6
  <2> QED  BY <2>1, <2>2
<1>3. CASE RebuildModel
  <2>1. PICK m \in call.left :
          LET built == IndexOf(schemas[m], RowsOf(m))
          IN  IF BuildFails(schemas[m], RowsOf(m))
              THEN ReturnErr
              ELSE /\ indexes' = [indexes EXCEPT ![m] = built]
                   /\ pc' = "save"
                   /\ call' = [call EXCEPT !.model = m, !.built = built,
                                           !.todo = UniqueFields(schemas[m]),
                                           !.left = call.left \ {m}]
                   /\ UNCHANGED <<schemas, rows, next_row_ids, outcome>>
    BY <1>3 DEF RebuildModel
  <2>2. CASE BuildFails(schemas[m], RowsOf(m))
    BY <1>1, <2>1, <2>2, ReturnErrInv
  <2>3. CASE ~BuildFails(schemas[m], RowsOf(m))
    <3> DEFINE built == IndexOf(schemas[m], RowsOf(m))
    <3>1. m \in Models
      BY DEF ControlOK, Call
    <3>2. built \in Indexes
      BY <3>1, IndexOfType, EmptyTableType DEF RowsOf, MemoryOK
    <3>3. indexes' = [indexes EXCEPT ![m] = built]
      BY <2>1, <2>3
    <3>4. MemoryOK'
      BY <2>1, <2>3, <3>1, <3>2, <3>3 DEF MemoryOK
    <3>5. UniqueFields(schemas[m]) \subseteq Fields
      BY <3>1, UniqueFieldsType DEF CallInv, MemoryOK
    <3>6. /\ call' = [call EXCEPT !.model = m, !.built = built,
                                  !.todo = UniqueFields(schemas[m]),
                                  !.left = call.left \ {m}]
          /\ pc' = "save" /\ outcome' = outcome
      BY <2>1, <2>3
    <3> HIDE DEF built
    <3>7. call' \in Call
      BY <3>1, <3>2, <3>5, <3>6 DEF ControlOK, Call
    <3>8. /\ call'.op = "open" /\ call'.task = "rebuild"
          /\ call'.model = m /\ call'.left \subseteq call.left
      BY <1>3, <3>6 DEF ControlOK, Call, RebuildModel, CallInv
    <3>9. ControlOK' /\ CallInv'
      BY <2>1, <2>3, <3>1, <3>6, <3>7, <3>8
      DEF ControlOK, CallInv, Locations, Opening
    <3> QED  BY <1>1, <3>4, <3>9
  <2> QED  BY <2>2, <2>3
<1>4. CASE RebuildDone
  BY <1>1, <1>4 DEF RebuildDone, MemoryOK, ControlOK, CallInv, Locations,
                    Opening, memory
<1> QED  BY <1>2, <1>3, <1>4

(* mark_dirty, save_index and mark_clean.                                  *)
LEMMA SaveStep ==
    ASSUME TypeInv,
           MarkDirty \/ SaveIndex \/ SaveIndexRefused \/ SaveModelDone
    PROVE  TypeInv'
<1> USE DEF TypeInv, TypeOK
<1>1. CASE MarkDirty
  <2>1. FilesOK' /\ MemoryOK'
    BY <1>1 DEF MarkDirty, FilesOK, MemoryOK, memory
  <2>2. call.task \in {"rebuild", "model", "write"}
    BY <1>1 DEF MarkDirty, CallInv, ControlOK, Call
  <2>3. ControlOK' /\ CallInv'
    BY <1>1, <2>2 DEF MarkDirty, AfterDirty, ControlOK, CallInv, Locations,
                      Opening, memory
  <2> QED  BY <2>1, <2>3
<1>2. CASE SaveIndex
  <2>1. PICK f \in call.todo :
          /\ ixFile' = [ixFile EXCEPT ![call.model][f] = call.built[f]]
          /\ call' = [call EXCEPT !.todo = call.todo \ {f}]
    BY <1>2 DEF SaveIndex
  <2>2. f \in Fields /\ call.model \in Models
    BY <1>2 DEF SaveIndex, ControlOK, Call, CallInv
  <2>3. call.built[f] \in Entries \cup {NoMap}
    BY <2>2 DEF ControlOK, Call, Indexes
  <2>4. FilesOK' /\ MemoryOK'
    BY <1>2, <2>1, <2>2, <2>3 DEF SaveIndex, FilesOK, MemoryOK, memory
  <2>5. call' \in Call
    BY <2>1 DEF ControlOK, Call
  <2>6. /\ call'.op = call.op /\ call'.task = call.task
        /\ call'.model = call.model /\ call'.row_id = call.row_id
        /\ call'.left = call.left
    BY <2>1 DEF ControlOK, Call
  <2>7. ControlOK' /\ CallInv'
    BY <1>2, <2>5, <2>6 DEF SaveIndex, ControlOK, CallInv, memory, Locations,
                            Opening
  <2> QED  BY <2>4, <2>7
<1>3. CASE SaveIndexRefused
  BY <1>3, ReturnErrInv DEF SaveIndexRefused, FilesOK, files
<1>4. CASE SaveModelDone
  BY <1>4 DEF SaveModelDone, FilesOK, MemoryOK, ControlOK, CallInv, Locations,
              Opening, files, memory
<1> QED  BY <1>1, <1>2, <1>3, <1>4

(* Handing the indexes of a model to the operation that asked for them.    *)
LEMMA UseIndexesInv ==
    ASSUME TypeInv, NEW loaded \in Indexes,
           call.op \in {"register", "insert", "update"},
           UseIndexes(call.model, loaded)
    PROVE  MemoryOK' /\ ControlOK' /\ CallInv'
<1> USE DEF TypeInv, TypeOK
<1>1. call.model \in Models
  BY DEF CallInv
<1>2. MemoryOK'
  BY <1>1 DEF UseIndexes, MemoryOK
<1>3. CASE call.op = "register"
  BY <1>2, <1>3, ReturnOkInv DEF UseIndexes
<1>4. CASE call.op # "register"
  <2>1. /\ pc' = "unique" /\ outcome' = outcome
        /\ call' = [call EXCEPT !.task = "none", !.built = NoIndexes]
    BY <1>4 DEF UseIndexes
  <2>2. NoIndexes \in Indexes
    BY DEF NoIndexes, Indexes
  <2>3. call' \in Call
    BY <2>1, <2>2 DEF ControlOK, Call
  <2>4. /\ call'.op = call.op /\ call'.task = "none"
        /\ call'.model = call.model /\ call'.row_id = call.row_id
        /\ call'.left = call.left
    BY <2>1 DEF ControlOK, Call
  <2>5. indexes'[call.model] # None
    BY <1>1, IndexAssumption DEF UseIndexes, MemoryOK
  <2>6. ControlOK' /\ CallInv'
    BY <1>1, <1>4, <2>1, <2>3, <2>4, <2>5
    DEF UseIndexes, ControlOK, CallInv, Locations, Opening
  <2> QED  BY <1>2, <2>6
<1> QED  BY <1>3, <1>4

(* load_or_rebuild_model and the end of its task.                          *)
LEMMA IndexStep ==
    ASSUME TypeInv, MarkClean \/ LoadOrRebuildModel
    PROVE  TypeInv'
<1> USE DEF TypeInv, TypeOK
<1>1. FilesOK'
  BY DEF MarkClean, LoadOrRebuildModel, FilesOK, files
<1>2. CASE MarkClean
  <2>1. CASE call.task = "model"
    <3>1. call.built \in Indexes
      BY DEF ControlOK, Call
    <3> QED  BY <1>1, <1>2, <2>1, <3>1, UseIndexesInv DEF MarkClean, CallInv
  <2>2. CASE call.task # "model"
    BY <1>1, <1>2, <2>2, ReturnOkInv DEF MarkClean, MemoryOK, memory
  <2> QED  BY <2>1, <2>2
<1>3. CASE LoadOrRebuildModel
  <2> DEFINE m == call.model
             schema == schemas[m]
             built == IndexOf(schema, RowsOf(m))
  <2>1. /\ call.op \in {"register", "insert", "update"}
        /\ m \in Models /\ schema \in Schemas
    BY <1>3 DEF LoadOrRebuildModel, CallInv, MemoryOK
  <2>2. CASE CleanAndReadable({m})
    <3>1. LoadedIndexes(m, schema) \in Indexes
      BY <2>1, LoadedType
    <3>2. UseIndexes(m, LoadedIndexes(m, schema))
      BY <1>3, <2>2 DEF LoadOrRebuildModel
    <3> QED  BY <1>1, <2>1, <3>1, <3>2, UseIndexesInv
  <2>3. CASE /\ ~CleanAndReadable({m})
             /\ BuildFails(schema, RowsOf(m))
    BY <1>1, <1>3, <2>3, ReturnErrInv DEF LoadOrRebuildModel
  <2>4. CASE /\ ~CleanAndReadable({m})
             /\ ~BuildFails(schema, RowsOf(m))
    <3>1. /\ pc' = "dirty" /\ outcome' = outcome /\ UNCHANGED memory
          /\ call' = [call EXCEPT !.task = "model", !.built = built,
                                  !.todo = UniqueFields(schema)]
      BY <1>3, <2>4 DEF LoadOrRebuildModel
    <3>2. built \in Indexes
      BY <2>1, IndexOfType, EmptyTableType DEF RowsOf, MemoryOK
    <3>3. UniqueFields(schema) \subseteq Fields
      BY <2>1, UniqueFieldsType
    <3> HIDE DEF built, schema
    <3>4. call' \in Call
      BY <3>1, <3>2, <3>3 DEF ControlOK, Call
    <3>5. /\ call'.op = call.op /\ call'.task = "model"
          /\ call'.model = call.model /\ call'.row_id = call.row_id
          /\ call'.left = call.left
      BY <3>1 DEF ControlOK, Call
    <3>6. MemoryOK' /\ ControlOK' /\ CallInv'
      BY <2>1, <3>1, <3>4, <3>5
      DEF MemoryOK, ControlOK, CallInv, Locations, Opening, memory
    <3> QED  BY <1>1, <3>6
  <2> QED  BY <2>2, <2>3, <2>4
<1> QED  BY <1>2, <1>3

(* The fields of the call that CallOf makes.                               *)
LEMMA CallOfFields ==
    ASSUME NEW op, NEW m, NEW id, NEW row
    PROVE  LET c == CallOf(op, m, id, row)
           IN  /\ c.op = op /\ c.task = "none" /\ c.model = m
               /\ c.row_id = id /\ c.row = row /\ c.left = {}
BY DEF CallOf

(* register_schema up to its first write.                                  *)
LEMMA RegisterStep ==
    ASSUME TypeInv, NEW m \in Models, NEW s \in Schemas,
           RegisterSchema(m, s) \/ RegisterIncompatible(m, s)
    PROVE  TypeInv'
<1> USE DEF TypeInv, TypeOK
<1>1. CASE RegisterSchema(m, s)
  <2>1. FilesOK' /\ MemoryOK'
    BY <1>1 DEF RegisterSchema, FilesOK, MemoryOK, files
  <2>2. /\ call' \in Call /\ call'.op = "register" /\ call'.task = "none"
        /\ call'.model = m /\ call'.left = {}
    BY <1>1, CallOfType, CallOfFields, CellTypes, TableAssumption
    DEF RegisterSchema
  <2>3. schemas'[m] # None
    BY <1>1, EngineAssumption DEF RegisterSchema, MemoryOK
  <2>4. ControlOK' /\ CallInv'
    BY <1>1, <2>2, <2>3
    DEF RegisterSchema, ControlOK, CallInv, Locations, Opening
  <2> QED  BY <2>1, <2>4
<1>2. CASE RegisterIncompatible(m, s)
  BY <1>2, ReturnErrInv DEF RegisterIncompatible, FilesOK, files
<1> QED  BY <1>1, <1>2

(* save_schemas and load_rows.                                             *)
LEMMA RegisterFilesStep ==
    ASSUME TypeInv, SaveSchemas \/ SaveSchemasRefused \/ LoadRows
    PROVE  TypeInv'
<1> USE DEF TypeInv, TypeOK
<1>1. CASE SaveSchemas
  BY <1>1 DEF SaveSchemas, FilesOK, MemoryOK, ControlOK, CallInv, Locations,
              Opening, memory
<1>2. CASE SaveSchemasRefused
  BY <1>2, ReturnErrInv DEF SaveSchemasRefused, FilesOK, files
<1>3. CASE LoadRows
  <2>1. call.model \in Models /\ call.op = "register"
    BY <1>3 DEF LoadRows, CallInv
  <2>2. FilesOK'
    BY <1>3 DEF LoadRows, FilesOK, files
  <2>3. CASE rows[call.model] # None
    <3>1. NextIdOf(call.model) \in 0..MaxRowId
      BY <2>1, NextIdType DEF RowIds
    <3> QED  BY <1>3, <2>1, <2>2, <2>3, <3>1
             DEF LoadRows, MemoryOK, ControlOK, CallInv, Locations, Opening
  <2>4. CASE rows[call.model] = None /\ Readable(table[call.model])
    <3>1. table[call.model] \in Tables
      BY <2>1, <2>4 DEF FilesOK, TableFiles, Readable
    <3>2. NextRowId(table[call.model]) \in 0..MaxRowId
      BY <3>1, NextRowIdAbove DEF RowIds
    <3> QED  BY <1>3, <2>1, <2>2, <2>4, <3>1, <3>2
             DEF LoadRows, MemoryOK, ControlOK, CallInv, Locations, Opening
  <2>5. CASE rows[call.model] = None /\ ~Readable(table[call.model])
    BY <1>3, <2>2, <2>5, ReturnErrInv DEF LoadRows
  <2> QED  BY <2>3, <2>4, <2>5
<1> QED  BY <1>1, <1>2, <1>3

(* insert up to check_unique.                                              *)
LEMMA InsertStep ==
    ASSUME TypeInv, NEW m \in Models, NEW values \in Inserts, Insert(m, values)
    PROVE  TypeInv'
<1> USE DEF TypeInv, TypeOK
<1>1. FilesOK' /\ MemoryOK'
  BY DEF Insert, FilesOK, MemoryOK, files, memory
<1>2. NormalizeRow(schemas[m], values) \in Record
  BY RecordTypes, EngineAssumption DEF Insert, MemoryOK
<1>3. /\ call' \in Call /\ call'.op = "insert" /\ call'.task = "none"
      /\ call'.model = m /\ call'.left = {}
  BY <1>2, CallOfType, CallOfFields, TableAssumption DEF Insert
<1>4. ControlOK' /\ CallInv'
  BY <1>3 DEF Insert, CheckUniqueNext, ControlOK, CallInv, Locations, Opening,
              memory
<1> QED  BY <1>1, <1>4

(* update up to check_unique.                                              *)
LEMMA UpdateStep ==
    ASSUME TypeInv, NEW m \in Models, NEW filters \in Filters,
           NEW values \in Updates, Update(m, filters, values)
    PROVE  TypeInv'
<1> USE DEF TypeInv, TypeOK
<1> DEFINE id == FindRowId(m, filters)
           old == rows[m][id].record
           row == NormalizeRow(schemas[m], MergeRecord(old, values))
<1>1. FilesOK' /\ MemoryOK'
  BY DEF Update, FilesOK, MemoryOK, files, memory
<1>2. id \in RowIds /\ rows[m] # None
  BY FindRowIdType DEF Update, Found
<1>3. old \in Record
  BY <1>2 DEF MemoryOK, Tables, Cell
<1>4. row \in Record
  BY <1>3, MergeTypes, RecordTypes, EngineAssumption
  DEF Update, Found, MemoryOK
<1>5. call' = CallOf("update", m, id, row)
  BY DEF Update
<1> HIDE DEF id, old, row
<1>6. /\ call' \in Call /\ call'.op = "update" /\ call'.task = "none"
      /\ call'.model = m /\ call'.left = {} /\ call'.row_id = id
  BY <1>2, <1>4, <1>5, CallOfType, CallOfFields, SMTT(60) DEF RowIds
<1>7. ControlOK' /\ CallInv'
  BY <1>2, <1>6 DEF Update, Found, CheckUniqueNext, ControlOK, CallInv,
                    Locations, Opening, memory
<1> QED  BY <1>1, <1>7

(* delete up to mark_dirty.                                                *)
LEMMA DeleteStep ==
    ASSUME TypeInv, NEW m \in Models, NEW filters \in Filters,
           Delete(m, filters)
    PROVE  TypeInv'
<1> USE DEF TypeInv, TypeOK
<1> DEFINE id == FindRowId(m, filters)
           begun == CallOf("delete", m, id, EmptyRecord)
<1>1. FilesOK' /\ MemoryOK'
  BY DEF Delete, FilesOK, MemoryOK, files, memory
<1>2. id \in RowIds /\ rows[m] # None
  BY FindRowIdType DEF Delete, Found
<1>3. call' = [begun EXCEPT !.task = "write"]
  BY DEF Delete
<1>4. /\ begun \in Call /\ begun.op = "delete" /\ begun.model = m
      /\ begun.left = {} /\ begun.row_id = id
  BY <1>2, CallOfType, CallOfFields, CellTypes DEF RowIds
<1> HIDE DEF id, begun
<1>5. /\ call' \in Call /\ call'.op = "delete" /\ call'.task = "write"
      /\ call'.model = m /\ call'.left = {} /\ call'.row_id = id
  BY <1>3, <1>4 DEF Call
<1>6. ControlOK' /\ CallInv'
  BY <1>2, <1>5 DEF Delete, Found, ControlOK, CallInv, Locations, Opening,
                    memory
<1> QED  BY <1>1, <1>6

(* validate_unique and ensure_next_row_id.                                 *)
LEMMA ValidateUniqueStep ==
    ASSUME TypeInv, ValidateUnique
    PROVE  TypeInv'
<1> USE DEF TypeInv, TypeOK
<1>1. FilesOK'
  BY DEF ValidateUnique, FilesOK, files
<1>2. CASE UniqueConflict(indexes[call.model], call.row, call.row_id)
  BY <1>1, <1>2, ReturnErrInv DEF ValidateUnique
<1>3. CASE ~UniqueConflict(indexes[call.model], call.row, call.row_id)
  <2> DEFINE m == call.model
  <2>1. /\ m \in Models /\ call.op \in {"insert", "update"}
        /\ indexes[m] # None /\ NextIdOf(m) \in RowIds
    BY NextIdType DEF ValidateUnique, CallInv
  <2>2. MemoryOK'
    BY <1>3, <2>1 DEF ValidateUnique, MemoryOK, RowIds
  <2>3. CASE call.op = "insert"
    <3> DEFINE id == NextIdOf(m)
    <3>1. call' = [call EXCEPT !.task = "write", !.row_id = id]
      BY <1>3, <2>3 DEF ValidateUnique
    <3>a. id \in RowIds /\ id \in 0..MaxRowId
      BY <2>1 DEF RowIds
    <3> HIDE DEF id
    <3>2. /\ call' \in Call /\ call'.op = "insert" /\ call'.task = "write"
          /\ call'.model = m /\ call'.left = call.left
          /\ call'.row_id \in RowIds
      BY <2>3, <3>1, <3>a DEF ControlOK, Call
    <3> QED  BY <1>1, <1>3, <2>1, <2>2, <3>2
             DEF ValidateUnique, ControlOK, CallInv, Locations, Opening
  <2>4. CASE call.op = "update"
    <3>1. call' = [call EXCEPT !.task = "write"]
      BY <1>3, <2>4 DEF ValidateUnique
    <3>2. /\ call' \in Call /\ call'.op = "update" /\ call'.task = "write"
          /\ call'.model = m /\ call'.left = call.left
          /\ call'.row_id = call.row_id
      BY <2>1, <2>4, <3>1 DEF ControlOK, Call
    <3> QED  BY <1>1, <1>3, <2>1, <2>2, <2>4, <3>2
             DEF ValidateUnique, ControlOK, CallInv, Locations, Opening
  <2> QED  BY <2>1, <2>3, <2>4
<1> QED  BY <1>2, <1>3

(* The counter saturates at the largest row id.                            *)
LEMMA SaturatingNextType ==
    ASSUME NEW id \in RowIds
    PROVE  SaturatingNext(id) \in 0..MaxRowId
BY TableAssumption DEF SaturatingNext, RowIds

(* What the append of a row leaves in memory and in hand.                  *)
LEMMA SaveNextInv ==
    ASSUME TypeInv, pc = "append", NEW built \in Indexes,
           MemoryOK', UNCHANGED <<schemas, outcome>>,
           rows'[call.model] # None, indexes'[call.model] # None,
           SaveNext(built)
    PROVE  ControlOK' /\ CallInv'
<1> USE DEF TypeInv, TypeOK
<1>1. /\ call' = [call EXCEPT !.built = built, !.todo = IndexedFields(built)]
      /\ pc' = "save"
  BY DEF SaveNext
<1>2. IndexedFields(built) \subseteq Fields
  BY DEF IndexedFields
<1>3. call' \in Call
  BY <1>1, <1>2 DEF ControlOK, Call
<1>4. /\ call'.op = call.op /\ call'.task = call.task
      /\ call'.model = call.model /\ call'.row_id = call.row_id
      /\ call'.left = call.left
  BY <1>1 DEF ControlOK, Call
<1> QED  BY <1>1, <1>3, <1>4 DEF ControlOK, CallInv, Locations, Opening

(* append_operation and the change of the memory after it.                 *)
LEMMA AppendStep ==
    ASSUME TypeInv,
           AppendInsert \/ AppendUpdate \/ AppendDelete \/ AppendRefused
    PROVE  TypeInv'
<1> USE DEF TypeInv, TypeOK
<1> DEFINE m == call.model
           id == call.row_id
           row == call.row
           old == rows[m][id].record
<1>1. CASE AppendRefused
  BY <1>1, ReturnErrInv DEF AppendRefused, FilesOK, files
<1>2. ASSUME AppendInsert \/ AppendUpdate \/ AppendDelete
      PROVE  /\ pc = "append" /\ m \in Models /\ id \in RowIds
             /\ row \in Record /\ table[m] \in TableFiles
             /\ call.op \in {"update", "delete"} =>
                   rows[m] \in Tables /\ old \in Record
             /\ call.op # "delete" => indexes[m] \in Indexes
  <2>1. call.op \in {"insert", "update", "delete"} /\ call.task = "write"
        /\ pc = "append"
    BY <1>2 DEF AppendInsert, AppendUpdate, AppendDelete, CallInv
  <2>2. m \in Models /\ id \in RowIds /\ row \in Record
    BY <2>1 DEF CallInv, ControlOK, Call
  <2>3. call.op \in {"update", "delete"} => rows[m] \in Tables
    BY <2>1, <2>2 DEF CallInv, MemoryOK
  <2>4. call.op \in {"update", "delete"} => old \in Record
    BY <2>2, <2>3 DEF Tables, Cell
  <2> QED  BY <2>1, <2>2, <2>3, <2>4 DEF CallInv, MemoryOK, FilesOK
<1>3. CASE AppendInsert
  <2> DEFINE built == IndexInsert(indexes[m], id, row)
  <2>1. built \in Indexes
    BY <1>2, <1>3, IndexTypes DEF AppendInsert
  <2>2. ReplayInsert(table[m], id, row) \in TableFiles
    BY <1>2, <1>3, ReplayTypes
  <2>3. RowsOf(m) \in Tables
    BY <1>2, <1>3, EmptyTableType DEF RowsOf, MemoryOK
  <2>4. [RowsOf(m) EXCEPT ![id] = LiveRow(row)] \in Tables
    BY <1>2, <1>3, <2>3, CellTypes DEF Tables
  <2>5. SaturatingNext(id) \in 0..MaxRowId
    BY <1>2, <1>3, SaturatingNextType
  <2> DEFINE file == ReplayInsert(table[m], id, row)
             after == [RowsOf(m) EXCEPT ![id] = LiveRow(row)]
             next == SaturatingNext(id)
  <2>6. /\ table' = [table EXCEPT ![m] = file]
        /\ rows' = [rows EXCEPT ![m] = after]
        /\ next_row_ids' = [next_row_ids EXCEPT ![m] = next]
        /\ indexes' = [indexes EXCEPT ![m] = built]
        /\ SaveNext(built)
        /\ UNCHANGED <<meta, schemaFile, ixClean, ixFile, schemas, outcome>>
    BY <1>3 DEF AppendInsert
  <2> HIDE DEF file, after, next, built
  <2>7. FilesOK' /\ MemoryOK'
    BY <1>2, <1>3, <2>1, <2>2, <2>4, <2>5, <2>6
    DEF FilesOK, MemoryOK, file, after, next
  <2>8. rows'[m] # None /\ indexes'[m] # None
    BY <1>2, <1>3, <2>1, <2>4, <2>6, IndexAssumption
    DEF MemoryOK, TableFiles, after
  <2> QED  BY <1>2, <1>3, <2>1, <2>6, <2>7, <2>8, SaveNextInv
<1>4. CASE AppendUpdate
  <2> DEFINE built == IndexInsert(IndexRemove(indexes[m], id, old), id, row)
             file == ReplayUpdate(table[m], id, row)
             after == [rows[m] EXCEPT ![id] = LiveRow(row)]
  <2>0. call.op = "update"
    BY <1>4 DEF AppendUpdate
  <2>1. built \in Indexes
    BY <1>2, <1>4, <2>0, IndexTypes
  <2>2. file \in TableFiles
    BY <1>2, <1>4, ReplayTypes
  <2>3. after \in Tables
    BY <1>2, <1>4, <2>0, CellTypes DEF Tables
  <2>4. /\ table' = [table EXCEPT ![m] = file]
        /\ rows' = [rows EXCEPT ![m] = after]
        /\ indexes' = [indexes EXCEPT ![m] = built]
        /\ SaveNext(built)
        /\ UNCHANGED <<meta, schemaFile, ixClean, ixFile, schemas,
                       next_row_ids, outcome>>
    BY <1>4 DEF AppendUpdate
  <2> HIDE DEF file, after, built
  <2>5. FilesOK' /\ MemoryOK'
    BY <1>2, <1>4, <2>1, <2>2, <2>3, <2>4 DEF FilesOK, MemoryOK
  <2>6. rows'[m] # None /\ indexes'[m] # None
    BY <1>2, <1>4, <2>1, <2>3, <2>4, IndexAssumption DEF MemoryOK, TableFiles
  <2> QED  BY <1>2, <1>4, <2>1, <2>4, <2>5, <2>6, SaveNextInv
<1>5. CASE AppendDelete
  <2> DEFINE built == IndexRemove(indexes[m], id, old)
             file == ReplayDelete(table[m], id)
             after == [rows[m] EXCEPT ![id] = DeadRow]
  <2>0. call.op = "delete"
    BY <1>5 DEF AppendDelete
  <2>1. file \in TableFiles
    BY <1>2, <1>5, CellTypes, ReplayTypes
  <2>2. after \in Tables
    BY <1>2, <1>5, <2>0, CellTypes DEF Tables
  <2>3. /\ table' = [table EXCEPT ![m] = file]
        /\ rows' = [rows EXCEPT ![m] = after]
        /\ UNCHANGED <<meta, schemaFile, ixClean, ixFile, schemas,
                       next_row_ids, outcome>>
    BY <1>5 DEF AppendDelete
  <2>4. rows'[m] # None
    BY <1>2, <1>5, <2>2, <2>3, IndexAssumption DEF MemoryOK, TableFiles
  <2>5. FilesOK'
    BY <1>2, <1>5, <2>1, <2>3 DEF FilesOK
  <2>6. rows' \in [Models -> Tables \cup {None}]
    BY <1>2, <1>5, <2>2, <2>3 DEF MemoryOK
  <2>7. CASE indexes[m] = None
    <3>1. pc' = "clean" /\ UNCHANGED <<indexes, call>>
      BY <1>5, <2>7 DEF AppendDelete
    <3> QED  BY <1>2, <1>5, <2>0, <2>3, <2>4, <2>5, <2>6, <3>1
             DEF MemoryOK, ControlOK, CallInv, Locations, Opening
  <2>8. CASE indexes[m] # None
    <3>1. indexes' = [indexes EXCEPT ![m] = built] /\ SaveNext(built)
      BY <1>5, <2>8 DEF AppendDelete
    <3>2. indexes[m] \in Indexes
      BY <1>2, <1>5, <2>8 DEF MemoryOK
    <3>3. built \in Indexes
      BY <1>2, <1>5, <2>0, <3>2, IndexTypes
    <3> HIDE DEF built
    <3>4. MemoryOK' /\ indexes'[m] # None
      BY <1>2, <1>5, <2>3, <2>6, <3>1, <3>3, IndexAssumption DEF MemoryOK
    <3> QED  BY <1>2, <1>5, <2>3, <2>4, <2>5, <3>1, <3>3, <3>4, SaveNextInv
  <2> QED  BY <2>7, <2>8
<1> QED  BY <1>1, <1>3, <1>4, <1>5

(* The process stops or a file operation fails.                            *)
LEMMA FailureStep ==
    ASSUME TypeInv, Crash \/ IoError
    PROVE  TypeInv'
<1>1. FilesOK'
  BY PartialWriteType DEF Crash, IoError
<1>2. CASE Crash
  <2>1. MemoryOK'
    BY <1>2, NoMemoryType DEF Crash
  <2>2. ControlOK' /\ CallInv'
    BY <1>2, NoCallType, NoCallFields
    DEF Crash, ControlOK, CallInv, Locations, Opening
  <2> QED  BY <1>1, <2>1, <2>2 DEF TypeInv, TypeOK
<1>3. CASE IoError
  BY <1>1, <1>3, ReturnErrInv DEF IoError, TypeInv, TypeOK
<1> QED  BY <1>2, <1>3

-----------------------------------------------------------------------------
(* Every step, also one that fails, keeps the types.                       *)
LEMMA TypeInvStep == TypeInv /\ [FaultyNext]_vars => TypeInv'
<1> SUFFICES ASSUME TypeInv, [FaultyNext]_vars PROVE TypeInv'
  OBVIOUS
<1>1. CASE UNCHANGED vars
  BY <1>1 DEF vars, TypeInv, TypeOK, FilesOK, MemoryOK, ControlOK, CallInv
<1>2. CASE Open
  BY <1>2, OpenStep
<1>3. CASE Request
  BY <1>3, RegisterStep, InsertStep, UpdateStep, DeleteStep DEF Request
<1>4. CASE Work
  BY <1>4, LoadStep, RebuildStep, SaveStep, IndexStep, RegisterFilesStep,
     ValidateUniqueStep, AppendStep DEF Work
<1>5. CASE Crash \/ IoError
  BY <1>5, FailureStep
<1> QED  BY <1>1, <1>2, <1>3, <1>4, <1>5 DEF FaultyNext, Next

(* TypeOK holds in every state, whatever fails: no handler ever changes an *)
(* index or a row that is not there, or counts row ids out of their range. *)
THEOREM TypeCorrect == FaultySpec => []TypeOK
<1>1. TypeInv => TypeOK
  BY DEF TypeInv
<1> QED  BY InitTypeInv, TypeInvStep, <1>1, PTL DEF FaultySpec

-----------------------------------------------------------------------------
(***************************************************************************)
(* Safety: SafetyInv is inductive.  The steps follow the handlers.         *)
(***************************************************************************)

-----------------------------------------------------------------------------
(***************************************************************************)
(* The indexes of a table: what TableIndexes::insert and remove make of    *)
(* the indexes of a table are the indexes of the table the log then holds, *)
(* and uniqueness carries over.                                            *)
(***************************************************************************)

(* An entry of a field belongs to a live row that has the field.           *)
LEMMA EntryOf ==
    ASSUME NEW t, NEW f, NEW v, NEW id
    PROVE  <<v, id>> \in EntriesOf(t, f) <=>
              id \in LiveIds(t) /\ f \in DOMAIN t[id].record /\ v = t[id].record[f]
BY DEF EntriesOf

(* An entry is a value and the id of a live row.                           *)
LEMMA EntriesArePairs ==
    ASSUME NEW t, NEW f, NEW p \in EntriesOf(t, f)
    PROVE  p = <<p[1], p[2]>> /\ p[2] \in LiveIds(t)
BY DEF EntriesOf

(* Exactly the id and unique fields are indexed, and the map of one holds  *)
(* for a value the live rows that have it.                                 *)
LEMMA IndexedFieldsOf ==
    ASSUME NEW t \in Tables, NEW schema, UniqueFields(schema) \subseteq Fields
    PROVE  IndexedFields(IndexOf(schema, t)) = UniqueFields(schema)
<1>1. \A f \in Fields : EntriesOf(t, f) # NoMap
  BY EntriesOfType, NoMapIsNoMap
<1> QED  BY <1>1 DEF IndexedFields, IndexOf

(* A lookup finds the live rows that hold the value.                       *)
LEMMA HitsOf ==
    ASSUME NEW t, NEW f, NEW v
    PROVE  Hits(EntriesOf(t, f), v) =
              {id \in LiveIds(t) : f \in DOMAIN t[id].record /\ v = t[id].record[f]}
BY EntryOf DEF Hits, LiveIds

(* A row that check_unique lets pass conflicts with no live row.           *)
LEMMA CheckUnique ==
    ASSUME NEW t \in Tables, NEW schema, UniqueFields(schema) \subseteq Fields,
           NEW row, NEW id, ~UniqueConflict(IndexOf(schema, t), row, id)
    PROVE  RowUnique(schema, t, id, row)
<1> SUFFICES ASSUME NEW other \in LiveIds(t), other # id,
                    NEW f \in UniqueFields(schema),
                    f \in DOMAIN row, f \in DOMAIN t[other].record,
                    row[f] = t[other].record[f]
             PROVE  FALSE
  BY DEF RowUnique
<1>1. f \in IndexedFields(IndexOf(schema, t)) /\ IndexOf(schema, t)[f] = EntriesOf(t, f)
  BY IndexedFieldsOf DEF IndexOf
<1>2. other \in Hits(EntriesOf(t, f), row[f])
  BY HitsOf
<1> QED  BY <1>1, <1>2 DEF UniqueConflict

-----------------------------------------------------------------------------
(* The live rows after an operation.                                       *)
LEMMA LiveAfter ==
    ASSUME NEW t \in Tables, NEW id \in RowIds, NEW row
    PROVE  /\ LiveIds([t EXCEPT ![id] = LiveRow(row)]) = LiveIds(t) \cup {id}
           /\ UsedIds([t EXCEPT ![id] = LiveRow(row)]) = UsedIds(t) \cup {id}
           /\ LiveIds([t EXCEPT ![id] = DeadRow]) = LiveIds(t) \ {id}
           /\ UsedIds([t EXCEPT ![id] = DeadRow]) = UsedIds(t) \cup {id}
           /\ LiveIds(t) \subseteq UsedIds(t) /\ UsedIds(t) \subseteq RowIds
BY DEF Tables, LiveIds, UsedIds, LiveRow, DeadRow

(* A write of a row leaves the other rows alone.                           *)
LEMMA LiveRecord ==
    ASSUME NEW t \in Tables, NEW id \in RowIds, NEW row
    PROVE  LET after == [t EXCEPT ![id] = LiveRow(row)]
           IN  /\ after[id].record = row
               /\ \A other \in RowIds \ {id} : after[other] = t[other]
BY DEF Tables, LiveRow

(* The entries after an insert, a delete.                                  *)
LEMMA EntriesAfterInsert ==
    ASSUME NEW t \in Tables, NEW id \in RowIds, id \notin LiveIds(t),
           NEW row, NEW f
    PROVE  EntriesOf([t EXCEPT ![id] = LiveRow(row)], f) =
              EntriesOf(t, f) \cup
                 (IF f \in DOMAIN row THEN {<<row[f], id>>} ELSE {})
<1> DEFINE after == [t EXCEPT ![id] = LiveRow(row)]
<1>1. LiveIds(after) = LiveIds(t) \cup {id}
  BY LiveAfter
<1>2. /\ after[id].record = row
      /\ \A other \in LiveIds(t) : after[other] = t[other]
  BY LiveRecord DEF LiveIds
<1> HIDE DEF after
<1>3. ASSUME NEW v, NEW other
      PROVE  <<v, other>> \in EntriesOf(after, f) <=>
                <<v, other>> \in EntriesOf(t, f) \cup
                   (IF f \in DOMAIN row THEN {<<row[f], id>>} ELSE {})
  BY <1>1, <1>2, EntryOf
<1>4. \A p \in EntriesOf(after, f) : p = <<p[1], p[2]>>
  BY EntriesArePairs
<1>5. \A p \in EntriesOf(t, f) \cup
             (IF f \in DOMAIN row THEN {<<row[f], id>>} ELSE {}) : p = <<p[1], p[2]>>
  BY EntriesArePairs
<1>6. EntriesOf(after, f) = EntriesOf(t, f) \cup
             (IF f \in DOMAIN row THEN {<<row[f], id>>} ELSE {})
  BY <1>3, <1>4, <1>5
<1> QED  BY <1>6 DEF after

(* Deleting a row takes its entry out of every field it has.               *)
LEMMA EntriesAfterDelete ==
    ASSUME NEW t \in Tables, NEW id \in LiveIds(t), NEW f
    PROVE  EntriesOf([t EXCEPT ![id] = DeadRow], f) =
              IF f \in DOMAIN t[id].record
              THEN EntriesOf(t, f) \ {<<t[id].record[f], id>>}
              ELSE EntriesOf(t, f)
<1> DEFINE after == [t EXCEPT ![id] = DeadRow]
           rest == IF f \in DOMAIN t[id].record
                   THEN EntriesOf(t, f) \ {<<t[id].record[f], id>>}
                   ELSE EntriesOf(t, f)
<1>1. id \in RowIds /\ LiveIds(after) = LiveIds(t) \ {id}
  BY LiveAfter DEF LiveIds
<1>2. \A other \in LiveIds(t) \ {id} : after[other] = t[other]
  BY DEF Tables, LiveIds
<1>3. ASSUME NEW v, NEW other
      PROVE  <<v, other>> \in EntriesOf(after, f) <=> <<v, other>> \in rest
  <2> HIDE DEF after
  <2>1. <<v, other>> \in EntriesOf(after, f) <=>
           /\ other \in LiveIds(t) \ {id}
           /\ f \in DOMAIN t[other].record /\ v = t[other].record[f]
    BY <1>1, <1>2, EntryOf
  <2>2. <<v, other>> \in EntriesOf(t, f) <=>
           /\ other \in LiveIds(t)
           /\ f \in DOMAIN t[other].record /\ v = t[other].record[f]
    BY EntryOf
  <2>3. <<v, other>> = <<t[id].record[f], id>> <=> v = t[id].record[f] /\ other = id
    OBVIOUS
  <2> QED  BY <2>1, <2>2, <2>3
<1>4. \A p \in EntriesOf(after, f) : p = <<p[1], p[2]>>
  BY EntriesArePairs
<1>5. \A p \in rest : p = <<p[1], p[2]>>
  BY EntriesArePairs
<1> HIDE DEF after, rest
<1>6. EntriesOf(after, f) = rest
  BY <1>3, <1>4, <1>5
<1> QED  BY <1>6 DEF after, rest

-----------------------------------------------------------------------------
(* TableIndexes::insert on the indexes of a table, for a row id that is    *)
(* not live.                                                               *)
LEMMA InsertIndexes ==
    ASSUME NEW t \in Tables, NEW schema, UniqueFields(schema) \subseteq Fields,
           NEW id \in RowIds, id \notin LiveIds(t),
           NEW row, RowUnique(schema, t, id, row)
    PROVE  IndexInsert(IndexOf(schema, t), id, row) =
              IndexOf(schema, [t EXCEPT ![id] = LiveRow(row)])
<1> DEFINE after == [t EXCEPT ![id] = LiveRow(row)]
<1>1. IndexedFields(IndexOf(schema, t)) = UniqueFields(schema)
  BY IndexedFieldsOf
<1>2. ASSUME NEW f \in UniqueFields(schema) \cap DOMAIN row
      PROVE  PutEntry(EntriesOf(t, f), row[f], id) = EntriesOf(after, f)
  <2>1. \A p \in EntriesOf(t, f) : p[1] # row[f]
    <3> SUFFICES ASSUME NEW p \in EntriesOf(t, f), p[1] = row[f] PROVE FALSE
      OBVIOUS
    <3>1. /\ p[2] \in LiveIds(t) /\ f \in DOMAIN t[p[2]].record
          /\ p[1] = t[p[2]].record[f]
      BY EntryOf, EntriesArePairs
    <3> QED  BY <3>1 DEF RowUnique
  <2>2. EntriesOf(after, f) = EntriesOf(t, f) \cup {<<row[f], id>>}
    BY EntriesAfterInsert
  <2> HIDE DEF after
  <2> QED  BY <2>1, <2>2 DEF PutEntry
<1>3. ASSUME NEW f \in UniqueFields(schema) \ DOMAIN row
      PROVE  EntriesOf(t, f) = EntriesOf(after, f)
  <2>1. EntriesOf(after, f) = EntriesOf(t, f) \cup
           (IF f \in DOMAIN row THEN {<<row[f], id>>} ELSE {})
    BY EntriesAfterInsert
  <2> HIDE DEF after
  <2> QED  BY <2>1
<1> HIDE DEF after
<1>4. IndexInsert(IndexOf(schema, t), id, row) = IndexOf(schema, after)
  BY <1>1, <1>2, <1>3 DEF IndexInsert, IndexOf
<1> QED  BY <1>4 DEF after

(* TableIndexes::remove, for a live row.                                   *)
LEMMA RemoveIndexes ==
    ASSUME NEW t \in Tables, NEW schema, UniqueFields(schema) \subseteq Fields,
           NEW id \in LiveIds(t)
    PROVE  IndexRemove(IndexOf(schema, t), id, t[id].record) =
              IndexOf(schema, [t EXCEPT ![id] = DeadRow])
<1> DEFINE after == [t EXCEPT ![id] = DeadRow]
<1>1. IndexedFields(IndexOf(schema, t)) = UniqueFields(schema)
  BY IndexedFieldsOf
<1>2. \A f \in UniqueFields(schema) \cap DOMAIN t[id].record :
         EntriesOf(t, f) \ {<<t[id].record[f], id>>} = EntriesOf(after, f)
  BY EntriesAfterDelete
<1>3. \A f \in UniqueFields(schema) \ DOMAIN t[id].record :
         EntriesOf(t, f) = EntriesOf(after, f)
  BY EntriesAfterDelete
<1> HIDE DEF after
<1>4. IndexRemove(IndexOf(schema, t), id, t[id].record) = IndexOf(schema, after)
  BY <1>1, <1>2, <1>3 DEF IndexRemove, IndexOf
<1> QED  BY <1>4 DEF after

(* What update does: remove of the old row, insert of the new one.         *)
LEMMA UpdateIndexes ==
    ASSUME NEW t \in Tables, NEW schema, UniqueFields(schema) \subseteq Fields,
           NEW id \in LiveIds(t), NEW row, RowUnique(schema, t, id, row)
    PROVE  IndexInsert(IndexRemove(IndexOf(schema, t), id, t[id].record), id, row) =
              IndexOf(schema, [t EXCEPT ![id] = LiveRow(row)])
<1> DEFINE dead == [t EXCEPT ![id] = DeadRow]
<1>1. id \in RowIds /\ dead \in Tables
  BY CellTypes DEF Tables, LiveIds
<1>2. IndexRemove(IndexOf(schema, t), id, t[id].record) = IndexOf(schema, dead)
  BY RemoveIndexes
<1>3. LiveIds(dead) = LiveIds(t) \ {id}
  BY <1>1, LiveAfter
<1>4. \A other \in LiveIds(t) \ {id} : dead[other] = t[other]
  BY DEF Tables, LiveIds
<1>5. [dead EXCEPT ![id] = LiveRow(row)] = [t EXCEPT ![id] = LiveRow(row)]
  BY DEF Tables
<1> HIDE DEF dead
<1>6. RowUnique(schema, dead, id, row)
  BY <1>3, <1>4 DEF RowUnique
<1>7. IndexInsert(IndexOf(schema, dead), id, row) =
         IndexOf(schema, [dead EXCEPT ![id] = LiveRow(row)])
  BY <1>1, <1>3, <1>6, InsertIndexes
<1> QED  BY <1>2, <1>5, <1>7

-----------------------------------------------------------------------------
(* Uniqueness of the live rows carries over.                               *)
LEMMA UniqueAfterWrite ==
    ASSUME NEW t \in Tables, NEW schema, ~BuildFails(schema, t),
           NEW id \in RowIds, NEW row, RowUnique(schema, t, id, row)
    PROVE  ~BuildFails(schema, [t EXCEPT ![id] = LiveRow(row)])
<1> DEFINE after == [t EXCEPT ![id] = LiveRow(row)]
<1>1. LiveIds(after) = LiveIds(t) \cup {id}
  BY LiveAfter
<1>2. /\ after[id].record = row
      /\ \A other \in LiveIds(t) \ {id} : after[other] = t[other]
  BY LiveRecord DEF LiveIds
<1> HIDE DEF after
<1>3. ASSUME NEW i \in LiveIds(after), NEW j \in LiveIds(after), i # j
      PROVE  ~SameUnique(schema, after, i, j)
  <2>1. CASE i # id /\ j # id
    BY <1>1, <1>2, <1>3, <2>1 DEF BuildFails, SameUnique
  <2>2. CASE i = id /\ j # id
    BY <1>1, <1>2, <2>2 DEF RowUnique, SameUnique
  <2>3. CASE i # id /\ j = id
    BY <1>1, <1>2, <2>3 DEF RowUnique, SameUnique
  <2> QED  BY <1>3, <2>1, <2>2, <2>3
<1>4. ~BuildFails(schema, after)
  BY <1>3 DEF BuildFails
<1> QED  BY <1>4 DEF after

(* Deleting a row keeps unique values unique.                              *)
LEMMA UniqueAfterDelete ==
    ASSUME NEW t \in Tables, NEW schema, ~BuildFails(schema, t), NEW id \in RowIds
    PROVE  ~BuildFails(schema, [t EXCEPT ![id] = DeadRow])
<1> DEFINE after == [t EXCEPT ![id] = DeadRow]
<1>1. LiveIds(after) = LiveIds(t) \ {id}
  BY LiveAfter
<1>2. \A other \in LiveIds(t) \ {id} : after[other] = t[other]
  BY DEF Tables, LiveIds
<1> HIDE DEF after
<1>3. ~BuildFails(schema, after)
  BY <1>1, <1>2 DEF BuildFails, SameUnique
<1> QED  BY <1>3 DEF after

(* The empty table has no row to conflict with.                            *)
LEMMA EmptyTableUnique ==
    ASSUME NEW schema
    PROVE  ~BuildFails(schema, EmptyTable) /\ LiveIds(EmptyTable) = {}
BY EmptyTableType DEF BuildFails, LiveIds, UsedIds

-----------------------------------------------------------------------------
(* The counter stays above the ids in use.                                 *)
LEMMA AboveIsNew ==
    ASSUME NEW t \in Tables, NEW id, Above(id, t), id < MaxRowId
    PROVE  id \in RowIds /\ id \notin UsedIds(t) /\ id \notin LiveIds(t)
BY TableAssumption DEF Above, RowIds, UsedIds, LiveIds

(* After an insert the counter is above the new id as well.                *)
LEMMA AboveAfterInsert ==
    ASSUME NEW t \in Tables, NEW id, Above(id, t), id < MaxRowId, NEW row
    PROVE  Above(SaturatingNext(id), [t EXCEPT ![id] = LiveRow(row)])
<1>1. id \in RowIds
  BY DEF Above
<1>2. UsedIds([t EXCEPT ![id] = LiveRow(row)]) = UsedIds(t) \cup {id}
  BY <1>1, LiveAfter
<1>3. SaturatingNext(id) = id + 1 /\ id + 1 \in RowIds
  BY <1>1, TableAssumption DEF SaturatingNext, RowIds
<1>4. \A used \in UsedIds(t) \cup {id} : used < id + 1
  BY <1>1, TableAssumption DEF Above, RowIds, UsedIds
<1> QED  BY <1>2, <1>3, <1>4 DEF Above

(* The row id computed from a table is above those in use.                 *)
LEMMA AboveNextRowId ==
    ASSUME NEW t \in Tables
    PROVE  Above(NextRowId(t), t)
BY NextRowIdAbove DEF Above

-----------------------------------------------------------------------------
(* What the invariant says of one model.                                   *)
LEMMA ModelFacts ==
    ASSUME TypeInv, SafetyInv, Loaded, NEW m \in KnownModels, ~RowsToLoad(m)
    PROVE  /\ m \in Models /\ schemas[m] \in Schemas
           /\ rows[m] = table[m] /\ RowsOf(m) = table[m] /\ table[m] \in Tables
           /\ Readable(table[m])
           /\ Above(next_row_ids[m], table[m])
           /\ NextIdOf(m) = next_row_ids[m]
           /\ UniqueFields(schemas[m]) \subseteq Fields
<1>1. m \in Models /\ schemas[m] \in Schemas
  BY DEF KnownModels, TypeInv, TypeOK, MemoryOK
<1>2. RowsLoaded(m)
  BY <1>1 DEF SafetyInv, HandlerInv, RowsKept, Unknown, KnownModels
<1>3. rows[m] \in Tables
  BY <1>1, <1>2, IndexAssumption
  DEF RowsLoaded, TypeInv, TypeOK, MemoryOK, FilesOK
<1>4. Readable(table[m])
  BY <1>2, <1>3, TableAssumption DEF RowsLoaded, Readable
<1>5. next_row_ids[m] # 0
  BY <1>2 DEF RowsLoaded, Above, RowIds
<1>6. rows[m] # None
  BY <1>3, IndexAssumption DEF TableFiles
<1> QED  BY <1>1, <1>2, <1>3, <1>4, <1>5, <1>6, UniqueFieldsType
         DEF RowsLoaded, RowsOf, NextIdOf

(* A loaded model is persisted, and its log is unique, valid and, if the   *)
(* manifest says clean, described by its index files.                      *)
LEMMA PersistedFacts ==
    ASSUME TypeInv, SafetyInv, Loaded, pc # "save_schemas", NEW m \in KnownModels,
           ~RowsToLoad(m)
    PROVE  /\ schemaFile # Unreadable /\ schemaFile[m] = schemas[m]
           /\ m \in PersistedModels
           /\ ~BuildFails(schemas[m], table[m])
           /\ \A id \in LiveIds(table[m]) : ValidRow(schemas[m], table[m][id].record)
           /\ ixClean => \A f \in UniqueFields(schemas[m]) :
                            ixFile[m][f] \in {NoMap, EntriesOf(table[m], f)}
<1>1. schemaFile # Unreadable /\ schemaFile[m] = schemas[m] /\ schemas[m] # None
  BY DEF SafetyInv, HandlerInv, SchemasKept, KnownModels
<1>2. m \in PersistedModels
  BY <1>1, ModelFacts DEF PersistedModels
<1> QED  BY <1>1, <1>2
         DEF SafetyInv, FileInv, UniqueInLog, StoredRowsValid,
             CleanImpliesFresh

(* A step that leaves a model alone leaves it steady.                      *)
LEMMA SteadyKept ==
    ASSUME NEW m, Steady(m), indexes'[m] = indexes[m], schemas'[m] = schemas[m],
           table'[m] = table[m], ixFile'[m] = ixFile[m]
    PROVE  Steady(m)'
BY DEF Steady, Saved

(* Steps that leave the schema file, the logs and the index files alone.   *)
LEMMA FilesKept ==
    ASSUME SafetyInv, UNCHANGED <<schemaFile, table, ixFile>>, ixClean' => ixClean
    PROVE  FileInv'
BY DEF SafetyInv, FileInv, NothingUnnamed, LogReplays, UniqueInLog,
       StoredRowsValid, CleanImpliesFresh, PersistedModels

-----------------------------------------------------------------------------
(* Returning from a handler.                                               *)
LEMMA NoCallOps ==
    /\ NoCall.op = "none" /\ NoCall.task = "none" /\ NoCall.left = {}
    /\ NoCall.model = None
BY DEF NoCall, CallOf

(* An open that fails on a damaged file leaves no memory and the files as  *)
(* they were.                                                              *)
LEMMA OpenFailed ==
    ASSUME SafetyInv, call.op = "open", ReturnErr, UNCHANGED files, ~FilesIntact
    PROVE  SafetyInv'
<1>1. FileInv'
  BY FilesKept DEF files
<1>2. pc' = "down" /\ call' = NoCall /\ NoMemory(schemas', rows', next_row_ids', indexes')
  BY DEF ReturnErr
<1>3. ~FilesIntact'
  BY DEF FilesIntact, files
<1>4. RowsKept'
  BY <1>2 DEF RowsKept, Loaded, NoMemory
<1>5. Placed' /\ SchemasKept' /\ RowInHand' /\ OthersSteady' /\ BuiltInHand'
  BY <1>2, NoCallOps
  DEF Placed, SchemasKept, Loaded, RowInHand, OthersSteady, BuiltInHand
<1> QED  BY <1>1, <1>2, <1>3, <1>4, <1>5
         DEF SafetyInv, HandlerInv, MarkedDirty, OpenSucceeds

(* A handler gives the engine back with every model settled.               *)
LEMMA Returned ==
    ASSUME pc' = "idle", call' = NoCall, FileInv',
           schemaFile' # Unreadable,
           \A m \in Models : schemas'[m] = schemaFile'[m],
           \A m \in Models : Unknown(m)' \/ RowsLoaded(m)',
           \A m \in KnownModels' : Steady(m)'
    PROVE  SafetyInv'
<1>1. Placed' /\ RowInHand' /\ BuiltInHand'
  BY NoCallOps DEF Placed, RowInHand, BuiltInHand
<1>2. SchemasKept' /\ RowsKept' /\ OthersSteady'
  BY DEF SchemasKept, RowsKept, OthersSteady, Loaded
<1> QED  BY <1>1, <1>2 DEF SafetyInv, HandlerInv, MarkedDirty, OpenSucceeds

-----------------------------------------------------------------------------
(* The empty directory satisfies the invariant.                            *)
THEOREM InitSafetyInv == Init => SafetyInv
<1> SUFFICES ASSUME Init PROVE SafetyInv
  OBVIOUS
<1>1. None \notin Schemas /\ schemaFile # Unreadable
  BY EngineAssumption DEF Init
<1>2. EmptyTable # Corrupt
  BY EmptyTableType, TableAssumption
<1>3. FileInv
  BY <1>1, <1>2 DEF Init, FileInv, NothingUnnamed, LogReplays, UniqueInLog,
     StoredRowsValid, CleanImpliesFresh, PersistedModels
<1>4. HandlerInv
  BY NoCallOps DEF Init, HandlerInv, Placed, SchemasKept, RowsKept, RowInHand,
     OthersSteady, BuiltInHand, MarkedDirty, OpenSucceeds, Loaded
<1> QED  BY <1>3, <1>4 DEF SafetyInv

-----------------------------------------------------------------------------
(* Engine::open                                                            *)
LEMMA OpenSafe ==
    ASSUME TypeInv, SafetyInv, Open
    PROVE  SafetyInv'
<1>1. FileInv'
  BY FilesKept DEF Open, files
<1>2. /\ pc = "down" /\ pc' = "manifest" /\ outcome' = "none"
      /\ call'.op = "open" /\ call'.task = "none"
  BY CallOfFields DEF Open
<1>3. RowsKept'
  BY <1>2 DEF Open, SafetyInv, HandlerInv, RowsKept, Loaded, NoMemory, memory
<1>4. Placed' /\ SchemasKept' /\ RowInHand' /\ OthersSteady' /\ BuiltInHand'
  BY <1>2 DEF Placed, Opening, SchemasKept, Loaded, RowInHand, OthersSteady,
              BuiltInHand
<1> QED  BY <1>1, <1>2, <1>3, <1>4
         DEF SafetyInv, HandlerInv, MarkedDirty, OpenSucceeds

(* load_or_create keeps the invariant.                                     *)
LEMMA ManifestSafe ==
    ASSUME TypeInv, SafetyInv, LoadOrCreateManifest
    PROVE  SafetyInv'
<1>1. call.op = "open" /\ call.task = "none" /\ pc = "manifest" /\ outcome = "none"
  BY DEF SafetyInv, HandlerInv, Placed, LoadOrCreateManifest
<1>2. CASE meta = "bad"
  BY <1>1, <1>2, OpenFailed DEF LoadOrCreateManifest, files, FilesIntact
<1>3. CASE meta # "bad"
  <2>1. FileInv'
    BY <1>3, FilesKept DEF LoadOrCreateManifest
  <2>2. /\ pc' = "load" /\ call' = call /\ outcome' = outcome
        /\ UNCHANGED memory
    BY <1>3 DEF LoadOrCreateManifest
  <2>3. RowsKept'
    BY <1>1, <2>2 DEF SafetyInv, HandlerInv, RowsKept, Loaded, NoMemory, memory
  <2>4. Placed' /\ SchemasKept' /\ RowInHand' /\ OthersSteady' /\ BuiltInHand'
    BY <1>1, <2>2 DEF Placed, Opening, SchemasKept, Loaded, RowInHand,
                      OthersSteady, BuiltInHand
  <2> QED  BY <2>1, <2>2, <2>3, <2>4
           DEF SafetyInv, HandlerInv, MarkedDirty, OpenSucceeds
<1> QED  BY <1>2, <1>3

(* load_schemas and load_rows: memory becomes what the logs replay to.     *)
LEMMA LoadTablesSafe ==
    ASSUME TypeInv, SafetyInv, LoadTables
    PROVE  SafetyInv'
<1>1. call.op = "open" /\ call.task = "none" /\ pc = "load" /\ outcome = "none"
  BY DEF SafetyInv, HandlerInv, Placed, LoadTables
<1>2. CASE \/ schemaFile = Unreadable
           \/ \E m \in Models : schemaFile[m] # None /\ ~Readable(table[m])
  BY <1>1, <1>2, OpenFailed DEF LoadTables, FilesIntact
<1>3. CASE ~ \/ schemaFile = Unreadable
             \/ \E m \in Models : schemaFile[m] # None /\ ~Readable(table[m])
  <2>1. FileInv'
    BY FilesKept DEF LoadTables, files
  <2>2. /\ pc' = "indexes" /\ call' = call /\ outcome' = outcome
        /\ schemas' = schemaFile /\ indexes' = indexes /\ UNCHANGED files
        /\ rows' = [m \in Models |->
                       IF schemaFile[m] = None THEN None ELSE table[m]]
        /\ next_row_ids' = [m \in Models |->
                       IF schemaFile[m] = None THEN 0 ELSE NextRowId(table[m])]
    BY <1>3 DEF LoadTables
  <2>3. SchemasKept'
    BY <1>3, <2>2 DEF SchemasKept, files
  <2>4. ASSUME NEW m \in Models PROVE Unknown(m)' \/ RowsLoaded(m)'
    <3>1. CASE schemaFile[m] = None
      BY <1>1, <2>2, <3>1 DEF Unknown, SafetyInv, HandlerInv, RowsKept, Loaded,
                              NoMemory
    <3>2. CASE schemaFile[m] # None
      <4>1. table[m] \in Tables
        BY <1>3, <3>2 DEF TypeInv, TypeOK, FilesOK, TableFiles, Readable
      <4> QED  BY <2>2, <3>2, <4>1, AboveNextRowId DEF RowsLoaded, files
    <3> QED  BY <3>1, <3>2
  <2>5. RowsKept'
    BY <2>2, <2>4 DEF RowsKept, Loaded
  <2>6. Placed' /\ RowInHand' /\ OthersSteady' /\ BuiltInHand'
    BY <1>1, <2>2 DEF Placed, Opening, RowInHand, OthersSteady, Unsettled,
                      BuiltInHand
  <2> QED  BY <2>1, <2>2, <2>3, <2>5, <2>6
           DEF SafetyInv, HandlerInv, MarkedDirty, OpenSucceeds
<1> QED  BY <1>2, <1>3

(* An index file that can be read, while the manifest says clean, is the   *)
(* index of the log: what load_model relies on.                            *)
LEMMA LoadedIsIndexOf ==
    ASSUME TypeInv, SafetyInv, Loaded, pc # "save_schemas", NEW m \in KnownModels,
           ~RowsToLoad(m), ixClean, Loadable(m, schemas[m])
    PROVE  /\ LoadedIndexes(m, schemas[m]) = IndexOf(schemas[m], table[m])
           /\ Saved(m, UniqueFields(schemas[m]))
<1>1. \A f \in UniqueFields(schemas[m]) : ixFile[m][f] = EntriesOf(table[m], f)
  BY PersistedFacts DEF Loadable
<1> QED  BY <1>1 DEF LoadedIndexes, IndexOf, Saved

(* load_or_rebuild_all                                                     *)
LEMMA LoadOrRebuildAllSafe ==
    ASSUME TypeInv, SafetyInv, LoadOrRebuildAll
    PROVE  SafetyInv'
<1>1. /\ call.op = "open" /\ pc = "indexes" /\ outcome = "none" /\ Loaded
      /\ call.left = {}
  BY DEF SafetyInv, HandlerInv, Placed, LoadOrRebuildAll, Loaded, TypeInv,
         CallInv, Opening
<1>2. /\ FileInv' /\ UNCHANGED <<schemaFile, table, ixFile, schemas, rows, next_row_ids>>
      /\ schemaFile # Unreadable
      /\ \A m \in Models : schemas[m] = schemaFile[m]
      /\ \A m \in Models : Unknown(m) \/ RowsLoaded(m)
      /\ \A m \in Models : ~RowsToLoad(m)
  BY <1>1, FilesKept
  DEF LoadOrRebuildAll, files, SafetyInv, HandlerInv, SchemasKept, RowsKept,
      RowsToLoad
<1>3. CASE CleanAndReadable(KnownModels)
  <2>1. /\ indexes' = [m \in Models |->
                          IF schemas[m] = None
                          THEN None ELSE LoadedIndexes(m, schemas[m])]
        /\ pc' = "idle" /\ call' = NoCall
    BY <1>3 DEF LoadOrRebuildAll, ReturnOk
  <2>2. ASSUME NEW m \in Models PROVE Unknown(m)' \/ RowsLoaded(m)'
    BY <1>2, <2>1 DEF Unknown, RowsLoaded
  <2>3. ASSUME NEW m \in KnownModels PROVE Steady(m)'
    <3>1. m \in Models /\ schemas[m] # None
      BY DEF KnownModels
    <3>2. /\ LoadedIndexes(m, schemas[m]) = IndexOf(schemas[m], table[m])
          /\ Saved(m, UniqueFields(schemas[m]))
      BY <1>1, <1>2, <1>3, <3>1, LoadedIsIndexOf DEF CleanAndReadable
    <3> QED  BY <1>2, <2>1, <3>1, <3>2 DEF Steady, Saved
  <2>4. KnownModels' = KnownModels
    BY <1>2 DEF KnownModels
  <2> QED  BY <1>2, <2>1, <2>2, <2>3, <2>4, Returned
<1>4. CASE ~CleanAndReadable(KnownModels)
  <2>1. /\ pc' = "dirty" /\ outcome' = outcome /\ indexes' = indexes
        /\ call' = [call EXCEPT !.task = "rebuild", !.left = KnownModels]
    BY <1>4 DEF LoadOrRebuildAll
  <2>2. call'.op = "open" /\ call'.task = "rebuild" /\ call'.left = KnownModels
    BY <1>1, <2>1 DEF TypeInv, TypeOK, ControlOK, Call
  <2>3. SchemasKept' /\ RowsKept'
    BY <1>2, <2>1 DEF SchemasKept, RowsKept, Loaded, Unknown, RowsLoaded
  <2>4. OthersSteady'
    BY <1>2, <2>2 DEF OthersSteady, Unsettled, KnownModels
  <2>5. Placed' /\ RowInHand' /\ BuiltInHand'
    BY <1>1, <2>1, <2>2 DEF Placed, RowInHand, BuiltInHand
  <2> QED  BY <1>2, <2>1, <2>3, <2>4, <2>5
           DEF SafetyInv, HandlerInv, MarkedDirty, OpenSucceeds
<1> QED  BY <1>3, <1>4

(* rebuild_all                                                             *)
LEMMA RebuildModelSafe ==
    ASSUME TypeInv, SafetyInv, RebuildModel
    PROVE  SafetyInv'
<1>1. /\ call.op = "open" /\ call.task = "rebuild" /\ pc = "rebuild"
      /\ outcome = "none" /\ Loaded /\ ~ixClean
  BY DEF SafetyInv, HandlerInv, Placed, MarkedDirty, RebuildModel, Loaded,
         TypeInv, CallInv
<1>2. PICK m \in call.left :
         LET built == IndexOf(schemas[m], RowsOf(m))
         IN  IF BuildFails(schemas[m], RowsOf(m))
             THEN ReturnErr
             ELSE /\ indexes' = [indexes EXCEPT ![m] = built]
                  /\ pc' = "save"
                  /\ call' = [call EXCEPT !.model = m, !.built = built,
                                          !.todo = UniqueFields(schemas[m]),
                                          !.left = call.left \ {m}]
                  /\ UNCHANGED <<schemas, rows, next_row_ids, outcome>>
  BY DEF RebuildModel
<1>3. m \in KnownModels /\ m \in Models
  BY DEF TypeInv, TypeOK, ControlOK, Call, CallInv, KnownModels
<1>4. \A n \in Models : ~RowsToLoad(n)
  BY <1>1 DEF RowsToLoad
<1>5. RowsOf(m) = table[m] /\ ~BuildFails(schemas[m], table[m])
  BY <1>1, <1>3, <1>4, ModelFacts, PersistedFacts
<1> DEFINE built == IndexOf(schemas[m], table[m])
<1>6. /\ indexes' = [indexes EXCEPT ![m] = built]
      /\ pc' = "save"
      /\ call' = [call EXCEPT !.model = m, !.built = built,
                              !.todo = UniqueFields(schemas[m]),
                              !.left = call.left \ {m}]
      /\ UNCHANGED <<schemas, rows, next_row_ids, outcome, files>>
  BY <1>2, <1>5 DEF RebuildModel
<1> HIDE DEF built
<1>7. /\ call'.op = "open" /\ call'.task = "rebuild" /\ call'.model = m
      /\ call'.built = built /\ call'.todo = UniqueFields(schemas[m])
      /\ call'.left = call.left \ {m}
  BY <1>1, <1>6 DEF TypeInv, TypeOK, ControlOK, Call
<1>8. FileInv'
  BY <1>6, FilesKept DEF files
<1>9. SchemasKept'
  BY <1>1, <1>6 DEF SafetyInv, HandlerInv, SchemasKept, Loaded, files
<1>10. RowsKept'
  <2> SUFFICES ASSUME NEW n \in Models PROVE Unknown(n)' \/ RowsLoaded(n)'
    BY <1>6 DEF RowsKept, Loaded
  <2>1. Unknown(n) \/ RowsLoaded(n)
    BY <1>1, <1>4 DEF SafetyInv, HandlerInv, RowsKept
  <2> QED  BY <1>3, <1>6, <2>1 DEF Unknown, RowsLoaded, KnownModels, files
<1>11. OthersSteady'
  <2> SUFFICES ASSUME NEW n \in KnownModels, n # m
               PROVE  Unsettled(n)' \/ Steady(n)'
    BY <1>6, <1>7 DEF OthersSteady, Unsettled, KnownModels
  <2>1. n \in call.left \/ Steady(n)
    BY <1>1 DEF SafetyInv, HandlerInv, OthersSteady, Unsettled
  <2> QED  BY <1>6, <1>7, <2>1, SteadyKept DEF Unsettled, KnownModels, files
<1>12. BuiltInHand'
  <2>1. indexes'[m] = built
    BY <1>3, <1>6 DEF TypeInv, TypeOK, MemoryOK
  <2>2. built = IndexOf(schemas[m], table[m])'
    BY <1>6 DEF built, files
  <2> QED  BY <1>3, <1>6, <1>7, <2>1, <2>2 DEF BuiltInHand, Saved, KnownModels
<1>13. Placed' /\ RowInHand'
  BY <1>1, <1>6, <1>7 DEF Placed, RowInHand
<1> QED  BY <1>1, <1>6, <1>8, <1>9, <1>10, <1>11, <1>12, <1>13
         DEF SafetyInv, HandlerInv, MarkedDirty, OpenSucceeds, files

(* The end of rebuild_all: no model is left to visit.                      *)
LEMMA RebuildDoneSafe ==
    ASSUME TypeInv, SafetyInv, RebuildDone
    PROVE  SafetyInv'
<1>1. /\ call.op = "open" /\ call.task = "rebuild" /\ pc = "rebuild"
      /\ outcome = "none" /\ call.left = {}
      /\ pc' = "clean" /\ UNCHANGED <<files, memory, call, outcome>>
  BY DEF SafetyInv, HandlerInv, Placed, RebuildDone, TypeInv, CallInv
<1>2. FileInv'
  BY <1>1, FilesKept DEF files
<1>3. SchemasKept' /\ RowsKept'
  BY <1>1 DEF SafetyInv, HandlerInv, SchemasKept, RowsKept, Loaded, Unknown,
              RowsLoaded, RowsToLoad, files, memory
<1>4. OthersSteady'
  BY <1>1 DEF SafetyInv, HandlerInv, OthersSteady, Loaded, KnownModels,
              Unsettled, Steady, Saved, files, memory
<1>5. Placed' /\ RowInHand' /\ BuiltInHand'
  BY <1>1 DEF Placed, RowInHand, BuiltInHand
<1> QED  BY <1>1, <1>2, <1>3, <1>4, <1>5
         DEF SafetyInv, HandlerInv, MarkedDirty, OpenSucceeds, files

-----------------------------------------------------------------------------
(* mark_dirty, save_model and mark_clean.                                  *)
LEMMA MarkDirtySafe ==
    ASSUME TypeInv, SafetyInv, MarkDirty
    PROVE  SafetyInv'
<1>1. /\ pc = "dirty" /\ pc' = AfterDirty /\ ~ixClean' /\ Loaded
      /\ UNCHANGED <<meta, schemaFile, table, ixFile, memory, call, outcome>>
  BY DEF MarkDirty, Loaded
<1>2. /\ outcome = "none"
      /\ \/ call.op = "open" /\ call.task = "rebuild" /\ pc' = "rebuild"
         \/ call.op = "register" /\ call.task = "model" /\ pc' = "save"
         \/ /\ call.op \in {"insert", "update", "delete"}
            /\ call.task = "write" /\ pc' = "append"
  BY <1>1 DEF SafetyInv, HandlerInv, Placed, AfterDirty, Opening
<1>3. FileInv'
  BY <1>1, FilesKept
<1>4. SchemasKept' /\ RowsKept'
  BY <1>1, <1>2 DEF SafetyInv, HandlerInv, SchemasKept, RowsKept, Loaded,
                    Unknown, RowsLoaded, RowsToLoad, memory
<1>5. OthersSteady'
  <2> SUFFICES ASSUME NEW m \in KnownModels PROVE Unsettled(m)' \/ Steady(m)'
    BY <1>1 DEF OthersSteady, KnownModels, memory
  <2>1. Unsettled(m) \/ Steady(m)
    BY <1>1 DEF SafetyInv, HandlerInv, OthersSteady
  <2>2. Unsettled(m) => Unsettled(m)'
    BY <1>1 DEF Unsettled
  <2>3. Steady(m) => Steady(m)'
    BY <1>1 DEF Steady, Saved, memory
  <2> QED  BY <2>1, <2>2, <2>3
<1>6. BuiltInHand'
  <2>1. CASE pc' # "save"
    BY <1>2, <2>1 DEF BuiltInHand
  <2>2. CASE pc' = "save"
    <3>1. /\ call.task = "model" /\ call.op = "register"
          /\ schemas[call.model] # None
          /\ call.built = IndexOf(schemas[call.model], table[call.model])
          /\ call.todo = UniqueFields(schemas[call.model])
      BY <1>1, <1>2, <2>2 DEF SafetyInv, HandlerInv, BuiltInHand, TypeInv, CallInv
    <3> QED  BY <1>1, <2>2, <3>1 DEF BuiltInHand, Saved, memory
  <2> QED  BY <2>1, <2>2
<1>7. Placed' /\ RowInHand'
  BY <1>1, <1>2 DEF SafetyInv, HandlerInv, Placed, RowInHand, RowUnique, memory
<1> QED  BY <1>1, <1>2, <1>3, <1>4, <1>5, <1>6, <1>7
         DEF SafetyInv, HandlerInv, MarkedDirty, OpenSucceeds

(* Where save_model runs: after a rebuild, a registration or a write.      *)
LEMMA SavePlace ==
    ASSUME TypeInv, SafetyInv, pc = "save"
    PROVE  LET m == call.model
           IN  /\ outcome = "none" /\ ~ixClean /\ Loaded
               /\ m \in Models /\ m \in KnownModels
               /\ \/ call.op = "open" /\ call.task = "rebuild"
                  \/ call.op = "register" /\ call.task = "model"
                  \/ /\ call.op \in {"insert", "update", "delete"}
                     /\ call.task = "write"
               /\ (call.op # "open") => call.left = {}
               /\ UniqueFields(schemas[m]) \subseteq Fields
               /\ call.built = IndexOf(schemas[m], table[m])
               /\ call.todo \subseteq UniqueFields(schemas[m])
               /\ Saved(m, UniqueFields(schemas[m]) \ call.todo)
               /\ call.task # "model" => indexes[m] = call.built
               /\ schemaFile # Unreadable /\ schemaFile[m] = schemas[m]
               /\ \A n \in Models : Unknown(n) \/ RowsLoaded(n)
               /\ \A n \in Models : schemas[n] = schemaFile[n]
<1>1. call.model \in Models /\ Loaded
  BY DEF TypeInv, CallInv, Loaded
<1>2. /\ schemas[call.model] # None
      /\ \A n \in Models : Unknown(n) \/ RowsLoaded(n)
      /\ \A n \in Models : schemas[n] = schemaFile[n]
      /\ schemaFile # Unreadable
  BY <1>1 DEF SafetyInv, HandlerInv, BuiltInHand, SchemasKept, RowsKept, RowsToLoad
<1>3. UniqueFields(schemas[call.model]) \subseteq Fields
  BY <1>1, <1>2, ModelFacts DEF KnownModels, RowsToLoad
<1> QED  BY <1>1, <1>2, <1>3
         DEF SafetyInv, HandlerInv, Placed, Opening, MarkedDirty, BuiltInHand,
             KnownModels

(* save_index of one field: the file becomes the index of the log.         *)
LEMMA SaveIndexSafe ==
    ASSUME TypeInv, SafetyInv, SaveIndex
    PROVE  SafetyInv'
<1> DEFINE m == call.model
<1>1. PICK f \in call.todo :
          /\ ixFile' = [ixFile EXCEPT ![m][f] = call.built[f]]
          /\ call' = [call EXCEPT !.todo = call.todo \ {f}]
  BY DEF SaveIndex
<1>2. /\ pc = "save" /\ pc' = "save"
      /\ UNCHANGED <<meta, schemaFile, table, ixClean, memory, pc, outcome>>
  BY DEF SaveIndex
<1>3. /\ outcome = "none" /\ ~ixClean
      /\ m \in Models /\ m \in KnownModels
      /\ f \in UniqueFields(schemas[m]) /\ f \in Fields
      /\ call.built[f] = EntriesOf(table[m], f)
      /\ schemaFile # Unreadable /\ schemaFile[m] # None
  BY <1>2, SavePlace DEF IndexOf, KnownModels
<1>4. /\ call'.op = call.op /\ call'.task = call.task /\ call'.model = m
      /\ call'.built = call.built /\ call'.todo = call.todo \ {f}
      /\ call'.left = call.left /\ call'.row = call.row
      /\ call'.row_id = call.row_id
  BY <1>1 DEF TypeInv, TypeOK, ControlOK, Call
<1>5. /\ \A n \in Models \ {m} : ixFile'[n] = ixFile[n]
      /\ \A g \in Fields \ {f} : ixFile'[m][g] = ixFile[m][g]
      /\ ixFile'[m][f] = EntriesOf(table[m], f)
  BY <1>1, <1>3 DEF TypeInv, TypeOK, FilesOK
<1>6. FileInv'
  <2>1. NothingUnnamed'
    BY <1>2, <1>3, <1>5 DEF SafetyInv, FileInv, NothingUnnamed
  <2> QED  BY <1>2, <1>3, <2>1
           DEF SafetyInv, FileInv, LogReplays, UniqueInLog, StoredRowsValid,
               CleanImpliesFresh, PersistedModels
<1>7. SchemasKept' /\ RowsKept'
  BY <1>2, <1>4 DEF SafetyInv, HandlerInv, SchemasKept, RowsKept, Loaded,
                    Unknown, RowsLoaded, RowsToLoad, memory
<1>8. OthersSteady'
  <2> SUFFICES ASSUME NEW n \in KnownModels, n # m
               PROVE  Unsettled(n)' \/ Steady(n)'
    BY <1>2, <1>4 DEF OthersSteady, Unsettled, KnownModels, memory
  <2>1. Unsettled(n) \/ Steady(n)
    BY <1>2 DEF SafetyInv, HandlerInv, OthersSteady, Loaded
  <2>2. Unsettled(n) => Unsettled(n)'
    BY <1>2, <1>4 DEF Unsettled
  <2>3. Steady(n) => Steady(n)'
    BY <1>2, <1>5, SteadyKept DEF KnownModels, memory
  <2> QED  BY <2>1, <2>2, <2>3
<1>9. BuiltInHand'
  <2>1. Saved(m, UniqueFields(schemas[m]) \ call.todo)
    BY <1>2, SavePlace
  <2>2. ASSUME NEW g \in UniqueFields(schemas[m]) \ (call.todo \ {f})
        PROVE  ixFile'[m][g] = EntriesOf(table[m], g)
    <3>1. g \in Fields
      BY <1>2, SavePlace
    <3> QED  BY <1>5, <2>1, <3>1 DEF Saved
  <2> QED  BY <1>2, <1>4, <2>2, SavePlace DEF BuiltInHand, Saved, memory, KnownModels
<1>10. Placed' /\ RowInHand'
  BY <1>2, <1>4 DEF SafetyInv, HandlerInv, Placed, RowInHand, memory
<1> QED  BY <1>2, <1>3, <1>6, <1>7, <1>8, <1>9, <1>10
         DEF SafetyInv, HandlerInv, MarkedDirty, OpenSucceeds

(* With what the files can hold save_index and save_schemas refuse nothing. *)
LEMMA NothingRefused ==
    ASSUME Storable, TypeInv
    PROVE  ~SaveIndexRefused /\ ~SaveSchemasRefused
<1>1. ~SaveIndexRefused
  BY DEF Storable, SaveIndexRefused, Fits
<1>2. \A m \in Models : schemas[m] \in Schemas \cup {None}
  BY DEF TypeInv, TypeOK, MemoryOK
<1>3. EncodesSchemas
  BY <1>2 DEF Storable, EncodesSchemas
<1> QED  BY <1>1, <1>3 DEF SaveSchemasRefused

(* The end of save_model: every index file of the model is up to date.     *)
LEMMA SaveModelDoneSafe ==
    ASSUME TypeInv, SafetyInv, SaveModelDone
    PROVE  SafetyInv'
<1> DEFINE m == call.model
<1>1. /\ pc = "save" /\ call.todo = {}
      /\ pc' = IF call.task = "rebuild" THEN "rebuild" ELSE "clean"
      /\ UNCHANGED <<files, memory, call, outcome>>
  BY DEF SaveModelDone
<1>2. Saved(m, UniqueFields(schemas[m]))
  BY <1>1, SavePlace DEF Saved
<1>3. FileInv'
  BY <1>1, FilesKept DEF files
<1>4. SchemasKept' /\ RowsKept'
  BY <1>1 DEF SafetyInv, HandlerInv, SchemasKept, RowsKept, Loaded, Unknown,
              RowsLoaded, RowsToLoad, files, memory
<1>5. OthersSteady'
  <2> SUFFICES ASSUME NEW n \in KnownModels PROVE Unsettled(n)' \/ Steady(n)'
    BY <1>1 DEF OthersSteady, KnownModels, memory
  <2>1. Unsettled(n) \/ Steady(n)
    BY <1>1 DEF SafetyInv, HandlerInv, OthersSteady, Loaded
  <2>2. Steady(n) => Steady(n)'
    BY <1>1 DEF Steady, Saved, files, memory
  <2>3. (n = m /\ call.task # "model") => Steady(n)
    BY <1>1, <1>2, SavePlace DEF Steady
  <2>4. (n = m /\ call.task = "model") => Unsettled(n)'
    BY <1>1, SavePlace DEF Unsettled
  <2>5. (n # m /\ Unsettled(n)) => Unsettled(n)'
    BY <1>1 DEF Unsettled
  <2> QED  BY <2>1, <2>2, <2>3, <2>4, <2>5
<1>6. BuiltInHand'
  BY <1>1, <1>2, SavePlace DEF BuiltInHand, Saved, files, memory
<1>7. Placed' /\ RowInHand'
  BY <1>1, SavePlace DEF SafetyInv, HandlerInv, Placed, RowInHand, memory
<1>8. ~ixClean' /\ outcome' = "none"
  BY <1>1, SavePlace DEF files
<1> QED  BY <1>3, <1>4, <1>5, <1>6, <1>7, <1>8
         DEF SafetyInv, HandlerInv, MarkedDirty, OpenSucceeds

(* Saying clean is right when every index file has been saved.             *)
LEMMA FreshWhenSaved ==
    ASSUME SafetyInv, UNCHANGED <<schemaFile, table, ixFile, schemas>>,
           \A n \in Models : schemas[n] = schemaFile[n],
           \A n \in KnownModels : Saved(n, UniqueFields(schemas[n]))
    PROVE  FileInv'
<1>1. CleanImpliesFresh'
  <2> SUFFICES ASSUME NEW n \in Models, schemaFile[n] # None,
                      NEW f \in UniqueFields(schemaFile[n])
               PROVE  ixFile[n][f] = EntriesOf(table[n], f)
    BY DEF CleanImpliesFresh, PersistedModels
  <2> QED  BY DEF Saved, KnownModels
<1> QED  BY <1>1 DEF SafetyInv, FileInv, NothingUnnamed, LogReplays, UniqueInLog,
                     StoredRowsValid, PersistedModels

(* mark_clean is only reached when every model is steady.                  *)
LEMMA MarkCleanSafe ==
    ASSUME TypeInv, SafetyInv, MarkClean
    PROVE  SafetyInv'
<1> DEFINE m == call.model
<1>1. /\ pc = "clean" /\ Loaded /\ call.left = {}
      /\ UNCHANGED <<meta, schemaFile, table, ixFile>>
      /\ \/ call.op = "register" /\ call.task = "model"
         \/ call.op # "register" /\ call.task # "model"
  BY DEF MarkClean, SafetyInv, HandlerInv, Placed, Loaded, Opening
<1>2. /\ schemaFile # Unreadable
      /\ \A n \in Models : schemas[n] = schemaFile[n]
      /\ \A n \in Models : Unknown(n) \/ RowsLoaded(n)
  BY <1>1 DEF SafetyInv, HandlerInv, SchemasKept, RowsKept, RowsToLoad
<1>3. \A n \in KnownModels : (call.op = "register" /\ n = m) \/ Steady(n)
  BY <1>1 DEF SafetyInv, HandlerInv, OthersSteady, Unsettled
<1>4. CASE call.task = "model"
  <2>1. /\ indexes' = [indexes EXCEPT ![m] = call.built]
        /\ UNCHANGED <<schemas, rows, next_row_ids>>
        /\ pc' = "idle" /\ call' = NoCall
    BY <1>1, <1>4 DEF MarkClean, UseIndexes, ReturnOk
  <2>2. /\ call.built = IndexOf(schemas[m], table[m])
        /\ Saved(m, UniqueFields(schemas[m]))
        /\ m \in Models /\ schemas[m] # None
    BY <1>1, <1>4 DEF SafetyInv, HandlerInv, BuiltInHand, TypeInv, CallInv
  <2>3. FileInv'
    BY <1>1, <1>2, <1>3, <2>1, <2>2, FreshWhenSaved DEF Steady
  <2>4. ASSUME NEW n \in Models PROVE Unknown(n)' \/ RowsLoaded(n)'
    BY <1>1, <1>2, <2>1, <2>2 DEF Unknown, RowsLoaded, TypeInv, TypeOK, MemoryOK
  <2>5. ASSUME NEW n \in KnownModels PROVE Steady(n)'
    <3>1. n # m => indexes'[n] = indexes[n]
      BY <2>1 DEF TypeInv, TypeOK, MemoryOK, KnownModels
    <3>2. indexes'[m] = call.built
      BY <2>1, <2>2 DEF TypeInv, TypeOK, MemoryOK
    <3> QED  BY <1>1, <1>3, <2>1, <2>2, <3>1, <3>2 DEF Steady, Saved
  <2>6. KnownModels' = KnownModels
    BY <2>1 DEF KnownModels
  <2> QED  BY <1>1, <1>2, <2>1, <2>3, <2>4, <2>5, <2>6, Returned
<1>5. CASE call.task # "model"
  <2>1. UNCHANGED memory /\ pc' = "idle" /\ call' = NoCall
    BY <1>5 DEF MarkClean, ReturnOk
  <2>2. FileInv'
    BY <1>1, <1>2, <1>3, <1>5, <2>1, FreshWhenSaved DEF Steady, memory
  <2>3. \A n \in Models : Unknown(n)' \/ RowsLoaded(n)'
    BY <1>1, <1>2, <2>1 DEF Unknown, RowsLoaded, memory
  <2>4. \A n \in KnownModels : Steady(n)'
    BY <1>1, <1>3, <1>5, <2>1 DEF Steady, Saved, memory
  <2>5. KnownModels' = KnownModels
    BY <2>1 DEF KnownModels, memory
  <2> QED  BY <1>1, <1>2, <2>1, <2>2, <2>3, <2>4, <2>5, Returned DEF memory
<1> QED  BY <1>4, <1>5

-----------------------------------------------------------------------------
(* Engine::register_schema                                                 *)
(* Between calls every model is known or not, and known ones are steady.   *)
LEMMA IdleFacts ==
    ASSUME TypeInv, SafetyInv, pc \in {"idle", "unique", "append"}
    PROVE  /\ schemaFile # Unreadable /\ Loaded
           /\ \A n \in Models : schemas[n] = schemaFile[n]
           /\ \A n \in Models : Unknown(n) \/ RowsLoaded(n)
           /\ \A n \in KnownModels : Steady(n)
<1>1. Loaded /\ call.op \notin {"open", "register"}
  BY NoCallOps DEF Loaded, SafetyInv, HandlerInv, Placed, Opening
<1> QED  BY <1>1 DEF SafetyInv, HandlerInv, SchemasKept, RowsKept, RowsToLoad,
                     OthersSteady, Unsettled

(* A call that is refused between two writes gives the engine back as is.  *)
LEMMA RefusedSafe ==
    ASSUME TypeInv, SafetyInv, pc \in {"idle", "unique", "append"},
           ReturnErr, UNCHANGED files
    PROVE  SafetyInv'
<1>1. call.op # "open"
  BY NoCallOps DEF SafetyInv, HandlerInv, Placed, Opening
<1>2. /\ pc' = "idle" /\ call' = NoCall /\ UNCHANGED memory
  BY <1>1 DEF ReturnErr
<1>3. FileInv'
  BY FilesKept DEF files
<1>4. KnownModels' = KnownModels
  BY <1>2 DEF KnownModels, memory
<1>5. \A n \in Models : Unknown(n)' \/ RowsLoaded(n)'
  BY <1>2, IdleFacts DEF Unknown, RowsLoaded, files, memory
<1>6. \A n \in KnownModels : Steady(n)'
  BY <1>2, IdleFacts DEF Steady, Saved, files, memory
<1>7. schemaFile' # Unreadable /\ \A n \in Models : schemas'[n] = schemaFile'[n]
  BY <1>2, IdleFacts DEF files, memory
<1> QED  BY <1>2, <1>3, <1>4, <1>5, <1>6, <1>7, Returned

(* register_schema puts a schema into memory that the file may not have    *)
(* yet.                                                                    *)
LEMMA RegisterSafe ==
    ASSUME TypeInv, SafetyInv, NEW m \in Models, NEW s \in Schemas,
           RegisterSchema(m, s)
    PROVE  SafetyInv'
<1>1. /\ pc = "idle" /\ pc' \in {"save_schemas", "load_rows"}
      /\ schemas[m] \in {None, s}
      /\ pc' = IF schemas[m] = None THEN "save_schemas" ELSE "load_rows"
      /\ schemas' = [schemas EXCEPT ![m] = s]
      /\ outcome' = "none"
      /\ UNCHANGED <<files, rows, next_row_ids, indexes>>
  BY DEF RegisterSchema
<1>2. /\ call'.op = "register" /\ call'.task = "none" /\ call'.model = m
      /\ call'.left = {}
  BY CallOfFields DEF RegisterSchema
<1>3. FileInv'
  BY <1>1, FilesKept DEF files
<1>4. /\ schemas'[m] = s /\ s # None
      /\ \A n \in Models \ {m} : schemas'[n] = schemas[n]
  BY <1>1, EngineAssumption DEF TypeInv, TypeOK, MemoryOK
<1>5. SchemasKept'
  BY <1>1, <1>2, <1>4, IdleFacts DEF SchemasKept, files
<1>6. RowsKept'
  <2> SUFFICES ASSUME NEW n \in Models
               PROVE  Unknown(n)' \/ RowsLoaded(n)' \/ RowsToLoad(n)'
    BY <1>1 DEF RowsKept, Loaded
  <2>1. Unknown(n) \/ RowsLoaded(n)
    BY <1>1, IdleFacts
  <2>2. CASE n # m
    BY <1>1, <1>4, <2>1, <2>2 DEF Unknown, RowsLoaded, files
  <2>3. CASE n = m /\ RowsLoaded(n)
    BY <1>1, <1>4, <2>3 DEF RowsLoaded, files
  <2>4. CASE n = m /\ Unknown(n)
    <3>1. table[m] = EmptyTable
      BY <1>1, <2>4, IdleFacts
      DEF Unknown, SafetyInv, FileInv, NothingUnnamed
    <3> QED  BY <1>1, <1>2, <1>4, <2>4, <3>1 DEF Unknown, RowsToLoad, files
  <2> QED  BY <2>1, <2>2, <2>3, <2>4
<1>7. OthersSteady'
  <2> SUFFICES ASSUME NEW n \in Models, schemas'[n] # None, n # m
               PROVE  Steady(n)'
    BY <1>2 DEF OthersSteady, Unsettled, KnownModels
  <2>1. Steady(n)
    BY <1>1, <1>4, IdleFacts DEF KnownModels
  <2> QED  BY <1>1, <1>4, <2>1, SteadyKept DEF files
<1>8. Placed' /\ RowInHand' /\ BuiltInHand'
  BY <1>1, <1>2 DEF Placed, RowInHand, BuiltInHand
<1> QED  BY <1>1, <1>3, <1>5, <1>6, <1>7, <1>8
         DEF SafetyInv, HandlerInv, MarkedDirty, OpenSucceeds

(* register_schema refuses another schema for a known model.               *)
LEMMA RegisterIncompatibleSafe ==
    ASSUME TypeInv, SafetyInv, NEW m, NEW s, RegisterIncompatible(m, s)
    PROVE  SafetyInv'
BY RefusedSafe DEF RegisterIncompatible

(* What register_schema has in hand until its indexes are loaded.          *)
LEMMA RegisterPlace ==
    ASSUME TypeInv, SafetyInv, pc \in {"save_schemas", "load_rows", "index"}
    PROVE  LET m == call.model
           IN  /\ call.op = "register" /\ call.task = "none" /\ outcome = "none"
               /\ call.left = {} /\ Loaded
               /\ m \in Models /\ m \in KnownModels
               /\ schemaFile # Unreadable
               /\ \A n \in Models \ {m} :
                     /\ schemas[n] = schemaFile[n]
                     /\ Unknown(n) \/ RowsLoaded(n)
               /\ \A n \in KnownModels \ {m} : Steady(n)
               /\ RowsLoaded(m) \/ RowsToLoad(m)
<1>1. /\ call.op = "register" /\ call.task = "none" /\ outcome = "none"
      /\ call.left = {} /\ Loaded
  BY DEF SafetyInv, HandlerInv, Placed, Opening, Loaded
<1>2. call.model \in Models /\ call.model \in KnownModels
  BY <1>1 DEF TypeInv, CallInv, KnownModels
<1> QED  BY <1>1, <1>2
         DEF SafetyInv, HandlerInv, SchemasKept, RowsKept, RowsToLoad, Unknown,
             OthersSteady, Unsettled, KnownModels

(* save_schemas: a model new to the file has neither rows nor indexes.     *)
LEMMA SaveSchemasSafe ==
    ASSUME TypeInv, SafetyInv, SaveSchemas
    PROVE  SafetyInv'
<1> DEFINE m == call.model
<1>1. /\ pc = "save_schemas" /\ pc' = "load_rows" /\ schemaFile' = schemas
      /\ UNCHANGED <<meta, table, ixClean, ixFile, memory, call, outcome>>
  BY DEF SaveSchemas
<1>2. schemas # Unreadable
  BY EngineAssumption DEF TypeInv, TypeOK, MemoryOK
<1>3. \A n \in Models : schemas[n] = schemaFile[n] \/ schemaFile[n] = None
  BY <1>1 DEF SafetyInv, HandlerInv, SchemasKept, Loaded
<1>4. schemaFile # Unreadable
  BY <1>1, RegisterPlace
<1>5. \A n \in Models : schemaFile[n] = None =>
         table[n] = EmptyTable /\ \A f \in Fields : ixFile[n][f] = NoMap
  BY <1>4 DEF SafetyInv, FileInv, NothingUnnamed
<1>6. NothingUnnamed' /\ LogReplays'
  BY <1>1, <1>3, <1>5
  DEF SafetyInv, FileInv, NothingUnnamed, LogReplays
<1>7. ASSUME NEW n \in PersistedModels'
      PROVE  /\ ~BuildFails(schemas[n], table[n])
             /\ \A id \in LiveIds(table[n]) :
                   ValidRow(schemas[n], table[n][id].record)
             /\ ixClean => \A f \in UniqueFields(schemas[n]) :
                              ixFile[n][f] \in {NoMap, EntriesOf(table[n], f)}
  <2>1. n \in Models /\ schemas[n] # None /\ Readable(table[n])
    BY <1>1, <1>2 DEF PersistedModels
  <2>2. CASE schemaFile[n] = schemas[n]
    <3>1. n \in PersistedModels
      BY <1>4, <2>1, <2>2 DEF PersistedModels
    <3> QED  BY <2>2, <3>1
             DEF SafetyInv, FileInv, UniqueInLog, StoredRowsValid,
                 CleanImpliesFresh
  <2>3. CASE schemaFile[n] = None
    <3>1. UniqueFields(schemas[n]) \subseteq Fields
      BY <2>1, UniqueFieldsType DEF TypeInv, TypeOK, MemoryOK
    <3> QED  BY <1>5, <2>1, <2>3, <3>1, EmptyTableUnique
  <2> QED  BY <1>3, <2>1, <2>2, <2>3
<1>8. FileInv'
  BY <1>1, <1>6, <1>7
  DEF FileInv, UniqueInLog, StoredRowsValid, CleanImpliesFresh
<1>9. SchemasKept'
  BY <1>1, <1>2 DEF SchemasKept, memory
<1>10. RowsKept'
  BY <1>1 DEF SafetyInv, HandlerInv, RowsKept, Loaded, Unknown, RowsLoaded,
              RowsToLoad, memory
<1>11. OthersSteady'
  BY <1>1 DEF SafetyInv, HandlerInv, OthersSteady, Loaded, KnownModels,
              Unsettled, Steady, Saved, memory
<1>12. Placed' /\ RowInHand' /\ BuiltInHand'
  BY <1>1, RegisterPlace DEF Placed, RowInHand, BuiltInHand
<1> QED  BY <1>1, <1>8, <1>9, <1>10, <1>11, <1>12
         DEF SafetyInv, HandlerInv, MarkedDirty, OpenSucceeds

(* register_schema: a model has its rows, or gets those of an empty log.   *)
LEMMA LoadRowsSafe ==
    ASSUME TypeInv, SafetyInv, LoadRows
    PROVE  SafetyInv'
<1> DEFINE m == call.model
<1>1. /\ pc = "load_rows" /\ UNCHANGED files
      /\ call.op = "register" /\ call.task = "none" /\ call.left = {}
      /\ outcome = "none" /\ Loaded
      /\ m \in Models /\ m \in KnownModels
  BY RegisterPlace DEF LoadRows
<1>2. /\ pc' = "index" /\ UNCHANGED <<schemas, indexes, call, outcome>>
      /\ \A n \in Models \ {m} : rows'[n] = rows[n] /\ next_row_ids'[n] = next_row_ids[n]
      /\ RowsLoaded(m)'
  <2>1. CASE RowsLoaded(m)
    <3>1. ~RowsToLoad(m) /\ rows[m] # None
      <4>1. rows[m] \in TableFiles
        BY <1>1, <2>1 DEF RowsLoaded, TypeInv, TypeOK, FilesOK
      <4> QED  BY <4>1, IndexAssumption DEF RowsToLoad
    <3>2. NextIdOf(m) = next_row_ids[m]
      BY <1>1, <3>1, ModelFacts
    <3>3. /\ next_row_ids' = [next_row_ids EXCEPT ![m] = NextIdOf(m)]
          /\ pc' = "index" /\ UNCHANGED <<schemas, rows, indexes, call, outcome>>
      BY <3>1 DEF LoadRows
    <3> QED  BY <1>1, <2>1, <3>2, <3>3
             DEF RowsLoaded, TypeInv, TypeOK, MemoryOK, files
  <2>2. CASE RowsToLoad(m)
    <3>1. /\ rows[m] = None /\ table[m] = EmptyTable /\ schemas[m] # None
          /\ table[m] \in Tables
      BY <2>2, EmptyTableType DEF RowsToLoad
    <3>2. Readable(table[m])
      BY <3>1, TableAssumption DEF Readable
    <3>3. /\ rows' = [rows EXCEPT ![m] = table[m]]
          /\ next_row_ids' = [next_row_ids EXCEPT ![m] = NextRowId(table[m])]
          /\ pc' = "index" /\ UNCHANGED <<schemas, indexes, call, outcome>>
      BY <3>1, <3>2 DEF LoadRows
    <3>4. Above(NextRowId(table[m]), table[m])
      BY <3>1, AboveNextRowId
    <3> QED  BY <1>1, <3>1, <3>3, <3>4
             DEF RowsLoaded, TypeInv, TypeOK, MemoryOK, files
  <2> QED  BY <1>1, <2>1, <2>2, RegisterPlace
<1>3. FileInv'
  BY <1>1, FilesKept DEF files
<1>4. SchemasKept'
  BY <1>1, <1>2 DEF SafetyInv, HandlerInv, SchemasKept, Loaded, files
<1>5. RowsKept'
  <2> SUFFICES ASSUME NEW n \in Models, n # m
               PROVE  Unknown(n)' \/ RowsLoaded(n)'
    BY <1>2 DEF RowsKept, Loaded
  <2>1. Unknown(n) \/ RowsLoaded(n)
    BY <1>1, RegisterPlace
  <2> QED  BY <1>1, <1>2, <2>1 DEF Unknown, RowsLoaded, files
<1>6. OthersSteady'
  BY <1>1, <1>2 DEF SafetyInv, HandlerInv, OthersSteady, Loaded, KnownModels,
                    Unsettled, Steady, Saved, files
<1>7. Placed' /\ RowInHand' /\ BuiltInHand'
  BY <1>1, <1>2 DEF Placed, RowInHand, BuiltInHand
<1> QED  BY <1>1, <1>2, <1>3, <1>4, <1>5, <1>6, <1>7
         DEF SafetyInv, HandlerInv, MarkedDirty, OpenSucceeds

(* load_or_rebuild_model                                                   *)
LEMMA LoadOrRebuildModelSafe ==
    ASSUME TypeInv, SafetyInv, LoadOrRebuildModel
    PROVE  SafetyInv'
<1> DEFINE m == call.model
<1>1. /\ pc = "index" /\ UNCHANGED files
      /\ call.op = "register" /\ call.task = "none" /\ call.left = {}
      /\ outcome = "none" /\ Loaded
      /\ m \in Models /\ m \in KnownModels
  BY RegisterPlace DEF LoadOrRebuildModel
<1>2. \A n \in Models : ~RowsToLoad(n)
  BY <1>1 DEF RowsToLoad
<1>3. /\ schemaFile # Unreadable
      /\ \A n \in Models : schemas[n] = schemaFile[n]
      /\ \A n \in Models : Unknown(n) \/ RowsLoaded(n)
      /\ \A n \in KnownModels \ {m} : Steady(n)
  BY <1>1, <1>2, RegisterPlace
  DEF SafetyInv, HandlerInv, SchemasKept, RowsKept
<1>4. RowsOf(m) = table[m] /\ ~BuildFails(schemas[m], table[m])
  BY <1>1, <1>2, ModelFacts, PersistedFacts
<1>5. FileInv'
  BY <1>1, FilesKept DEF files
<1>6. CASE CleanAndReadable({m})
  <2>1. /\ LoadedIndexes(m, schemas[m]) = IndexOf(schemas[m], table[m])
        /\ Saved(m, UniqueFields(schemas[m]))
    BY <1>1, <1>2, <1>6, LoadedIsIndexOf DEF CleanAndReadable
  <2>2. /\ indexes' = [indexes EXCEPT ![m] = IndexOf(schemas[m], table[m])]
        /\ UNCHANGED <<schemas, rows, next_row_ids>>
        /\ pc' = "idle" /\ call' = NoCall
    BY <1>1, <1>6, <2>1 DEF LoadOrRebuildModel, UseIndexes, ReturnOk
  <2>3. ASSUME NEW n \in Models PROVE Unknown(n)' \/ RowsLoaded(n)'
    BY <1>1, <1>3, <2>2 DEF Unknown, RowsLoaded, KnownModels, files
  <2>4. ASSUME NEW n \in KnownModels PROVE Steady(n)'
    <3>1. n # m => indexes'[n] = indexes[n]
      BY <2>2 DEF TypeInv, TypeOK, MemoryOK, KnownModels
    <3>2. indexes'[m] = IndexOf(schemas[m], table[m])
      BY <1>1, <2>2 DEF TypeInv, TypeOK, MemoryOK
    <3> QED  BY <1>1, <1>3, <2>1, <2>2, <3>1, <3>2 DEF Steady, Saved, files
  <2>5. KnownModels' = KnownModels
    BY <2>2 DEF KnownModels
  <2>6. schemaFile' # Unreadable /\ \A n \in Models : schemas'[n] = schemaFile'[n]
    BY <1>1, <1>3, <2>2 DEF files
  <2> QED  BY <1>5, <2>2, <2>3, <2>4, <2>5, <2>6, Returned
<1>7. CASE ~CleanAndReadable({m})
  <2> DEFINE built == IndexOf(schemas[m], table[m])
  <2>1. /\ pc' = "dirty" /\ UNCHANGED <<memory, outcome>>
        /\ call' = [call EXCEPT !.task = "model", !.built = built,
                                !.todo = UniqueFields(schemas[m])]
    BY <1>4, <1>7 DEF LoadOrRebuildModel
  <2> HIDE DEF built
  <2>2. /\ call'.op = "register" /\ call'.task = "model" /\ call'.model = m
        /\ call'.built = built /\ call'.left = {}
        /\ call'.todo = UniqueFields(schemas[m])
    BY <1>1, <2>1 DEF TypeInv, TypeOK, ControlOK, Call
  <2>3. SchemasKept' /\ RowsKept'
    BY <1>1, <1>3, <2>1 DEF SchemasKept, RowsKept, Loaded, Unknown, RowsLoaded,
                            files, memory
  <2>4. OthersSteady'
    BY <1>1, <1>3, <2>1, <2>2 DEF OthersSteady, Unsettled, KnownModels, Steady,
                                  Saved, files, memory
  <2>5. BuiltInHand'
    BY <1>1, <2>1, <2>2 DEF BuiltInHand, built, files, memory
  <2>6. Placed' /\ RowInHand'
    BY <1>1, <2>1, <2>2 DEF Placed, RowInHand
  <2> QED  BY <1>5, <2>1, <2>3, <2>4, <2>5, <2>6
           DEF SafetyInv, HandlerInv, MarkedDirty, OpenSucceeds
<1> QED  BY <1>6, <1>7

-----------------------------------------------------------------------------
(* Engine::insert, Engine::update and Engine::delete before the append.    *)
(* Once a call has started only the handler has changed.                   *)
LEMMA StartedSafe ==
    ASSUME TypeInv, SafetyInv, pc = "idle", UNCHANGED <<files, memory>>,
           pc' \in {"unique", "dirty"}, outcome' = "none",
           call'.left = {},
           \/ /\ call'.op \in {"insert", "update"} /\ call'.task = "none"
              /\ pc' = "unique"
           \/ call'.op = "delete" /\ call'.task = "write" /\ pc' = "dirty",
           RowInHand'
    PROVE  SafetyInv'
<1>1. FileInv'
  BY FilesKept DEF files
<1>2. SchemasKept'
  BY IdleFacts DEF SchemasKept, files, memory
<1>3. RowsKept'
  BY IdleFacts DEF RowsKept, Unknown, RowsLoaded, Loaded, files, memory
<1>4. OthersSteady'
  BY IdleFacts DEF OthersSteady, Steady, Saved, KnownModels, files, memory
<1>5. Placed' /\ BuiltInHand'
  BY DEF Placed, BuiltInHand
<1> QED  BY <1>1, <1>2, <1>3, <1>4, <1>5
         DEF SafetyInv, HandlerInv, MarkedDirty, OpenSucceeds

(* A known model has its indexes between calls.                            *)
LEMMA IdleModel ==
    ASSUME TypeInv, SafetyInv, pc = "idle", NEW m \in Models, schemas[m] # None
    PROVE  /\ schemas[m] \in Schemas
           /\ rows[m] = table[m] /\ RowsOf(m) = table[m] /\ table[m] \in Tables
           /\ Readable(table[m])
           /\ UniqueFields(schemas[m]) \subseteq Fields
           /\ Above(next_row_ids[m], table[m]) /\ NextIdOf(m) = next_row_ids[m]
           /\ indexes[m] # None /\ indexes[m] = IndexOf(schemas[m], table[m])
           /\ Saved(m, UniqueFields(schemas[m]))
<1>1. m \in KnownModels /\ Loaded /\ ~RowsToLoad(m)
  BY DEF KnownModels, Loaded, RowsToLoad
<1>2. Steady(m)
  BY <1>1, IdleFacts
<1>3. table[m] \in Tables
  BY <1>1, ModelFacts
<1>4. IndexOf(schemas[m], table[m]) # None
  BY <1>3, IndexOfType, IndexAssumption
<1> QED  BY <1>1, <1>2, <1>4, ModelFacts DEF Steady

(* A record that validation accepts is stored as a valid row.              *)
LEMMA AcceptedRow ==
    ASSUME NEW schema, NEW values, Normalizes(schema, values)
    PROVE  ValidRow(schema, NormalizeRow(schema, values))
BY DEF Normalizes, ValidRow, NormalizeRow

(* The row that find_row_id returns is live.                               *)
LEMMA FoundIsLive ==
    ASSUME NEW m \in Models, NEW filters, rows[m] \in Tables, RowsOf(m) = rows[m],
           FindRowId(m, filters) # 0
    PROVE  FindRowId(m, filters) \in LiveIds(rows[m])
<1>1. CASE ByIndex(m, filters)
  <2>1. FindRowId(m, filters) \in LookupHits(m, filters)
    BY <1>1 DEF FindRowId
  <2> QED  BY <2>1 DEF LookupHits
<1>2. CASE ~ByIndex(m, filters)
  <2>1. FirstMatch(rows[m], filters) \in MatchingIds(rows[m], filters)
    BY <1>2, FirstMatchMatches DEF FindRowId
  <2> QED  BY <1>2, <2>1 DEF FindRowId, MatchingIds
<1> QED  BY <1>1, <1>2

(* insert up to check_unique: the normalised row is valid.                 *)
LEMMA InsertSafe ==
    ASSUME TypeInv, SafetyInv, NEW m \in Models, NEW values, Insert(m, values)
    PROVE  SafetyInv'
<1>1. /\ pc = "idle" /\ schemas[m] # None /\ outcome' = "none"
      /\ UNCHANGED <<files, memory>>
  BY DEF Insert
<1>2. pc' = "unique"
  BY <1>1, IdleModel DEF Insert, CheckUniqueNext
<1>3. /\ call'.op = "insert" /\ call'.task = "none" /\ call'.model = m
      /\ call'.row_id = 0 /\ call'.left = {}
      /\ call'.row = NormalizeRow(schemas[m], values)
  BY CallOfFields DEF Insert
<1>4. ValidRow(schemas[m], NormalizeRow(schemas[m], values))
  BY AcceptedRow DEF Insert, Accepts
<1>5. next_row_ids[m] < MaxRowId
  BY <1>1, IdleModel DEF Insert
<1>6. RowInHand'
  BY <1>1, <1>2, <1>3, <1>4, <1>5 DEF RowInHand, files, memory
<1> QED  BY <1>1, <1>2, <1>3, <1>6, StartedSafe

(* update up to check_unique: the merged row is valid, its row id live.    *)
LEMMA UpdateSafe ==
    ASSUME TypeInv, SafetyInv, NEW m \in Models, NEW filters, NEW values,
           Update(m, filters, values)
    PROVE  SafetyInv'
<1> DEFINE id == FindRowId(m, filters)
           merged == MergeRecord(rows[m][id].record, values)
<1>1. /\ pc = "idle" /\ schemas[m] # None /\ outcome' = "none" /\ id # 0
      /\ UNCHANGED <<files, memory>>
  BY DEF Update, Found
<1>2. pc' = "unique"
  BY <1>1, IdleModel DEF Update, CheckUniqueNext
<1>3. ValidRow(schemas[m], NormalizeRow(schemas[m], merged))
  BY AcceptedRow DEF Update, AcceptsUpdate
<1>4. call' = CallOf("update", m, id, NormalizeRow(schemas[m], merged))
  BY DEF Update
<1>5. id \in LiveIds(table[m])
  BY <1>1, IdleModel, FoundIsLive
<1> HIDE DEF id, merged
<1>6. /\ call'.op = "update" /\ call'.task = "none" /\ call'.model = m
      /\ call'.row_id = id /\ call'.left = {}
      /\ call'.row = NormalizeRow(schemas[m], merged)
  BY <1>4, CallOfFields
<1>7. RowInHand'
  BY <1>1, <1>2, <1>3, <1>5, <1>6 DEF RowInHand, files, memory
<1> QED  BY <1>1, <1>2, <1>6, <1>7, StartedSafe

(* delete up to mark_dirty: the row id is live.                            *)
LEMMA DeleteSafe ==
    ASSUME TypeInv, SafetyInv, NEW m \in Models, NEW filters, Delete(m, filters)
    PROVE  SafetyInv'
<1> DEFINE id == FindRowId(m, filters)
           begun == CallOf("delete", m, id, EmptyRecord)
<1>1. /\ pc = "idle" /\ schemas[m] # None /\ outcome' = "none" /\ id # 0
      /\ UNCHANGED <<files, memory>> /\ pc' = "dirty"
      /\ call' = [begun EXCEPT !.task = "write"]
  BY DEF Delete, Found
<1>2. id \in LiveIds(table[m]) /\ id \in RowIds
  BY <1>1, IdleModel, FoundIsLive DEF LiveIds
<1>3. /\ begun \in Call /\ begun.op = "delete" /\ begun.model = m
      /\ begun.left = {} /\ begun.row_id = id
  BY <1>2, CallOfType, CallOfFields, CellTypes DEF RowIds
<1> HIDE DEF id, begun
<1>4. /\ call'.op = "delete" /\ call'.task = "write" /\ call'.model = m
      /\ call'.row_id = id /\ call'.left = {}
  BY <1>1, <1>3 DEF Call
<1>5. RowInHand'
  BY <1>1, <1>2, <1>4 DEF RowInHand, files
<1> QED  BY <1>1, <1>4, <1>5, StartedSafe

(* validate_unique: asking the indexes is asking the log, since the model  *)
(* is steady.                                                              *)
LEMMA ValidateUniqueSafe ==
    ASSUME TypeInv, SafetyInv, ValidateUnique
    PROVE  SafetyInv'
<1> DEFINE m == call.model
<1>1. /\ pc = "unique" /\ UNCHANGED files
      /\ call.op \in {"insert", "update"} /\ call.task = "none"
      /\ outcome = "none" /\ call.left = {} /\ Loaded
      /\ m \in Models /\ m \in KnownModels /\ ~RowsToLoad(m)
  BY DEF ValidateUnique, SafetyInv, HandlerInv, Placed, Opening, Loaded, TypeInv,
         CallInv, KnownModels, RowsToLoad
<1>2. CASE UniqueConflict(indexes[m], call.row, call.row_id)
  BY <1>1, <1>2, RefusedSafe DEF ValidateUnique
<1>3. CASE ~UniqueConflict(indexes[m], call.row, call.row_id)
  <2>1. /\ pc' = "dirty" /\ UNCHANGED <<schemas, rows, indexes, outcome>>
    BY <1>3 DEF ValidateUnique
  <2>2. /\ NextIdOf(m) = next_row_ids[m] /\ table[m] \in Tables
        /\ UniqueFields(schemas[m]) \subseteq Fields
        /\ Above(next_row_ids[m], table[m])
    BY <1>1, ModelFacts
  <2>3. indexes[m] = IndexOf(schemas[m], table[m])
    BY <1>1, IdleFacts DEF Steady
  <2>4. RowUnique(schemas[m], table[m], call.row_id, call.row)
    BY <1>3, <2>2, <2>3, CheckUnique
  <2>5. next_row_ids' = next_row_ids
    <3>1. CASE call.op = "insert"
      <4>1. next_row_ids' = [next_row_ids EXCEPT ![m] = next_row_ids[m]]
        BY <1>3, <2>2, <3>1 DEF ValidateUnique
      <4> QED  BY <4>1 DEF TypeInv, TypeOK, MemoryOK
    <3>2. CASE call.op = "update"
      BY <1>3, <3>2 DEF ValidateUnique
    <3> QED  BY <1>1, <3>1, <3>2
  <2>6. /\ call'.op = call.op /\ call'.task = "write" /\ call'.model = m
        /\ call'.left = {} /\ call'.row = call.row
        /\ call'.row_id = IF call.op = "insert" THEN next_row_ids[m]
                                                ELSE call.row_id
    <3>1. CASE call.op = "insert"
      <4> DEFINE id == next_row_ids[m]
      <4>1. call' = [call EXCEPT !.task = "write", !.row_id = id]
        BY <1>3, <2>2, <3>1 DEF ValidateUnique
      <4> HIDE DEF id
      <4>2. /\ call'.op = call.op /\ call'.task = "write" /\ call'.model = m
            /\ call'.left = call.left /\ call'.row = call.row /\ call'.row_id = id
        BY <4>1 DEF TypeInv, TypeOK, ControlOK, Call
      <4> QED  BY <1>1, <3>1, <4>2 DEF id
    <3>2. CASE call.op = "update"
      <4>1. call' = [call EXCEPT !.task = "write"]
        BY <1>3, <3>2 DEF ValidateUnique
      <4> QED  BY <1>1, <3>2, <4>1 DEF TypeInv, TypeOK, ControlOK, Call
    <3> QED  BY <1>1, <3>1, <3>2
  <2>7. RowInHand'
    <3>1. /\ ValidRow(schemas[m], call.row)
          /\ call.op = "update" => call.row_id \in LiveIds(table[m])
          /\ call.op = "insert" => next_row_ids[m] < MaxRowId /\ call.row_id = 0
      BY <1>1 DEF SafetyInv, HandlerInv, RowInHand
    <3>2. call.op = "insert" =>
             RowUnique(schemas[m], table[m], next_row_ids[m], call.row)
      <4>1. 0 \notin LiveIds(table[m])
        BY DEF LiveIds, RowIds
      <4> QED  BY <2>4, <3>1, <4>1 DEF RowUnique
    <3> QED  BY <1>1, <2>1, <2>4, <2>5, <2>6, <3>1, <3>2 DEF RowInHand, files
  <2>8. FileInv'
    BY <1>1, FilesKept DEF files
  <2>9. SchemasKept' /\ RowsKept'
    BY <1>1, <2>1, <2>5, IdleFacts
    DEF SchemasKept, RowsKept, Loaded, Unknown, RowsLoaded, files
  <2>10. OthersSteady'
    BY <1>1, <2>1, IdleFacts
    DEF OthersSteady, Steady, Saved, KnownModels, files
  <2>11. Placed' /\ BuiltInHand'
    BY <1>1, <2>1, <2>6 DEF Placed, BuiltInHand
  <2> QED  BY <2>1, <2>7, <2>8, <2>9, <2>10, <2>11
           DEF SafetyInv, HandlerInv, MarkedDirty, OpenSucceeds
<1> QED  BY <1>2, <1>3

-----------------------------------------------------------------------------
(* append_operation and the change in memory that follows it.              *)
LEMMA AppendPlace ==
    ASSUME TypeInv, SafetyInv, pc = "append"
    PROVE  LET m == call.model
           IN  /\ call.op \in {"insert", "update", "delete"}
               /\ call.task = "write" /\ call.left = {} /\ outcome = "none"
               /\ Loaded /\ ~ixClean
               /\ m \in Models /\ m \in KnownModels /\ schemas[m] # None
               /\ schemas[m] \in Schemas
               /\ rows[m] = table[m] /\ RowsOf(m) = table[m]
               /\ table[m] \in Tables /\ Readable(table[m])
               /\ Above(next_row_ids[m], table[m])
               /\ indexes[m] = IndexOf(schemas[m], table[m])
               /\ indexes[m] # None
               /\ UniqueFields(schemas[m]) \subseteq Fields
               /\ schemaFile # Unreadable /\ schemaFile[m] = schemas[m]
               /\ ~BuildFails(schemas[m], table[m])
               /\ \A id \in LiveIds(table[m]) :
                     ValidRow(schemas[m], table[m][id].record)
<1>1. /\ call.op \in {"insert", "update", "delete"}
      /\ call.task = "write" /\ call.left = {} /\ outcome = "none"
      /\ Loaded /\ ~ixClean
  BY DEF SafetyInv, HandlerInv, Placed, Opening, MarkedDirty, Loaded
<1>2. /\ call.model \in Models /\ call.model \in KnownModels
      /\ ~RowsToLoad(call.model)
  BY <1>1 DEF TypeInv, CallInv, KnownModels, RowsToLoad
<1>3. Steady(call.model)
  BY <1>2, IdleFacts
<1>4. indexes[call.model] # None
  BY <1>2, <1>3, ModelFacts, IndexOfType, IndexAssumption, <1>1 DEF Steady
<1> QED  BY <1>1, <1>2, <1>3, <1>4, ModelFacts, PersistedFacts
         DEF KnownModels, Steady

(* A table that satisfies the schema takes the place of the model's table, *)
(* in the log and in memory, with its indexes still to be saved.           *)
LEMMA AppendedSafe ==
    ASSUME TypeInv, SafetyInv, pc = "append",
           NEW m, m = call.model, NEW after \in Tables, NEW built,
           built = IndexOf(schemas[m], after),
           table' = [table EXCEPT ![m] = after],
           rows' = [rows EXCEPT ![m] = after],
           \A n \in Models \ {m} : next_row_ids'[n] = next_row_ids[n],
           Above(next_row_ids'[m], after),
           indexes' = [indexes EXCEPT ![m] = built],
           SaveNext(built),
           UNCHANGED <<meta, schemaFile, ixClean, ixFile, schemas, outcome>>,
           ~BuildFails(schemas[m], after),
           \A id \in LiveIds(after) : ValidRow(schemas[m], after[id].record)
    PROVE  SafetyInv'
<1>1. /\ call.op \in {"insert", "update", "delete"}
      /\ call.task = "write" /\ call.left = {} /\ outcome = "none" /\ Loaded
      /\ ~ixClean /\ m \in Models /\ schemas[m] # None
      /\ UniqueFields(schemas[m]) \subseteq Fields
      /\ schemaFile # Unreadable /\ schemaFile[m] = schemas[m]
  BY AppendPlace
<1>2. /\ table'[m] = after /\ rows'[m] = after /\ indexes'[m] = built
      /\ \A n \in Models \ {m} : /\ table'[n] = table[n] /\ rows'[n] = rows[n]
                                /\ indexes'[n] = indexes[n]
  BY <1>1 DEF TypeInv, TypeOK, FilesOK, MemoryOK
<1>3. Readable(after) /\ after # Corrupt
  BY TableAssumption DEF Readable
<1>4. /\ call'.op = call.op /\ call'.task = "write" /\ call'.model = m
      /\ call'.left = {} /\ call'.row = call.row /\ call'.row_id = call.row_id
      /\ call'.built = built /\ call'.todo = IndexedFields(built) /\ pc' = "save"
  BY <1>1 DEF SaveNext, TypeInv, TypeOK, ControlOK, Call
<1>5. IndexedFields(built) = UniqueFields(schemas[m])
  BY <1>1, IndexedFieldsOf
<1>6. FileInv'
  <2>1. NothingUnnamed'
    BY <1>1, <1>2 DEF SafetyInv, FileInv, NothingUnnamed
  <2>2. LogReplays'
    BY <1>2, <1>3 DEF SafetyInv, FileInv, LogReplays
  <2>3. ASSUME NEW n \in PersistedModels', n # m
        PROVE  n \in PersistedModels /\ table'[n] = table[n]
    BY <1>2, <2>3 DEF PersistedModels
  <2>4. UniqueInLog' /\ StoredRowsValid'
    BY <1>1, <1>2, <2>3
    DEF SafetyInv, FileInv, UniqueInLog, StoredRowsValid
  <2>5. CleanImpliesFresh'
    BY <1>1 DEF CleanImpliesFresh
  <2> QED  BY <2>1, <2>2, <2>4, <2>5 DEF FileInv
<1>7. SchemasKept'
  BY <1>1, IdleFacts DEF SchemasKept
<1>8. RowsKept'
  <2> SUFFICES ASSUME NEW n \in Models PROVE Unknown(n)' \/ RowsLoaded(n)'
    BY <1>4 DEF RowsKept, Loaded
  <2>1. Unknown(n) \/ RowsLoaded(n)
    BY IdleFacts
  <2>2. CASE n = m
    BY <1>1, <1>2, <2>2 DEF RowsLoaded
  <2>3. CASE n # m
    BY <1>2, <2>1, <2>3 DEF Unknown, RowsLoaded
  <2> QED  BY <2>2, <2>3
<1>9. OthersSteady'
  <2> SUFFICES ASSUME NEW n \in KnownModels, n # m PROVE Steady(n)'
    BY <1>4 DEF OthersSteady, Unsettled, KnownModels
  <2>1. Steady(n)
    BY IdleFacts
  <2> QED  BY <1>2, <2>1, SteadyKept DEF KnownModels
<1>10. BuiltInHand'
  BY <1>1, <1>2, <1>4, <1>5 DEF BuiltInHand, Saved
<1>11. RowInHand'
  BY <1>1, <1>4 DEF SafetyInv, HandlerInv, RowInHand
<1>12. Placed'
  BY <1>1, <1>4 DEF Placed
<1> QED  BY <1>1, <1>4, <1>6, <1>7, <1>8, <1>9, <1>10, <1>11, <1>12
         DEF SafetyInv, HandlerInv, MarkedDirty, OpenSucceeds

(* The rows of a table after a write of a valid row are valid.             *)
LEMMA ValidAfterWrite ==
    ASSUME NEW t \in Tables, NEW id \in RowIds, NEW row, NEW schema,
           ValidRow(schema, row),
           \A other \in LiveIds(t) : ValidRow(schema, t[other].record)
    PROVE  \A other \in LiveIds([t EXCEPT ![id] = LiveRow(row)]) :
              ValidRow(schema, [t EXCEPT ![id] = LiveRow(row)][other].record)
<1> DEFINE after == [t EXCEPT ![id] = LiveRow(row)]
<1>1. LiveIds(after) = LiveIds(t) \cup {id}
  BY LiveAfter
<1>2. after[id].record = row /\ \A other \in LiveIds(t) \ {id} : after[other] = t[other]
  BY DEF Tables, LiveIds, LiveRow
<1> QED  BY <1>1, <1>2

(* Replaying a well-formed operation.                                      *)
LEMMA ReplayWrites ==
    ASSUME NEW t \in Tables, Readable(t), NEW id \in RowIds, NEW row
    PROVE  /\ id \notin UsedIds(t) =>
                 ReplayInsert(t, id, row) = [t EXCEPT ![id] = LiveRow(row)]
           /\ id \in LiveIds(t) =>
                 /\ ReplayUpdate(t, id, row) = [t EXCEPT ![id] = LiveRow(row)]
                 /\ ReplayDelete(t, id) = [t EXCEPT ![id] = DeadRow]
BY DEF ReplayInsert, ReplayUpdate, ReplayDelete

(* The counter stays above when no new id is used.                         *)
LEMMA AboveKept ==
    ASSUME NEW t \in Tables, NEW next, Above(next, t), NEW id \in LiveIds(t),
           NEW after, UsedIds(after) \subseteq UsedIds(t)
    PROVE  Above(next, after)
BY DEF Above

(* insert: the row id is new to the log and the row conflicts with none.   *)
LEMMA AppendInsertSafe ==
    ASSUME TypeInv, SafetyInv, AppendInsert
    PROVE  SafetyInv'
<1> DEFINE m == call.model
           id == call.row_id
           row == call.row
           after == [table[m] EXCEPT ![id] = LiveRow(row)]
<1>1. pc = "append" /\ call.op = "insert"
  BY DEF AppendInsert
<1>2. /\ ValidRow(schemas[m], row) /\ id = next_row_ids[m] /\ id < MaxRowId
      /\ RowUnique(schemas[m], table[m], id, row)
  BY <1>1 DEF SafetyInv, HandlerInv, RowInHand
<1>3. id \in RowIds /\ id \notin UsedIds(table[m]) /\ id \notin LiveIds(table[m])
  BY <1>1, <1>2, AppendPlace, AboveIsNew
<1>4. after \in Tables
  <2>1. row \in Record
    BY DEF TypeInv, TypeOK, ControlOK, Call
  <2> QED  BY <1>1, <1>3, <2>1, AppendPlace, CellTypes DEF Tables
<1>5. IndexInsert(indexes[m], id, row) = IndexOf(schemas[m], after)
  BY <1>1, <1>2, <1>3, AppendPlace, InsertIndexes
<1>6. ReplayInsert(table[m], id, row) = after
  BY <1>1, <1>3, AppendPlace, ReplayWrites
<1>7. ~BuildFails(schemas[m], after)
  BY <1>1, <1>2, <1>3, AppendPlace, UniqueAfterWrite
<1>8. \A other \in LiveIds(after) : ValidRow(schemas[m], after[other].record)
  BY <1>1, <1>2, <1>3, AppendPlace, ValidAfterWrite
<1>9. Above(SaturatingNext(id), after)
  BY <1>1, <1>2, AppendPlace, AboveAfterInsert
<1>10. RowsOf(m) = table[m] /\ m \in Models
  BY <1>1, AppendPlace
<1>11. /\ table' = [table EXCEPT ![m] = after]
       /\ rows' = [rows EXCEPT ![m] = after]
       /\ next_row_ids' = [next_row_ids EXCEPT ![m] = SaturatingNext(id)]
       /\ indexes' = [indexes EXCEPT ![m] = IndexOf(schemas[m], after)]
       /\ SaveNext(IndexOf(schemas[m], after))
       /\ UNCHANGED <<meta, schemaFile, ixClean, ixFile, schemas, outcome>>
  BY <1>5, <1>6, <1>10 DEF AppendInsert
<1> HIDE DEF after
<1>12. /\ next_row_ids'[m] = SaturatingNext(id)
       /\ \A n \in Models \ {m} : next_row_ids'[n] = next_row_ids[n]
  BY <1>10, <1>11 DEF TypeInv, TypeOK, MemoryOK
<1> QED  BY <1>1, <1>4, <1>7, <1>8, <1>9, <1>11, <1>12, AppendedSafe

(* update: the old entries leave the indexes before the new ones come.     *)
LEMMA AppendUpdateSafe ==
    ASSUME TypeInv, SafetyInv, AppendUpdate
    PROVE  SafetyInv'
<1> DEFINE m == call.model
           id == call.row_id
           row == call.row
           after == [table[m] EXCEPT ![id] = LiveRow(row)]
<1>1. pc = "append" /\ call.op = "update"
  BY DEF AppendUpdate
<1>2. /\ ValidRow(schemas[m], row) /\ id \in LiveIds(table[m])
      /\ RowUnique(schemas[m], table[m], id, row)
  BY <1>1 DEF SafetyInv, HandlerInv, RowInHand
<1>3. id \in RowIds /\ id \in UsedIds(table[m])
  BY <1>2 DEF LiveIds, UsedIds
<1>4. after \in Tables
  <2>1. row \in Record
    BY DEF TypeInv, TypeOK, ControlOK, Call
  <2> QED  BY <1>1, <1>3, <2>1, AppendPlace, CellTypes DEF Tables
<1>5. IndexInsert(IndexRemove(indexes[m], id, table[m][id].record), id, row) =
         IndexOf(schemas[m], after)
  BY <1>1, <1>2, AppendPlace, UpdateIndexes
<1>6. ReplayUpdate(table[m], id, row) = after
  BY <1>1, <1>2, <1>3, AppendPlace, ReplayWrites
<1>7. ~BuildFails(schemas[m], after)
  BY <1>1, <1>2, <1>3, AppendPlace, UniqueAfterWrite
<1>8. \A other \in LiveIds(after) : ValidRow(schemas[m], after[other].record)
  BY <1>1, <1>2, <1>3, AppendPlace, ValidAfterWrite
<1>9. Above(next_row_ids[m], after)
  <2>1. UsedIds(after) = UsedIds(table[m]) \cup {id}
    BY <1>1, <1>3, AppendPlace, LiveAfter
  <2> QED  BY <1>1, <1>2, <1>3, <2>1, AppendPlace, AboveKept
<1>10. rows[m] = table[m] /\ m \in Models
  BY <1>1, AppendPlace
<1>11. /\ table' = [table EXCEPT ![m] = after]
       /\ rows' = [rows EXCEPT ![m] = after]
       /\ indexes' = [indexes EXCEPT ![m] = IndexOf(schemas[m], after)]
       /\ SaveNext(IndexOf(schemas[m], after))
       /\ UNCHANGED <<meta, schemaFile, ixClean, ixFile, schemas, next_row_ids,
                      outcome>>
  BY <1>5, <1>6, <1>10 DEF AppendUpdate
<1> HIDE DEF after
<1> QED  BY <1>1, <1>4, <1>7, <1>8, <1>9, <1>11, AppendedSafe

(* delete: the entries of the row leave the indexes.                       *)
LEMMA AppendDeleteSafe ==
    ASSUME TypeInv, SafetyInv, AppendDelete
    PROVE  SafetyInv'
<1> DEFINE m == call.model
           id == call.row_id
           after == [table[m] EXCEPT ![id] = DeadRow]
<1>1. pc = "append" /\ call.op = "delete"
  BY DEF AppendDelete
<1>2. id \in LiveIds(table[m])
  BY <1>1 DEF SafetyInv, HandlerInv, RowInHand
<1>3. id \in RowIds /\ id \in UsedIds(table[m])
  BY <1>2 DEF LiveIds, UsedIds
<1>4. after \in Tables
  BY <1>1, <1>3, AppendPlace, CellTypes DEF Tables
<1>5. IndexRemove(indexes[m], id, table[m][id].record) = IndexOf(schemas[m], after)
  BY <1>1, <1>2, AppendPlace, RemoveIndexes, SMTT(60)
<1>6. ReplayDelete(table[m], id) = after
  BY <1>1, <1>2, <1>3, AppendPlace, ReplayWrites
<1>7. ~BuildFails(schemas[m], after)
  BY <1>1, <1>3, AppendPlace, UniqueAfterDelete
<1>8. /\ LiveIds(after) \subseteq LiveIds(table[m]) \ {id}
      /\ UsedIds(after) \subseteq UsedIds(table[m])
  <2>1. table[m] \in Tables
    BY <1>1, AppendPlace
  <2> QED  BY <1>3, <2>1 DEF Tables, LiveIds, UsedIds, DeadRow
<1>9. \A other \in LiveIds(after) : ValidRow(schemas[m], after[other].record)
  <2>1. \A other \in RowIds \ {id} : after[other] = table[m][other]
    BY <1>1, AppendPlace DEF Tables
  <2> QED  BY <1>1, <1>8, <2>1, AppendPlace DEF LiveIds
<1>10. Above(next_row_ids[m], after)
  BY <1>1, <1>2, <1>8, AppendPlace, AboveKept
<1>11. rows[m] = table[m] /\ m \in Models /\ indexes[m] # None
  BY <1>1, AppendPlace
<1>12. /\ table' = [table EXCEPT ![m] = after]
       /\ rows' = [rows EXCEPT ![m] = after]
       /\ indexes' = [indexes EXCEPT ![m] = IndexOf(schemas[m], after)]
       /\ SaveNext(IndexOf(schemas[m], after))
       /\ UNCHANGED <<meta, schemaFile, ixClean, ixFile, schemas, next_row_ids,
                      outcome>>
  BY <1>5, <1>6, <1>11 DEF AppendDelete
<1> HIDE DEF after
<1> QED  BY <1>1, <1>4, <1>7, <1>9, <1>10, <1>12, AppendedSafe

(* encode_record refuses a row before anything has changed.                *)
LEMMA AppendRefusedSafe ==
    ASSUME TypeInv, SafetyInv, AppendRefused
    PROVE  SafetyInv'
BY RefusedSafe DEF AppendRefused

-----------------------------------------------------------------------------
(* A write that stops half-way leaves files a reopening engine can trust.  *)
LEMMA PartialWriteSafe ==
    ASSUME TypeInv, SafetyInv, PartialWrite
    PROVE  FileInv'
<1> DEFINE m == call.model
<1>1. CASE UNCHANGED <<schemaFile, table, ixFile>> /\ (ixClean' => ixClean)
  BY <1>1, FilesKept
<1>2. CASE schemaFile' = Unreadable /\ UNCHANGED <<table, ixClean, ixFile>>
  BY <1>2 DEF SafetyInv, FileInv, NothingUnnamed, LogReplays, UniqueInLog,
              StoredRowsValid, CleanImpliesFresh, PersistedModels
<1>3. CASE /\ pc = "append" /\ table' = [table EXCEPT ![m] = Torn]
           /\ UNCHANGED <<schemaFile, ixClean, ixFile>>
  <2>1. m \in Models /\ ~ixClean /\ schemaFile[m] # None
    BY <1>3, AppendPlace
  <2>2. table'[m] = Torn /\ \A n \in Models \ {m} : table'[n] = table[n]
    BY <1>3, <2>1 DEF TypeInv, TypeOK, FilesOK
  <2>3. ~Readable(Torn) /\ Torn # Corrupt
    BY TableAssumption DEF Readable
  <2>4. ASSUME NEW n \in PersistedModels'
        PROVE  n \in PersistedModels /\ table'[n] = table[n]
    BY <1>3, <2>2, <2>3 DEF PersistedModels
  <2>5. NothingUnnamed' /\ LogReplays'
    BY <1>3, <2>1, <2>2, <2>3 DEF SafetyInv, FileInv, NothingUnnamed, LogReplays
  <2>6. UniqueInLog' /\ StoredRowsValid' /\ CleanImpliesFresh'
    BY <1>3, <2>1, <2>4
    DEF SafetyInv, FileInv, UniqueInLog, StoredRowsValid, CleanImpliesFresh
  <2> QED  BY <2>5, <2>6 DEF FileInv
<1>4. CASE /\ pc = "save"
           /\ \E f \in call.todo :
                 ixFile' = [ixFile EXCEPT ![m][f] = NoMap]
           /\ UNCHANGED <<schemaFile, table, ixClean>>
  <2>1. m \in Models /\ ~ixClean /\ schemaFile # Unreadable /\ schemaFile[m] # None
    BY <1>4, SavePlace DEF KnownModels
  <2>2. \A n \in Models \ {m} : ixFile'[n] = ixFile[n]
    BY <1>4 DEF TypeInv, TypeOK, FilesOK
  <2> QED  BY <1>4, <2>1, <2>2
           DEF SafetyInv, FileInv, NothingUnnamed, LogReplays, UniqueInLog,
               StoredRowsValid, CleanImpliesFresh, PersistedModels
<1> QED  BY <1>1, <1>2, <1>3, <1>4 DEF PartialWrite, files

(* The process stops: only the files are left, in a state open can trust.  *)
LEMMA CrashSafe ==
    ASSUME TypeInv, SafetyInv, Crash
    PROVE  SafetyInv'
<1>1. FileInv'
  BY PartialWriteSafe DEF Crash
<1>2. /\ pc' = "down" /\ call' = NoCall /\ outcome' = "none"
      /\ NoMemory(schemas', rows', next_row_ids', indexes')
  BY DEF Crash
<1>3. RowsKept'
  BY <1>2 DEF RowsKept, Loaded, NoMemory
<1>4. Placed' /\ SchemasKept' /\ RowInHand' /\ OthersSteady' /\ BuiltInHand'
  BY <1>2, NoCallOps
  DEF Placed, SchemasKept, Loaded, RowInHand, OthersSteady, BuiltInHand
<1> QED  BY <1>1, <1>2, <1>3, <1>4
         DEF SafetyInv, HandlerInv, MarkedDirty, OpenSucceeds

-----------------------------------------------------------------------------
(* A step that changes nothing keeps the invariant.                        *)
LEMMA StutterSafe ==
    ASSUME SafetyInv, UNCHANGED vars
    PROVE  SafetyInv'
<1>1. /\ UNCHANGED <<files, memory, control>>
      /\ UNCHANGED <<schemaFile, table, ixFile, ixClean>>
  BY DEF vars, files, memory, control
<1>2. FileInv'
  BY <1>1, FilesKept
<1>3. Placed' /\ SchemasKept' /\ RowsKept'
  BY <1>1 DEF SafetyInv, HandlerInv, Placed, SchemasKept, RowsKept, Loaded,
              Unknown, RowsLoaded, RowsToLoad, NoMemory, files, memory, control
<1>4. RowInHand' /\ BuiltInHand'
  BY <1>1 DEF SafetyInv, HandlerInv, RowInHand, BuiltInHand, Saved, files,
              memory, control
<1>5. OthersSteady'
  BY <1>1 DEF SafetyInv, HandlerInv, OthersSteady, Loaded, KnownModels,
              Unsettled, Steady, Saved, files, memory, control
<1>6. MarkedDirty' /\ OpenSucceeds'
  BY <1>1 DEF SafetyInv, HandlerInv, MarkedDirty, OpenSucceeds, FilesIntact,
              files, control
<1> QED  BY <1>2, <1>3, <1>4, <1>5, <1>6 DEF SafetyInv, HandlerInv

(* Every step keeps the invariant, when the files can hold every value.    *)
LEMMA SafetyInvStep ==
    ASSUME Storable
    PROVE  TypeInv /\ SafetyInv /\ [Next]_vars => SafetyInv'
<1> SUFFICES ASSUME TypeInv, SafetyInv, [Next]_vars PROVE SafetyInv'
  OBVIOUS
<1>1. CASE UNCHANGED vars
  BY <1>1, StutterSafe
<1>2. CASE Open \/ Crash
  BY <1>2, OpenSafe, CrashSafe
<1>3. CASE Request
  BY <1>3, RegisterSafe, RegisterIncompatibleSafe, InsertSafe, UpdateSafe,
     DeleteSafe DEF Request
<1>4. CASE Work
  BY <1>4, ManifestSafe, LoadTablesSafe, LoadOrRebuildAllSafe, RebuildModelSafe,
     RebuildDoneSafe, MarkDirtySafe, SaveIndexSafe, NothingRefused,
     SaveModelDoneSafe, MarkCleanSafe, LoadOrRebuildModelSafe, SaveSchemasSafe,
     LoadRowsSafe, ValidateUniqueSafe, AppendInsertSafe, AppendUpdateSafe,
     AppendDeleteSafe, AppendRefusedSafe DEF Work
<1> QED  BY <1>1, <1>2, <1>3, <1>4 DEF Next

(* In every state memory, log and index files are as far in step as the    *)
(* handler that runs, or the crash that stopped it, may leave them.        *)
THEOREM SafetyInvariant ==
    ASSUME Storable
    PROVE  Spec => [](TypeInv /\ SafetyInv)
<1>1. Init => TypeInv /\ SafetyInv
  BY InitTypeInv, InitSafetyInv
<1>2. TypeInv /\ SafetyInv /\ [Next]_vars => (TypeInv /\ SafetyInv)'
  BY SafetyInvStep, TypeInvStep DEF FaultyNext
<1> QED  BY <1>1, <1>2, PTL DEF Spec

-----------------------------------------------------------------------------
(* CleanImpliesFresh: an index file that open loads without a rebuild is   *)
(* the index of its table log, wherever an earlier process stopped.        *)
THEOREM CleanIsFresh ==
    ASSUME Storable
    PROVE  Spec => []CleanImpliesFresh
<1>1. SafetyInv => CleanImpliesFresh
  BY DEF SafetyInv, FileInv
<1> QED  BY <1>1, SafetyInvariant, PTL

(* UniqueInLog: no log holds two live rows with the same unique value,     *)
(* though check_unique only asks the indexes.                              *)
THEOREM LogIsUnique ==
    ASSUME Storable
    PROVE  Spec => []UniqueInLog
<1>1. SafetyInv => UniqueInLog
  BY DEF SafetyInv, FileInv
<1> QED  BY <1>1, SafetyInvariant, PTL

(* LogReplays: replay_operations accepts every log the engine writes.      *)
THEOREM LogAlwaysReplays ==
    ASSUME Storable
    PROVE  Spec => []LogReplays
<1>1. SafetyInv => LogReplays
  BY DEF SafetyInv, FileInv
<1> QED  BY <1>1, SafetyInvariant, PTL

(* StoredRowsValid: every live row on disk is valid under its schema.      *)
THEOREM StoredRowsAreValid ==
    ASSUME Storable
    PROVE  Spec => []StoredRowsValid
<1>1. SafetyInv => StoredRowsValid
  BY DEF SafetyInv, FileInv
<1> QED  BY <1>1, SafetyInvariant, PTL

(* OpenSucceeds: only a damaged manifest, schema file or table log keeps   *)
(* a database from opening, never the index files.                         *)
THEOREM OpenAlwaysSucceeds ==
    ASSUME Storable
    PROVE  Spec => []OpenSucceeds
<1>1. SafetyInv => OpenSucceeds
  BY DEF SafetyInv, HandlerInv
<1> QED  BY <1>1, SafetyInvariant, PTL

(* At most one live row of a log has a given value of a unique field: the  *)
(* hit of an index is the first match of the scan that find falls back on. *)
LEMMA HitIsFirstMatch ==
    ASSUME NEW t \in Tables, NEW schema, ~BuildFails(schema, t),
           NEW f \in UniqueFields(schema), NEW filters, DOMAIN filters = {f}
    PROVE  LET hits == Hits(EntriesOf(t, f), filters[f]) \cap LiveIds(t)
           IN  FirstMatch(t, filters) =
                  IF hits = {} THEN 0 ELSE CHOOSE id \in hits : TRUE
<1> DEFINE hits == Hits(EntriesOf(t, f), filters[f]) \cap LiveIds(t)
<1>1. hits = MatchingIds(t, filters)
  BY HitsOf DEF MatchingIds, Matches
<1>2. ASSUME NEW i \in hits, NEW j \in hits PROVE i = j
  BY <1>1, <1>2 DEF MatchingIds, Matches, BuildFails, SameUnique
<1>3. CASE hits = {}
  BY <1>1, <1>3, FirstMatchMatches
<1>4. CASE hits # {}
  <2>1. FirstMatch(t, filters) \in hits
    BY <1>1, <1>4, FirstMatchMatches
  <2>2. (CHOOSE id \in hits : TRUE) \in hits
    BY <1>4
  <2> HIDE DEF hits
  <2> QED  BY <1>2, <1>4, <2>1, <2>2 DEF hits
<1> QED  BY <1>3, <1>4

(* FindMatchesLog: find answers between calls with the first live row of   *)
(* the log that matches, also when it only looks at an index file.         *)
THEOREM FindAnswersTheLog ==
    ASSUME Storable
    PROVE  Spec => []FindMatchesLog
<1>1. TypeInv /\ SafetyInv => FindMatchesLog
  <2> SUFFICES ASSUME TypeInv, SafetyInv, pc = "idle", NEW m \in KnownModels,
                      NEW filters
               PROVE  /\ ~FindFails(m, filters)
                      /\ FindRowId(m, filters) = FirstMatch(table[m], filters)
    BY DEF FindMatchesLog
  <2>1. m \in Models /\ schemas[m] # None /\ Loaded /\ ~RowsToLoad(m)
    BY DEF KnownModels, Loaded, RowsToLoad
  <2>2. /\ rows[m] = table[m] /\ RowsOf(m) = table[m] /\ table[m] \in Tables
        /\ UniqueFields(schemas[m]) \subseteq Fields
        /\ indexes[m] = IndexOf(schemas[m], table[m])
        /\ Saved(m, UniqueFields(schemas[m]))
    BY <2>1, IdleModel
  <2>3. ~BuildFails(schemas[m], table[m])
    BY <2>1, PersistedFacts
  <2>4. CASE ~ByIndex(m, filters)
    BY <2>2, <2>4 DEF FindFails, FindRowId
  <2>5. CASE ByIndex(m, filters)
    <3>1. PICK f \in UniqueFields(schemas[m]) : DOMAIN filters = {f}
      BY <2>2, <2>5, IndexedFieldsOf DEF ByIndex
    <3>2. FilterField(filters) = f
      BY <3>1 DEF FilterField
    <3>3. ixFile[m][f] = EntriesOf(table[m], f)
      BY <2>2, <3>1 DEF Saved
    <3>4. ~FindFails(m, filters)
      BY <2>2, <3>2, <3>3, EntriesOfType, NoMapIsNoMap DEF FindFails
    <3>5. LookupHits(m, filters) =
             Hits(EntriesOf(table[m], f), filters[f]) \cap LiveIds(table[m])
      BY <2>2, <3>2, <3>3 DEF LookupHits
    <3>6. LET hits == Hits(EntriesOf(table[m], f), filters[f]) \cap LiveIds(table[m])
          IN  FirstMatch(table[m], filters) =
                 IF hits = {} THEN 0 ELSE CHOOSE id \in hits : TRUE
      BY <2>2, <2>3, <3>1, HitIsFirstMatch, ZenonT(60)
    <3> QED  BY <2>5, <3>4, <3>5, <3>6 DEF FindRowId
  <2> QED  BY <2>4, <2>5
<1> QED  BY <1>1, SafetyInvariant, PTL

(* SchemaLocked: no step replaces or drops a schema that reached the file. *)
THEOREM SchemasNeverChange ==
    ASSUME Storable
    PROVE  Spec => SchemaLocked
<1> DEFINE Locked ==
      (schemaFile # Unreadable /\ schemaFile' # Unreadable) =>
          \A m \in Models :
              schemaFile[m] # None => schemaFile'[m] = schemaFile[m]
<1>1. TypeInv /\ SafetyInv /\ [Next]_vars => Locked
  <2> SUFFICES ASSUME SafetyInv, [Next]_vars PROVE Locked
    OBVIOUS
  <2>1. \/ schemaFile' = schemaFile
        \/ schemaFile' = Unreadable
        \/ pc = "save_schemas" /\ schemaFile' = schemas
    BY ZenonT(60) DEF Next, Open, Request, Work, Crash, PartialWrite, vars, files,
           LoadOrCreateManifest, LoadTables, LoadOrRebuildAll, RebuildModel,
           RebuildDone, MarkDirty, SaveIndex, SaveIndexRefused, SaveModelDone,
           MarkClean, LoadOrRebuildModel, SaveSchemas, SaveSchemasRefused, LoadRows,
           ValidateUnique,
           AppendInsert, AppendUpdate, AppendDelete, AppendRefused,
           RegisterSchema, RegisterIncompatible, Insert, Update, Delete
  <2>2. pc = "save_schemas" =>
           \A m \in Models : schemaFile[m] # None => schemas[m] = schemaFile[m]
    BY DEF SafetyInv, HandlerInv, SchemasKept, Loaded
  <2> QED  BY <2>1, <2>2
<1>2. [](TypeInv /\ SafetyInv) /\ [][Next]_vars => [][Locked]_vars
  BY <1>1, PTL
<1> QED  BY <1>2, SafetyInvariant, PTL DEF Spec, SchemaLocked

(* RegisterOkPersists: register_schema returns Ok only for a schema that   *)
(* is in the schema file.                                                  *)
THEOREM RegisteredIsPersisted ==
    ASSUME Storable
    PROVE  Spec => RegisterOkPersists
<1> DEFINE Persists ==
      (call.op = "register" /\ outcome' = "ok") =>
          /\ schemaFile # Unreadable
          /\ schemaFile[call.model] = schemas[call.model]
<1>1. TypeInv /\ SafetyInv /\ [Next]_vars => Persists
  <2> SUFFICES ASSUME TypeInv, SafetyInv, [Next]_vars, call.op = "register",
                      outcome' = "ok"
               PROVE  /\ schemaFile # Unreadable
                      /\ schemaFile[call.model] = schemas[call.model]
    OBVIOUS
  <2>1. call.model \in Models /\ Loaded /\ outcome = "none"
    BY NoCallOps DEF TypeInv, CallInv, SafetyInv, HandlerInv, Placed, Loaded
  <2>2. pc # "save_schemas"
    BY <2>1 DEF Next, Open, Request, Work, Crash, vars,
           LoadOrCreateManifest, LoadTables, LoadOrRebuildAll, RebuildModel,
           RebuildDone, MarkDirty, SaveIndex, SaveIndexRefused, SaveModelDone,
           MarkClean, LoadOrRebuildModel, SaveSchemas, SaveSchemasRefused, LoadRows,
           ValidateUnique,
           AppendInsert, AppendUpdate, AppendDelete, AppendRefused,
           RegisterSchema, RegisterIncompatible, Insert, Update, Delete, ReturnErr
  <2> QED  BY <2>1, <2>2 DEF SafetyInv, HandlerInv, SchemasKept
<1>2. [](TypeInv /\ SafetyInv) /\ [][Next]_vars => [][Persists]_vars
  BY <1>1, PTL
<1> QED  BY <1>2, SafetyInvariant, PTL DEF Spec, RegisterOkPersists

-----------------------------------------------------------------------------
(***************************************************************************)
(* What holds when file operations fail, too: FaultInv is inductive for    *)
(* FaultySpec.  Its parts do not need each other, so that each has a lemma *)
(* of its own that goes through the steps.                                 *)
(***************************************************************************)
(* An error leaves no call, and the memory as it was or empty.             *)
LEMMA ErrReturned ==
    ASSUME ReturnErr
    PROVE  /\ call' = NoCall /\ pc' \in {"down", "idle"}
           /\ UNCHANGED memory \/ NoMemory(schemas', rows', next_row_ids', indexes')
BY DEF ReturnErr

(* Before anything is done there are no rows and nothing is in hand.       *)
LEMMA InitFaultInv == Init => FaultInv
<1> SUFFICES ASSUME Init PROVE FaultInv
  OBVIOUS
<1>1. LiveIds(EmptyTable) = {} /\ UsedIds(EmptyTable) = {}
  BY EmptyTableType DEF LiveIds, UsedIds
<1>2. RowsChecked
  BY <1>1, NoCallFields DEF Init, RowsChecked, RowsOfOneSchema
<1>3. MemoryKept
  BY NoCallFields, EmptyTableType, IndexAssumption
  DEF Init, MemoryKept, RowsOfLog, IdInHand, NoMemory
<1>4. MarkedDirty /\ IndexesInHand
  BY DEF Init, MarkedDirty, IndexesInHand
<1> QED  BY <1>2, <1>3, <1>4 DEF FaultInv

-----------------------------------------------------------------------------
(* A step that leaves the logs alone and takes no new row in hand.         *)
LEMMA RowsCheckedKept ==
    ASSUME RowsChecked, UNCHANGED table,
           call'.op \in {"insert", "update"} =>
               call'.op = call.op /\ call'.row = call.row
    PROVE  RowsChecked'
BY DEF RowsChecked, RowsOfOneSchema, OneSchema

(* A log that takes one operation more has rows of one schema each if the  *)
(* row of the operation is.                                                *)
LEMMA OneSchemaAfter ==
    ASSUME TypeInv, RowsOfOneSchema, NEW m \in Models, NEW id \in RowIds, NEW row,
           NEW file,
           \/ file \in {Torn, Corrupt, table[m]}
           \/ Readable(table[m]) /\ file = [table[m] EXCEPT ![id] = DeadRow]
           \/ /\ Readable(table[m]) /\ file = [table[m] EXCEPT ![id] = LiveRow(row)]
              /\ OneSchema(row),
           table' = [table EXCEPT ![m] = file]
    PROVE  RowsOfOneSchema'
<1> SUFFICES ASSUME NEW n \in Models, Readable(table'[n]),
                    NEW other \in LiveIds(table'[n])
             PROVE  OneSchema(table'[n][other].record)
  BY DEF RowsOfOneSchema, OneSchema
<1>1. table \in [Models -> TableFiles]
  BY DEF TypeInv, TypeOK, FilesOK
<1>2. CASE n # m
  BY <1>1, <1>2 DEF RowsOfOneSchema, OneSchema
<1>3. CASE n = m
  <2>1. table'[n] = file /\ Readable(file) /\ other \in RowIds
    BY <1>1, <1>3 DEF LiveIds
  <2>2. CASE file = table[m]
    BY <1>1, <1>3, <2>1, <2>2 DEF RowsOfOneSchema, OneSchema
  <2>3. CASE Readable(table[m]) /\ file = [table[m] EXCEPT ![id] = DeadRow]
    <3>1. table[m] \in Tables
      BY <1>1, <2>3 DEF TableFiles, Readable
    <3>2. other # id /\ other \in LiveIds(table[m]) /\ file[other] = table[m][other]
      BY <2>1, <2>3, <3>1 DEF LiveIds, DeadRow, Tables
    <3> QED  BY <2>1, <2>3, <3>2 DEF RowsOfOneSchema, OneSchema
  <2>4. CASE /\ Readable(table[m]) /\ file = [table[m] EXCEPT ![id] = LiveRow(row)]
             /\ OneSchema(row)
    <3>1. table[m] \in Tables
      BY <1>1, <2>4 DEF TableFiles, Readable
    <3>2. CASE other = id
      BY <2>1, <2>4, <3>1, <3>2 DEF LiveRow, Tables
    <3>3. CASE other # id
      <4>1. other \in LiveIds(table[m]) /\ file[other] = table[m][other]
        BY <2>1, <2>4, <3>1, <3>3 DEF LiveIds, Tables
      <4> QED  BY <2>1, <2>4, <4>1 DEF RowsOfOneSchema, OneSchema
    <3> QED  BY <3>2, <3>3
  <2> QED  BY <2>1, <2>2, <2>3, <2>4 DEF Readable
<1> QED  BY <1>2, <1>3

(* Until it returns, a handler keeps the operation and the row it began    *)
(* with; only an append changes a log.                                     *)
LEMMA CallGoesOn ==
    ASSUME TypeInv, Work
    PROVE  /\ call' = NoCall \/ (call'.op = call.op /\ call'.row = call.row)
           /\ UNCHANGED table \/ AppendInsert \/ AppendUpdate \/ AppendDelete
<1> DEFINE Goes == call' = NoCall \/ (call'.op = call.op /\ call'.row = call.row)
<1>0. call \in Call
  BY DEF TypeInv, TypeOK, ControlOK
<1>a. ASSUME NEW task, NEW built, NEW todo, NEW other,
             \/ call' = [call EXCEPT !.todo = todo]
             \/ call' = [call EXCEPT !.task = task]
             \/ call' = [call EXCEPT !.task = task, !.row_id = other]
             \/ call' = [call EXCEPT !.task = task, !.built = built]
             \/ call' = [call EXCEPT !.built = built, !.todo = todo]
             \/ call' = [call EXCEPT !.task = task, !.built = built, !.todo = todo]
             \/ call' = [call EXCEPT !.task = task, !.left = todo]
             \/ call' = [call EXCEPT !.model = other, !.built = built, !.todo = todo,
                                     !.left = task]
      PROVE  Goes
  BY <1>0, <1>a DEF Call
<1>1. CASE LoadOrCreateManifest
  BY <1>1, ErrReturned DEF LoadOrCreateManifest
<1>2. CASE LoadTables
  BY <1>2, ErrReturned DEF LoadTables, files
<1>3. CASE LoadOrRebuildAll
  BY <1>3, <1>a DEF LoadOrRebuildAll, ReturnOk, files
<1>4. CASE RebuildModel
  <2>1. UNCHANGED table
    BY <1>4 DEF RebuildModel, files
  <2>2. PICK m \in call.left :
          \/ ReturnErr
          \/ call' = [call EXCEPT !.model = m,
                                  !.built = IndexOf(schemas[m], RowsOf(m)),
                                  !.todo = UniqueFields(schemas[m]),
                                  !.left = call.left \ {m}]
    BY <1>4, ZenonT(30) DEF RebuildModel
  <2>3. CASE ~ReturnErr
    <3> DEFINE built == IndexOf(schemas[m], RowsOf(m))
               todo == UniqueFields(schemas[m])
    <3>1. call' = [call EXCEPT !.model = m, !.built = built, !.todo = todo,
                              !.left = call.left \ {m}]
      BY <2>2, <2>3
    <3> HIDE DEF built, todo
    <3>2. call'.op = call.op /\ call'.row = call.row
      BY <1>0, <3>1 DEF Call
    <3> QED  BY <2>1, <3>2
  <2> QED  BY <2>1, <2>3, ErrReturned
<1>5. CASE RebuildDone \/ MarkDirty \/ SaveModelDone \/ SaveSchemas
  BY <1>5 DEF RebuildDone, MarkDirty, SaveModelDone, SaveSchemas, files
<1>6. CASE SaveIndex
  BY <1>6, <1>a DEF SaveIndex
<1>7. CASE SaveIndexRefused \/ SaveSchemasRefused \/ AppendRefused
  BY <1>7, ErrReturned DEF SaveIndexRefused, SaveSchemasRefused, AppendRefused, files
<1>8. ASSUME NEW m, NEW loaded, UseIndexes(m, loaded) PROVE Goes
  BY <1>8, <1>a DEF UseIndexes, ReturnOk
<1>9. CASE MarkClean
  BY <1>8, <1>9 DEF MarkClean, ReturnOk
<1>10. CASE LoadOrRebuildModel
  <2>1. UNCHANGED table
    BY <1>10 DEF LoadOrRebuildModel, files
  <2> DEFINE m == call.model
  <2>2. \/ UseIndexes(m, LoadedIndexes(m, schemas[m]))
        \/ ReturnErr
        \/ call' = [call EXCEPT !.task = "model",
                                !.built = IndexOf(schemas[m], RowsOf(m)),
                                !.todo = UniqueFields(schemas[m])]
    BY <1>10 DEF LoadOrRebuildModel
  <2>3. CASE call' = [call EXCEPT !.task = "model",
                                  !.built = IndexOf(schemas[m], RowsOf(m)),
                                  !.todo = UniqueFields(schemas[m])]
    <3> DEFINE built == IndexOf(schemas[m], RowsOf(m))
               todo == UniqueFields(schemas[m])
    <3>1. call' = [call EXCEPT !.task = "model", !.built = built, !.todo = todo]
      BY <2>3
    <3> HIDE DEF built, todo
    <3>2. call'.op = call.op /\ call'.row = call.row
      BY <1>0, <3>1 DEF Call
    <3> QED  BY <2>1, <3>2
  <2> QED  BY <1>8, <2>1, <2>2, <2>3, ErrReturned
<1>11. CASE LoadRows
  BY <1>11, ErrReturned DEF LoadRows, files
<1>12. CASE ValidateUnique
  BY <1>12, <1>a, ErrReturned DEF ValidateUnique, files
<1>13. CASE AppendInsert \/ AppendUpdate \/ AppendDelete
  <2>1. (\E built : SaveNext(built)) \/ UNCHANGED call
    BY <1>13 DEF AppendInsert, AppendUpdate, AppendDelete
  <2> QED  BY <1>13, <1>a, <2>1 DEF SaveNext
<1> QED  BY <1>1, <1>2, <1>3, <1>4, <1>5, <1>6, <1>7, <1>9, <1>10, <1>11, <1>12, <1>13
         DEF Work

(* The append of an operation.                                             *)
LEMMA RowsCheckedAppend ==
    ASSUME TypeInv, RowsChecked, AppendInsert \/ AppendUpdate \/ AppendDelete
    PROVE  RowsChecked'
<1> DEFINE m == call.model
           id == call.row_id
           row == call.row
<1>1. /\ m \in Models /\ id \in RowIds /\ call \in Call
      /\ call.op \in {"insert", "update", "delete"}
  BY DEF AppendInsert, AppendUpdate, AppendDelete, TypeInv, TypeOK, ControlOK, CallInv
<1>2. /\ AppendInsert => table' = [table EXCEPT ![m] = ReplayInsert(@, id, row)]
      /\ AppendUpdate => table' = [table EXCEPT ![m] = ReplayUpdate(@, id, row)]
      /\ AppendDelete => table' = [table EXCEPT ![m] = ReplayDelete(@, id)]
  BY DEF AppendInsert, AppendUpdate, AppendDelete
<1>3. call' = NoCall \/ (call'.op = call.op /\ call'.row = call.row)
  BY CallGoesOn DEF Work
<1>4. (AppendInsert \/ AppendUpdate) => OneSchema(row)
  BY DEF AppendInsert, AppendUpdate, RowsChecked
<1>5. ~Readable(table[m]) => table[m] \in {Torn, Corrupt}
  BY DEF Readable
<1> HIDE DEF m, id, row
<1>6. PICK file : /\ table' = [table EXCEPT ![m] = file]
                  /\ \/ file \in {Torn, Corrupt, table[m]}
                     \/ Readable(table[m]) /\ file = [table[m] EXCEPT ![id] = DeadRow]
                     \/ /\ Readable(table[m])
                        /\ file = [table[m] EXCEPT ![id] = LiveRow(row)]
                        /\ OneSchema(row)
  <2>1. CASE AppendInsert
    BY <1>2, <1>4, <1>5, <2>1 DEF ReplayInsert, Refused
  <2>2. CASE AppendUpdate
    BY <1>2, <1>4, <1>5, <2>2 DEF ReplayUpdate, Refused
  <2>3. CASE AppendDelete
    BY <1>2, <1>5, <2>3 DEF ReplayDelete, Refused
  <2> QED  BY <2>1, <2>2, <2>3
<1>7. RowsOfOneSchema'
  BY <1>1, <1>6, OneSchemaAfter DEF RowsChecked, m, id
<1> QED  BY <1>3, <1>7, NoCallFields DEF RowsChecked, OneSchema

(* Every row that is on its way to a log was checked against a schema.     *)
LEMMA RowsCheckedStep == TypeInv /\ RowsChecked /\ [FaultyNext]_vars => RowsChecked'
<1> SUFFICES ASSUME TypeInv, RowsChecked, [FaultyNext]_vars PROVE RowsChecked'
  OBVIOUS
<1>0. call \in Call /\ NoCall.op = "none"
  BY NoCallFields DEF TypeInv, TypeOK, ControlOK
<1>1. CASE UNCHANGED vars
  BY <1>1, RowsCheckedKept DEF vars
<1>2. CASE Open
  BY <1>2, CallOfFields, RowsCheckedKept DEF Open, files
<1>3. CASE Request
  <2> PICK m \in Models :
        \/ \E s \in Schemas : RegisterSchema(m, s) \/ RegisterIncompatible(m, s)
        \/ \E values \in Inserts : Insert(m, values)
        \/ \E filters \in Filters, values \in Updates : Update(m, filters, values)
        \/ \E filters \in Filters : Delete(m, filters)
    BY <1>3 DEF Request
  <2>1. ASSUME NEW s \in Schemas, RegisterSchema(m, s) PROVE RowsChecked'
    BY <2>1, CallOfFields, RowsCheckedKept DEF RegisterSchema, files
  <2>2. ASSUME NEW s \in Schemas, RegisterIncompatible(m, s) PROVE RowsChecked'
    BY <1>0, <2>2, ErrReturned, RowsCheckedKept DEF RegisterIncompatible, files
  <2>3. ASSUME NEW schema, schema = schemas[m], schema # None,
               NEW op, NEW id, NEW values, Normalizes(schema, values),
               call' = CallOf(op, m, id, NormalizeRow(schema, values)), UNCHANGED files
        PROVE  RowsChecked'
    <3>1. schema \in Schemas
      BY <2>3 DEF TypeInv, TypeOK, MemoryOK
    <3>2. OneSchema(NormalizeRow(schema, values))
      BY <2>3, <3>1, AcceptedRow DEF OneSchema
    <3>3. call'.row = NormalizeRow(schema, values)
      BY <2>3, CallOfFields
    <3>4. RowsOfOneSchema'
      BY <2>3 DEF RowsChecked, RowsOfOneSchema, files
    <3> QED  BY <3>2, <3>3, <3>4 DEF RowsChecked, OneSchema
  <2>4. ASSUME NEW values \in Inserts, Insert(m, values) PROVE RowsChecked'
    BY <2>3, <2>4 DEF Insert, Accepts
  <2>5. ASSUME NEW filters \in Filters, NEW values \in Updates,
               Update(m, filters, values)
        PROVE  RowsChecked'
    BY <2>3, <2>5 DEF Update, Found, AcceptsUpdate
  <2>6. ASSUME NEW filters \in Filters, Delete(m, filters) PROVE RowsChecked'
    <3> DEFINE begun == CallOf("delete", m, FindRowId(m, filters), EmptyRecord)
    <3>1. call' = [begun EXCEPT !.task = "write"] /\ UNCHANGED table
      BY <2>6 DEF Delete, files
    <3>2. call'.op = "delete"
      BY <3>1 DEF CallOf
    <3> QED  BY <3>1, <3>2, RowsCheckedKept
  <2> QED  BY <2>1, <2>2, <2>4, <2>5, <2>6
<1>4. CASE Work
  <2>1. call' = NoCall \/ (call'.op = call.op /\ call'.row = call.row)
    BY <1>4, CallGoesOn
  <2>2. CASE UNCHANGED table
    BY <1>0, <2>1, <2>2, RowsCheckedKept
  <2> QED  BY <1>4, <2>2, CallGoesOn, RowsCheckedAppend
<1>5. CASE Crash \/ IoError
  <2>1. call' = NoCall
    BY <1>5, ErrReturned DEF Crash, IoError
  <2>2. \/ UNCHANGED table
        \/ pc = "append" /\ table' = [table EXCEPT ![call.model] = Torn]
    <3>1. PartialWrite
      BY <1>5 DEF Crash, IoError
    <3>2. CASE pc = "append"
      BY <3>1, <3>2 DEF PartialWrite, files
    <3>3. CASE pc # "append"
      BY <3>1, <3>3 DEF PartialWrite, files
    <3> QED  BY <3>2, <3>3
  <2>3. CASE pc = "append" /\ table' = [table EXCEPT ![call.model] = Torn]
    <3>1. call.model \in Models
      BY <2>3 DEF TypeInv, CallInv
    <3>2. 1 \in RowIds
      BY TableAssumption DEF RowIds
    <3>3. RowsOfOneSchema'
      BY <2>3, <3>1, <3>2, OneSchemaAfter DEF RowsChecked
    <3> QED  BY <1>0, <2>1, <3>3 DEF RowsChecked
  <2> QED  BY <1>0, <2>1, <2>2, <2>3, RowsCheckedKept
<1> QED  BY <1>1, <1>2, <1>3, <1>4, <1>5 DEF FaultyNext, Next


-----------------------------------------------------------------------------
(* The id after an insert of the next one; nothing else moves it.          *)
LEMMA NextRowIdAfter ==
    ASSUME NEW t \in Tables, NEW row, NextRowId(t) \notin UsedIds(t)
    PROVE  NextRowId([t EXCEPT ![NextRowId(t)] = LiveRow(row)]) =
              SaturatingNext(NextRowId(t))
<1> DEFINE id == NextRowId(t)
           after == [t EXCEPT ![id] = LiveRow(row)]
           top == CHOOSE used \in UsedIds(after) :
                      \A other \in UsedIds(after) : other <= used
<1>1. id \in RowIds /\ \A used \in UsedIds(t) : used < id \/ id = MaxRowId
  BY NextRowIdAbove
<1>2. UsedIds(after) = UsedIds(t) \cup {id} /\ UsedIds(t) \subseteq RowIds
  BY <1>1, LiveAfter
<1> HIDE DEF id, after
<1>3. \A used \in UsedIds(after) : used <= id
  BY <1>1, <1>2, TableAssumption DEF RowIds
<1>4. top \in UsedIds(after) /\ \A other \in UsedIds(after) : other <= top
  BY <1>2, <1>3
<1>5. top = id
  BY <1>1, <1>2, <1>3, <1>4, TableAssumption DEF RowIds
<1>6. NextRowId(after) = SaturatingNext(id)
  BY <1>2, <1>5 DEF NextRowId
<1> QED  BY <1>6 DEF id, after

(* A step that leaves the rows, the counters and the logs alone but for a  *)
(* log it may cut short, and hands out no row id.                          *)
LEMMA MemoryKeptSame ==
    ASSUME MemoryKept, UNCHANGED <<rows, next_row_ids>>,
           \A m \in Models : Readable(table'[m]) => table'[m] = table[m],
           \/ pc' \notin {"dirty", "append"}
           \/ call'.op # "insert" \/ call'.task # "write"
           \/ UNCHANGED call /\ pc \in {"dirty", "append"}
    PROVE  MemoryKept'
<1>1. IdInHand'
  BY DEF MemoryKept, IdInHand
<1>2. \A m \in Models : RowsOfLog(m)'
  BY DEF MemoryKept, RowsOfLog
<1> QED  BY <1>1, <1>2 DEF MemoryKept

(* A step after which there is no memory.                                  *)
LEMMA MemoryKeptNone ==
    ASSUME MemoryKept, NoMemory(schemas', rows', next_row_ids', indexes'),
           \A m \in Models : Readable(table'[m]) => table'[m] = table[m],
           pc' = "down"
    PROVE  MemoryKept'
<1>1. IdInHand'
  BY DEF IdInHand
<1>2. \A m \in Models : RowsOfLog(m)'
  BY DEF MemoryKept, RowsOfLog, NoMemory
<1> QED  BY <1>1, <1>2 DEF MemoryKept

(* A return with an error.                                                 *)
LEMMA MemoryKeptErr ==
    ASSUME MemoryKept, ReturnErr,
           \A m \in Models : Readable(table'[m]) => table'[m] = table[m]
    PROVE  MemoryKept'
<1>1. CASE call.op = "open"
  BY <1>1, MemoryKeptNone DEF ReturnErr
<1>2. CASE call.op # "open"
  BY <1>2, MemoryKeptSame DEF ReturnErr, memory
<1> QED  BY <1>1, <1>2

(* The tables are read: rows and counters come from the logs.              *)
LEMMA MemoryKeptRead ==
    ASSUME TypeInv, MemoryKept, UNCHANGED table, pc' \notin {"dirty", "append"},
           NEW m \in Models,
           \/ rows'[m] = None /\ next_row_ids'[m] = 0
           \/ Readable(table[m]) /\ rows'[m] = table[m]
                                 /\ next_row_ids'[m] = NextRowId(table[m])
    PROVE  RowsOfLog(m)'
<1>1. table[m] \in TableFiles /\ table[m] # None
  BY IndexAssumption DEF TypeInv, TypeOK, FilesOK
<1>2. Readable(table[m]) => NextRowId(table[m]) # 0
  BY <1>1, NextRowIdAbove, TableAssumption DEF Readable, TableFiles, RowIds
<1> QED  BY <1>1, <1>2 DEF MemoryKept, RowsOfLog

(* An insert appends a row under the next id, or to a log that is no more  *)
(* read.                                                                   *)
LEMMA MemoryKeptInsert ==
    ASSUME TypeInv, MemoryKept, AppendInsert, NEW m \in Models, m = call.model
    PROVE  MemoryKept'
<1> DEFINE id == call.row_id
           row == call.row
           log == ReplayInsert(table[m], id, row)
           read == [RowsOf(m) EXCEPT ![id] = LiveRow(row)]
<1>1. /\ m \in Models /\ id \in RowIds /\ call.task = "write"
      /\ table \in [Models -> TableFiles] /\ rows \in [Models -> Tables \cup {None}]
      /\ next_row_ids \in [Models -> 0..MaxRowId] /\ row \in Record
  BY DEF AppendInsert, TypeInv, TypeOK, FilesOK, MemoryOK, ControlOK, CallInv, Call
<1>2. id = next_row_ids[m] /\ RowsOfLog(m) /\ id # 0
  BY <1>1, TableAssumption DEF AppendInsert, MemoryKept, IdInHand, RowIds
<1>3. /\ table' = [table EXCEPT ![m] = log]
      /\ rows' = [rows EXCEPT ![m] = read]
      /\ next_row_ids' = [next_row_ids EXCEPT ![m] = SaturatingNext(id)]
      /\ pc' = "save"
  BY DEF AppendInsert, SaveNext
<1>4. ASSUME NEW n \in Models, n # m PROVE RowsOfLog(n)'
  BY <1>1, <1>3, <1>4 DEF MemoryKept, RowsOfLog
<1>5. read # None /\ SaturatingNext(id) # 0
  <2>1. RowsOf(m) \in Tables
    BY <1>1, EmptyTableType DEF RowsOf
  <2>2. read \in Tables
    BY <1>1, <2>1, CellTypes DEF Tables
  <2> QED  BY <1>1, <2>2, IndexAssumption, TableAssumption
           DEF TableFiles, SaturatingNext, RowIds
<1>6. ASSUME Readable(log)
      PROVE  /\ log = read /\ 1 \in UsedIds(log)
             /\ SaturatingNext(id) = NextRowId(log)
  <2>1. Readable(table[m]) /\ id \notin UsedIds(table[m])
    BY <1>6 DEF ReplayInsert, Refused, Readable
  <2>2. table[m] \in Tables
    BY <1>1, <2>1 DEF Readable, TableFiles
  <2>3. RowsOf(m) = table[m] /\ id = NextRowId(table[m])
    <3>1. CASE rows[m] # None
      BY <1>2, <2>1, <3>1 DEF RowsOfLog, RowsOf
    <3>2. CASE rows[m] = None
      <4>1. id = 1
        BY <1>2, <3>2 DEF RowsOfLog
      <4>2. table[m] = EmptyTable
        BY <1>2, <2>1, <4>1 DEF RowsOfLog
      <4> QED  BY <3>2, <4>1, <4>2, EmptyTableType DEF RowsOf, NextRowId
    <3> QED  BY <3>1, <3>2
  <2>4. log = read
    BY <2>1, <2>3 DEF ReplayInsert
  <2>5. NextRowId(log) = SaturatingNext(id)
    BY <2>1, <2>2, <2>3, <2>4, NextRowIdAfter
  <2>6. UsedIds(log) = UsedIds(table[m]) \cup {id}
    <3>1. log = [table[m] EXCEPT ![id] = LiveRow(row)]
      BY <2>3, <2>4
    <3>2. UsedIds([table[m] EXCEPT ![id] = LiveRow(row)]) = UsedIds(table[m]) \cup {id}
      BY <1>1, <2>2, LiveAfter
    <3> QED  BY <3>1, <3>2
  <2>7. table[m] = EmptyTable => id = 1
    BY <2>3, EmptyTableType DEF NextRowId
  <2> QED  BY <1>2, <2>1, <2>4, <2>5, <2>6, <2>7 DEF RowsOfLog
<1> HIDE DEF log, read
<1>7. RowsOfLog(m)'
  BY <1>1, <1>3, <1>5, <1>6 DEF RowsOfLog
<1>8. IdInHand'
  BY <1>3 DEF IdInHand
<1> QED  BY <1>4, <1>7, <1>8 DEF MemoryKept

(* An update and a delete use no new id.                                   *)
LEMMA MemoryKeptWrite ==
    ASSUME TypeInv, MemoryKept, AppendUpdate \/ AppendDelete,
           NEW m \in Models, m = call.model
    PROVE  MemoryKept'
<1> DEFINE id == call.row_id
<1>1. /\ m \in Models /\ id \in RowIds /\ call \in Call
      /\ table \in [Models -> TableFiles] /\ rows \in [Models -> Tables \cup {None}]
      /\ rows[m] # None /\ RowsOfLog(m)
  BY DEF AppendUpdate, AppendDelete, TypeInv, TypeOK, FilesOK, MemoryOK,
         ControlOK, CallInv, MemoryKept
<1>2. PICK cell \in {DeadRow, LiveRow(call.row)} :
        /\ rows' = [rows EXCEPT ![m][id] = cell]
        /\ \E log : /\ table' = [table EXCEPT ![m] = log]
                    /\ Readable(log) =>
                          /\ Readable(table[m]) /\ id \in LiveIds(table[m])
                          /\ log = [table[m] EXCEPT ![id] = cell]
  <2>1. CASE AppendUpdate
    BY <2>1 DEF AppendUpdate, ReplayUpdate, Refused, Readable
  <2>2. CASE AppendDelete
    BY <2>2 DEF AppendDelete, ReplayDelete, Refused, Readable
  <2> QED  BY <2>1, <2>2
<1>3. PICK log : /\ table' = [table EXCEPT ![m] = log]
                 /\ Readable(log) =>
                       /\ Readable(table[m]) /\ id \in LiveIds(table[m])
                       /\ log = [table[m] EXCEPT ![id] = cell]
  BY <1>2
<1>4. next_row_ids' = next_row_ids /\ pc' \in {"save", "clean"}
  BY DEF AppendUpdate, AppendDelete, SaveNext
<1>5. rows'[m] = [rows[m] EXCEPT ![id] = cell] /\ rows'[m] # None
  <2>1. rows[m] \in Tables
    BY <1>1
  <2>2. call.row \in Record /\ cell \in Cell
    BY <1>1, CellTypes DEF Call
  <2>3. [rows[m] EXCEPT ![id] = cell] \in Tables
    BY <2>1, <2>2 DEF Tables
  <2> QED  BY <1>1, <1>2, <2>3, IndexAssumption DEF TableFiles
<1>6. \A n \in Models \ {m} : RowsOfLog(n)'
  BY <1>1, <1>2, <1>3, <1>4 DEF MemoryKept, RowsOfLog
<1>7. RowsOfLog(m)'
  <2>1. next_row_ids'[m] # 0
    BY <1>1, <1>4 DEF RowsOfLog
  <2>2. table'[m] = log
    BY <1>1, <1>3
  <2>3. ASSUME Readable(log)
        PROVE  /\ log = rows'[m] /\ 1 \in UsedIds(log)
               /\ next_row_ids'[m] = NextRowId(log)
    <3>1. table[m] = rows[m] /\ next_row_ids[m] = NextRowId(table[m])
      BY <1>1, <1>3, <2>3 DEF RowsOfLog
    <3>2. table[m] \in Tables
      BY <1>1, <3>1
    <3>3. UsedIds(log) = UsedIds(table[m]) \cup {id} /\ id \in UsedIds(table[m])
      <4>1. log = [table[m] EXCEPT ![id] = cell]
        BY <1>3, <2>3
      <4>2. UsedIds([table[m] EXCEPT ![id] = cell]) = UsedIds(table[m]) \cup {id}
        <5>1. CASE cell = DeadRow
          BY <1>1, <3>2, <5>1, LiveAfter
        <5>2. CASE cell = LiveRow(call.row)
          BY <1>1, <3>2, <5>2, LiveAfter
        <5> QED  BY <1>2, <5>1, <5>2
      <4>3. id \in UsedIds(table[m])
        BY <1>1, <1>3, <2>3, <3>2, LiveAfter
      <4> QED  BY <4>1, <4>2, <4>3
    <3>4. UsedIds(log) = UsedIds(table[m])
      BY <3>3
    <3>5. 1 \in UsedIds(table[m])
      BY <1>1, <1>3, <2>3, <3>3, EmptyTableType DEF RowsOfLog
    <3> QED  BY <1>3, <1>4, <1>5, <2>3, <3>1, <3>4, <3>5 DEF NextRowId
  <2> QED  BY <1>5, <2>1, <2>2, <2>3 DEF RowsOfLog
<1>8. IdInHand'
  BY <1>4 DEF IdInHand
<1> QED  BY <1>6, <1>7, <1>8 DEF MemoryKept

(* The rows in memory stay in step with the logs, and the counter with     *)
(* them, whatever fails.                                                   *)
LEMMA MemoryKeptStep == TypeInv /\ MemoryKept /\ [FaultyNext]_vars => MemoryKept'
<1> SUFFICES ASSUME TypeInv, MemoryKept, [FaultyNext]_vars PROVE MemoryKept'
  OBVIOUS
<1>0. NoCall.op = "none" /\ NoCall.task = "none"
  BY NoCallFields
<1>1. CASE UNCHANGED vars
  BY <1>1 DEF vars, MemoryKept, IdInHand, RowsOfLog
<1>2. CASE Open
  BY <1>2, MemoryKeptSame DEF Open, files, memory
<1>3. CASE Request
  <2>1. PICK m \in Models :
        \/ \E s \in Schemas : RegisterSchema(m, s) \/ RegisterIncompatible(m, s)
        \/ \E values \in Inserts : Insert(m, values)
        \/ \E filters \in Filters, values \in Updates : Update(m, filters, values)
        \/ \E filters \in Filters : Delete(m, filters)
    BY <1>3 DEF Request
  <2>2. ASSUME NEW s \in Schemas, RegisterSchema(m, s) PROVE MemoryKept'
    BY <2>2, MemoryKeptSame DEF RegisterSchema, files
  <2>3. ASSUME NEW s \in Schemas, RegisterIncompatible(m, s) PROVE MemoryKept'
    BY <2>3, MemoryKeptErr DEF RegisterIncompatible, files
  <2>4. ASSUME NEW values \in Inserts, Insert(m, values) PROVE MemoryKept'
    BY <2>4, MemoryKeptSame DEF Insert, CheckUniqueNext, files, memory
  <2>5. ASSUME NEW filters \in Filters, NEW values \in Updates,
               Update(m, filters, values)
        PROVE  MemoryKept'
    BY <2>5, MemoryKeptSame DEF Update, CheckUniqueNext, files, memory
  <2>6. ASSUME NEW filters \in Filters, Delete(m, filters) PROVE MemoryKept'
    <3>1. call'.op = "delete"
      BY <2>6 DEF Delete, CallOf
    <3> QED  BY <2>6, <3>1, MemoryKeptSame DEF Delete, files, memory
  <2> QED  BY <2>1, <2>2, <2>3, <2>4, <2>5, <2>6
<1>4. CASE LoadOrCreateManifest
  BY <1>4, MemoryKeptErr, MemoryKeptSame DEF LoadOrCreateManifest, memory
<1>5. CASE LoadTables
  <2>1. CASE ReturnErr
    BY <1>5, <2>1, MemoryKeptErr DEF LoadTables, files
  <2>2. CASE ~ReturnErr
    <3>1. /\ rows' = [n \in Models |-> IF schemaFile[n] = None THEN None ELSE table[n]]
          /\ next_row_ids' = [n \in Models |-> IF schemaFile[n] = None
                                               THEN 0 ELSE NextRowId(table[n])]
          /\ pc' = "indexes" /\ UNCHANGED table
          /\ \A n \in Models : schemaFile[n] = None \/ Readable(table[n])
      BY <1>5, <2>2 DEF LoadTables, files
    <3>2. \A n \in Models : RowsOfLog(n)'
      BY <3>1, MemoryKeptRead
    <3>3. IdInHand'
      BY <3>1 DEF IdInHand
    <3> QED  BY <3>2, <3>3 DEF MemoryKept
  <2> QED  BY <2>1, <2>2
<1>6. CASE LoadOrRebuildAll
  <2>1. call.op = "open"
    BY <1>6 DEF LoadOrRebuildAll, TypeInv, CallInv, Opening
  <2>2. call'.op # "insert"
    <3> DEFINE left == KnownModels
    <3>1. call' = NoCall \/ call' = [call EXCEPT !.task = "rebuild", !.left = left]
      BY <1>6 DEF LoadOrRebuildAll, ReturnOk
    <3> HIDE DEF left
    <3> QED  BY <1>0, <2>1, <3>1 DEF TypeInv, TypeOK, ControlOK, Call
  <2> QED  BY <1>6, <2>2, MemoryKeptSame DEF LoadOrRebuildAll, files
<1>7. CASE RebuildModel
  BY <1>7, MemoryKeptErr, MemoryKeptSame DEF RebuildModel, files
<1>8. CASE RebuildDone \/ SaveIndex \/ SaveModelDone \/ SaveSchemas
  BY <1>8, MemoryKeptSame
  DEF RebuildDone, SaveIndex, SaveModelDone, SaveSchemas, files, memory
<1>9. CASE MarkDirty
  BY <1>9, MemoryKeptSame DEF MarkDirty, memory
<1>10. CASE SaveIndexRefused \/ SaveSchemasRefused \/ AppendRefused
  BY <1>10, MemoryKeptErr DEF SaveIndexRefused, SaveSchemasRefused, AppendRefused, files
<1>11. ASSUME NEW m, NEW loaded, UseIndexes(m, loaded), UNCHANGED table
       PROVE  MemoryKept'
  BY <1>11, MemoryKeptSame DEF UseIndexes, ReturnOk
<1>12. CASE MarkClean
  BY <1>11, <1>12, MemoryKeptSame DEF MarkClean, ReturnOk, memory
<1>13. CASE LoadOrRebuildModel
  <2> DEFINE m == call.model
  <2>1. UNCHANGED table
    BY <1>13 DEF LoadOrRebuildModel, files
  <2>2. \/ UseIndexes(m, LoadedIndexes(m, schemas[m]))
        \/ ReturnErr
        \/ /\ call' = [call EXCEPT !.task = "model",
                                   !.built = IndexOf(schemas[m], RowsOf(m)),
                                   !.todo = UniqueFields(schemas[m])]
           /\ UNCHANGED memory
    BY <1>13 DEF LoadOrRebuildModel
  <2>3. ASSUME call' = [call EXCEPT !.task = "model",
                                    !.built = IndexOf(schemas[m], RowsOf(m)),
                                    !.todo = UniqueFields(schemas[m])],
               UNCHANGED memory
        PROVE  MemoryKept'
    <3>1. call'.task = "model"
      BY <2>3 DEF TypeInv, TypeOK, ControlOK, Call
    <3> QED  BY <2>1, <2>3, <3>1, MemoryKeptSame DEF memory
  <2> QED  BY <1>11, <2>1, <2>2, <2>3, MemoryKeptErr
<1>14. CASE LoadRows
  <2>1. call.model \in Models /\ pc = "load_rows"
    BY <1>14 DEF LoadRows, TypeInv, CallInv
  <2>2. PICK m \in Models : m = call.model
    BY <2>1
  <2>3. CASE ReturnErr
    BY <1>14, <2>3, MemoryKeptErr DEF LoadRows, files
  <2>4. CASE rows[m] # None /\ ~ReturnErr
    <3>1. /\ next_row_ids' = [next_row_ids EXCEPT ![m] = NextIdOf(m)]
          /\ pc' = "index" /\ UNCHANGED <<rows, table>>
      BY <1>14, <2>2, <2>4 DEF LoadRows, files
    <3>2. NextIdOf(m) = next_row_ids[m]
      BY <2>4 DEF MemoryKept, RowsOfLog, NextIdOf
    <3>3. UNCHANGED next_row_ids
      BY <3>1, <3>2 DEF TypeInv, TypeOK, MemoryOK
    <3> QED  BY <3>1, <3>3, MemoryKeptSame
  <2>5. CASE rows[m] = None /\ ~ReturnErr
    <3>1. /\ rows' = [rows EXCEPT ![m] = table[m]]
          /\ next_row_ids' = [next_row_ids EXCEPT ![m] = NextRowId(table[m])]
          /\ pc' = "index" /\ UNCHANGED table /\ Readable(table[m])
      BY <1>14, <2>2, <2>5 DEF LoadRows, files
    <3>2. /\ rows'[m] = table[m] /\ next_row_ids'[m] = NextRowId(table[m])
          /\ \A n \in Models \ {m} :
                rows'[n] = rows[n] /\ next_row_ids'[n] = next_row_ids[n]
      BY <3>1 DEF TypeInv, TypeOK, MemoryOK
    <3>3. RowsOfLog(m)'
      BY <3>1, <3>2, MemoryKeptRead
    <3>4. \A n \in Models \ {m} : RowsOfLog(n)'
      BY <3>1, <3>2 DEF MemoryKept, RowsOfLog
    <3>5. IdInHand'
      BY <3>1 DEF IdInHand
    <3> QED  BY <3>3, <3>4, <3>5 DEF MemoryKept
  <2> QED  BY <2>3, <2>4, <2>5
<1>15. CASE ValidateUnique
  <2>1. PICK m \in Models : m = call.model
    BY <1>15 DEF ValidateUnique, TypeInv, CallInv
  <2>2. CASE ReturnErr
    BY <1>15, <2>2, MemoryKeptErr DEF ValidateUnique, files
  <2>3. CASE ~ReturnErr /\ call.op # "insert"
    <3>1. /\ call' = [call EXCEPT !.task = "write"]
          /\ UNCHANGED <<rows, next_row_ids, table>>
      BY <1>15, <2>3 DEF ValidateUnique, files
    <3>2. call'.op # "insert"
      BY <2>3, <3>1 DEF TypeInv, TypeOK, ControlOK, Call
    <3> QED  BY <3>1, <3>2, MemoryKeptSame
  <2>4. CASE ~ReturnErr /\ call.op = "insert"
    <3> DEFINE id == NextIdOf(m)
    <3>1. /\ call' = [call EXCEPT !.task = "write", !.row_id = id]
          /\ next_row_ids' = [next_row_ids EXCEPT ![m] = id]
          /\ UNCHANGED <<rows, table>>
      BY <1>15, <2>1, <2>4 DEF ValidateUnique, files
    <3>2. id = IF next_row_ids[m] = 0 /\ rows[m] = None THEN 1 ELSE next_row_ids[m]
      BY EmptyTableType DEF MemoryKept, RowsOfLog, NextIdOf, NextRowId, RowsOf
    <3> HIDE DEF id
    <3>3. call'.row_id = id /\ call'.model = m
      BY <2>1, <3>1 DEF TypeInv, TypeOK, ControlOK, Call
    <3>4. /\ next_row_ids'[m] = id
          /\ \A n \in Models \ {m} : next_row_ids'[n] = next_row_ids[n]
      BY <3>1 DEF TypeInv, TypeOK, MemoryOK
    <3>5. IdInHand'
      BY <3>3, <3>4 DEF IdInHand
    <3>6. \A n \in Models : RowsOfLog(n)'
      BY <3>1, <3>2, <3>4 DEF MemoryKept, RowsOfLog
    <3> QED  BY <3>5, <3>6 DEF MemoryKept
  <2> QED  BY <2>2, <2>3, <2>4
<1>16. CASE AppendInsert \/ AppendUpdate \/ AppendDelete
  <2>1. PICK m \in Models : m = call.model
    BY <1>16 DEF AppendInsert, AppendUpdate, AppendDelete, TypeInv, CallInv
  <2> QED  BY <1>16, <2>1, MemoryKeptInsert, MemoryKeptWrite
<1>17. CASE Crash \/ IoError
  <2>1. \A m \in Models : Readable(table'[m]) => table'[m] = table[m]
    <3>1. UNCHANGED table \/ table' = [table EXCEPT ![call.model] = Torn]
      BY <1>17 DEF Crash, IoError, PartialWrite, files
    <3>2. \A m \in Models : table'[m] \in {table[m], Torn}
      BY <3>1 DEF TypeInv, TypeOK, FilesOK
    <3> QED  BY <3>2 DEF Readable
  <2>2. CASE Crash
    BY <2>1, <2>2, MemoryKeptNone DEF Crash
  <2>3. CASE IoError
    BY <2>1, <2>3, MemoryKeptErr DEF IoError
  <2> QED  BY <1>17, <2>2, <2>3
<1> QED  BY <1>1, <1>2, <1>3, <1>4, <1>5, <1>6, <1>7, <1>8, <1>9, <1>10, <1>12, <1>13,
            <1>14, <1>15, <1>16, <1>17 DEF FaultyNext, Next, Work

-----------------------------------------------------------------------------
(* Indexes built from a table index the id and unique fields of the schema. *)
LEMMA BuiltFields ==
    ASSUME TypeInv, NEW m \in Models, schemas[m] # None
    PROVE  IndexedFields(IndexOf(schemas[m], RowsOf(m))) = UniqueFields(schemas[m])
<1>1. RowsOf(m) \in Tables
  BY EmptyTableType DEF TypeInv, TypeOK, MemoryOK, RowsOf
<1>2. UniqueFields(schemas[m]) \subseteq Fields
  BY UniqueFieldsType DEF TypeInv, TypeOK, MemoryOK
<1> QED  BY <1>1, <1>2, IndexedFieldsOf

(* No index is in hand where none is about to be saved or marked clean.    *)
LEMMA NothingInHand ==
    ASSUME pc' \notin {"manifest", "load", "indexes", "dirty", "append", "rebuild",
                       "save", "clean"}
    PROVE  MarkedDirty' /\ IndexesInHand'
BY DEF MarkedDirty, IndexesInHand

(* A handler begins to save the indexes it has made.                       *)
LEMMA SaveBegins ==
    ASSUME pc' = "save", ~ixClean', IndexedFields(call'.built) \subseteq call'.todo,
           call'.task # "model" => indexes'[call'.model] = call'.built
    PROVE  MarkedDirty' /\ IndexesInHand'
BY DEF MarkedDirty, IndexesInHand, FieldsSaved

(* An append, which changes the indexes in memory.                         *)
LEMMA IndexesAppended ==
    ASSUME TypeInv, MarkedDirty, AppendInsert \/ AppendUpdate \/ AppendDelete
    PROVE  MarkedDirty' /\ IndexesInHand'
<1>1. /\ pc = "append" /\ ~ixClean' /\ call \in Call /\ call.task = "write"
      /\ call.model \in Models /\ indexes \in [Models -> Indexes \cup {None}]
  BY DEF AppendInsert, AppendUpdate, AppendDelete, MarkedDirty, TypeInv, TypeOK,
         ControlOK, MemoryOK, CallInv
<1>2. CASE call' = call /\ pc' = "clean" /\ UNCHANGED indexes /\ indexes[call.model] = None
  BY <1>1, <1>2 DEF MarkedDirty, IndexesInHand, Lagging
<1>3. ASSUME NEW built, indexes' = [indexes EXCEPT ![call.model] = built],
             SaveNext(built)
      PROVE  MarkedDirty' /\ IndexesInHand'
  <2> DEFINE todo == IndexedFields(built)
  <2>1. call' = [call EXCEPT !.built = built, !.todo = todo] /\ pc' = "save"
    BY <1>3 DEF SaveNext
  <2> HIDE DEF todo
  <2>2. call'.built = built /\ call'.todo = todo /\ call'.model = call.model
    BY <1>1, <2>1 DEF Call
  <2>3. indexes'[call'.model] = built
    BY <1>1, <1>3, <2>2
  <2>4. IndexedFields(call'.built) \subseteq call'.todo
    BY <2>2 DEF todo
  <2> QED  BY <1>1, <2>1, <2>2, <2>3, <2>4, SaveBegins
<1>4. \/ call' = call /\ pc' = "clean" /\ UNCHANGED indexes /\ indexes[call.model] = None
      \/ \E built : indexes' = [indexes EXCEPT ![call.model] = built] /\ SaveNext(built)
  BY DEF AppendInsert, AppendUpdate, AppendDelete
<1> QED  BY <1>2, <1>3, <1>4

(* The manifest is marked dirty while a handler changes a log or its index *)
(* files, and what it has in hand is what it has still to save.            *)
LEMMA IndexesInHandStep ==
    TypeInv /\ MarkedDirty /\ IndexesInHand /\ [FaultyNext]_vars =>
        MarkedDirty' /\ IndexesInHand'
<1> SUFFICES ASSUME TypeInv, MarkedDirty, IndexesInHand, [FaultyNext]_vars
             PROVE  MarkedDirty' /\ IndexesInHand'
  OBVIOUS
<1>0. call \in Call
  BY DEF TypeInv, TypeOK, ControlOK
<1>1. CASE UNCHANGED vars
  BY <1>1 DEF vars, MarkedDirty, IndexesInHand, FieldsSaved, Lagging
<1>2. CASE Open
  <2>1. pc' = "manifest" /\ call'.model = None
    BY <1>2 DEF Open, CallOf
  <2> QED  BY <2>1 DEF MarkedDirty, IndexesInHand
<1>3. CASE Request
  <2>1. PICK m \in Models :
        \/ \E s \in Schemas : RegisterSchema(m, s) \/ RegisterIncompatible(m, s)
        \/ \E values \in Inserts : Insert(m, values)
        \/ \E filters \in Filters, values \in Updates : Update(m, filters, values)
        \/ \E filters \in Filters : Delete(m, filters)
    BY <1>3 DEF Request
  <2>2. ASSUME NEW filters \in Filters, Delete(m, filters)
        PROVE  MarkedDirty' /\ IndexesInHand'
    <3> DEFINE begun == CallOf("delete", m, FindRowId(m, filters), EmptyRecord)
    <3>1. call' = [begun EXCEPT !.task = "write"] /\ pc' = "dirty"
      BY <2>2 DEF Delete
    <3>2. call'.task = "write"
      BY <3>1 DEF CallOf
    <3> QED  BY <3>1, <3>2 DEF MarkedDirty, IndexesInHand
  <2>3. CASE ~\E filters \in Filters : Delete(m, filters)
    <3>1. pc' \in {"save_schemas", "load_rows", "index", "unique", "idle", "down"}
      BY <2>1, <2>3
      DEF RegisterSchema, RegisterIncompatible, ReturnErr, Insert, Update,
          CheckUniqueNext
    <3> QED  BY <3>1, NothingInHand
  <2> QED  BY <2>2, <2>3
<1>4. CASE ReturnErr \/ ReturnOk \/ Crash \/ \E m, loaded : UseIndexes(m, loaded)
  BY <1>4, NothingInHand DEF ReturnErr, ReturnOk, Crash, UseIndexes
<1>5. CASE LoadOrCreateManifest \/ LoadTables
  <2>1. CASE ~ReturnErr
    <3>1. pc' \in {"load", "indexes"} /\ UNCHANGED call /\ call.model = None
      BY <1>5, <2>1 DEF LoadOrCreateManifest, LoadTables, IndexesInHand
    <3> QED  BY <3>1 DEF MarkedDirty, IndexesInHand
  <2> QED  BY <1>4, <2>1
<1>6. CASE LoadOrRebuildAll
  <2>1. CASE ~ReturnOk
    <3> DEFINE left == KnownModels
    <3>1. /\ call' = [call EXCEPT !.task = "rebuild", !.left = left] /\ pc' = "dirty"
          /\ call.model = None
      BY <1>6, <2>1 DEF LoadOrRebuildAll, IndexesInHand
    <3> HIDE DEF left
    <3>2. call'.model = None /\ call'.task = "rebuild"
      BY <1>0, <3>1 DEF Call
    <3> QED  BY <3>1, <3>2 DEF MarkedDirty, IndexesInHand
  <2> QED  BY <1>4, <2>1
<1>7. CASE RebuildModel
  <2>1. CASE ~ReturnErr
    <3>1. PICK m \in call.left :
            /\ call' = [call EXCEPT !.model = m,
                                    !.built = IndexOf(schemas[m], RowsOf(m)),
                                    !.todo = UniqueFields(schemas[m]),
                                    !.left = call.left \ {m}]
            /\ indexes' = [indexes EXCEPT ![m] = IndexOf(schemas[m], RowsOf(m))]
            /\ pc' = "save" /\ pc = "rebuild" /\ UNCHANGED ixClean
      BY <1>7, <2>1, ZenonT(30) DEF RebuildModel, files
    <3> DEFINE built == IndexOf(schemas[m], RowsOf(m))
               todo == UniqueFields(schemas[m])
    <3>2. m \in Models /\ schemas[m] # None
      BY <1>0 DEF TypeInv, CallInv, Call
    <3>3. IndexedFields(built) = todo
      BY <3>2, BuiltFields
    <3> HIDE DEF built, todo
    <3>4. /\ call' = [call EXCEPT !.model = m, !.built = built, !.todo = todo,
                                  !.left = call.left \ {m}]
          /\ indexes' = [indexes EXCEPT ![m] = built]
      BY <3>1 DEF built, todo
    <3>5. call'.built = built /\ call'.todo = todo /\ call'.model = m
      BY <1>0, <3>4 DEF Call
    <3>6. indexes'[call'.model] = call'.built
      BY <3>2, <3>4, <3>5 DEF TypeInv, TypeOK, MemoryOK
    <3>7. ~ixClean'
      BY <3>1 DEF MarkedDirty
    <3> QED  BY <3>1, <3>3, <3>5, <3>6, <3>7, SaveBegins
  <2> QED  BY <1>4, <1>7, <2>1
<1>8. CASE RebuildDone
  <2>1. /\ pc = "rebuild" /\ pc' = "clean" /\ call.task = "rebuild"
        /\ UNCHANGED <<ixClean, ixFile, indexes, call>>
    BY <1>8 DEF RebuildDone, files, memory, TypeInv, CallInv
  <2> QED  BY <2>1 DEF MarkedDirty, IndexesInHand, Lagging
<1>9. CASE MarkDirty
  <2>1. /\ pc = "dirty" /\ ~ixClean' /\ pc' = AfterDirty
        /\ UNCHANGED <<ixFile, indexes, call>>
    BY <1>9 DEF MarkDirty, memory
  <2>2. CASE call.task = "rebuild"
    BY <2>1, <2>2 DEF AfterDirty, MarkedDirty, IndexesInHand
  <2>3. CASE call.task = "model"
    BY <2>1, <2>3, SaveBegins DEF AfterDirty, IndexesInHand
  <2>4. CASE call.task \notin {"rebuild", "model"}
    BY <2>1, <2>4 DEF AfterDirty, MarkedDirty, IndexesInHand
  <2> QED  BY <2>2, <2>3, <2>4
<1>10. CASE SaveIndex
  <2>1. PICK f \in call.todo :
          /\ ixFile' = [ixFile EXCEPT ![call.model][f] = call.built[f]]
          /\ call' = [call EXCEPT !.todo = call.todo \ {f}]
    BY <1>10 DEF SaveIndex
  <2>2. pc = "save" /\ pc' = "save" /\ UNCHANGED <<ixClean, indexes>>
    BY <1>10 DEF SaveIndex, memory
  <2>3. /\ call'.todo = call.todo \ {f} /\ call'.built = call.built
        /\ call'.model = call.model /\ call'.task = call.task
    BY <1>0, <2>1 DEF Call
  <2>4. call.model \in Models /\ f \in Fields /\ ixFile \in [Models -> [Fields -> Entries \cup {NoMap}]]
    BY <1>0, <2>2 DEF TypeInv, TypeOK, FilesOK, CallInv, Call
  <2>5. \A g \in Fields :
          ixFile'[call.model][g] = IF g = f THEN call.built[f] ELSE ixFile[call.model][g]
    BY <2>1, <2>4
  <2>6. FieldsSaved(IndexedFields(call.built) \ call.todo)
    BY <2>2 DEF IndexesInHand
  <2>7. \A g \in IndexedFields(call.built) \ (call.todo \ {f}) :
           ixFile'[call.model][g] = call.built[g]
    BY <2>5, <2>6 DEF FieldsSaved, IndexedFields
  <2> QED  BY <2>2, <2>3, <2>7 DEF MarkedDirty, IndexesInHand, FieldsSaved
<1>11. CASE SaveIndexRefused \/ SaveSchemasRefused \/ AppendRefused
  BY <1>4, <1>11 DEF SaveIndexRefused, SaveSchemasRefused, AppendRefused
<1>12. CASE SaveModelDone
  <2>1. /\ pc = "save" /\ pc' \in {"rebuild", "clean"} /\ call.todo = {}
        /\ pc' = IF call.task = "rebuild" THEN "rebuild" ELSE "clean"
        /\ UNCHANGED <<ixClean, ixFile, indexes, call>>
    BY <1>12 DEF SaveModelDone, files, memory
  <2>2. FieldsSaved(IndexedFields(call.built))
    BY <2>1 DEF IndexesInHand, FieldsSaved
  <2>3. call.task # "model" => ~Lagging(call.model)
    BY <2>1, <2>2 DEF IndexesInHand, FieldsSaved, Lagging
  <2> QED  BY <2>1, <2>2, <2>3 DEF MarkedDirty, IndexesInHand, FieldsSaved, Lagging
<1>13. CASE MarkClean
  BY <1>4, <1>13 DEF MarkClean
<1>14. CASE LoadOrRebuildModel
  <2> DEFINE m == call.model
             built == IndexOf(schemas[m], RowsOf(m))
             todo == UniqueFields(schemas[m])
  <2>1. \/ UseIndexes(m, LoadedIndexes(m, schemas[m]))
        \/ ReturnErr
        \/ /\ call' = [call EXCEPT !.task = "model", !.built = built, !.todo = todo]
           /\ pc' = "dirty"
    BY <1>14 DEF LoadOrRebuildModel
  <2>2. IndexedFields(built) = todo
    BY <1>14, BuiltFields DEF LoadOrRebuildModel, TypeInv, CallInv
  <2>3. ASSUME call' = [call EXCEPT !.task = "model", !.built = built, !.todo = todo],
               pc' = "dirty"
        PROVE  MarkedDirty' /\ IndexesInHand'
    <3> HIDE DEF built, todo
    <3>1. call'.built = built /\ call'.todo = todo /\ call'.task = "model"
      BY <1>0, <2>3 DEF Call
    <3> QED  BY <2>2, <2>3, <3>1 DEF MarkedDirty, IndexesInHand
  <2> QED  BY <1>4, <2>1, <2>3
<1>15. CASE SaveSchemas \/ LoadRows
  <2>1. pc' \in {"load_rows", "index"} \/ ReturnErr
    BY <1>15 DEF SaveSchemas, LoadRows
  <2> QED  BY <1>4, <2>1, NothingInHand
<1>16. CASE ValidateUnique
  <2>1. CASE ~ReturnErr
    <3> DEFINE id == NextIdOf(call.model)
    <3>1. /\ pc' = "dirty"
          /\ \/ call' = [call EXCEPT !.task = "write", !.row_id = id]
             \/ call' = [call EXCEPT !.task = "write"]
      BY <1>16, <2>1 DEF ValidateUnique
    <3> HIDE DEF id
    <3>2. call'.task = "write"
      BY <1>0, <3>1 DEF Call
    <3> QED  BY <3>1, <3>2 DEF MarkedDirty, IndexesInHand
  <2> QED  BY <1>4, <2>1
<1>17. CASE IoError
  BY <1>4, <1>17 DEF IoError
<1> QED  BY <1>1, <1>2, <1>3, <1>4, <1>5, <1>6, <1>7, <1>8, <1>9, <1>10, <1>11, <1>12,
            <1>13, <1>14, <1>15, <1>16, <1>17, IndexesAppended DEF FaultyNext, Next, Work

-----------------------------------------------------------------------------
(* Indexes just read from their files do not lag.                          *)
LEMMA LoadedKeepUp ==
    ASSUME NEW m, UNCHANGED ixFile, indexes'[m] = LoadedIndexes(m, schemas[m]),
           UniqueFields(schemas[m]) \subseteq Fields
    PROVE  ~Lagging(m)'
BY DEF Lagging, IndexedFields, LoadedIndexes

(* Steps that leave the indexes and their files alone and the manifest     *)
(* dirty, or no indexes in memory.                                         *)
LEMMA KeepsUpSame ==
    ASSUME NEW m \in Models,
           \/ ~ixClean'
           \/ UNCHANGED <<ixFile, indexes>> /\ (ixClean' => ixClean)
           \/ NoMemory(schemas', rows', next_row_ids', indexes')
    PROVE  KeepsUp(m)
BY DEF KeepsUp, Lagging, NoMemory

(* CleanKeepsUp, one step and one model at a time.                         *)
LEMMA CleanKeepsUpStep ==
    ASSUME TypeInv, MarkedDirty, IndexesInHand, [FaultyNext]_vars, NEW m \in Models
    PROVE  KeepsUp(m)
<1>0. /\ indexes \in [Models -> Indexes \cup {None}]
      /\ \A n \in KnownModels : UniqueFields(schemas[n]) \subseteq Fields
  BY UniqueFieldsType DEF TypeInv, TypeOK, MemoryOK, KnownModels
<1>1. CASE UNCHANGED vars \/ Open
  BY <1>1, KeepsUpSame DEF vars, Open, files, memory
<1>2. CASE ReturnErr /\ (UNCHANGED files \/ PartialWrite)
  <2>1. ~ixClean' \/ (UNCHANGED ixFile /\ (ixClean' => ixClean))
    BY <1>2 DEF PartialWrite, MarkedDirty, files
  <2> QED  BY <1>2, <2>1, KeepsUpSame DEF ReturnErr, memory
<1>3. CASE Request
  <2>1. UNCHANGED <<files, indexes>> \/ (ReturnErr /\ UNCHANGED files)
    BY <1>3 DEF Request, RegisterSchema, RegisterIncompatible, Insert, Update, Delete,
                memory
  <2> QED  BY <1>2, <2>1, KeepsUpSame DEF files
<1>4. CASE LoadOrCreateManifest \/ LoadTables
  <2>1. \/ UNCHANGED <<ixClean, ixFile, indexes>>
        \/ ReturnErr /\ UNCHANGED files
    BY <1>4 DEF LoadOrCreateManifest, LoadTables, files, memory
  <2> QED  BY <1>2, <2>1, KeepsUpSame
<1>5. CASE LoadOrRebuildAll
  <2>1. UNCHANGED <<ixClean, ixFile>>
    BY <1>5 DEF LoadOrRebuildAll, files
  <2>2. CASE UNCHANGED indexes
    BY <2>1, <2>2, KeepsUpSame
  <2>3. CASE indexes' = [n \in Models |->
                           IF schemas[n] = None
                           THEN None ELSE LoadedIndexes(n, schemas[n])]
    <3>1. CASE schemas[m] = None
      BY <2>3, <3>1 DEF KeepsUp, Lagging
    <3>2. CASE schemas[m] # None
      <4>1. ~Lagging(m)'
        BY <1>0, <2>1, <2>3, <3>2, LoadedKeepUp DEF KnownModels
      <4> QED  BY <4>1 DEF KeepsUp
    <3> QED  BY <3>1, <3>2
  <2> QED  BY <1>5, <2>2, <2>3 DEF LoadOrRebuildAll
<1>6. CASE \/ RebuildModel \/ RebuildDone \/ SaveIndex \/ SaveModelDone
           \/ AppendInsert \/ AppendUpdate \/ AppendDelete
  <2>1. pc \in {"rebuild", "save", "append"} /\ UNCHANGED ixClean
    BY <1>6 DEF RebuildModel, RebuildDone, SaveIndex, SaveModelDone, AppendInsert,
                AppendUpdate, AppendDelete, files
  <2>2. ~ixClean'
    BY <2>1 DEF MarkedDirty
  <2> QED  BY <2>2, KeepsUpSame
<1>7. CASE MarkDirty
  BY <1>7, KeepsUpSame DEF MarkDirty
<1>8. CASE SaveIndexRefused \/ SaveSchemasRefused \/ AppendRefused
  BY <1>2, <1>8 DEF SaveIndexRefused, SaveSchemasRefused, AppendRefused
<1>9. CASE MarkClean
  <2>1. pc = "clean" /\ UNCHANGED ixFile
    BY <1>9 DEF MarkClean
  <2>2. CASE call.task = "model"
    <3>1. indexes' = [indexes EXCEPT ![call.model] = call.built]
      BY <1>9, <2>2 DEF MarkClean, UseIndexes
    <3>2. CASE m = call.model
      <4>1. indexes'[m] = call.built
        BY <1>0, <3>1, <3>2
      <4>2. FieldsSaved(IndexedFields(call.built))
        BY <2>1, <2>2 DEF IndexesInHand
      <4>3. ~Lagging(m)'
        BY <2>1, <3>2, <4>1, <4>2 DEF FieldsSaved, Lagging
      <4> QED  BY <4>3 DEF KeepsUp
    <3>3. CASE m # call.model
      BY <1>0, <2>1, <3>1, <3>3 DEF KeepsUp, Lagging
    <3> QED  BY <3>2, <3>3
  <2>3. CASE call.task # "model"
    <3>1. UNCHANGED indexes
      BY <1>9, <2>3 DEF MarkClean, memory
    <3>2. m = call.model => ~Lagging(m)
      BY <2>1, <2>3, EngineAssumption DEF IndexesInHand
    <3> QED  BY <2>1, <3>1, <3>2 DEF KeepsUp, Lagging
  <2> QED  BY <2>2, <2>3
<1>10. CASE LoadOrRebuildModel
  <2> DEFINE n == call.model
  <2>1. UNCHANGED <<ixClean, ixFile>>
    BY <1>10 DEF LoadOrRebuildModel, files
  <2>2. n \in KnownModels
    BY <1>10 DEF LoadOrRebuildModel, TypeInv, CallInv, KnownModels
  <2>3. CASE indexes' = [indexes EXCEPT ![n] = LoadedIndexes(n, schemas[n])]
    <3>1. CASE m = n
      <4>1. indexes'[m] = LoadedIndexes(m, schemas[m])
        BY <1>0, <2>3, <3>1
      <4>2. ~Lagging(m)'
        BY <1>0, <2>1, <2>2, <3>1, <4>1, LoadedKeepUp
      <4> QED  BY <4>2 DEF KeepsUp
    <3>2. CASE m # n
      BY <1>0, <2>1, <2>3, <3>2 DEF KeepsUp, Lagging
    <3> QED  BY <3>1, <3>2
  <2>4. CASE UNCHANGED indexes
    BY <2>1, <2>4, KeepsUpSame
  <2>5. CASE ReturnErr
    BY <1>2, <1>10, <2>5 DEF LoadOrRebuildModel
  <2> QED  BY <1>10, <2>3, <2>4, <2>5 DEF LoadOrRebuildModel, UseIndexes, memory
<1>11. CASE SaveSchemas \/ LoadRows \/ ValidateUnique
  <2>1. \/ UNCHANGED <<ixClean, ixFile, indexes>>
        \/ ReturnErr /\ UNCHANGED files
    BY <1>11 DEF SaveSchemas, LoadRows, ValidateUnique, files, memory
  <2> QED  BY <1>2, <2>1, KeepsUpSame
<1>12. CASE Crash
  BY <1>12, KeepsUpSame DEF Crash
<1>13. CASE IoError
  BY <1>2, <1>13 DEF IoError
<1> QED  BY <1>1, <1>3, <1>4, <1>5, <1>6, <1>7, <1>8, <1>9, <1>10, <1>11, <1>12, <1>13
         DEF FaultyNext, Next, Work

-----------------------------------------------------------------------------
(* FaultInv is inductive for FaultySpec: rows checked against one schema,  *)
(* memory in step with the logs and index files with what is in hand, also *)
(* when file operations fail and whatever does not fit a page or the       *)
(* schema file.                                                            *)
THEOREM FaultInvariant == FaultySpec => [](TypeInv /\ FaultInv)
<1>1. Init => TypeInv /\ FaultInv
  BY InitTypeInv, InitFaultInv
<1>2. TypeInv /\ FaultInv /\ [FaultyNext]_vars => TypeInv' /\ FaultInv'
  BY TypeInvStep, RowsCheckedStep, MemoryKeptStep, IndexesInHandStep DEF FaultInv
<1> QED  BY <1>1, <1>2, PTL DEF FaultySpec

(* RowsOfOneSchema: every live row of a log is valid, as a whole, under    *)
(* one of the schemas a caller may register, whatever contracts the model  *)
(* has been met with.                                                      *)
THEOREM RowsHaveOneSchema == FaultySpec => []RowsOfOneSchema
<1>1. FaultInv => RowsOfOneSchema
  BY DEF FaultInv, RowsChecked
<1> QED  BY <1>1, FaultInvariant, PTL

(* MemoryMatchesLog: the rows in memory are what the log replays to, and   *)
(* the next row id was never used in it.                                   *)
THEOREM MemoryIsTheLog == FaultySpec => []MemoryMatchesLog
<1>1. TypeInv /\ FaultInv => MemoryMatchesLog
  <2> SUFFICES ASSUME TypeInv, FaultInv, NEW m \in Models, rows[m] # None,
                      Readable(table[m])
               PROVE  /\ rows[m] = table[m]
                      /\ NextIdOf(m) < MaxRowId => NextIdOf(m) \notin UsedIds(table[m])
    BY DEF MemoryMatchesLog
  <2>1. rows[m] = table[m] /\ NextIdOf(m) = NextRowId(table[m])
    BY DEF FaultInv, MemoryKept, RowsOfLog, NextIdOf
  <2>2. table[m] \in Tables
    BY DEF Readable, TypeInv, TypeOK, FilesOK, TableFiles
  <2> QED  BY <2>1, <2>2, AboveNextRowId, AboveIsNew
<1> QED  BY <1>1, FaultInvariant, PTL

(* CleanKeepsUp: while the manifest says clean, index files fall behind    *)
(* the indexes in memory for no model but one that already lagged when     *)
(* another model's write marked the database clean.                        *)
THEOREM CleanNeverLags == FaultySpec => CleanKeepsUp
<1>1. TypeInv /\ FaultInv /\ [FaultyNext]_vars => \A m \in Models : KeepsUp(m)
  BY CleanKeepsUpStep DEF FaultInv
<1> QED  BY <1>1, FaultInvariant, PTL DEF FaultySpec, CleanKeepsUp

-----------------------------------------------------------------------------
(***************************************************************************)
(* The engine implements TableStore: the empty directory is an empty       *)
(* store, and every step of a handler is a step of the store or leaves it  *)
(* alone.  The safety invariant is what makes it so: an index answers for  *)
(* the log, a schema in memory for the schema file, and the row in hand    *)
(* conflicts with none.                                                    *)
(***************************************************************************)

(* What a caller of the store sees of the engine.                          *)
seen == <<schemaFile, table, IF Up THEN "up" ELSE "down", Asked, Answer>>

(* The store is written with the operators of the engine's own tables.     *)
LEMMA SameOperators ==
    /\ Store!EmptyTable = EmptyTable /\ Store!EmptyRecord = EmptyRecord
    /\ Store!DeadRow = DeadRow /\ Store!RowIds = RowIds
    /\ \A r : Store!LiveRow(r) = LiveRow(r)
    /\ \A t : Store!LiveIds(t) = LiveIds(t) /\ Store!UsedIds(t) = UsedIds(t)
    /\ \A t : Store!Readable(t) <=> Readable(t)
    /\ \A s : Store!UniqueFields(s) = UniqueFields(s)
    /\ \A s, v : Store!NormalizeRow(s, v) = NormalizeRow(s, v)
    /\ \A s, v : Store!Accepts(s, v) <=> Accepts(s, v)
    /\ \A s, v, w : Store!AcceptsUpdate(s, v, w) <=> AcceptsUpdate(s, v, w)
    /\ \A v, w : Store!MergeRecord(v, w) = MergeRecord(v, w)
    /\ \A s, v : Store!ValidFilters(s, v) <=> ValidFilters(s, v)
    /\ \A t, v : Store!FirstMatch(t, v) = FirstMatch(t, v)
<1>1. Store!EmptyTable = EmptyTable /\ Store!EmptyRecord = EmptyRecord
  BY DEF Store!EmptyTable, EmptyTable, Store!EmptyRecord, EmptyRecord, Store!NoRow,
         NoRow, Store!RowIds, RowIds
<1>2. Store!DeadRow = DeadRow /\ Store!RowIds = RowIds
  BY DEF Store!DeadRow, DeadRow, Store!RowIds, RowIds, Store!EmptyRecord, EmptyRecord
<1>3. \A r : Store!LiveRow(r) = LiveRow(r)
  BY DEF Store!LiveRow, LiveRow
<1>4. \A t : Store!LiveIds(t) = LiveIds(t) /\ Store!UsedIds(t) = UsedIds(t)
  BY DEF Store!LiveIds, LiveIds, Store!UsedIds, UsedIds, Store!RowIds, RowIds
<1>5. \A t : Store!Readable(t) <=> Readable(t)
  BY DEF Store!Readable, Readable
<1>6. \A s : Store!UniqueFields(s) = UniqueFields(s)
  BY DEF Store!UniqueFields, UniqueFields, Store!IsUnique, IsUnique
<1>7. \A s, v : Store!NormalizeRow(s, v) = NormalizeRow(s, v)
  BY DEF Store!NormalizeRow, NormalizeRow, Store!FieldValue, FieldValue,
         Store!Default, Default
<1>a. \A s, v : Store!Normalizes(s, v) <=> Normalizes(s, v)
  BY DEF Store!Normalizes, Normalizes, Store!ValidValue, ValidValue,
         Store!FieldValue, FieldValue, Store!Default, Default
<1>8. \A s, v : Store!Accepts(s, v) <=> Accepts(s, v)
  BY <1>a DEF Store!Accepts, Accepts, Store!UnknownFields, UnknownFields
<1>9. \A v, w : Store!MergeRecord(v, w) = MergeRecord(v, w)
  BY DEF Store!MergeRecord, MergeRecord
<1>10. \A s, v, w : Store!AcceptsUpdate(s, v, w) <=> AcceptsUpdate(s, v, w)
  BY <1>a, <1>9 DEF Store!AcceptsUpdate, AcceptsUpdate, Store!UnknownFields, UnknownFields
<1>11. \A s, v : Store!ValidFilters(s, v) <=> ValidFilters(s, v)
  BY DEF Store!ValidFilters, ValidFilters, Store!UnknownFields, UnknownFields
<1>12. \A t, v : Store!FirstMatch(t, v) = FirstMatch(t, v)
  BY DEF Store!FirstMatch, FirstMatch, Store!MatchingIds, MatchingIds,
         Store!LiveIds, LiveIds, Store!RowIds, RowIds, Store!Matches, Matches
<1> QED  BY <1>1, <1>2, <1>3, <1>4, <1>5, <1>6, <1>7, <1>8, <1>9, <1>10, <1>11, <1>12

-----------------------------------------------------------------------------
(* Steps the caller does not see.                                          *)
LEMMA OpeningUnseen ==
    ASSUME call.op \in {"none", "open"}, call'.op \in {"none", "open"}, ~Up, ~Up',
           UNCHANGED <<schemaFile, table>>
    PROVE  UNCHANGED seen
BY DEF seen, Asked, Answer

(* A handler that goes on with the same call, at the same stage.           *)
LEMMA CallUnseen ==
    ASSUME UNCHANGED <<schemaFile, table>>, Up, Up', outcome' = outcome,
           call'.op = call.op, call'.model = call.model, call'.row = call.row,
           call.op # "insert" => call'.row_id = call.row_id,
           schemas' = schemas,
           TakenEffect' <=> TakenEffect
    PROVE  UNCHANGED seen
BY DEF seen, Asked, Answer

(* What the caller sees of an engine that has no call, or no engine.       *)
LEMMA NothingAsked ==
    ASSUME call = NoCall
    PROVE  Asked = [op |-> "none"] /\ (Up <=> pc # "down")
BY NoCallOps DEF Asked, Up

(* The steps of an open that are not its last.                             *)
LEMMA OpenSteps ==
    ASSUME TypeInv, SafetyInv,
           \/ Open \/ LoadOrCreateManifest \/ LoadTables
           \/ RebuildModel \/ RebuildDone
    PROVE  UNCHANGED seen
<1>1. UNCHANGED <<schemaFile, table>>
  BY DEF Open, LoadOrCreateManifest, LoadTables, RebuildModel, RebuildDone, files
<1>2. CASE Open
  <2>1. call = NoCall /\ ~Up
    BY <1>2 DEF Open, SafetyInv, HandlerInv, Placed, Opening, Up
  <2>2. call'.op = "open"
    BY <1>2, CallOfFields DEF Open
  <2> QED  BY <1>1, <2>1, <2>2, NoCallOps, OpeningUnseen DEF Up
<1>3. CASE LoadOrCreateManifest \/ LoadTables \/ RebuildModel \/ RebuildDone
  <2>1. call.op = "open"
    BY <1>3, ZenonT(60) DEF LoadOrCreateManifest, LoadTables, RebuildModel, RebuildDone,
                SafetyInv, HandlerInv, Placed, Opening
  <2>2. \/ call'.op = "open"
        \/ call' = NoCall /\ pc' = "down"
    BY <1>3, <2>1 DEF LoadOrCreateManifest, LoadTables, RebuildModel, RebuildDone,
                      ReturnErr, TypeInv, TypeOK, ControlOK, Call
  <2> QED  BY <1>1, <2>1, <2>2, NoCallOps, OpeningUnseen DEF Up
<1> QED  BY <1>2, <1>3

-----------------------------------------------------------------------------
(* Between calls: an engine is up, the contracts are the schemas it holds. *)
LEMMA BetweenCalls ==
    ASSUME TypeInv, SafetyInv, pc = "idle"
    PROVE  /\ Store!Idle /\ Up /\ call = NoCall
           /\ \A m \in Models : schemas[m] = schemaFile[m]
<1>1. call = NoCall
  BY DEF SafetyInv, HandlerInv, Placed, Opening
<1> QED  BY <1>1, NothingAsked, IdleFacts DEF Store!Idle, Store!NoRequest

(* A call that starts is one asked of the store.                           *)
LEMMA Started ==
    ASSUME UNCHANGED <<schemaFile, table>>, Up, Up', outcome' = "none",
           NEW r, Asked' = r
    PROVE  Store!Ask(r)
BY DEF Store!Ask, Answer

(* register_schema of a schema the model may have.                         *)
LEMMA RegisterAsked ==
    ASSUME TypeInv, SafetyInv, NEW m \in Models, NEW s \in Schemas, RegisterSchema(m, s)
    PROVE  Store!AskRegister(m, s)
<1>1. /\ pc = "idle" /\ schemas[m] \in {None, s} /\ outcome' = "none"
      /\ pc' = IF schemas[m] = None THEN "save_schemas" ELSE "load_rows"
      /\ schemas'[m] = s /\ UNCHANGED <<schemaFile, table>>
  BY DEF RegisterSchema, files, TypeInv, TypeOK, MemoryOK
<1>2. call' = CallOf("register", m, 0, EmptyRecord)
  BY DEF RegisterSchema
<1>3. /\ call'.op = "register" /\ call'.model = m /\ call'.row_id = 0
      /\ call'.row = EmptyRecord
  BY <1>2, CallOfFields
<1> DEFINE r == [Store!Asking("register", m, 0, Store!EmptyRecord, s)
                   EXCEPT !.stage = IF schemaFile[m] = None THEN "asked" ELSE "done"]
<1>4. schemas[m] = schemaFile[m] /\ Store!Idle /\ Up
  BY <1>1, BetweenCalls
<1>5. Asked' = r
  BY <1>1, <1>3, <1>4, SameOperators DEF Asked, TakenEffect, Store!Asking
<1>6. Up'
  BY <1>1, <1>3 DEF Up
<1> HIDE DEF r
<1>7. Store!Ask(r)
  BY <1>1, <1>4, <1>5, <1>6, Started
<1> QED  BY <1>1, <1>4, <1>7 DEF Store!AskRegister, r

(* register_schema of another schema than the one the model has.           *)
LEMMA RegisterRefused ==
    ASSUME TypeInv, SafetyInv, NEW m \in Models, NEW s \in Schemas, RegisterIncompatible(m, s)
    PROVE  Store!RefuseRegister(m, s)
<1>1. pc = "idle" /\ schemas[m] \notin {None, s} /\ ReturnErr /\ UNCHANGED files
  BY DEF RegisterIncompatible
<1>2. schemas[m] = schemaFile[m] /\ Store!Idle /\ Up /\ call = NoCall
  BY <1>1, BetweenCalls
<1>3. pc' = "idle" /\ call' = NoCall /\ outcome' = "err"
  BY <1>1, <1>2, NoCallOps DEF ReturnErr
<1>4. UNCHANGED <<schemaFile, table>>
  BY <1>1 DEF files
<1>5. Up' /\ Asked' = Asked
  BY <1>2, <1>3, NoCallOps DEF Up, Asked
<1> QED  BY <1>1, <1>2, <1>3, <1>4, <1>5 DEF Store!RefuseRegister, Answer

(* insert, once validation has let the values pass.                        *)
LEMMA InsertAsked ==
    ASSUME TypeInv, SafetyInv, NEW m \in Models, NEW values \in Inserts, Insert(m, values)
    PROVE  Store!AskInsert(m, values)
<1>1. /\ pc = "idle" /\ schemas[m] # None /\ Accepts(schemas[m], values)
      /\ outcome' = "none" /\ UNCHANGED <<schemaFile, table>>
  BY DEF Insert, files
<1>2. pc' = "unique" /\ call' = CallOf("insert", m, 0, NormalizeRow(schemas[m], values))
  BY <1>1, IdleModel DEF Insert, CheckUniqueNext
<1>3. /\ call'.op = "insert" /\ call'.task = "none" /\ call'.model = m
      /\ call'.row = NormalizeRow(schemas[m], values)
  BY <1>2, CallOfFields
<1> DEFINE r == Store!Asking("insert", m, 0, NormalizeRow(schemas[m], values), None)
<1>4. schemas[m] = schemaFile[m] /\ Store!Idle /\ Up
  BY <1>1, BetweenCalls
<1>5. Asked' = r
  BY <1>2, <1>3 DEF Asked, TakenEffect, Store!Asking
<1>6. Up'
  BY <1>2, <1>3 DEF Up
<1> HIDE DEF r
<1>7. Store!Ask(r)
  BY <1>1, <1>4, <1>5, <1>6, Started
<1> QED  BY <1>1, <1>4, <1>7, SameOperators DEF Store!AskInsert, r

(* The row find_row_id returns is the oldest of the store that matches.    *)
LEMMA FoundIsTarget ==
    ASSUME TypeInv, SafetyInv, FindMatchesLog, pc = "idle", NEW m \in Models,
           NEW filters \in Filters, Found(m, filters)
    PROVE  /\ Store!HasTarget(m, filters)
           /\ FindRowId(m, filters) = Store!Target(m, filters)
<1>1. schemas[m] # None /\ ValidFilters(schemas[m], filters) /\ FindRowId(m, filters) # 0
  BY DEF Found
<1>2. schemas[m] = schemaFile[m]
  BY BetweenCalls
<1>3. m \in KnownModels /\ Readable(table[m])
  BY <1>1, IdleModel DEF KnownModels
<1>4. FindRowId(m, filters) = FirstMatch(table[m], filters)
  BY <1>1, <1>3 DEF FindMatchesLog
<1> QED  BY <1>1, <1>2, <1>4, SameOperators DEF Store!HasTarget, Store!Target

(* update, once the row was found and validation has let the values pass.  *)
LEMMA UpdateAsked ==
    ASSUME TypeInv, SafetyInv, FindMatchesLog, NEW m \in Models,
           NEW filters \in Filters, NEW values \in Updates, Update(m, filters, values)
    PROVE  Store!AskUpdate(m, filters, values)
<1> DEFINE id  == FindRowId(m, filters)
           row == NormalizeRow(schemas[m], MergeRecord(rows[m][id].record, values))
           r   == Store!Asking("update", m, id, row, None)
<1>1. /\ pc = "idle" /\ schemas[m] # None /\ Found(m, filters) /\ DOMAIN values # {}
      /\ AcceptsUpdate(schemas[m], rows[m][id].record, values)
      /\ outcome' = "none" /\ UNCHANGED <<schemaFile, table>>
      /\ call' = CallOf("update", m, id, row)
  BY DEF Update, Found, files
<1>2. pc' = "unique" /\ rows[m] = table[m]
  BY <1>1, IdleModel DEF Update, CheckUniqueNext
<1>3. schemas[m] = schemaFile[m] /\ Store!Idle /\ Up
  BY <1>1, BetweenCalls
<1>4. Store!HasTarget(m, filters) /\ id = Store!Target(m, filters)
  BY <1>1, FoundIsTarget
<1>5. row = Store!NormalizeRow(schemaFile[m], Store!Updated(m, filters, values))
  BY <1>2, <1>3, <1>4, SameOperators DEF Store!Updated
<1>6. Store!AcceptsUpdate(schemaFile[m],
                          table[m][Store!Target(m, filters)].record, values)
  BY <1>1, <1>2, <1>3, <1>4, SameOperators
<1> HIDE DEF id, row
<1>7. /\ call'.op = "update" /\ call'.task = "none" /\ call'.model = m
      /\ call'.row = row /\ call'.row_id = id
  BY <1>1, CallOfFields
<1>8. Asked' = r /\ Up'
  BY <1>2, <1>7 DEF Asked, TakenEffect, Store!Asking, Up
<1> HIDE DEF r
<1>9. Store!Ask(r)
  BY <1>1, <1>3, <1>8, Started
<1> QED  BY <1>1, <1>3, <1>4, <1>5, <1>6, <1>9 DEF Store!AskUpdate, r

(* delete, once the row was found.                                         *)
LEMMA DeleteAsked ==
    ASSUME TypeInv, SafetyInv, FindMatchesLog, NEW m \in Models,
           NEW filters \in Filters, Delete(m, filters)
    PROVE  Store!AskDelete(m, filters)
<1> DEFINE id    == FindRowId(m, filters)
           begun == CallOf("delete", m, id, EmptyRecord)
           r     == Store!Asking("delete", m, id, EmptyRecord, None)
<1>1. /\ pc = "idle" /\ schemas[m] # None /\ Found(m, filters)
      /\ outcome' = "none" /\ UNCHANGED <<schemaFile, table>> /\ pc' = "dirty"
      /\ call' = [begun EXCEPT !.task = "write"]
  BY DEF Delete, Found, files
<1>2. schemas[m] = schemaFile[m] /\ Store!Idle /\ Up
  BY <1>1, BetweenCalls
<1>3. Store!HasTarget(m, filters) /\ id = Store!Target(m, filters)
  BY <1>1, FoundIsTarget
<1>4. id \in RowIds
  BY <1>1, FindRowIdType DEF Found, TypeInv, TypeOK
<1>5. /\ begun \in Call /\ begun.op = "delete" /\ begun.model = m
      /\ begun.row_id = id /\ begun.row = EmptyRecord
  BY <1>4, CallOfType, CallOfFields, CellTypes DEF RowIds
<1> HIDE DEF id, begun
<1>6. /\ call'.op = "delete" /\ call'.task = "write" /\ call'.model = m
      /\ call'.row_id = id /\ call'.row = EmptyRecord
  BY <1>1, <1>5 DEF Call
<1>7. Asked' = r /\ Up'
  BY <1>1, <1>6 DEF Asked, TakenEffect, Store!Asking, Up
<1> HIDE DEF r
<1>8. Store!Ask(r)
  BY <1>1, <1>2, <1>7, Started
<1> QED  BY <1>1, <1>2, <1>3, <1>8, SameOperators DEF Store!AskDelete, r

-----------------------------------------------------------------------------
(* The steps of a call that its caller does not see.                       *)
LEMMA IndexSteps ==
    ASSUME TypeInv, SafetyInv, MarkDirty \/ SaveIndex \/ SaveModelDone
    PROVE  UNCHANGED seen
<1>1. /\ UNCHANGED <<schemaFile, table, outcome, schemas>>
      /\ pc \notin {"down", "idle", "save_schemas"} /\ pc' \notin {"down", "save_schemas"}
  BY DEF MarkDirty, AfterDirty, SaveIndex, SaveModelDone, files, memory
<1>2. /\ call'.op = call.op /\ call'.model = call.model /\ call'.row = call.row
      /\ call'.row_id = call.row_id /\ call'.task = call.task
  BY DEF MarkDirty, SaveIndex, SaveModelDone, TypeInv, TypeOK, ControlOK, Call
<1>3. CASE call.op = "open"
  BY <1>1, <1>2, <1>3, OpeningUnseen DEF Up
<1>4. CASE call.op # "open"
  <2>1. call.op \in {"register", "insert", "update", "delete"}
    BY <1>1, <1>4 DEF SafetyInv, HandlerInv, Placed
  <2>2. call.task = "write" =>
           (pc \in {"save", "clean"} <=> pc' \in {"save", "clean"})
    BY DEF MarkDirty, AfterDirty, SaveIndex, SaveModelDone
  <2>3. TakenEffect' <=> TakenEffect
    BY <1>1, <1>2, <2>1, <2>2 DEF TakenEffect
  <2> QED  BY <1>1, <1>2, <1>4, <2>3, CallUnseen DEF Up
<1> QED  BY <1>3, <1>4

(* load_rows of register_schema never fails: the table is empty or known.  *)
LEMMA LoadRowsUnseen ==
    ASSUME TypeInv, SafetyInv, LoadRows
    PROVE  UNCHANGED seen
<1> DEFINE m == call.model
<1>1. /\ pc = "load_rows" /\ call.op = "register" /\ m \in Models
      /\ RowsLoaded(m) \/ RowsToLoad(m)
  BY RegisterPlace DEF LoadRows
<1>2. rows[m] # None \/ Readable(table[m])
  <2>1. CASE RowsLoaded(m)
    BY <1>1, <2>1, IndexAssumption DEF RowsLoaded, TypeInv, TypeOK, FilesOK
  <2>2. CASE RowsToLoad(m)
    BY <2>2, EmptyTableType, TableAssumption DEF RowsToLoad, Readable
  <2> QED  BY <1>1, <2>1, <2>2
<1>3. /\ pc' = "index" /\ UNCHANGED <<schemas, call, outcome, schemaFile, table>>
  BY <1>2 DEF LoadRows, files
<1> QED  BY <1>1, <1>3, CallUnseen DEF Up, TakenEffect

(* check_unique lets the row pass, and an insert gets its row id.          *)
LEMMA UniqueUnseen ==
    ASSUME TypeInv, SafetyInv, ValidateUnique,
           ~UniqueConflict(indexes[call.model], call.row, call.row_id)
    PROVE  UNCHANGED seen
<1>1. /\ pc = "unique" /\ pc' = "dirty" /\ UNCHANGED <<schemas, outcome, schemaFile, table>>
  BY DEF ValidateUnique, files
<1>2. call.op \in {"insert", "update"} /\ call.task = "none"
  BY <1>1 DEF SafetyInv, HandlerInv, Placed, Opening
<1>3. /\ call'.op = call.op /\ call'.model = call.model /\ call'.row = call.row
      /\ call.op # "insert" => call'.row_id = call.row_id
  BY DEF ValidateUnique, TypeInv, TypeOK, ControlOK, Call
<1>4. TakenEffect' <=> TakenEffect
  BY <1>1, <1>2, <1>3 DEF TakenEffect
<1> QED  BY <1>1, <1>2, <1>3, <1>4, CallUnseen DEF Up

-----------------------------------------------------------------------------
(* Steps that take effect.                                                 *)
LEMMA EffectOf ==
    ASSUME TypeInv, Up, Up', outcome' = outcome,
           call.op \in {"register", "insert", "update", "delete"},
           call'.op = call.op, call'.model = call.model, call'.row = call.row,
           call'.row_id = call.row_id, schemas' = schemas,
           ~TakenEffect, TakenEffect'
    PROVE  Store!TakesEffect /\ Store!Pending(call.op)
<1>1. Asked'.stage = "done" /\ Asked.stage = "asked" /\ Asked.op = call.op
  BY DEF Asked
<1>2. Asked' = [Asked EXCEPT !.stage = "done"]
  BY DEF Asked
<1> QED  BY <1>1, <1>2 DEF Store!TakesEffect, Store!Pending, Answer

(* save_schemas writes the schemas of the file and the new one.            *)
LEMMA SchemasSaved ==
    ASSUME TypeInv, SafetyInv, SaveSchemas
    PROVE  Store!Register
<1> DEFINE m == call.model
<1>1. /\ pc = "save_schemas" /\ pc' = "load_rows" /\ schemaFile' = schemas
      /\ UNCHANGED <<table, schemas, call, outcome>>
  BY DEF SaveSchemas, memory
<1>2. /\ call.op = "register" /\ m \in Models /\ schemaFile # Unreadable
      /\ \A n \in Models \ {m} : schemas[n] = schemaFile[n]
  BY <1>1, RegisterPlace
<1>3. schemaFile' = [schemaFile EXCEPT ![m] = schemas[m]]
  BY <1>1, <1>2 DEF TypeInv, TypeOK, FilesOK, MemoryOK
<1>4. Store!TakesEffect /\ Store!Pending("register")
  BY <1>1, <1>2, EffectOf DEF Up, TakenEffect
<1>5. Asked.model = m /\ Asked.schema = schemas[m]
  BY <1>2 DEF Asked
<1> QED  BY <1>1, <1>3, <1>4, <1>5 DEF Store!Register

(* A row conflicts in the store when it is not unique in the log.          *)
LEMMA ConflictIs ==
    ASSUME TypeInv, SafetyInv, call.op \in {"insert", "update"},
           schemaFile[call.model] = schemas[call.model],
           call.op = "insert" => call.row_id \notin LiveIds(table[call.model])
    PROVE  Store!Conflict <=>
              ~RowUnique(schemas[call.model], table[call.model], call.row_id, call.row)
<1> DEFINE m == call.model
<1>1. /\ Asked.model = m /\ Asked.row = call.row
      /\ Asked.row_id = IF call.op = "insert" THEN 0 ELSE call.row_id
  BY DEF Asked
<1>2. LiveIds(table[m]) \ {Asked.row_id} = LiveIds(table[m]) \ {call.row_id}
  BY <1>1 DEF LiveIds, RowIds
<1>3. Store!Conflict <=>
        \E other \in LiveIds(table[m]) \ {Asked.row_id} :
            \E f \in UniqueFields(schemas[m]) :
                /\ f \in DOMAIN call.row /\ f \in DOMAIN table[m][other].record
                /\ call.row[f] = table[m][other].record[f]
  BY <1>1, SameOperators DEF Store!Conflict
<1> QED  BY <1>2, <1>3 DEF RowUnique

(* What the append finds, in terms of the store.                           *)
LEMMA AppendEffect ==
    ASSUME TypeInv, SafetyInv, pc = "append", NEW built, SaveNext(built) \/ UNCHANGED call,
           pc' \in {"save", "clean"}, UNCHANGED <<schemaFile, schemas, outcome>>,
           NEW cell, table' = [table EXCEPT ![call.model] = [@ EXCEPT ![call.row_id] = cell]],
           NEW id, id = call.row_id
    PROVE  /\ Store!Pending(call.op) /\ Store!Change(id, cell)
           /\ Asked.model = call.model /\ Asked.row = call.row
           /\ call.op # "insert" => Asked.row_id = id
<1>1. /\ call.op \in {"insert", "update", "delete"} /\ call.task = "write"
  BY AppendPlace
<1>2. /\ call'.op = call.op /\ call'.model = call.model /\ call'.row = call.row
      /\ call'.row_id = call.row_id /\ call'.task = call.task
  BY DEF SaveNext, TypeInv, TypeOK, ControlOK, Call
<1>3. Store!TakesEffect /\ Store!Pending(call.op)
  BY <1>1, <1>2, EffectOf DEF Up, TakenEffect
<1>4. /\ Asked.model = call.model /\ Asked.row = call.row
      /\ call.op # "insert" => Asked.row_id = id
  BY <1>1 DEF Asked
<1>5. table' = [table EXCEPT ![Asked.model][id] = cell]
  BY <1>4
<1> QED  BY <1>3, <1>4, <1>5 DEF Store!Change

(* The append writes the row in hand, for which the store has no conflict. *)
LEMMA AppendInHand ==
    ASSUME TypeInv, SafetyInv, pc = "append"
    PROVE  LET m == call.model
           IN  /\ schemas[m] = schemaFile[m] /\ call.row_id \in RowIds
               /\ call.op = "insert" => \A used \in UsedIds(table[m]) : used < call.row_id
               /\ call.op # "insert" => call.row_id \in LiveIds(table[m])
               /\ call.op # "delete" => ~Store!Conflict
<1> DEFINE m == call.model
<1>1. /\ call.op \in {"insert", "update", "delete"} /\ schemas[m] = schemaFile[m]
      /\ Above(next_row_ids[m], table[m])
  BY AppendPlace
<1>2. call.op = "insert" =>
         call.row_id \in RowIds /\ \A used \in UsedIds(table[m]) : used < call.row_id
  BY <1>1, TableAssumption DEF SafetyInv, HandlerInv, RowInHand, Above, RowIds
<1>3. call.op # "insert" => call.row_id \in LiveIds(table[m])
  BY <1>1 DEF SafetyInv, HandlerInv, RowInHand
<1>4. call.op # "delete" => RowUnique(schemas[m], table[m], call.row_id, call.row)
  BY <1>1 DEF SafetyInv, HandlerInv, RowInHand
<1>5. call.op = "insert" => call.row_id \notin LiveIds(table[m])
  BY <1>2 DEF LiveIds, UsedIds, RowIds
<1> QED  BY <1>1, <1>2, <1>3, <1>4, <1>5, ConflictIs DEF LiveIds

(* append_operation of an insert.                                          *)
LEMMA InsertTakesEffect ==
    ASSUME TypeInv, SafetyInv, AppendInsert
    PROVE  Store!Insert
<1> DEFINE m == call.model
           id == call.row_id
           cell == LiveRow(call.row)
<1>1. pc = "append" /\ call.op = "insert"
  BY DEF AppendInsert
<1>2. id \in RowIds /\ (\A used \in UsedIds(table[m]) : used < id) /\ ~Store!Conflict
  BY <1>1, AppendInHand
<1>3. m \in Models /\ table[m] \in Tables /\ Readable(table[m])
  BY <1>1, AppendPlace
<1>4. id \notin UsedIds(table[m])
  BY <1>2 DEF RowIds
<1>5. table' = [table EXCEPT ![m] = [@ EXCEPT ![id] = cell]]
  <2>1. ReplayInsert(table[m], id, call.row) = [table[m] EXCEPT ![id] = cell]
    BY <1>2, <1>3, <1>4, ReplayWrites
  <2>2. table' = [table EXCEPT ![m] = ReplayInsert(table[m], id, call.row)]
    BY DEF AppendInsert
  <2> QED  BY <2>1, <2>2
<1>6. /\ pc' = "save" /\ UNCHANGED <<schemaFile, schemas, outcome>>
      /\ SaveNext(IndexInsert(indexes[m], id, call.row))
  BY DEF AppendInsert, SaveNext
<1> HIDE DEF cell
<1>7. /\ Store!Pending(call.op) /\ Store!Change(id, cell)
      /\ Asked.model = m /\ Asked.row = call.row
  BY <1>1, <1>5, <1>6, AppendEffect
<1> QED  BY <1>1, <1>2, <1>7, SameOperators DEF Store!Insert, cell

(* append_operation of an update.                                          *)
LEMMA UpdateTakesEffect ==
    ASSUME TypeInv, SafetyInv, AppendUpdate
    PROVE  Store!Update
<1> DEFINE m == call.model
           id == call.row_id
           cell == LiveRow(call.row)
           built == IndexInsert(IndexRemove(indexes[m], id, rows[m][id].record),
                                id, call.row)
<1>1. pc = "append" /\ call.op = "update"
  BY DEF AppendUpdate
<1>2. id \in RowIds /\ id \in LiveIds(table[m]) /\ ~Store!Conflict
  BY <1>1, AppendInHand
<1>3. m \in Models /\ table[m] \in Tables /\ Readable(table[m])
  BY <1>1, AppendPlace
<1>4. table' = [table EXCEPT ![m] = [@ EXCEPT ![id] = cell]]
  <2>1. ReplayUpdate(table[m], id, call.row) = [table[m] EXCEPT ![id] = cell]
    BY <1>2, <1>3, ReplayWrites
  <2>2. table' = [table EXCEPT ![m] = ReplayUpdate(table[m], id, call.row)]
    BY DEF AppendUpdate
  <2> QED  BY <2>1, <2>2
<1>5. pc' = "save" /\ SaveNext(built) /\ UNCHANGED <<schemaFile, schemas, outcome>>
  BY DEF AppendUpdate, SaveNext
<1> HIDE DEF cell, built
<1>6. /\ Store!Pending(call.op) /\ Store!Change(id, cell)
      /\ Asked.model = m /\ Asked.row = call.row /\ Asked.row_id = id
  BY <1>1, <1>4, <1>5, AppendEffect
<1> QED  BY <1>1, <1>2, <1>6, SameOperators DEF Store!Update, Store!Live, cell

(* append_operation of a delete.                                           *)
LEMMA DeleteTakesEffect ==
    ASSUME TypeInv, SafetyInv, AppendDelete
    PROVE  Store!Delete
<1> DEFINE m == call.model
           id == call.row_id
           built == IndexRemove(indexes[m], id, rows[m][id].record)
<1>1. pc = "append" /\ call.op = "delete"
  BY DEF AppendDelete
<1>2. id \in RowIds /\ id \in LiveIds(table[m])
  BY <1>1, AppendInHand
<1>3. m \in Models /\ table[m] \in Tables /\ Readable(table[m])
  BY <1>1, AppendPlace
<1>4. table' = [table EXCEPT ![m] = [@ EXCEPT ![id] = DeadRow]]
  <2>1. ReplayDelete(table[m], id) = [table[m] EXCEPT ![id] = DeadRow]
    BY <1>2, <1>3, ReplayWrites
  <2>2. table' = [table EXCEPT ![m] = ReplayDelete(table[m], id)]
    BY DEF AppendDelete
  <2> QED  BY <2>1, <2>2
<1>5. /\ pc' \in {"save", "clean"} /\ UNCHANGED <<schemaFile, schemas, outcome>>
      /\ SaveNext(built) \/ UNCHANGED call
  BY DEF AppendDelete, SaveNext
<1> HIDE DEF built
<1>6. /\ Store!Pending(call.op) /\ Store!Change(id, DeadRow) /\ Asked.model = m
      /\ Asked.row_id = id
  BY <1>1, <1>4, <1>5, AppendEffect
<1> QED  BY <1>1, <1>2, <1>6, SameOperators DEF Store!Delete, Store!Live

-----------------------------------------------------------------------------
(* Steps with which a call or an open returns, or the process stops.       *)
(* A call that runs is over, with the answer it returns.                   *)
LEMMA CallReturned ==
    ASSUME UNCHANGED <<schemaFile, table>>, Up, pc' = "idle", call' = NoCall,
           NEW a, outcome' = a
    PROVE  Store!Return(a)
<1>1. Up' /\ Asked' = [op |-> "none"]
  BY NoCallOps DEF Up, Asked
<1> QED  BY <1>1 DEF Store!Return, Store!NoRequest, Answer

(* A call that has taken effect returns Ok.                                *)
LEMMA ReturnsOk ==
    ASSUME UNCHANGED <<schemaFile, table>>, Up, ReturnOk, TakenEffect,
           call.op \in {"register", "insert", "update", "delete"}
    PROVE  Store!AnswerOk
<1>1. Store!Return("ok")
  BY CallReturned DEF ReturnOk
<1>2. Asked.stage = "done" /\ Asked.op = call.op
  BY DEF Asked
<1> QED  BY <1>1, <1>2 DEF Store!AnswerOk, Store!NoRequest

(* An insert or an update that has not taken effect returns an error, for  *)
(* a reason.                                                               *)
LEMMA ReturnsErr ==
    ASSUME UNCHANGED <<schemaFile, table>>, Up, ReturnErr, ~TakenEffect,
           call.op \in {"insert", "update"}, Store!Conflict \/ Store!TooLong
    PROVE  Store!AnswerErr
<1>1. Store!Return("err")
  BY CallReturned DEF ReturnErr
<1>2. Asked.stage = "asked" /\ Asked.op = call.op
  BY DEF Asked
<1> QED  BY <1>1, <1>2 DEF Store!AnswerErr, Store!Pending

(* A row check_unique refuses conflicts with a live row.                   *)
LEMMA CheckUniqueRefuses ==
    ASSUME NEW t \in Tables, NEW schema, UniqueFields(schema) \subseteq Fields,
           NEW row, NEW id, UniqueConflict(IndexOf(schema, t), row, id)
    PROVE  ~RowUnique(schema, t, id, row)
<1>1. PICK f \in IndexedFields(IndexOf(schema, t)) \cap DOMAIN row :
          \E other \in Hits(IndexOf(schema, t)[f], row[f]) : other # id
  BY DEF UniqueConflict
<1>2. f \in UniqueFields(schema) /\ f \in DOMAIN row
  BY <1>1, IndexedFieldsOf
<1>3. IndexOf(schema, t)[f] = EntriesOf(t, f)
  BY <1>2 DEF IndexOf
<1>4. PICK other \in Hits(EntriesOf(t, f), row[f]) : other # id
  BY <1>1, <1>3
<1>5. other \in LiveIds(t) \ {id} /\ f \in DOMAIN t[other].record
      /\ row[f] = t[other].record[f]
  BY <1>4, HitsOf
<1> QED  BY <1>2, <1>5 DEF RowUnique

(* check_unique refuses a row the store has a conflict for.                *)
LEMMA UniqueRefused ==
    ASSUME TypeInv, SafetyInv, ValidateUnique,
           UniqueConflict(indexes[call.model], call.row, call.row_id)
    PROVE  Store!AnswerErr
<1> DEFINE m == call.model
<1>1. pc = "unique" /\ ReturnErr /\ UNCHANGED <<schemaFile, table>>
  BY DEF ValidateUnique, files
<1>2. /\ call.op \in {"insert", "update"} /\ call.task = "none" /\ Loaded
      /\ m \in Models /\ m \in KnownModels /\ ~RowsToLoad(m)
  BY <1>1 DEF SafetyInv, HandlerInv, Placed, Opening, TypeInv, CallInv, Loaded,
              KnownModels, RowsToLoad
<1>3. /\ table[m] \in Tables /\ UniqueFields(schemas[m]) \subseteq Fields
      /\ schemaFile[m] = schemas[m] /\ indexes[m] = IndexOf(schemas[m], table[m])
  BY <1>1, <1>2, ModelFacts, IdleFacts DEF Steady
<1>4. ~RowUnique(schemas[m], table[m], call.row_id, call.row)
  BY <1>3, CheckUniqueRefuses
<1>5. call.op = "insert" => call.row_id \notin LiveIds(table[m])
  BY <1>1 DEF SafetyInv, HandlerInv, RowInHand, LiveIds, RowIds
<1>6. Store!Conflict
  BY <1>2, <1>3, <1>4, <1>5, ConflictIs
<1> QED  BY <1>1, <1>2, <1>6, ReturnsErr DEF Up, TakenEffect

(* encode_record refuses a row with a string that is too long.             *)
LEMMA RowTooLong ==
    ASSUME TypeInv, SafetyInv, AppendRefused
    PROVE  Store!AnswerErr
<1>1. /\ pc = "append" /\ call.op # "delete" /\ ~EncodesRow /\ ReturnErr
      /\ UNCHANGED <<schemaFile, table>>
  BY DEF AppendRefused, files
<1>2. call.op \in {"insert", "update"} /\ call.task = "write"
  BY <1>1, AppendPlace
<1>3. Asked.row = call.row
  BY <1>2 DEF Asked
<1>4. Store!TooLong
  BY <1>1, <1>3 DEF EncodesRow, Store!TooLong
<1> QED  BY <1>1, <1>2, <1>4, ReturnsErr DEF Up, TakenEffect

(* The step with which open returns Ok.                                    *)
LEMMA Opened ==
    ASSUME TypeInv, SafetyInv, call.op = "open", Loaded,
           UNCHANGED <<schemaFile, table>>, ReturnOk
    PROVE  Store!Open
<1>1. schemaFile # Unreadable
  BY DEF SafetyInv, HandlerInv, SchemasKept
<1>2. ASSUME NEW m \in Models, schemaFile[m] # None PROVE Readable(table[m])
  <2>1. schemas[m] # None /\ ~RowsToLoad(m)
    BY <1>2 DEF SafetyInv, HandlerInv, SchemasKept, Placed, Opening, RowsToLoad
  <2> QED  BY <2>1, ModelFacts DEF KnownModels
<1>3. Up' /\ ~Up /\ Asked = [op |-> "none"] /\ Asked' = Asked /\ outcome' = "ok"
  BY NoCallOps DEF ReturnOk, Up, Asked
<1> QED  BY <1>1, <1>2, <1>3, SameOperators DEF Store!Open, Answer

(* mark_clean: an open and a call are over.                                *)
LEMMA Marked ==
    ASSUME TypeInv, SafetyInv, MarkClean
    PROVE  Store!Open \/ Store!AnswerOk
<1>1. pc = "clean" /\ UNCHANGED <<schemaFile, table>>
  BY DEF MarkClean
<1>2. \/ call.op = "open" /\ call.task = "rebuild"
      \/ call.op = "register" /\ call.task = "model"
      \/ call.op \in {"insert", "update", "delete"} /\ call.task = "write"
  BY <1>1 DEF SafetyInv, HandlerInv, Placed, Opening
<1>3. ReturnOk
  BY <1>2 DEF MarkClean, UseIndexes
<1>4. CASE call.op = "open"
  BY <1>1, <1>3, <1>4, Opened DEF Loaded
<1>5. CASE call.op # "open"
  BY <1>1, <1>2, <1>3, <1>5, ReturnsOk DEF Up, TakenEffect
<1> QED  BY <1>4, <1>5

(* load_or_rebuild_all: open is over, or goes on with the rebuild.         *)
LEMMA AllIndexes ==
    ASSUME TypeInv, SafetyInv, LoadOrRebuildAll
    PROVE  Store!Open \/ UNCHANGED seen
<1>1. call.op = "open" /\ pc = "indexes" /\ Loaded /\ UNCHANGED <<schemaFile, table>>
  BY DEF SafetyInv, HandlerInv, Placed, LoadOrRebuildAll, Loaded, Opening, files
<1>2. CASE ReturnOk
  BY <1>1, <1>2, Opened
<1>3. CASE ~ReturnOk
  <2>1. pc' = "dirty" /\ call'.op = "open"
    BY <1>1, <1>3 DEF LoadOrRebuildAll, TypeInv, TypeOK, ControlOK, Call
  <2> QED  BY <1>1, <2>1, OpeningUnseen DEF Up
<1> QED  BY <1>2, <1>3

(* load_or_rebuild_model: register_schema is over, or goes on.             *)
LEMMA ModelIndexes ==
    ASSUME TypeInv, SafetyInv, LoadOrRebuildModel
    PROVE  Store!AnswerOk \/ UNCHANGED seen
<1> DEFINE m == call.model
<1>1. /\ pc = "index" /\ UNCHANGED <<schemaFile, table>> /\ call.op = "register"
      /\ Loaded /\ m \in KnownModels /\ ~RowsToLoad(m)
  BY RegisterPlace DEF LoadOrRebuildModel, files, RowsToLoad
<1>2. ~BuildFails(schemas[m], RowsOf(m))
  BY <1>1, ModelFacts, PersistedFacts
<1>3. CASE CleanAndReadable({m})
  <2>1. ReturnOk
    BY <1>1, <1>3 DEF LoadOrRebuildModel, UseIndexes
  <2> QED  BY <1>1, <2>1, ReturnsOk DEF Up, TakenEffect
<1>4. CASE ~CleanAndReadable({m})
  <2>1. /\ pc' = "dirty" /\ UNCHANGED <<memory, outcome>>
        /\ call' = [call EXCEPT !.task = "model",
                                !.built = IndexOf(schemas[m], RowsOf(m)),
                                !.todo = UniqueFields(schemas[m])]
    BY <1>2, <1>4 DEF LoadOrRebuildModel
  <2>2. /\ call'.op = "register" /\ call'.model = m /\ call'.row = call.row
        /\ call'.row_id = call.row_id /\ schemas' = schemas
    BY <1>1, <2>1 DEF TypeInv, TypeOK, ControlOK, Call, memory
  <2> QED  BY <1>1, <2>1, <2>2, CallUnseen DEF Up, TakenEffect
<1> QED  BY <1>3, <1>4

(* The process stops: in the middle of its one write, or without a trace.  *)
LEMMA Stopped ==
    ASSUME TypeInv, SafetyInv, Crash
    PROVE  Store!Stop \/ UNCHANGED seen
<1>1. /\ pc # "down" /\ pc' = "down" /\ call'.op = "none" /\ ~Up'
      /\ Asked' = [op |-> "none"] /\ Answer' = "none"
  BY NoCallOps DEF Crash, Up, Asked, Answer
<1>2. \/ UNCHANGED <<schemaFile, table>>
      \/ pc = "save_schemas" /\ schemaFile' = Unreadable /\ UNCHANGED table
      \/ /\ pc = "append" /\ UNCHANGED schemaFile
         /\ table' = [table EXCEPT ![call.model] = Torn]
  BY DEF Crash, PartialWrite, files
<1>3. CASE call.op = "open"
  <2>1. pc \notin {"save_schemas", "append"}
    BY <1>3 DEF SafetyInv, HandlerInv, Placed, Opening
  <2> QED  BY <1>1, <1>2, <1>3, <2>1, OpeningUnseen DEF Up
<1>4. CASE call.op # "open"
  <2>1. Up
    BY <1>1, <1>4 DEF Up
  <2>2. CASE UNCHANGED <<schemaFile, table>>
    BY <1>1, <2>1, <2>2 DEF Store!Stop, Store!Spoil, Store!NoRequest
  <2>3. CASE pc = "save_schemas" /\ schemaFile' = Unreadable /\ UNCHANGED table
    <3>1. call.op = "register"
      BY <2>3, RegisterPlace
    <3>2. Store!Pending("register")
      BY <2>3, <3>1 DEF Store!Pending, Asked, TakenEffect
    <3> QED  BY <1>1, <2>1, <2>3, <3>2 DEF Store!Stop, Store!Spoil, Store!NoRequest
  <2>4. CASE /\ pc = "append" /\ UNCHANGED schemaFile
             /\ table' = [table EXCEPT ![call.model] = Torn]
    <3>1. call.op \in {"insert", "update", "delete"}
      BY <2>4, AppendPlace
    <3>2. Store!Pending(call.op) /\ Asked.model = call.model
      BY <2>4, <3>1 DEF Store!Pending, Asked, TakenEffect
    <3>3. table' = [table EXCEPT ![Asked.model] = Torn]
      BY <2>4, <3>2
    <3>4. Store!Pending("insert") \/ Store!Pending("update") \/ Store!Pending("delete")
      BY <3>1, <3>2
    <3> QED  BY <1>1, <2>1, <2>4, <3>3, <3>4
             DEF Store!Stop, Store!Spoil, Store!NoRequest
  <2> QED  BY <1>2, <2>2, <2>3, <2>4
<1> QED  BY <1>3, <1>4

-----------------------------------------------------------------------------
(* A directory no engine has been in is an empty store.                    *)
THEOREM InitIsEmptyStore == Init => Store!Init
<1> SUFFICES ASSUME Init PROVE Store!Init
  OBVIOUS
<1>1. ~Up /\ Asked = [op |-> "none"]
  BY NoCallOps DEF Init, Up, Asked
<1> QED  BY <1>1, SameOperators DEF Init, Store!Init, Store!NoRequest, Answer

(* Every request the engine takes on is one the store is asked.            *)
LEMMA RequestsAsk ==
    ASSUME TypeInv, SafetyInv, FindMatchesLog, Request
    PROVE  Store!Next
<1> SUFFICES ASSUME NEW m \in Models,
                    \/ \E s \in Schemas : RegisterSchema(m, s) \/ RegisterIncompatible(m, s)
                    \/ \E values \in Inserts : Insert(m, values)
                    \/ \E filters \in Filters, values \in Updates : Update(m, filters, values)
                    \/ \E filters \in Filters : Delete(m, filters)
             PROVE  \/ \E s \in Schemas : Store!AskRegister(m, s) \/ Store!RefuseRegister(m, s)
                    \/ \E values \in Inserts : Store!AskInsert(m, values)
                    \/ \E filters \in Filters, values \in Updates :
                           Store!AskUpdate(m, filters, values)
                    \/ \E filters \in Filters : Store!AskDelete(m, filters)
  BY DEF Request, Store!Next
<1> QED  BY RegisterAsked, RegisterRefused, InsertAsked, UpdateAsked, DeleteAsked

(* Every step of a handler is a step of the store or leaves it alone.      *)
THEOREM StepsAreStoreSteps ==
    ASSUME Storable
    PROVE  TypeInv /\ SafetyInv /\ FindMatchesLog /\ [Next]_vars => [Store!Next]_Store!vars
<1> SUFFICES ASSUME TypeInv, SafetyInv, FindMatchesLog, [Next]_vars
             PROVE  Store!Next \/ UNCHANGED seen
  BY DEF seen, Store!vars
<1>1. CASE UNCHANGED vars
  BY <1>1 DEF vars, seen, Up, Asked, Answer, TakenEffect
<1>2. CASE Open
  BY <1>2, OpenSteps
<1>3. CASE Crash
  BY <1>3, Stopped DEF Store!Next
<1>4. CASE Request
  BY <1>4, RequestsAsk
<1>5. CASE Work
  <2>1. CASE \/ LoadOrCreateManifest \/ LoadTables \/ RebuildModel \/ RebuildDone
            \/ MarkDirty \/ SaveIndex \/ SaveModelDone \/ LoadRows
    BY <2>1, OpenSteps, IndexSteps, LoadRowsUnseen
  <2>2. CASE LoadOrRebuildAll \/ LoadOrRebuildModel \/ MarkClean
    BY <2>2, AllIndexes, ModelIndexes, Marked DEF Store!Next
  <2>3. CASE SaveSchemas \/ AppendInsert \/ AppendUpdate \/ AppendDelete
    BY <2>3, SchemasSaved, InsertTakesEffect, UpdateTakesEffect, DeleteTakesEffect
    DEF Store!Next
  <2>4. CASE ValidateUnique \/ AppendRefused
    BY <2>4, UniqueUnseen, UniqueRefused, RowTooLong DEF Store!Next
  <2> QED  BY <1>5, <2>1, <2>2, <2>3, <2>4, NothingRefused DEF Work
<1> QED  BY <1>1, <1>2, <1>3, <1>4, <1>5 DEF Next

(* ImplementsStore: every behaviour of the engine is one of the store.     *)
THEOREM EngineImplementsStore ==
    ASSUME Storable
    PROVE  Spec => ImplementsStore
<1>1. Init => Store!Init
  BY InitIsEmptyStore
<1>2. TypeInv /\ SafetyInv /\ FindMatchesLog /\ [Next]_vars => [Store!Next]_Store!vars
  BY StepsAreStoreSteps
<1>3. Spec => [](TypeInv /\ SafetyInv)
  BY SafetyInvariant
<1>4. Spec => []FindMatchesLog
  BY FindAnswersTheLog
<1> QED  BY <1>1, <1>2, <1>3, <1>4, PTL DEF Spec, Store!Spec, ImplementsStore

=============================================================================
