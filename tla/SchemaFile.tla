----------------------------- MODULE SchemaFile -----------------------------
(***************************************************************************)
(* schema.crust, byte by byte: every registration of a new model writes    *)
(* all schemas the engine knows over the file, and every open reads them.  *)
(* A write that is cut short leaves the bytes it got to; the process stops *)
(* with it (Crash) or goes on with an error (IoError).                     *)
(***************************************************************************)
EXTENDS StorageBytes

CONSTANTS Models,       \* model names, as byte strings
          Schemas,      \* the schemas a caller may register
          None,         \* no schema, no file
          Unreadable,   \* what a file gives that does not load
          SchemaMagic   \* the first bytes of the file (b"CRUSTSC1")

ASSUME SchemaAssumption ==
          /\ Models \subseteq Seq(TextBytes)
          /\ IsFiniteSet(Models) /\ Cardinality(Models) < Power[WordBytes]
          /\ \A schema \in Schemas :
                /\ IsModelSchema(schema)
                /\ \A name \in DOMAIN schema : \A r \in schema[name].range :
                      r \in ((-Half)..(Half - 1)) \X ((-Half)..(Half - 1))
          /\ SchemaMagic \in Seq(Bytes)
          /\ None \notin Schemas \cup Seq(Bytes)
          /\ Unreadable \notin [Models -> Schemas \cup {None}]

VARIABLES
    file,           \* the bytes of the file, None when there is none
    schemas,        \* the schemas of struct Engine
    pc,             \* "down", "idle", or "save" in save_schemas
    outcome         \* how the last call ended

vars == <<file, schemas, pc, outcome>>

Nothing == [m \in Models |-> None]

-----------------------------------------------------------------------------
(***************************************************************************)
(* Writing                                                                 *)
(***************************************************************************)
TypeCode == [Int |-> 1, String |-> 2]

WriteBool(b) == <<IF b THEN 1 ELSE 0>>

WriteRange(range) ==
    IF range = {} THEN WriteBool(FALSE)
    ELSE LET r == CHOOSE r \in range : TRUE
         IN  WriteBool(TRUE) \o WriteInt(r[1]) \o WriteInt(r[2])

WriteDefault(default) ==
    IF default = {} THEN WriteBool(FALSE)
    ELSE WriteBool(TRUE) \o WriteValue(CHOOSE v \in default : TRUE)

WriteField(field) ==
    <<TypeCode[field.data_type]>>
    \o WriteBool(field.id) \o WriteBool(field.unique) \o WriteBool(field.required)
    \o WriteRange(field.range) \o WriteDefault(field.default)

WriteSchema(schema) ==
    LET names == SortedNames(DOMAIN schema)
    IN  WriteWord(Len(names)) \o
        FlattenSeq([i \in DOMAIN names |->
                       WriteString(names[i]) \o WriteField(schema[names[i]])])

Known(S) == {m \in Models : S[m] # None}

SchemaBytes(S) ==
    LET names == SortedNames(Known(S))
    IN  SchemaMagic \o WriteWord(Len(names)) \o
        FlattenSeq([i \in DOMAIN names |->
                       WriteString(names[i]) \o WriteSchema(S[names[i]])])

(* What write_string refuses anywhere in the file.                         *)
SchemasFit(S) ==
    \A m \in Known(S) :
        /\ TextFits(m)
        /\ \A name \in DOMAIN S[m] :
              TextFits(name) /\ \A v \in S[m][name].default : ValueFits(v)

-----------------------------------------------------------------------------
(***************************************************************************)
(* Reading                                                                 *)
(***************************************************************************)
ReadOption(input, at, Read(_, _)) ==
    Then(ReadBool(input, at), LAMBDA p, present :
         IF present
         THEN Then(Read(input, p), LAMBDA q, item : Got(q, {item}))
         ELSE Got(p, {}))

ReadRange(input, at) ==
    Then(ReadInt(input, at), LAMBDA p, low :
    Then(ReadInt(input, p), LAMBDA q, high : Got(q, <<low, high>>)))

ReadType(input, at) ==
    Then(ReadByte(input, at), LAMBDA p, code :
         CASE code = TypeCode.Int    -> Got(p, "Int")
           [] code = TypeCode.String -> Got(p, "String")
           [] OTHER                  -> NotRead)

ReadField(input, at) ==
    Then(ReadType(input, at), LAMBDA p1, type :
    Then(ReadBool(input, p1), LAMBDA p2, id :
    Then(ReadBool(input, p2), LAMBDA p3, unique :
    Then(ReadBool(input, p3), LAMBDA p4, required :
    Then(ReadOption(input, p4, ReadRange), LAMBDA p5, range :
    Then(ReadOption(input, p5, ReadValue), LAMBDA p6, default :
         Got(p6, [data_type |-> type, id |-> id, unique |-> unique,
                  required |-> required, range |-> range,
                  default |-> default])))))))

ReadSchema(input, at) ==
    ReadCounted(input, at, [q \in Positions(input) |-> ReadField(input, q)])

(* Seeded defect: models are read until the bytes end, not as many as are  *)
(* counted.                                                                *)
ReadModelsToEnd(input) ==
    Then(ReadWord(input, Len(SchemaMagic) + 1), LAMBDA p, count :
    Then(ReadAll(input, p, [at \in Positions(input) |->
            Then(ReadString(input, at), LAMBDA q, m :
            Then(ReadSchema(input, q), LAMBDA r, s : Got(r, <<m, s>>)))]),
         LAMBDA q, models : Got(q, FoldLeft(LAMBDA map, m : Put(map, m[1], m[2]),
                                         EmptyRecord, models))))

ReadModels(input) ==
    Then(ReadCounted(input, Len(SchemaMagic) + 1,
                     [q \in Positions(input) |-> ReadSchema(input, q)]),
         LAMBDA p, models : IF Finished(input, p) THEN Got(p, models) ELSE NotRead)

load_schemas(input) ==
    LET read == IF IsPrefix(SchemaMagic, input) THEN ReadModels(input) ELSE NotRead
    IN  IF read.at = 0
        THEN Unreadable
        ELSE [m \in Models |->
                 IF m \in DOMAIN read.value THEN read.value[m] ELSE None]

Loaded == IF file = None THEN Nothing ELSE load_schemas(file)

-----------------------------------------------------------------------------
Init == file = None /\ schemas = Nothing /\ pc = "down" /\ outcome = "none"

Open ==
    /\ pc = "down"
    /\ LET loaded == Loaded
       IN  IF loaded = Unreadable
           THEN outcome' = "err" /\ UNCHANGED <<schemas, pc>>
           ELSE schemas' = loaded /\ pc' = "idle" /\ outcome' = "ok"
    /\ UNCHANGED file

(* register_schema of a model that is new puts it into memory first.       *)
Register(m, schema) ==
    /\ pc = "idle" /\ schemas[m] = None
    /\ schemas' = [schemas EXCEPT ![m] = schema]
    /\ pc' = "save" /\ outcome' = "none"
    /\ UNCHANGED file

(* Seeded defect: the length of a string is cut to the bytes it has.       *)
SaveUnchecked ==
    /\ pc = "save"
    /\ file' = SchemaBytes(schemas) /\ outcome' = "ok"
    /\ pc' = "idle"
    /\ UNCHANGED schemas

save_schemas ==
    /\ pc = "save"
    /\ IF SchemasFit(schemas)
       THEN file' = SchemaBytes(schemas) /\ outcome' = "ok"
       ELSE outcome' = "err" /\ UNCHANGED file
    /\ pc' = "idle"
    /\ UNCHANGED schemas

(* fs::write truncates the file and writes it.                             *)
CutWrite ==
    \/ UNCHANGED file
    \/ /\ pc = "save" /\ SchemasFit(schemas)
       /\ \E output \in {SchemaBytes(schemas)} :
             \E n \in 0..(Len(output) - 1) : file' = SubSeq(output, 1, n)

Crash ==
    /\ pc # "down"
    /\ CutWrite
    /\ schemas' = Nothing /\ pc' = "down" /\ outcome' = "none"

IoError ==
    /\ pc = "save"
    /\ CutWrite
    /\ pc' = "idle" /\ outcome' = "err"
    /\ UNCHANGED schemas

Next ==
    \/ Open
    \/ \E m \in Models, schema \in Schemas : Register(m, schema)
    \/ save_schemas \/ Crash \/ IoError

Spec == Init /\ [][Next]_vars

-----------------------------------------------------------------------------
(***************************************************************************)
(* Properties                                                              *)
(***************************************************************************)
(* What the file gives, whatever its bytes, is a schema of a caller for    *)
(* every model, or it does not load.                                       *)
TypeOK ==
    /\ file = None \/ file \in Seq(Bytes)
    /\ schemas \in [Models -> Schemas \cup {None}]
    /\ Loaded = Unreadable \/ Loaded \in [Models -> Schemas \cup {None}]
    /\ pc \in {"down", "idle", "save"}
    /\ outcome \in {"none", "ok", "err"}
    /\ pc = "down" => schemas = Nothing

(* After a call that returned Ok the file gives all the engine knows, and  *)
(* after one that failed a part of it, if it loads: no schema is changed,  *)
(* mixed with another or lost by being written and read, and one that      *)
(* cannot be written leaves the file as it was.                            *)
MemoryCoversFile ==
    pc # "down" =>
        /\ outcome = "ok" => Loaded = schemas
        /\ Loaded # Unreadable => \A m \in Models : Loaded[m] \in {None, schemas[m]}

(* The file implements SchemaCell: wherever a save is cut short, the bytes *)
(* load as they did before or not at all, never as a part of the schemas.  *)
Promise == INSTANCE SchemaCell WITH contract <- Loaded, saving <- pc = "save"

ImplementsContracts == Promise!Spec
=============================================================================
