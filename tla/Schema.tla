------------------------------- MODULE Schema -------------------------------
(***************************************************************************)
(* Values, model schemas and the validation of records against a schema.   *)
(* A value is abstract: what validation tells apart is its type (TypeOf)   *)
(* and, for an integer, its magnitude (IntOf).  A record is a function     *)
(* from field names to values; an Option is a set of at most one element.  *)
(***************************************************************************)
EXTENDS Integers, FiniteSets

CONSTANTS Fields,       \* field names
          Values,       \* values a record, a filter or a default may hold
          Null,         \* Value::Null
          TypeOf,       \* the type name of every value
          IntOf         \* the integer an Int value stands for

DataTypes == {"Int", "String"}

IntValues == {v \in Values : TypeOf[v] = "Int"}

ASSUME ValuesAssumption ==
          /\ Null \in Values
          /\ TypeOf \in [Values -> DataTypes \cup {"Bool", "Null"}]
          /\ IntOf \in [IntValues -> Int]

IsOption(o) == \A x, y \in o : x = y

FieldSchema ==
    {field \in [data_type : DataTypes,
                id        : BOOLEAN,
                unique    : BOOLEAN,
                required  : BOOLEAN,
                range     : SUBSET (Int \X Int),
                default   : SUBSET Values] :
        IsOption(field.range) /\ IsOption(field.default)}

IsModelSchema(s) == \E D \in SUBSET Fields : s \in [D -> FieldSchema]

Record == UNION {[D -> Values] : D \in SUBSET Fields}

EmptyRecord == [f \in {} |-> Null]

IsUnique(field) == field.id \/ field.unique

UniqueFields(schema) == {f \in DOMAIN schema : IsUnique(schema[f])}

UnknownFields(schema, values) == DOMAIN values \ DOMAIN schema

(***************************************************************************)
(* Engine::validate_value: null passes only where the field is optional,   *)
(* any other value must have the declared type and lie in the range.       *)
(***************************************************************************)
ValidValue(field, v) ==
    IF v = Null
    THEN ~field.required
    ELSE /\ TypeOf[v] = field.data_type
         /\ TypeOf[v] = "Int" =>
               \A r \in field.range : r[1] <= IntOf[v] /\ IntOf[v] <= r[2]

(***************************************************************************)
(* Engine::normalize_row: every schema field gets the value given, else    *)
(* its default, else null; the missing required field is then refused by   *)
(* ValidValue, with the same outcome as the early return of the code.      *)
(***************************************************************************)
Default(field) ==
    IF field.default = {} THEN Null ELSE CHOOSE v \in field.default : TRUE

FieldValue(field, f, values) ==
    IF f \in DOMAIN values THEN values[f] ELSE Default(field)

NormalizeRow(schema, values) ==
    [f \in DOMAIN schema |-> FieldValue(schema[f], f, values)]

(* Seeded defect: only the values given are validated.                     *)
AcceptsGiven(schema, values) ==
    /\ UnknownFields(schema, values) = {}
    /\ \A f \in DOMAIN values : ValidValue(schema[f], values[f])

(* normalize_row succeeds: it looks at the fields of the schema only.      *)
Normalizes(schema, values) ==
    \A f \in DOMAIN schema :
        ValidValue(schema[f], FieldValue(schema[f], f, values))

Accepts(schema, values) ==
    /\ UnknownFields(schema, values) = {}
    /\ Normalizes(schema, values)

(***************************************************************************)
(* Engine::prepare_update_row: the changed fields over the stored record.  *)
(* Fields of the stored record the schema does not know are dropped.       *)
(***************************************************************************)
MergeRecord(existing, values) ==
    [f \in DOMAIN existing \cup DOMAIN values |->
        IF f \in DOMAIN values THEN values[f] ELSE existing[f]]

(* Seeded defect: the fields not changed are taken to be valid.            *)
AcceptsChanged(schema, existing, values) == AcceptsGiven(schema, values)

AcceptsUpdate(schema, existing, values) ==
    /\ UnknownFields(schema, values) = {}
    /\ Normalizes(schema, MergeRecord(existing, values))

(* The filters find, update and delete accept, and the records they match. *)
ValidFilters(schema, filters) ==
    /\ DOMAIN filters # {}
    /\ UnknownFields(schema, filters) = {}

Matches(record, filters) ==
    \A f \in DOMAIN filters : f \in DOMAIN record /\ record[f] = filters[f]
=============================================================================
