------------------------------ MODULE MCEngine ------------------------------
(***************************************************************************)
(* Small instances of Engine.  Field names, values and models are strings, *)
(* so that functions over them can be written as records.                  *)
(***************************************************************************)
EXTENDS EngineStore, TLC

MCFields == {"id", "nick"}
MCValues == {"null", "1", "2", "3", "a", "long", "huge"}

MCTypeOf == [v \in MCValues |->
    CASE v = "null"                 -> "Null"
      [] v \in {"1", "2", "3"}      -> "Int"
      [] v \in {"a", "long", "huge"} -> "String"]

MCIntOf == "1" :> 1 @@ "2" :> 2 @@ "3" :> 3

Field(type, id, unique, required, range, default) ==
    [data_type |-> type, id |-> id, unique |-> unique, required |-> required,
     range |-> range, default |-> default]

IdField == Field("Int", TRUE, FALSE, TRUE, {<<1, 2>>}, {})

(* an id, and a nickname that is optional but unique: at most one null     *)
UserSchema == "id" :> IdField @@
              "nick" :> Field("String", FALSE, TRUE, FALSE, {}, {})

(* the same fields, with a nickname that need not be unique                *)
OpenSchema == "id" :> IdField @@
              "nick" :> Field("String", FALSE, FALSE, FALSE, {}, {"a"})

IdOnly == "id" :> IdField

(* Any id, and a nickname that is required, need not be unique and has a   *)
(* default too long for the schema file: UserSchema and this one have rows *)
(* the other refuses.                                                      *)
LongSchema == "id" :> Field("Int", TRUE, FALSE, TRUE, {}, {}) @@
              "nick" :> Field("String", FALSE, FALSE, TRUE, {}, {"huge"})

NickOnly == "nick" :> Field("String", FALSE, TRUE, TRUE, {}, {})

Id(v) == "id" :> v
Nick(v) == "nick" :> v
Row(v, w) == Id(v) @@ Nick(w)

(* One model with two unique fields, one of them optional; OpenSchema is   *)
(* the incompatible schema the same model must refuse, and Nick("a") an    *)
(* insert without the id that is required.                                 *)
OneSchemas == {UserSchema, OpenSchema}
OneInserts == {Id("1"), Id("2"), Row("1", "a"), Row("2", "a"), Nick("a")}
OneUpdates == {Nick("a"), Nick("null"), Id("2")}
OneFilters == {Id("1"), Nick("a"), Nick("null"), Row("2", "a")}

(* Two models that share the index manifest and the schema file, each with *)
(* one unique field.                                                       *)
TwoSchemas == {IdOnly, NickOnly}
TwoInserts == {Id("1"), Id("2"), Nick("a")}
TwoUpdates == {Id("1")}
TwoFilters == {Id("1"), Id("2"), Nick("a")}

(* The calls of a run in which file operations fail.  LongSchema stays in  *)
(* memory when it is refused: Row("3", "a") is then a row UserSchema does  *)
(* not know, and a null nickname one that LongSchema does not.             *)
FaultSchemas == {UserSchema, LongSchema}
FaultInserts == {Nick("a"), Row("1", "a"), Row("3", "a"), Row("2", "long"),
                 Id("2"), Row("1", "huge")}
FaultUpdates == {Nick("null"), Nick("a")}
FaultFilters == {Id("1"), Nick("a")}

(* "long" is encoded by a record but does not fit an index page; "huge" is *)
(* too long for either.                                                    *)
LongInserts == {Row("1", "a"), Row("2", "long"), Id("2"), Row("1", "huge")}
LongUpdates == {Nick("long"), Nick("a")}
LongFilters == {Id("1"), Id("2"), Nick("a"), Nick("long")}

LongTwoInserts == {Nick("a"), Nick("long"), Id("1")}
LongTwoUpdates == {Nick("long")}
LongTwoFilters == {Nick("a"), Nick("long")}
=============================================================================
