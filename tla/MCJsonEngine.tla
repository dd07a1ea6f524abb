---------------------------- MODULE MCJsonEngine ----------------------------
(***************************************************************************)
(* One model and two contracts: an id in a range beside a nickname, both   *)
(* unique, and a nickname alone, required and with a default.  Python      *)
(* takes True for 1.                                                       *)
(***************************************************************************)
EXTENDS JsonEngine, TLC

MCFields == {"id", "nick"}
MCValues == {"null", "true", "1", "2", "a", "b"}

MCTypeOf == [v \in MCValues |->
    CASE v = "null"         -> "Null"
      [] v = "true"         -> "Bool"
      [] v \in {"1", "2"}   -> "Int"
      [] v \in {"a", "b"}   -> "String"]

MCIntOf == [v \in {"1", "2"} |-> IF v = "1" THEN 1 ELSE 2]

MCAlike == {<<"1", "true">>}

Field(type, id, unique, required, range, default) ==
    [data_type |-> type, id |-> id, unique |-> unique, required |-> required,
     range |-> range, default |-> default]

Id(v) == "id" :> v
Nick(v) == "nick" :> v

First == "id" :> Field("Int", TRUE, FALSE, TRUE, {<<1, 2>>}, {}) @@
         "nick" :> Field("String", FALSE, TRUE, FALSE, {}, {})

Second == "nick" :> Field("String", FALSE, FALSE, TRUE, {}, {"a"})

MCModels == {"User"}
MCSchemas == {First, Second}
MCInserts == {Id("1"), Id("2"), Id("1") @@ Nick("b"), EmptyRecord, Nick("b")}
MCUpdates == {Nick("a"), Id("1"), Nick("null")}
MCFilters == {Id("true"), Nick("a"), Nick("null"), Id("null")}
=============================================================================
