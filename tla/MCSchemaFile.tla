---------------------------- MODULE MCSchemaFile ----------------------------
(***************************************************************************)
(* Bytes of four values, integers of two bytes and strings of up to three. *)
(* The schemas have every kind of default and of range between them; the   *)
(* default of the last is too long to be written.                          *)
(***************************************************************************)
EXTENDS SchemaFile, TLC

User == <<1>>
Order == <<1, 2>>

Id == <<0>>
Name == <<2, 1>>

Text == StringValue(<<2, 0>>)
Huge == StringValue(<<1, 1, 1, 1>>)

MCModels == {User, Order}
MCFields == {Id, Name}
MCValues == {NullValue, IntValue(-3), BoolValue(1), Text, Huge}

MCTypeOf == [v \in MCValues |->
    CASE v.type = "null"   -> "Null"
      [] v.type = "int"    -> "Int"
      [] v.type = "bool"   -> "Bool"
      [] v.type = "string" -> "String"]

MCIntOf == [v \in {u \in MCValues : u.type = "int"} |-> v.payload[1]]

Field(type, id, unique, required, range, default) ==
    [data_type |-> type, id |-> id, unique |-> unique, required |-> required,
     range |-> range, default |-> default]

IdField == Field("Int", TRUE, FALSE, TRUE, {<<-3, 5>>}, {})

Two == Id :> IdField @@ Name :> Field("String", FALSE, TRUE, FALSE, {}, {Text})

One(default) == Name :> Field("Int", FALSE, FALSE, TRUE, {}, {default})

MCSchemas == {Two, EmptyRecord} \cup
             {One(v) : v \in {IntValue(-3), BoolValue(1), Huge}}

MCTextBytes == {0, 1, 2}
MCSchemaMagic == <<3, 3, 1>>
=============================================================================
