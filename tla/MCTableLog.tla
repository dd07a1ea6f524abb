----------------------------- MODULE MCTableLog -----------------------------
(***************************************************************************)
(* Bytes of four values, integers of two bytes and strings of up to three. *)
(* A record has an integer and a string; one string is as long as a string *)
(* may be, one is too long for a record.                                   *)
(***************************************************************************)
EXTENDS TableLog, TLC

Id == <<1>>
Name == <<1, 0>>

Long == StringValue(<<2, 1, 0>>)
Huge == StringValue(<<1, 1, 1, 1>>)

MCFields == {Id, Name}
MCValues == {NullValue, IntValue(-2), IntValue(1), Long, Huge}

MCTypeOf == [v \in MCValues |->
    CASE v.type = "null"   -> "Null"
      [] v.type = "int"    -> "Int"
      [] v.type = "string" -> "String"]

MCIntOf == [v \in {u \in MCValues : u.type = "int"} |-> v.payload[1]]

Row(id, name) == Id :> id @@ Name :> name

Plain == Row(IntValue(-2), NullValue)
MCRecords == {Plain, Row(IntValue(1), Long), Row(IntValue(1), Huge)}

MCLegacyFiles == {<<Plain>>, <<Row(IntValue(1), Long), Plain>>}

MCTextBytes == {0, 1, 2}
MCTableMagic == <<3, 3, 3>>
=============================================================================
