---------------------------- MODULE MCIndexFile ----------------------------
(***************************************************************************)
(* An index file over bytes of two bits, integers of one byte and pages    *)
(* with room for two or three of the shorter keys.                         *)
(***************************************************************************)
EXTENDS IndexFile

(* One string key exactly fills a leaf page, one is a byte too long.       *)
Repeated(n) == StringValue([i \in 1..n |-> 3])
Filling == Repeated(PageSize - PageHeader - EntryLen(<<>>) - 1)
TooLongString == Repeated(PageSize - PageHeader - EntryLen(<<>>))

SomeIntegers == {IntValue(-2), IntValue(-1), IntValue(0), IntValue(1)}
Strings == {StringValue(<<>>), StringValue(<<0>>), StringValue(<<0, 3>>)}
Short == {NullValue, BoolValue(0), BoolValue(1)} \cup SomeIntegers \cup Strings

MCValues == Short \cup {Filling, TooLongString}

(* The row id a value is saved with: its place among the values.           *)
MCRowId(v) == 1 + Cardinality({w \in MCValues : KeyLess(encode_key(w), encode_key(v))})

RowIdOf == [v \in MCValues |-> MCRowId(v)]

MCRowIds == 1..Cardinality(MCValues)

MapOn(S) == {<<v, RowIdOf[v]>> : v \in S}

Refused == MapOn({NullValue, TooLongString})

(* Keys of four lengths: null and an integer together fill a page to its   *)
(* last byte, null and the string miss it by one.                          *)
Boundary == {NullValue, IntValue(-1), StringValue(<<0, 3>>), Filling}

All == Short \cup {Filling}

(* Saved over each other: few values, all, all but one, integers alone.    *)
MCSaves ==
    {MapOn(S) : S \in SUBSET Boundary \cup {All \ {v} : v \in All} \cup {All, SomeIntegers}}
    \cup {Refused}
=============================================================================
