----------------------------- MODULE JsonProofs -----------------------------
(***************************************************************************)
(* The JSON engine, for every value of the constants and under every       *)
(* failure the model has.  TypeOK is not inductive by itself: that a call  *)
(* in its later steps has a schema and rows to work on is what its first   *)
(* step established, which CallInv records.  The properties of the rows    *)
(* follow one from the other: types, then valid rows, then distinct rows.  *)
(***************************************************************************)
EXTENDS JsonEngine, SequenceTheorems, WellFoundedInduction, TLAPS

CallInv ==
    /\ pc # "down" /\ pc # "idle" => schemas[model] # None
    /\ pc \in {"write_schema", "save_rows"} => rows[model] # None
    /\ \A m \in Models : schemas[m] # None => schemas[m] \in given[m]

JsonInv == TypeOK /\ CallInv

-----------------------------------------------------------------------------
(* A row normalised under a schema is a record.                            *)
LEMMA RowTypes ==
    ASSUME NEW schema \in Schemas, NEW values \in Record
    PROVE  NormalizeRow(schema, values) \in Record
<1>1. PICK D \in SUBSET Fields : schema \in [D -> FieldSchema]
  BY JsonAssumption DEF IsModelSchema
<1>2. \A f \in DOMAIN values : values[f] \in Values
  BY DEF Record
<1>3. \A field \in FieldSchema : Default(field) \in Values
  BY ValuesAssumption DEF FieldSchema, Default
<1>4. \A f \in D : FieldValue(schema[f], f, values) \in Values
  BY <1>1, <1>2, <1>3 DEF FieldValue
<1>5. NormalizeRow(schema, values) \in [D -> Values]
  BY <1>1, <1>4 DEF NormalizeRow
<1> QED  BY <1>5 DEF Record

(* So is an updated row.                                                   *)
LEMMA UpdatedTypes ==
    ASSUME NEW schema \in Schemas, NEW old \in Record, NEW values \in Record
    PROVE  UpdatedRow(schema, old, values) \in Record
<1>1. /\ DOMAIN old \cup DOMAIN values \in SUBSET Fields
      /\ \A f \in DOMAIN old : old[f] \in Values
      /\ \A f \in DOMAIN values : values[f] \in Values
  BY DEF Record
<1>2. MergeRecord(old, values) \in [DOMAIN old \cup DOMAIN values -> Values]
  BY <1>1 DEF MergeRecord
<1>3. MergeRecord(old, values) \in Record
  BY <1>1, <1>2 DEF Record
<1> QED  BY <1>3, RowTypes DEF UpdatedRow

(* A row that validation accepts is valid under the schema.                *)
LEMMA AcceptedIsValid ==
    ASSUME NEW schema, NEW values, Accepts(schema, values)
    PROVE  ValidRow(schema, NormalizeRow(schema, values))
BY DEF Accepts, Normalizes, ValidRow, NormalizeRow

(* So is an updated row that validation accepts.                           *)
LEMMA AcceptedUpdateIsValid ==
    ASSUME NEW schema, NEW old, NEW values, AcceptsUpdatedRow(schema, old, values)
    PROVE  ValidRow(schema, UpdatedRow(schema, old, values))
BY DEF AcceptsUpdatedRow, ValidRow, UpdatedRow, NormalizeRow

(* A set of places has a least one.                                        *)
LEMMA LeastPlace ==
    ASSUME NEW S, S \subseteq Nat, S # {}
    PROVE  \E x \in S : \A y \in S : x <= y
<1> DEFINE R == OpToRel(<, Nat)
<1>1. PICK x \in S : \A y \in S : <<y, x>> \notin R
  BY WFMin, NatLessThanWellFounded
<1>2. \A y \in S : ~(y < x)
  BY <1>1 DEF OpToRel
<1> QED  BY <1>2

(* Position returns a place in the list.                                   *)
LEMMA PositionInList ==
    ASSUME NEW list \in Lists, NEW filters, Position(list, filters) # 0
    PROVE  Position(list, filters) \in 1..Len(list)
<1> DEFINE S == MatchingRows(list, filters)
<1>1. S # {} /\ S \subseteq 1..Len(list) /\ Len(list) \in Nat
  BY LenProperties DEF Position, MatchingRows, Lists
<1>2. S \subseteq Nat
  BY <1>1
<1>3. Position(list, filters) = CHOOSE k \in S : \A j \in S : k <= j
  BY <1>1 DEF Position
<1> HIDE DEF S
<1> QED  BY <1>1, <1>2, <1>3, LeastPlace

(* The list without one of its places is a list whose rows are rows of the *)
(* first, in other places.                                                 *)
LEMMA WithoutProperties ==
    ASSUME NEW list \in Lists, NEW i \in 1..Len(list)
    PROVE  /\ Without(list, i) \in Lists
           /\ DOMAIN Without(list, i) = 1..(Len(list) - 1)
           /\ \A j \in 1..(Len(list) - 1) :
                 /\ j < i => Without(list, i)[j] = list[j]
                 /\ j >= i => Without(list, i)[j] = list[j + 1]
<1>1. Len(list) \in Nat /\ list \in [1..Len(list) -> Record]
  BY LenProperties DEF Lists
<1>2. Without(list, i) \in [1..(Len(list) - 1) -> Record]
  BY <1>1 DEF Without
<1>3. Len(list) - 1 \in Nat
  BY <1>1
<1>4. Without(list, i) \in Seq(Record)
  BY <1>2, <1>3, SeqDef
<1> QED  BY <1>1, <1>2, <1>4 DEF Without, Lists

-----------------------------------------------------------------------------
(* What insert, update and delete make of the rows of a model is a list.   *)
LEMMA ListTypes ==
    ASSUME JsonInv, NEW m \in tables
    PROVE  /\ m \in Models /\ schemas[m] \in Schemas /\ rows[m] \in Lists
           /\ schemas[m] # None /\ rows[m] # None
           /\ schemas[m] \in given[m] /\ given[m] \subseteq Schemas
           /\ \A row \in Record : Append(rows[m], row) \in Lists
           /\ \A i \in 1..Len(rows[m]) :
                 /\ rows[m][i] \in Record
                 /\ \A row \in Record : [rows[m] EXCEPT ![i] = row] \in Lists
<1>1. /\ m \in Models /\ schemas[m] \in Schemas /\ rows[m] \in Lists
      /\ schemas[m] # None /\ rows[m] # None
      /\ schemas[m] \in given[m] /\ given[m] \subseteq Schemas
  BY DEF JsonInv, TypeOK, CallInv
<1> QED  BY <1>1, AppendProperties, ElementOfSeq, ExceptSeq DEF Lists

(* Changing a list keeps the types.                                        *)
LEMMA ChangeTypes ==
    ASSUME JsonInv, pc = "idle", NEW m \in tables, NEW list \in Lists,
           Change(m, list)
    PROVE  JsonInv'
<1>1. list # None
  BY JsonAssumption DEF Lists
<1> QED  BY <1>1, ListTypes, JsonAssumption
         DEF JsonInv, TypeOK, CallInv, Change, files

(* Every step keeps the types.                                             *)
LEMMA TypesStep == JsonInv /\ [Next]_vars => JsonInv'
<1> SUFFICES ASSUME JsonInv, [Next]_vars
             PROVE  JsonInv'
  OBVIOUS
<1> USE JsonAssumption
<1>1. CASE Open
  BY <1>1 DEF JsonInv, TypeOK, CallInv, Open, Return, files, memory
<1>2. CASE LoadRows
  <2>1. rowsFile[model] # Torn => Contents(rowsFile[model]) \in Lists /\ model \in Models
    BY <1>2, EmptySeq DEF JsonInv, TypeOK, LoadRows, Contents, Lists
  <2>2. rowsFile[model] # Torn => Contents(rowsFile[model]) # None
    BY <2>1 DEF Lists
  <2> QED  BY <1>2, <2>1, <2>2 DEF JsonInv, TypeOK, CallInv, LoadRows, Return, files
<1>3. CASE WriteSchema
  BY <1>3 DEF JsonInv, TypeOK, CallInv, WriteSchema, Return
<1>4. CASE SaveRows
  BY <1>4 DEF JsonInv, TypeOK, CallInv, SaveRows, Return, memory
<1>5. ASSUME NEW m \in Models, NEW schema \in Schemas, Register(m, schema)
      PROVE  JsonInv'
  BY <1>5 DEF JsonInv, TypeOK, CallInv, Register, files
<1>6. ASSUME NEW m \in Models, NEW values \in Inserts, Insert(m, values)
      PROVE  JsonInv'
  BY <1>6, ListTypes, RowTypes, ChangeTypes DEF Insert
<1>7. ASSUME NEW m \in Models, NEW filters \in Filters, NEW values \in Updates,
             Update(m, filters, values)
      PROVE  JsonInv'
  BY <1>7, ListTypes, PositionInList, UpdatedTypes, ChangeTypes DEF Update, Found
<1>8. ASSUME NEW m \in Models, NEW filters \in Filters, Delete(m, filters)
      PROVE  JsonInv'
  BY <1>8, ListTypes, PositionInList, WithoutProperties, ChangeTypes DEF Delete, Found
<1>9. CASE Crash
  BY <1>9 DEF JsonInv, TypeOK, CallInv, Crash, PartialWrite, Nothing, files
<1>10. CASE IoError
  BY <1>10 DEF JsonInv, TypeOK, CallInv, IoError, PartialWrite, Return, files, memory
<1>11. CASE UNCHANGED vars
  BY <1>11 DEF JsonInv, TypeOK, CallInv, vars
<1> QED  BY <1>1, <1>2, <1>3, <1>4, <1>5, <1>6, <1>7, <1>8, <1>9, <1>10, <1>11 DEF Next

(* The types, with what CallInv adds, hold in every behaviour.             *)
LEMMA TypesHold == Spec => []JsonInv
<1>1. Init => JsonInv
  BY JsonAssumption DEF Init, JsonInv, TypeOK, CallInv, Nothing
<1> QED  BY <1>1, TypesStep, PTL DEF Spec

(* Every variable holds a value of its kind, and the caller has a Table    *)
(* only for a model with a schema and rows in memory, through failed       *)
(* registrations, failed saves and stops.                                  *)
THEOREM JsonTypes == Spec => []TypeOK
BY TypesHold, PTL DEF JsonInv

-----------------------------------------------------------------------------
(***************************************************************************)
(* Valid rows.                                                             *)
(***************************************************************************)
ValidList(m, list) ==
    \A i \in DOMAIN list : \E schema \in given[m] : ValidRow(schema, list[i])

(* A changed list of valid rows, with a row that is valid, is valid.       *)
LEMMA ChangeKeepsValid ==
    ASSUME RowsValid, pc = "idle", NEW m \in Models, NEW list, Change(m, list),
           ValidList(m, list)
    PROVE  RowsValid'
<1>1. given' = given /\ rowsFile' = rowsFile /\ rows' = [rows EXCEPT ![m] = list]
  BY DEF Change, files
<1>2. ASSUME NEW n \in Models, NEW l \in ListsOf(n)' PROVE ValidList(n, l)
  <2>1. l \in ListsOf(n) \/ (n = m /\ l = list)
    BY <1>1, <1>2 DEF ListsOf
  <2> QED  BY <2>1 DEF RowsValid, ValidList
<1> QED  BY <1>1, <1>2 DEF RowsValid, ValidList

(* A list that was in memory or in the file before is valid.               *)
LEMMA OldListsValid ==
    ASSUME RowsValid, \A m \in Models : given[m] \subseteq given'[m],
           \A m \in Models : ListsOf(m)' \subseteq ListsOf(m) \cup {<<>>}
    PROVE  RowsValid'
<1>1. DOMAIN <<>> = {}
  OBVIOUS
<1> QED  BY <1>1 DEF RowsValid

(* The steps that change no list of rows but by copying, clearing or       *)
(* spoiling one.                                                           *)
LEMMA NoNewLists ==
    ASSUME JsonInv, [Next]_vars, ~(pc = "idle" /\ pc' = "save_rows")
    PROVE  /\ \A m \in Models : ListsOf(m)' \subseteq ListsOf(m) \cup {<<>>}
           /\ \A m \in Models : given[m] \subseteq given'[m]
<1> USE DEF ListsOf
<1>1. /\ rows \in [Models -> Lists \cup {None}]
      /\ rowsFile \in [Models -> Lists \cup {None, Torn}]
      /\ given \in [Models -> SUBSET Schemas]
      /\ model \in Models \cup {None}
      /\ pc \in {"load_rows", "write_schema", "save_rows"} => model \in Models
  BY DEF JsonInv, TypeOK
<1>2. CASE LoadRows
  BY <1>1, <1>2 DEF LoadRows, Contents, Return, files
<1>3. CASE SaveRows
  BY <1>1, <1>3 DEF SaveRows, memory
<1>4. CASE Crash
  BY <1>1, <1>4 DEF Crash, PartialWrite, Nothing, files
<1>5. CASE IoError
  BY <1>1, <1>5 DEF IoError, PartialWrite, files, memory
<1>6. CASE Open \/ WriteSchema \/ UNCHANGED vars
  BY <1>6 DEF Open, WriteSchema, vars, files, memory
<1>7. ASSUME NEW m \in Models, NEW schema \in Schemas, Register(m, schema)
      PROVE  /\ \A n \in Models : ListsOf(n)' \subseteq ListsOf(n) \cup {<<>>}
             /\ \A n \in Models : given[n] \subseteq given'[n]
  BY <1>1, <1>7 DEF Register, files
<1>8. ASSUME NEW m \in Models,
             \/ \E values \in Inserts : Insert(m, values)
             \/ \E filters \in Filters, values \in Updates : Update(m, filters, values)
             \/ \E filters \in Filters : Delete(m, filters)
      PROVE  FALSE
  BY <1>8 DEF Insert, Update, Delete, Found, Change
<1> QED  BY <1>2, <1>3, <1>4, <1>5, <1>6, <1>7, <1>8 DEF Next

(* The other steps: insert, update and delete, which change the list of    *)
(* one model.                                                              *)
LEMMA ChangingSteps ==
    ASSUME [Next]_vars, pc = "idle", pc' = "save_rows"
    PROVE  \E m \in Models :
              \/ \E values \in Inserts : Insert(m, values)
              \/ \E filters \in Filters, values \in Updates : Update(m, filters, values)
              \/ \E filters \in Filters : Delete(m, filters)
BY DEF Next, Open, LoadRows, WriteSchema, SaveRows, Register, Crash, IoError,
       Return, vars

(* Every step keeps the rows valid.                                        *)
LEMMA ValidStep == JsonInv /\ RowsValid /\ [Next]_vars => RowsValid'
<1> SUFFICES ASSUME JsonInv, RowsValid, [Next]_vars, pc = "idle", pc' = "save_rows"
             PROVE  RowsValid'
  BY NoNewLists, OldListsValid
<1> USE JsonAssumption
<1>1. ASSUME NEW m \in tables
      PROVE  /\ m \in Models /\ schemas[m] \in given[m]
             /\ ValidList(m, rows[m])
             /\ DOMAIN rows[m] = 1..Len(rows[m]) /\ Len(rows[m]) \in Nat
  BY ListTypes, LenProperties DEF ListsOf, RowsValid, ValidList, Lists
<1>2. ASSUME NEW m \in Models, NEW values \in Inserts, Insert(m, values)
      PROVE  RowsValid'
  <2> DEFINE row == NormalizeRow(schemas[m], values)
             list == Append(rows[m], row)
  <2>1. m \in tables /\ Change(m, list) /\ ValidRow(schemas[m], row) /\ row \in Record
    BY <1>2, ListTypes, RowTypes, AcceptedIsValid DEF Insert
  <2>2. /\ DOMAIN list = 1..(Len(rows[m]) + 1)
        /\ \A i \in 1..Len(rows[m]) : list[i] = rows[m][i]
        /\ list[Len(rows[m]) + 1] = row
    BY <2>1, ListTypes, AppendProperties, LenProperties DEF Lists
  <2>3. ValidList(m, list)
    <3> HIDE DEF list, row
    <3> QED  BY <1>1, <2>1, <2>2 DEF ValidList
  <2> QED  BY <2>1, <2>3, ChangeKeepsValid
<1>3. ASSUME NEW m \in Models, NEW filters \in Filters, NEW values \in Updates,
             Update(m, filters, values)
      PROVE  RowsValid'
  <2> DEFINE i == Position(rows[m], filters)
             row == UpdatedRow(schemas[m], rows[m][i], values)
             list == [rows[m] EXCEPT ![i] = row]
  <2>1. m \in tables /\ Change(m, list) /\ ValidRow(schemas[m], row)
    BY <1>3, AcceptedUpdateIsValid DEF Update, Found
  <2>2. DOMAIN list = DOMAIN rows[m] /\ \A j \in DOMAIN list : list[j] \in {row, rows[m][j]}
    OBVIOUS
  <2>3. ValidList(m, list)
    <3> HIDE DEF list, row
    <3> QED  BY <1>1, <2>1, <2>2 DEF ValidList
  <2> QED  BY <2>1, <2>3, ChangeKeepsValid
<1>4. ASSUME NEW m \in Models, NEW filters \in Filters, Delete(m, filters)
      PROVE  RowsValid'
  <2> DEFINE i == Position(rows[m], filters)
             list == Without(rows[m], i)
  <2>1. m \in tables /\ Change(m, list) /\ i \in 1..Len(rows[m])
    BY <1>4, ListTypes, PositionInList DEF Delete, Found
  <2>2. /\ DOMAIN list = 1..(Len(rows[m]) - 1)
        /\ \A j \in DOMAIN list : list[j] \in {rows[m][j], rows[m][j + 1]}
    BY <1>1, <2>1, ListTypes, WithoutProperties, SMTT(60)
  <2>3. ValidList(m, list)
    <3> HIDE DEF list, i
    <3>1. ASSUME NEW j \in DOMAIN list
          PROVE  j \in DOMAIN rows[m] /\ j + 1 \in DOMAIN rows[m]
      BY <1>1, <2>1, <2>2
    <3> QED  BY <1>1, <2>1, <2>2, <3>1 DEF ValidList
  <2> QED  BY <2>1, <2>3, ChangeKeepsValid
<1> QED  BY <1>2, <1>3, <1>4, ChangingSteps

(* Every row is valid as a whole under one contract its model was given.   *)
THEOREM JsonRowsValid == Spec => []RowsValid
<1>1. Init => RowsValid
  BY DEF Init, RowsValid, ListsOf, Nothing
<1> QED  BY <1>1, ValidStep, TypesHold, PTL DEF Spec

-----------------------------------------------------------------------------
(***************************************************************************)
(* Unique rows.                                                            *)
(***************************************************************************)
(* When no new list comes up, a model's first registration included: the   *)
(* lists of a model that was never given a contract have no rows.          *)
LEMMA OldListsDistinct ==
    ASSUME RowsValid, UniqueRows,
           \A m \in Models : ListsOf(m)' \subseteq ListsOf(m) \cup {<<>>},
           \A m \in Models : given[m] \subseteq given'[m]
    PROVE  UniqueRows'
<1> SUFFICES ASSUME NEW m \in Models, NEW schema, given'[m] = {schema},
                    NEW list \in ListsOf(m)'
             PROVE  DistinctRows(schema, list)
  BY DEF UniqueRows
<1>1. given[m] = {} \/ given[m] = {schema}
  OBVIOUS
<1>2. CASE list = <<>>
  BY <1>2 DEF DistinctRows
<1>3. CASE list \in ListsOf(m) /\ given[m] = {}
  BY <1>3 DEF RowsValid, DistinctRows
<1>4. CASE list \in ListsOf(m) /\ given[m] = {schema}
  BY <1>4 DEF UniqueRows
<1> QED  BY <1>1, <1>2, <1>3, <1>4

(* A changed list of distinct rows.                                        *)
LEMMA ChangeKeepsDistinct ==
    ASSUME JsonInv, UniqueRows, pc = "idle", NEW m \in tables, NEW list, Change(m, list),
           given[m] = {schemas[m]} => DistinctRows(schemas[m], list)
    PROVE  UniqueRows'
<1>1. given' = given /\ rowsFile' = rowsFile /\ rows' = [rows EXCEPT ![m] = list]
  BY DEF Change, files
<1>2. schemas[m] \in given[m]
  BY ListTypes
<1> SUFFICES ASSUME NEW n \in Models, NEW schema, given[n] = {schema},
                    NEW l \in ListsOf(n)'
             PROVE  DistinctRows(schema, l)
  BY <1>1 DEF UniqueRows
<1>3. l \in ListsOf(n) \/ (n = m /\ l = list)
  BY <1>1 DEF ListsOf, JsonInv, TypeOK
<1> QED  BY <1>2, <1>3 DEF UniqueRows

(* Every step keeps the rows of a model distinct.                          *)
LEMMA UniqueStep ==
    JsonInv /\ RowsValid /\ UniqueRows /\ [Next]_vars => UniqueRows'
<1> SUFFICES ASSUME JsonInv, RowsValid, UniqueRows, [Next]_vars,
                    pc = "idle", pc' = "save_rows"
             PROVE  UniqueRows'
  BY NoNewLists, OldListsDistinct
<1> USE JsonAssumption
<1>1. ASSUME NEW m \in tables, given[m] = {schemas[m]}
      PROVE  DistinctRows(schemas[m], rows[m])
  BY <1>1, ListTypes DEF ListsOf, UniqueRows, Lists
<1>2. ASSUME NEW m \in tables
      PROVE  /\ rows[m] \in Lists
             /\ DOMAIN rows[m] = 1..Len(rows[m]) /\ Len(rows[m]) \in Nat
  BY ListTypes, LenProperties DEF Lists
<1>3. \A v, w : Same(v, w) <=> Same(w, v)
  BY DEF Same
<1>4. ASSUME NEW m \in Models, NEW values \in Inserts, Insert(m, values)
      PROVE  UniqueRows'
  <2> DEFINE row == NormalizeRow(schemas[m], values)
             list == Append(rows[m], row)
             last == Len(rows[m]) + 1
  <2>1. /\ m \in tables /\ Change(m, list) /\ row \in Record
        /\ ~Duplicate(schemas[m], rows[m], row, 0)
    BY <1>4, ListTypes, RowTypes DEF Insert
  <2>2. /\ DOMAIN list = 1..last
        /\ \A i \in 1..Len(rows[m]) : list[i] = rows[m][i]
        /\ list[last] = row
    BY <2>1, ListTypes, AppendProperties, LenProperties DEF Lists
  <2>3. ASSUME NEW i \in DOMAIN rows[m], NEW f \in UniqueFields(schemas[m]),
               f \in DOMAIN rows[m][i], f \in DOMAIN row
        PROVE  ~Same(rows[m][i][f], row[f])
    <3>1. i \in DOMAIN rows[m] \ {0}
      BY <1>2, <2>1
    <3> QED  BY <2>1, <2>3, <3>1 DEF Duplicate, Get
  <2>4. given[m] = {schemas[m]} => DistinctRows(schemas[m], list)
    <3> SUFFICES ASSUME given[m] = {schemas[m]},
                        NEW i \in DOMAIN list, NEW j \in DOMAIN list,
                        NEW f \in UniqueFields(schemas[m]),
                        f \in DOMAIN list[i], f \in DOMAIN list[j],
                        Same(list[i][f], list[j][f])
                 PROVE  i = j
      BY DEF DistinctRows
    <3> HIDE DEF row, list
    <3>1. CASE i \in DOMAIN rows[m] /\ j \in DOMAIN rows[m]
      BY <1>1, <1>2, <2>1, <2>2, <3>1 DEF DistinctRows
    <3>2. CASE i \in DOMAIN rows[m] /\ j = last
      BY <1>2, <2>1, <2>2, <2>3, <3>2
    <3>3. CASE i = last /\ j \in DOMAIN rows[m]
      BY <1>2, <1>3, <2>1, <2>2, <2>3, <3>3
    <3> QED  BY <1>2, <2>1, <2>2, <3>1, <3>2, <3>3
  <2> QED  BY <2>1, <2>4, ChangeKeepsDistinct
<1>5. ASSUME NEW m \in Models, NEW filters \in Filters, NEW values \in Updates,
             Update(m, filters, values)
      PROVE  UniqueRows'
  <2> DEFINE k == Position(rows[m], filters)
             row == UpdatedRow(schemas[m], rows[m][k], values)
             list == [rows[m] EXCEPT ![k] = row]
  <2>1. /\ m \in tables /\ Change(m, list)
        /\ ~Duplicate(schemas[m], rows[m], row, k)
    BY <1>5 DEF Update, Found
  <2>2. /\ DOMAIN list = DOMAIN rows[m]
        /\ \A i \in DOMAIN list : list[i] = IF i = k THEN row ELSE rows[m][i]
    OBVIOUS
  <2>3. ASSUME NEW i \in DOMAIN rows[m] \ {k}, NEW f \in UniqueFields(schemas[m]),
               f \in DOMAIN rows[m][i], f \in DOMAIN row
        PROVE  ~Same(rows[m][i][f], row[f])
    BY <2>1, <2>3 DEF Duplicate, Get
  <2>4. given[m] = {schemas[m]} => DistinctRows(schemas[m], list)
    <3> SUFFICES ASSUME given[m] = {schemas[m]},
                        NEW i \in DOMAIN list, NEW j \in DOMAIN list,
                        NEW f \in UniqueFields(schemas[m]),
                        f \in DOMAIN list[i], f \in DOMAIN list[j],
                        Same(list[i][f], list[j][f])
                 PROVE  i = j
      BY DEF DistinctRows
    <3> HIDE DEF row, list, k
    <3>1. CASE i # k /\ j # k
      BY <1>1, <2>1, <2>2, <3>1 DEF DistinctRows
    <3>2. CASE i # k /\ j = k
      BY <2>2, <2>3, <3>2
    <3>3. CASE i = k /\ j # k
      BY <1>3, <2>2, <2>3, <3>3
    <3> QED  BY <3>1, <3>2, <3>3
  <2> QED  BY <2>1, <2>4, ChangeKeepsDistinct
<1>6. ASSUME NEW m \in Models, NEW filters \in Filters, Delete(m, filters)
      PROVE  UniqueRows'
  <2> DEFINE k == Position(rows[m], filters)
             list == Without(rows[m], k)
             From(i) == IF i < k THEN i ELSE i + 1
  <2>1. m \in tables /\ Change(m, list) /\ k \in 1..Len(rows[m])
    BY <1>6, ListTypes, PositionInList DEF Delete, Found
  <2>2. /\ DOMAIN list = 1..(Len(rows[m]) - 1)
        /\ \A i \in DOMAIN list : list[i] = rows[m][From(i)]
    BY <1>2, <2>1, WithoutProperties
  <2>3. given[m] = {schemas[m]} => DistinctRows(schemas[m], list)
    <3> SUFFICES ASSUME given[m] = {schemas[m]},
                        NEW i \in DOMAIN list, NEW j \in DOMAIN list,
                        NEW f \in UniqueFields(schemas[m]),
                        f \in DOMAIN list[i], f \in DOMAIN list[j],
                        Same(list[i][f], list[j][f])
                 PROVE  i = j
      BY DEF DistinctRows
    <3> HIDE DEF list, k
    <3>1. From(i) \in DOMAIN rows[m] /\ From(j) \in DOMAIN rows[m]
      BY <1>2, <2>1, <2>2
    <3>2. From(i) = From(j)
      BY <1>1, <2>1, <2>2, <3>1 DEF DistinctRows
    <3> QED  BY <1>2, <2>1, <2>2, <3>2
  <2> QED  BY <2>1, <2>3, ChangeKeepsDistinct
<1> QED  BY <1>4, <1>5, <1>6, ChangingSteps

(* A model that was only ever given one contract has no two rows with the  *)
(* same value of a unique field, in memory or in its file.                 *)
THEOREM JsonUniqueRows == Spec => []UniqueRows
<1>1. Init => UniqueRows
  BY DEF Init, UniqueRows
<1>2. Init => RowsValid
  BY DEF Init, RowsValid, ListsOf, Nothing
<1> QED  BY <1>1, <1>2, ValidStep, UniqueStep, TypesHold, PTL DEF Spec

-----------------------------------------------------------------------------
(* Memory and file agree, except for a model that is being saved or whose  *)
(* last save failed.                                                       *)
THEOREM JsonFileMatchesMemory == Spec => []FileMatchesMemory
<1> USE JsonAssumption
<1>1. Init => FileMatchesMemory
  BY DEF Init, FileMatchesMemory, Nothing
<1>2. JsonInv /\ FileMatchesMemory /\ [Next]_vars => FileMatchesMemory'
  <2> SUFFICES ASSUME JsonInv, FileMatchesMemory, [Next]_vars
               PROVE  FileMatchesMemory'
    OBVIOUS
  <2>1. /\ rows \in [Models -> Lists \cup {None}]
        /\ rowsFile \in [Models -> Lists \cup {None, Torn}]
        /\ pc \in {"load_rows", "write_schema", "save_rows"} => model \in Models
        /\ pc = "save_rows" => rows[model] # None
    BY DEF JsonInv, TypeOK, CallInv
  <2>2. CASE Open \/ WriteSchema \/ UNCHANGED vars
    BY <2>2 DEF Open, WriteSchema, Return, vars, files, memory, FileMatchesMemory
  <2>3. CASE LoadRows
    BY <2>1, <2>3 DEF LoadRows, Return, files, FileMatchesMemory, Contents, Lists
  <2>4. CASE SaveRows
    BY <2>1, <2>4 DEF SaveRows, Return, memory, FileMatchesMemory, Contents, Lists
  <2>5. CASE Crash
    BY <2>5 DEF Crash, Nothing, FileMatchesMemory
  <2>6. CASE IoError
    BY <2>1, <2>6 DEF IoError, PartialWrite, Return, files, memory, FileMatchesMemory
  <2>7. ASSUME NEW m \in Models, NEW schema \in Schemas, Register(m, schema)
        PROVE  FileMatchesMemory'
    BY <2>7 DEF Register, files, FileMatchesMemory
  <2>8. ASSUME NEW m \in Models, NEW list, pc = "idle", Change(m, list)
        PROVE  FileMatchesMemory'
    BY <2>1, <2>8 DEF Change, files, FileMatchesMemory
  <2>9. CASE pc = "idle" /\ pc' = "save_rows"
    BY <2>8, <2>9, ChangingSteps DEF Insert, Update, Delete
  <2>10. CASE ~(pc = "idle" /\ pc' = "save_rows")
    BY <2>2, <2>3, <2>4, <2>5, <2>6, <2>7, <2>10
       DEF Next, Insert, Update, Delete, Found, Change
  <2> QED  BY <2>9, <2>10
<1> QED  BY <1>1, <1>2, TypesHold, PTL DEF Spec
=============================================================================
