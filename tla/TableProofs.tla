---------------------------- MODULE TableProofs ----------------------------
(***************************************************************************)
(* Lemmas about the operators of TableRows, and their proofs, checked by   *)
(* TLAPS for every value of the constants.                                 *)
(***************************************************************************)
EXTENDS TableRows, WellFoundedInduction, TLAPS

(* A set of row ids that is not empty has a least and a greatest element.  *)
LEMMA LeastId ==
    ASSUME NEW S, S \subseteq RowIds, S # {}
    PROVE  \E x \in S : \A y \in S : x <= y
<1> DEFINE R == OpToRel(<, Nat)
<1>1. S \subseteq Nat
  BY TableAssumption DEF RowIds
<1>2. PICK x \in S : \A y \in S : <<y, x>> \notin R
  BY <1>1, WFMin, NatLessThanWellFounded
<1>3. \A y \in S : ~(y < x)
  BY <1>1, <1>2 DEF OpToRel
<1> QED  BY <1>1, <1>3

(* Some row ids that are not none have a greatest one.                     *)
LEMMA GreatestId ==
    ASSUME NEW S, S \subseteq RowIds, S # {}
    PROVE  \E x \in S : \A y \in S : y <= x
<1> DEFINE T == {MaxRowId + 1 - y : y \in S}
<1>1. T \subseteq RowIds /\ T # {}
  <2>1. \A y \in S : y \in Nat /\ 1 <= y /\ y <= MaxRowId
    BY TableAssumption DEF RowIds
  <2>2. \A y \in S : MaxRowId + 1 - y \in RowIds
    BY <2>1, TableAssumption DEF RowIds
  <2> QED  BY <2>2
<1>2. PICK t \in T : \A u \in T : t <= u
  BY <1>1, LeastId
<1>3. PICK x \in S : t = MaxRowId + 1 - x
  BY <1>2
<1>4. ASSUME NEW y \in S PROVE y <= x
  <2>1. MaxRowId + 1 - x <= MaxRowId + 1 - y
    BY <1>2, <1>3
  <2> QED  BY <2>1, TableAssumption DEF RowIds
<1> QED  BY <1>4

(* The id handed out next is a row id, and is above every id in use unless *)
(* the counter is saturated.                                               *)
LEMMA NextRowIdAbove ==
    ASSUME NEW t \in Tables
    PROVE  /\ NextRowId(t) \in RowIds
           /\ \A id \in UsedIds(t) : id < NextRowId(t) \/ NextRowId(t) = MaxRowId
<1>1. CASE UsedIds(t) = {}
  BY <1>1, TableAssumption DEF NextRowId, RowIds
<1>2. CASE UsedIds(t) # {}
  <2> DEFINE top == CHOOSE id \in UsedIds(t) :
                        \A other \in UsedIds(t) : other <= id
  <2>1. UsedIds(t) \subseteq RowIds
    BY DEF UsedIds
  <2>2. top \in UsedIds(t) /\ \A other \in UsedIds(t) : other <= top
    BY <1>2, <2>1, GreatestId
  <2>3. NextRowId(t) = SaturatingNext(top)
    BY <1>2 DEF NextRowId
  <2> HIDE DEF top
  <2> QED  BY <2>1, <2>2, <2>3, TableAssumption DEF SaturatingNext, RowIds
<1> QED  BY <1>1, <1>2

(* The row a scan finds is a live row that matches, 0 when there is none.  *)
LEMMA FirstMatchMatches ==
    ASSUME NEW t \in Tables, NEW filters
    PROVE  /\ MatchingIds(t, filters) = {} => FirstMatch(t, filters) = 0
           /\ MatchingIds(t, filters) # {} =>
                 FirstMatch(t, filters) \in MatchingIds(t, filters)
<1>1. MatchingIds(t, filters) \subseteq RowIds
  BY DEF MatchingIds, LiveIds
<1> QED  BY <1>1, LeastId DEF FirstMatch

-----------------------------------------------------------------------------
(* What the operations of a table log leave is again a table file.         *)
LEMMA EmptyTableType == EmptyTable \in Tables /\ UsedIds(EmptyTable) = {}
<1>1. EmptyRecord \in [{} -> Values]
  BY DEF EmptyRecord
<1>2. EmptyRecord \in Record
  BY <1>1 DEF Record
<1> QED  BY <1>2 DEF EmptyTable, Tables, Cell, NoRow, UsedIds

(* The cells the operations of a log write.                                *)
LEMMA CellTypes ==
    /\ EmptyRecord \in Record
    /\ DeadRow \in Cell
    /\ \A r \in Record : LiveRow(r) \in Cell
<1>1. EmptyRecord \in [{} -> Values]
  BY DEF EmptyRecord
<1>2. EmptyRecord \in Record
  BY <1>1 DEF Record
<1> QED  BY <1>2 DEF Cell, DeadRow, LiveRow

(* Replay of an operation gives a table file.                              *)
LEMMA ReplayTypes ==
    ASSUME NEW file \in TableFiles, NEW id \in RowIds, NEW record \in Record
    PROVE  /\ ReplayInsert(file, id, record) \in TableFiles
           /\ ReplayUpdate(file, id, record) \in TableFiles
           /\ ReplayDelete(file, id) \in TableFiles
<1>1. CASE Readable(file)
  <2>1. file \in Tables
    BY <1>1 DEF TableFiles, Readable
  <2>2. /\ [file EXCEPT ![id] = LiveRow(record)] \in Tables
        /\ [file EXCEPT ![id] = DeadRow] \in Tables
    BY <2>1, CellTypes DEF Tables
  <2> QED  BY <1>1, <2>2 DEF ReplayInsert, ReplayUpdate, ReplayDelete, Refused, TableFiles
<1>2. CASE ~Readable(file)
  BY <1>2 DEF ReplayInsert, ReplayUpdate, ReplayDelete, Refused
<1> QED  BY <1>1, <1>2
=============================================================================
