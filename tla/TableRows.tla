----------------------------- MODULE TableRows -----------------------------
(***************************************************************************)
(* The rows of one table and how an operation of the table log changes     *)
(* them.  A table is a function from row ids to cells: "none" for an id    *)
(* that was never inserted, "live" and "dead" for StoredRow with deleted   *)
(* false and true.  Rows are pushed in the order of their ids, so the      *)
(* order of the Vec is the order of the ids.                               *)
(*                                                                         *)
(* What a table file holds is represented by what load_rows makes of it:   *)
(* a table, Torn when an append was cut short and the bytes no longer      *)
(* parse, or Corrupt when every operation parses but replay refuses one.   *)
(***************************************************************************)
EXTENDS Schema

CONSTANTS MaxRowId,     \* the largest row id (u64::MAX in the code)
          Torn,         \* a file whose bytes end in the middle of a write
          Corrupt       \* a log whose operations contradict each other

RowIds == 1..MaxRowId

Cell == [state : {"none", "live", "dead"}, record : Record]

Tables == [RowIds -> Cell]

ASSUME TableAssumption ==
          /\ MaxRowId \in Nat \ {0}
          /\ Torn # Corrupt
          /\ Torn \notin Tables
          /\ Corrupt \notin Tables

TableFiles == Tables \cup {Torn, Corrupt}

Readable(file) == file \notin {Torn, Corrupt}

(* The record of a deleted row is kept by the code but never read again.   *)
NoRow == [state |-> "none", record |-> EmptyRecord]
DeadRow == [state |-> "dead", record |-> EmptyRecord]
LiveRow(record) == [state |-> "live", record |-> record]

EmptyTable == [id \in RowIds |-> NoRow]

UsedIds(table) == {id \in RowIds : table[id].state # "none"}
LiveIds(table) == {id \in RowIds : table[id].state = "live"}

(***************************************************************************)
(* A definition marked "seeded defect" is not part of the model.  It is    *)
(* what the definition after it would be with a plausible mistake in the   *)
(* code, and shows that a property would notice the mistake.               *)
(***************************************************************************)
(* Seeded defect: the counter does not advance.                            *)
SameId(id) == id

(* row_id.saturating_add(1).max(1)                                         *)
SaturatingNext(id) == IF id < MaxRowId THEN id + 1 ELSE MaxRowId

(* Seeded defect: deleted rows are forgotten.                              *)
NextLiveId(table) ==
    IF LiveIds(table) = {}
    THEN 1
    ELSE SaturatingNext(CHOOSE id \in LiveIds(table) :
                            \A other \in LiveIds(table) : other <= id)

(* The id after the largest one in use: next_row_id of TableLoad.          *)
NextRowId(table) ==
    IF UsedIds(table) = {}
    THEN 1
    ELSE SaturatingNext(CHOOSE id \in UsedIds(table) :
                            \A other \in UsedIds(table) : other <= id)

(* The first row of the Vec that matches the filters, 0 when none does.    *)
MatchingIds(table, filters) ==
    {id \in LiveIds(table) : Matches(table[id].record, filters)}

FirstMatch(table, filters) ==
    IF MatchingIds(table, filters) = {}
    THEN 0
    ELSE CHOOSE id \in MatchingIds(table, filters) :
             \A other \in MatchingIds(table, filters) : id <= other

(***************************************************************************)
(* replay_operations, one operation at a time: an insert must use a new    *)
(* row id, an update and a delete must name a live row (live_position).    *)
(* A file that no longer parses stays so whatever is appended to it.       *)
(***************************************************************************)
Refused(file) == IF Readable(file) THEN Corrupt ELSE file

ReplayInsert(file, id, record) ==
    IF Readable(file) /\ id \notin UsedIds(file)
    THEN [file EXCEPT ![id] = LiveRow(record)]
    ELSE Refused(file)

ReplayUpdate(file, id, record) ==
    IF Readable(file) /\ id \in LiveIds(file)
    THEN [file EXCEPT ![id] = LiveRow(record)]
    ELSE Refused(file)

ReplayDelete(file, id) ==
    IF Readable(file) /\ id \in LiveIds(file)
    THEN [file EXCEPT ![id] = DeadRow]
    ELSE Refused(file)
=============================================================================
