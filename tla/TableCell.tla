----------------------------- MODULE TableCell -----------------------------
(***************************************************************************)
(* What a table file promises to the engine, and what Engine takes it for: *)
(* it holds one table, which an operation changes as replay does, or it is *)
(* Torn by an operation that was cut short.  A file of the old format      *)
(* takes no operation; it is migrated once, and a migration that is cut    *)
(* short leaves the first rows of the table or a file that does not load.  *)
(***************************************************************************)
EXTENDS TableRows

VARIABLES table,        \* what load_rows gives
          legacy        \* the file has the old format

vars == <<table, legacy>>

Init == table \in Tables /\ legacy \in BOOLEAN

(***************************************************************************)
(* old and new are what the file gives before and after a step.            *)
(***************************************************************************)
Insert(old, new) ==
    \E id \in RowIds, record \in Record : new = ReplayInsert(old, id, record)

Update(old, new) ==
    \E id \in RowIds, record \in Record : new = ReplayUpdate(old, id, record)

Delete(old, new) == \E id \in RowIds : new = ReplayDelete(old, id)

FirstRows(old, n) == [id \in RowIds |-> IF id <= n THEN old[id] ELSE NoRow]

CutMigration(old, new) ==
    Readable(old) /\ \E n \in 0..MaxRowId : new = FirstRows(old, n)

Append(old, new) ==
    /\ ~legacy /\ UNCHANGED legacy
    /\ Insert(old, new) \/ Update(old, new) \/ Delete(old, new) \/ new = Torn

Migrate(old, new) ==
    /\ legacy /\ legacy' = FALSE
    /\ new = old \/ CutMigration(old, new) \/ new = Torn

Next == \E old \in {table}, new \in {table'} : Append(old, new) \/ Migrate(old, new)

Spec == Init /\ [][Next]_vars
=============================================================================
