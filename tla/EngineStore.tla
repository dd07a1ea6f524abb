---------------------------- MODULE EngineStore ----------------------------
(***************************************************************************)
(* The engine as an implementation of TableStore.  The contracts are the   *)
(* schema file and the store is what the table logs replay to; a call has  *)
(* taken effect once its one write to them is done, and what it still has  *)
(* to do, indexes and manifest, is none of the caller's business.          *)
(***************************************************************************)
EXTENDS EngineInvariant

Up == pc # "down" /\ call.op # "open"

TakenEffect ==
    IF call.op = "register"
    THEN pc # "save_schemas"
    ELSE call.task = "write" /\ pc \in {"save", "clean"}

(* The row id of an insert is the engine's choice, not a part of the call. *)
Asked ==
    IF call.op \in {"none", "open"}
    THEN [op |-> "none"]
    ELSE [op     |-> call.op,
          model  |-> call.model,
          row_id |-> IF call.op = "insert" THEN 0 ELSE call.row_id,
          row    |-> call.row,
          schema |-> IF call.op = "register" THEN schemas[call.model] ELSE None,
          stage  |-> IF TakenEffect THEN "done" ELSE "asked"]

Answer == IF Up THEN outcome ELSE "none"

Store == INSTANCE TableStore WITH
            contract <- schemaFile, store <- table,
            engine <- IF Up THEN "up" ELSE "down", request <- Asked, answer <- Answer

(* Every call of the engine takes effect once, in one step and as it was   *)
(* asked, Ok is returned only after that and an error only without it, and *)
(* update and delete change the oldest row that matches, although handlers *)
(* write several files, look rows up in index files and may stop anywhere. *)
ImplementsStore == Store!Spec
=============================================================================
