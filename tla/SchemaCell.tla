----------------------------- MODULE SchemaCell -----------------------------
(***************************************************************************)
(* What schema.crust promises to the engine, and what Engine takes it for: *)
(* it holds the contracts, one schema per registered model, as they were   *)
(* when the engine last saved all it knows, or it does not load because a  *)
(* save was cut short.                                                     *)
(***************************************************************************)
EXTENDS Schema

CONSTANTS Models, Schemas, None, Unreadable

VARIABLES contract,     \* what load_schemas gives
          schemas,      \* what the engine knows; nothing while it is down
          saving        \* the engine writes the file

vars == <<contract, schemas, saving>>

Nothing == [m \in Models |-> None]

Init == contract = Nothing /\ schemas = Nothing /\ saving = FALSE

Load ==
    /\ schemas = Nothing /\ contract # Unreadable /\ ~saving
    /\ schemas' = contract
    /\ UNCHANGED <<contract, saving>>

Register(m, schema) ==
    /\ ~saving /\ schemas[m] = None
    /\ schemas' = [schemas EXCEPT ![m] = schema]
    /\ saving' = TRUE
    /\ UNCHANGED contract

Save ==
    /\ saving /\ contract' = schemas
    /\ saving' = FALSE /\ UNCHANGED schemas

(* The save fails; the file is as it was, or does not load any more.       *)
Fail ==
    /\ saving /\ contract' \in {contract, Unreadable}
    /\ saving' = FALSE /\ UNCHANGED schemas

Stop ==
    /\ schemas' = Nothing /\ saving' = FALSE
    /\ contract' = contract \/ (saving /\ contract' = Unreadable)

Next ==
    \/ Load \/ Save \/ Fail \/ Stop
    \/ \E m \in Models, schema \in Schemas : Register(m, schema)

Spec == Init /\ [][Next]_vars
=============================================================================
