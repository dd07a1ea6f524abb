----------------------------- MODULE IndexCell -----------------------------
(***************************************************************************)
(* What an index file promises to the engine: it holds one map from values *)
(* to row ids, or it does not load.  A save replaces the map, may be       *)
(* refused before it touched the file, and when it is interrupted leaves   *)
(* the old map, the new one or a file that does not load, never anything   *)
(* else.                                                                   *)
(***************************************************************************)
CONSTANTS Maps,         \* the maps that may be saved
          NoMap,        \* the file is missing or does not load
          Refusable(_)  \* whether save may refuse a map

VARIABLES cell,         \* the map load_index returns
          saving,       \* the map save_index was called with, or NoMap
          outcome       \* how the last save ended

vars == <<cell, saving, outcome>>

Init == cell = NoMap /\ saving = NoMap /\ outcome = "none"

Begin(m) ==
    /\ saving = NoMap
    /\ saving' = m
    /\ outcome' = "none"
    /\ UNCHANGED cell

(* The old map is gone before the new one is there.                        *)
Clear ==
    /\ saving # NoMap
    /\ cell' = NoMap
    /\ UNCHANGED <<saving, outcome>>

Commit ==
    /\ saving # NoMap
    /\ cell = NoMap
    /\ cell' = saving
    /\ UNCHANGED <<saving, outcome>>

End(result) ==
    /\ saving # NoMap
    /\ saving' = NoMap
    /\ outcome' = result
    /\ UNCHANGED cell

ReturnOk == cell = saving /\ End("ok")

Refuse == Refusable(saving) /\ End("refused")

(* The process stops, or a file operation fails.                           *)
Interrupt == End("interrupted")

Next ==
    \/ \E m \in Maps : Begin(m)
    \/ Clear \/ Commit \/ ReturnOk \/ Refuse \/ Interrupt

Spec == Init /\ [][Next]_vars
=============================================================================
