----------------------------- MODULE TableStore -----------------------------
(***************************************************************************)
(* What the native engine promises to its caller: a contract (a schema)    *)
(* per model that is never replaced, and a store of rows per model that    *)
(* every call changes at most once, in one step, and as it asked.  Ok says *)
(* that the change has taken place, an error that it has not and will not. *)
(* When the process stops, the change of the call that ran has taken place *)
(* or has not, or what it was being written to cannot be read any more.    *)
(***************************************************************************)
EXTENDS TableRows

CONSTANTS Models, Schemas, Inserts, Updates, Filters, Unencodable,
          None,         \* no schema
          Unreadable    \* the contracts cannot be read any more

VARIABLES
    contract,       \* the schema every model was registered with
    store,          \* the rows of every model
    engine,         \* "down", or "up" while one is open
    request,        \* the call that runs: "asked", and "done" once it took effect
    answer          \* what the last call of the open engine returned

vars == <<contract, store, engine, request, answer>>

NoRequest == [op |-> "none"]

Asking(op, m, id, row, schema) ==
    [op |-> op, model |-> m, row_id |-> id, row |-> row, schema |-> schema,
     stage |-> "asked"]

Init ==
    /\ contract = [m \in Models |-> None]
    /\ store = [m \in Models |-> EmptyTable]
    /\ engine = "down" /\ request = NoRequest /\ answer = "none"

-----------------------------------------------------------------------------
(***************************************************************************)
(* Opening, and the calls a caller may make                                *)
(***************************************************************************)
Open ==
    /\ engine = "down"
    /\ contract # Unreadable
    /\ \A m \in Models : contract[m] # None => Readable(store[m])
    /\ engine' = "up" /\ answer' = "ok"
    /\ UNCHANGED <<contract, store, request>>

Idle == engine = "up" /\ request = NoRequest

Ask(r) ==
    /\ request' = r /\ answer' = "none"
    /\ UNCHANGED <<contract, store, engine>>

AskRegister(m, schema) ==
    /\ Idle /\ contract[m] \in {None, schema}
    /\ Ask([Asking("register", m, 0, EmptyRecord, schema)
              EXCEPT !.stage = IF contract[m] = None THEN "asked" ELSE "done"])

(* A schema other than the contract of the model is refused at once.       *)
RefuseRegister(m, schema) ==
    /\ Idle /\ contract[m] \notin {None, schema}
    /\ answer' = "err"
    /\ UNCHANGED <<contract, store, engine, request>>

AskInsert(m, values) ==
    /\ Idle /\ contract[m] # None /\ Accepts(contract[m], values)
    /\ Ask(Asking("insert", m, 0, NormalizeRow(contract[m], values), None))

(* Update and delete are about the oldest row that matches the filters.    *)
Target(m, filters) == FirstMatch(store[m], filters)

HasTarget(m, filters) ==
    /\ contract[m] # None /\ ValidFilters(contract[m], filters)
    /\ Target(m, filters) # 0

Updated(m, filters, values) ==
    MergeRecord(store[m][Target(m, filters)].record, values)

AskUpdate(m, filters, values) ==
    /\ Idle /\ DOMAIN values # {} /\ HasTarget(m, filters)
    /\ AcceptsUpdate(contract[m], store[m][Target(m, filters)].record, values)
    /\ Ask(Asking("update", m, Target(m, filters),
                  NormalizeRow(contract[m], Updated(m, filters, values)), None))

AskDelete(m, filters) ==
    /\ Idle /\ HasTarget(m, filters)
    /\ Ask(Asking("delete", m, Target(m, filters), EmptyRecord, None))

-----------------------------------------------------------------------------
(***************************************************************************)
(* A call takes effect, once.                                              *)
(***************************************************************************)
Pending(op) == request.op = op /\ request.stage = "asked"

TakesEffect ==
    /\ request' = [request EXCEPT !.stage = "done"]
    /\ UNCHANGED <<engine, answer>>

Register ==
    /\ Pending("register")
    /\ contract' = [contract EXCEPT ![request.model] = request.schema]
    /\ UNCHANGED store
    /\ TakesEffect

(* Another live row holds a unique value of the row of the call.           *)
Conflict ==
    LET rows == store[request.model]
        schema == contract[request.model]
    IN  \E other \in LiveIds(rows) \ {request.row_id} :
            \E f \in UniqueFields(schema) :
                /\ f \in DOMAIN request.row /\ f \in DOMAIN rows[other].record
                /\ request.row[f] = rows[other].record[f]

Change(id, cell) ==
    /\ store' = [store EXCEPT ![request.model][id] = cell]
    /\ UNCHANGED contract
    /\ TakesEffect

(* A new row comes after all others, the deleted ones included.            *)
Insert ==
    /\ Pending("insert") /\ ~Conflict
    /\ \E id \in RowIds :
          /\ \A used \in UsedIds(store[request.model]) : used < id
          /\ Change(id, LiveRow(request.row))

Live == request.row_id \in LiveIds(store[request.model])

Update == Pending("update") /\ Live /\ ~Conflict /\ Change(request.row_id, LiveRow(request.row))

Delete == Pending("delete") /\ Live /\ Change(request.row_id, DeadRow)

-----------------------------------------------------------------------------
(***************************************************************************)
(* The call returns, or the process stops.                                 *)
(***************************************************************************)
Return(a) ==
    /\ request' = NoRequest /\ answer' = a
    /\ UNCHANGED <<contract, store, engine>>

AnswerOk == request # NoRequest /\ request.stage = "done" /\ Return("ok")

TooLong == \E f \in DOMAIN request.row : request.row[f] \in Unencodable

AnswerErr == (Pending("insert") \/ Pending("update")) /\ (Conflict \/ TooLong) /\ Return("err")

Spoil ==
    \/ UNCHANGED <<contract, store>>
    \/ Pending("register") /\ contract' = Unreadable /\ UNCHANGED store
    \/ /\ Pending("insert") \/ Pending("update") \/ Pending("delete")
       /\ store' = [store EXCEPT ![request.model] = Torn]
       /\ UNCHANGED contract

Stop ==
    /\ engine = "up" /\ Spoil
    /\ engine' = "down" /\ request' = NoRequest /\ answer' = "none"

Next ==
    \/ Open
    \/ \E m \in Models :
          \/ \E s \in Schemas : AskRegister(m, s) \/ RefuseRegister(m, s)
          \/ \E values \in Inserts : AskInsert(m, values)
          \/ \E filters \in Filters, values \in Updates : AskUpdate(m, filters, values)
          \/ \E filters \in Filters : AskDelete(m, filters)
    \/ Register \/ Insert \/ Update \/ Delete
    \/ AnswerOk \/ AnswerErr \/ Stop

Spec == Init /\ [][Next]_vars
=============================================================================
