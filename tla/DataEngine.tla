------------------------------ MODULE DataEngine ------------------------------
(***************************************************************************)
(* The writes of one entity: DataEngine.create, update and delete          *)
(* (src/packages/frogcp/src/data/engine.ts), each with its permission      *)
(* check, its server-managed fields, its database operation and the event  *)
(* it emits.  Requests interleave at every await: an update or a delete    *)
(* first fetches the row, decides on that copy, and only then writes.      *)
(*                                                                         *)
(* A row maps fields to values.  An input maps some fields to values: the  *)
(* keys that validation keeps (known, not hidden, not auto, not            *)
(* undefined), or it is Malformed.  A rule is a set of atoms, any of which *)
(* admits; Permissions has the nested ones.                                *)
(***************************************************************************)
CONSTANTS
    Requests,   \* a create request's row is known by the request
    Users, Admins, Guest,            \* callers: Admins among Users, the guest
    Fields, Readonly, Unique, Refs,  \* the fields, and those so declared
    Objects,    \* the fields decoded to an object: dates, timestamps, JSON
    Values,     \* what fields hold: users, rows (in Refs), others
    Null,       \* an absent value
    Rules,      \* Rules[op]: a set of atoms; an empty one means admin only
    Inputs,     \* the bodies requests send
    Malformed,  \* a body that validation rejects
    NoRow, NoCall

Ops     == {"create", "update", "delete"}
Callers == Users \cup {Guest}
Atoms   == [kind : {"public"}] \cup [kind : {"role"}, users : SUBSET Users]
           \cup [kind : {"owner"}, field : Fields]
Rows    == [Fields -> Values \cup {Null}]
Partial == UNION {[S -> Values] : S \in SUBSET Fields}
Empty   == [f \in {} |-> Null]
Calls   == [op : Ops, who : Callers, id : Requests,
            input : Inputs \cup {Empty, Malformed}]

ASSUME EngineAssumption ==
    /\ Admins \subseteq Users /\ Users \subseteq Values /\ Guest \notin Values
    /\ Null \notin Values
    /\ Readonly \subseteq Fields /\ Unique \subseteq Fields /\ Refs \subseteq Fields
    /\ Objects \subseteq Fields
    /\ Rules \in [Ops -> SUBSET Atoms]
    /\ Inputs \subseteq Partial /\ Malformed \notin Partial
    /\ NoRow \notin Rows /\ NoCall \notin Calls

VARIABLES
    rows,    \* the table: rows[id], or NoRow
    call,    \* what each request asks
    pc,      \* where each request is between two awaits
    seen,    \* the row an update or a delete fetched ("existing")
    result,  \* the row an insert or an update returned
    event,   \* the payload of the event each request emitted
    answer   \* what each request was answered

vars == <<rows, call, pc, seen, result, event, answer>>

-----------------------------------------------------------------------------
(* Permissions and server-managed fields.                                  *)

Admin(who) == who \in Admins

OwnerFields ==
    {f \in Fields : \E op \in Ops : [kind |-> "owner", field |-> f] \in Rules[op]}
Managed == OwnerFields \cup Readonly

\* decide(...).allow: the caller is not denied whatever the row.
Decide(op, who) ==
    \/ Admin(who)
    \/ \E atom \in Rules[op] :
         \/ atom.kind = "public"
         \/ atom.kind = "role" /\ who \in atom.users
         \/ atom.kind = "owner" /\ who # Guest

CheckRow(op, who, row) ==
    \/ Admin(who)
    \/ \E atom \in Rules[op] :
         \/ atom.kind = "public"
         \/ atom.kind = "role" /\ who \in atom.users
         \/ atom.kind = "owner" /\ who # Guest /\ row[atom.field] = who

Given(input, f) == IF f \in DOMAIN input THEN input[f] ELSE Null

\* Mutant: readonly fields are taken as sent.
PreparedAsSent(who, input) ==
    [f \in Fields |->
        IF f \in OwnerFields /\ ~Admin(who)
        THEN IF who = Guest THEN Null ELSE who
        ELSE Given(input, f)]

\* The row to insert: readonly fields stripped and owner fields stamped,
\* except that an admin's own values stand.
Prepared(who, input) ==
    [f \in Fields |->
        CASE Admin(who) -> IF f \in OwnerFields /\ f \notin DOMAIN input
                           THEN who ELSE Given(input, f)
          [] ~Admin(who) /\ f \in OwnerFields -> IF who = Guest THEN Null ELSE who
          [] ~Admin(who) /\ f \in Readonly \ OwnerFields -> Null
          [] OTHER -> Given(input, f)]

Patched(row, input) ==
    [f \in Fields |-> IF f \in DOMAIN input THEN input[f] ELSE row[f]]

\* The database's constraints on storing row under id.
Duplicate(id, row) ==
    \E other \in Requests \ {id}, f \in Unique :
        rows[other] # NoRow /\ row[f] # Null /\ rows[other][f] = row[f]
Dangling(id, row) ==
    \E f \in Refs : row[f] \notin {Null, id} \cup {x \in Requests : rows[x] # NoRow}
Referenced(id) ==
    \E other \in Requests \ {id}, f \in Refs :
        rows[other] # NoRow /\ rows[other][f] = id

-----------------------------------------------------------------------------
Init ==
    /\ rows = [id \in Requests |-> NoRow]
    /\ call = [r \in Requests |-> NoCall]
    /\ pc = [r \in Requests |-> "idle"]
    /\ seen = [r \in Requests |-> NoRow]
    /\ result = [r \in Requests |-> NoRow]
    /\ event = [r \in Requests |-> NoRow]
    /\ answer = [r \in Requests |-> "none"]

Goto(r, where) == pc' = [pc EXCEPT ![r] = where] /\ UNCHANGED answer
Reply(r, what) ==
    /\ pc' = [pc EXCEPT ![r] = "done"]
    /\ answer' = [answer EXCEPT ![r] = what]

\* The request runs up to its first await: a call the rule denies outright is
\* refused before its body is looked at.
Create(r, who, input) ==
    /\ pc[r] = "idle"
    /\ call' = [call EXCEPT ![r] =
                  [op |-> "create", who |-> who, id |-> r, input |-> input]]
    /\ \/ ~Decide("create", who) /\ Reply(r, "403")
       \/ Decide("create", who) /\ input = Malformed /\ Reply(r, "422")
       \/ Decide("create", who) /\ input # Malformed /\ Goto(r, "insert")
    /\ UNCHANGED <<rows, seen, result, event>>

Modify(r, op, who, id, input) ==
    /\ pc[r] = "idle"
    /\ call' = [call EXCEPT ![r] =
                  [op |-> op, who |-> who, id |-> id, input |-> input]]
    /\ \/ ~Decide(op, who) /\ Reply(r, "403")
       \/ Decide(op, who) /\ Goto(r, "fetch")
    /\ UNCHANGED <<rows, seen, result, event>>

Update(r, who, id, input) == Modify(r, "update", who, id, input)
Delete(r, who, id) == Modify(r, "delete", who, id, Empty)

-----------------------------------------------------------------------------
(* create: the INSERT.                                                     *)

Insert(r) ==
    /\ pc[r] = "insert"
    /\ LET row == Prepared(call[r].who, call[r].input) IN
         \/ /\ Duplicate(r, row)
            /\ Reply(r, "409")
            /\ UNCHANGED <<rows, result>>
         \/ /\ ~Duplicate(r, row) /\ Dangling(r, row)
            /\ Reply(r, "422")
            /\ UNCHANGED <<rows, result>>
         \/ /\ ~Duplicate(r, row) /\ ~Dangling(r, row)
            /\ rows' = [rows EXCEPT ![r] = row]
            /\ result' = [result EXCEPT ![r] = row]
            /\ Goto(r, "emit")
    /\ UNCHANGED <<call, seen, event>>

-----------------------------------------------------------------------------
(* update and delete: fetchById, then all that is decided on that copy.    *)

\* A non-admin's patch changes a server-managed field of the row fetched.
\* The comparison is !==: two objects differ even if they hold the same date.
Tampers(r) ==
    /\ ~Admin(call[r].who)
    /\ \E f \in Managed \cap DOMAIN call[r].input :
         \/ f \in Objects /\ call[r].input[f] # Null
         \/ call[r].input[f] # rows[call[r].id][f]

Allowed(r) ==
    /\ rows[call[r].id] # NoRow
    /\ CheckRow(call[r].op, call[r].who, rows[call[r].id])

\* Mutant: the body is validated before the row check.
FetchValidatesFirst(r) ==
    /\ pc[r] = "fetch"
    /\ seen' = [seen EXCEPT ![r] = rows[call[r].id]]
    /\ \/ call[r].input = Malformed /\ Reply(r, "422")
       \/ ~Allowed(r) /\ call[r].input # Malformed /\ Reply(r, "404")
       \/ /\ Allowed(r) /\ call[r].input # Malformed
          /\ \/ call[r].op = "delete" /\ Goto(r, "delete")
             \/ call[r].op = "update" /\ Tampers(r) /\ Reply(r, "422")
             \/ call[r].op = "update" /\ ~Tampers(r) /\ Goto(r, "update")
    /\ UNCHANGED <<rows, call, result, event>>

\* A missing row and a row the rule denies are the same 404; then a body is
\* validated; a patch that asks for nothing is answered without a write.
Fetch(r) ==
    /\ pc[r] = "fetch"
    /\ seen' = [seen EXCEPT ![r] = rows[call[r].id]]
    /\ \/ ~Allowed(r) /\ Reply(r, "404")
       \/ Allowed(r) /\ call[r].op = "delete" /\ Goto(r, "delete")
       \/ Allowed(r) /\ call[r].input = Malformed /\ Reply(r, "422")
       \/ /\ Allowed(r) /\ call[r].op = "update" /\ call[r].input # Malformed
          /\ \/ Tampers(r) /\ Reply(r, "422")
             \/ ~Tampers(r) /\ call[r].input = Empty /\ Reply(r, "unchanged")
             \/ ~Tampers(r) /\ call[r].input # Empty /\ Goto(r, "update")
    /\ UNCHANGED <<rows, call, result, event>>

\* UPDATE ... WHERE id = ...: the row may be gone by now, or another's.
Write(r) ==
    /\ pc[r] = "update"
    /\ LET id  == call[r].id
           row == Patched(rows[id], call[r].input) IN
         \/ /\ rows[id] = NoRow
            /\ Reply(r, "500")
            /\ UNCHANGED <<rows, result>>
         \/ /\ rows[id] # NoRow /\ Duplicate(id, row)
            /\ Reply(r, "409")
            /\ UNCHANGED <<rows, result>>
         \/ /\ rows[id] # NoRow /\ ~Duplicate(id, row) /\ Dangling(id, row)
            /\ Reply(r, "422")
            /\ UNCHANGED <<rows, result>>
         \/ /\ rows[id] # NoRow /\ ~Duplicate(id, row) /\ ~Dangling(id, row)
            /\ rows' = [rows EXCEPT ![id] = row]
            /\ result' = [result EXCEPT ![r] = row]
            /\ Goto(r, "emit")
    /\ UNCHANGED <<call, seen, event>>

\* Mutant: the foreign key error of a DELETE is swallowed.
RemoveSwallows(r) ==
    /\ pc[r] = "delete"
    /\ rows' = IF Referenced(call[r].id) THEN rows
               ELSE [rows EXCEPT ![call[r].id] = NoRow]
    /\ Goto(r, "emit")
    /\ UNCHANGED <<call, seen, result, event>>

\* DELETE ... WHERE id = ...: how many rows it removed is not looked at.
Remove(r) ==
    /\ pc[r] = "delete"
    /\ \/ /\ Referenced(call[r].id)
          /\ Reply(r, "409")
          /\ UNCHANGED rows
       \/ /\ ~Referenced(call[r].id)
          /\ rows' = [rows EXCEPT ![call[r].id] = NoRow]
          /\ Goto(r, "emit")
    /\ UNCHANGED <<call, seen, result, event>>

\* The driver fails: the request is answered 500.
Fail(r) ==
    /\ pc[r] \in {"insert", "fetch", "update", "delete"}
    /\ Reply(r, "500")
    /\ UNCHANGED <<rows, call, seen, result, event>>

\* Mutant: every event carries the row the write returned.
EmitReturned(r) ==
    /\ pc[r] = "emit"
    /\ event' = [event EXCEPT ![r] = result[r]]
    /\ Reply(r, "ok")
    /\ UNCHANGED <<rows, call, seen, result>>

\* record.created, record.updated or record.deleted, then the answer.
Emit(r) ==
    /\ pc[r] = "emit"
    /\ event' = [event EXCEPT ![r] = IF call[r].op = "delete" THEN seen[r] ELSE result[r]]
    /\ Reply(r, "ok")
    /\ UNCHANGED <<rows, call, seen, result>>

Receive(r) ==
    \E who \in Callers :
        \/ \E input \in Inputs \cup {Malformed} :
             \/ Create(r, who, input)
             \/ \E id \in Requests \ {r} : Update(r, who, id, input)
        \/ \E id \in Requests \ {r} : Delete(r, who, id)

Next == \E r \in Requests :
    Receive(r) \/ Insert(r) \/ Fetch(r) \/ Write(r) \/ Remove(r) \/ Fail(r) \/ Emit(r)

Spec == Init /\ [][Next]_vars

-----------------------------------------------------------------------------
(* Properties.                                                             *)

Did(r, op) == call[r] # NoCall /\ call[r].op = op /\ (pc[r] = "emit" \/ answer[r] = "ok")

TypeOK ==
    /\ rows \in [Requests -> Rows \cup {NoRow}]
    /\ call \in [Requests -> Calls \cup {NoCall}]
    /\ pc \in [Requests -> {"idle", "insert", "fetch", "update", "delete", "emit", "done"}]
    /\ seen \in [Requests -> Rows \cup {NoRow}]
    /\ result \in [Requests -> Rows \cup {NoRow}]
    /\ event \in [Requests -> Rows \cup {NoRow}]
    /\ answer \in [Requests -> {"none", "ok", "unchanged", "403", "404", "409", "422", "500"}]

\* Where a value of a server-managed field may come from: the default, the
\* creator's own identity, or what an admin sent for this row.
Legitimate(id, f, v) ==
    \/ v = Null
    \/ f \in OwnerFields /\ Did(id, "create") /\ v = call[id].who /\ v # Guest
    \/ \E r \in Requests :
         /\ Did(r, "create") \/ Did(r, "update")
         /\ Admin(call[r].who) /\ call[r].id = id
         /\ f \in DOMAIN call[r].input /\ call[r].input[f] = v

\* Ownership and readonly integrity, as far as the check on a fetched copy
\* goes: no interleaving of non-admin writes ever brings a server-managed
\* field to a value that neither the server nor an admin gave this row.
ServerManaged ==
    \A id \in Requests : rows[id] # NoRow =>
        \A f \in Managed : Legitimate(id, f, rows[id][f])

\* The answers tell which rows exist: those whose creation succeeded and whose
\* deletion has not, whatever conflicts, races and driver errors in between.
AnswersTellRows ==
    \A id \in Requests :
        rows[id] # NoRow <=>
            /\ Did(id, "create")
            /\ \A d \in Requests : Did(d, "delete") => call[d].id # id

\* The events tell the same to a subscriber, once nothing is under way.
EventsTellRows ==
    (\A r \in Requests : pc[r] \in {"idle", "done"}) =>
        \A id \in Requests :
            rows[id] # NoRow <=>
                /\ call[id] # NoCall /\ call[id].op = "create" /\ event[id] # NoRow
                /\ \A d \in Requests :
                     call[d] # NoCall /\ call[d].op = "delete" /\ event[d] # NoRow
                        => call[d].id # id

\* No existence oracle: only a caller whose rule admitted the row learns, by
\* any answer but the one for a missing row, that the row was there.
NoOracle ==
    \A r \in Requests :
        answer[r] \in {"ok", "unchanged", "409", "422"} /\ call[r].op # "create" =>
            seen[r] # NoRow /\ CheckRow(call[r].op, call[r].who, seen[r])
=============================================================================
