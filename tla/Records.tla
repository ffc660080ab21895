-------------------------------- MODULE Records --------------------------------
(***************************************************************************)
(* The admin's screens of records: the data browser of an entity, its      *)
(* create and edit form, and the users screen that changes roles           *)
(* (src/packages/admin/spa/screens/DataBrowser.tsx, EntityForm.tsx,        *)
(* UsersScreen.tsx, lib/schema.ts), over the HTTP client and the entity    *)
(* routes.  One admin has the browser open, another the users screen.      *)
(*                                                                         *)
(* The entity has a field of each kind the form treats in its own way: a   *)
(* required "name", a number here for the order names have, an optional    *)
(* boolean "active", an optional timestamp "seen" in seconds, and the      *)
(* readonly "role" of users.  None stands for NULL, for an empty widget,   *)
(* for no form and for no answer.                                          *)
(***************************************************************************)
EXTENDS Editor

CONSTANTS
    Ids,             \* ids a row may have
    Stored,          \* Stored[id]: the row there at first, or None
    Typed,           \* Typed[f]: what an admin may put into the widget of f
    Roles,
    PageSize,        \* DEFAULT_LIMIT of the browser
    MaxLoads, MaxClicks   \* bounds: loads under way, clicks that ask or write

Columns == {"name", "active", "seen", "role"}

Rows == [name : Nat \cup {None}, active : BOOLEAN \cup {None}, seen : Nat \cup {None}, role : Roles]

ASSUME RecordsAssumption ==
    /\ IsFiniteSet(Ids) /\ None \notin Rows \cup Ids
    /\ Stored \in [Ids -> Rows \cup {None}]
    /\ "member" \in Roles
    /\ Typed["name"] \subseteq Nat \cup {None} /\ Typed["seen"] \subseteq Nat \cup {None}
    /\ Typed["active"] \subseteq BOOLEAN \cup {None}
    /\ PageSize \in Nat /\ MaxLoads \in Nat /\ MaxClicks \in Nat

VARIABLES
    table,     \* the rows
    asked,     \* the browser's offset, filter and sort
    loads,     \* its loads under way, in the order they were begun
    shown,     \* what the last of them to end has brought
    loading, error,
    form,      \* the form that is open, or None
    submit,    \* the request of a form
    delete,    \* the request of a Delete button
    changes,   \* the requests of the users screen
    listed,    \* the roles it shows
    crossed,   \* answers have come, or will come, in another order
    clicks

pageVars   == <<asked, loads, shown, loading, error, crossed>>
recordVars == <<table, pageVars, form, submit, delete, changes, listed, clicks>>

\* formEligibleFields and readonly: those with a widget that is not disabled.
Editable == Columns \ {"role"}

-----------------------------------------------------------------------------
(* Widgets.                                                                *)

\* toWidgetValue: a switch has no third position, datetime-local no seconds.
Widget(f, raw) ==
    IF f = "active" THEN raw = TRUE
    ELSE IF f = "seen" /\ raw # None THEN raw - (raw % 60)
    ELSE raw

Widgets(row) == [f \in Columns |-> Widget(f, row[f])]

\* Mutant: what the form shows disabled is sent back unchanged.
PayloadWhole(values) == [f \in {c \in Columns : values[c] # None} |-> values[f]]

\* handleSubmit: an empty widget sends nothing, and nor does a disabled one.
Payload(values) == [f \in {c \in Editable : values[c] # None} |-> values[f]]

Mandatory(f) == f = "name"

-----------------------------------------------------------------------------
(* The server: what list and update answer.                                *)

Matches(q) == {id \in Ids : table[id] # None /\ (q.filter # None => table[id].name = q.filter)}

\* Ties, and no sort, give any order.
Sorted(order, q) ==
    \A i, j \in DOMAIN order : i < j /\ q.sort # None =>
        LET x == table[order[i]].name  y == table[order[j]].name IN
        IF q.sort = "asc" THEN x <= y ELSE x >= y

Page(order, q) ==
    LET ids == SubSeq(order, q.offset + 1, Min({q.offset + PageSize, Len(order)})) IN
    [i \in 1 .. Len(ids) |-> [id |-> ids[i], row |-> table[ids[i]]]]

Patched(row, payload) ==
    [f \in Columns |-> IF f \in DOMAIN payload THEN payload[f] ELSE row[f]]

Fresh == [name |-> None, active |-> None, seen |-> None, role |-> "member"]

-----------------------------------------------------------------------------
\* The users screen loads once.
Listed == [id \in Ids |-> IF Stored[id] = None THEN None ELSE Stored[id].role]

RecordsInit ==
    /\ table = Stored
    /\ asked = [offset |-> 0, filter |-> None, sort |-> None]
    /\ loads = <<[query |-> asked, rows |-> None, total |-> 0]>>
    /\ shown = [query |-> None, rows |-> <<>>, total |-> 0]
    /\ loading = TRUE /\ error = FALSE /\ crossed = FALSE
    /\ form = None /\ submit = None /\ delete = None /\ changes = <<>>
    /\ listed = Listed
    /\ clicks = 0

Click == clicks < MaxClicks /\ clicks' = clicks + 1

-----------------------------------------------------------------------------
(* Loads.                                                                  *)

\* load, as it was when its caller was rendered.
Begin(query) ==
    /\ Len(loads) < MaxLoads
    /\ loads' = Append(loads, [query |-> query, rows |-> None, total |-> 0])
    /\ loading' = TRUE /\ error' = FALSE
    /\ UNCHANGED shown

\* The effect of load runs when one of its dependencies has changed.  An open
\* form is modal.
Ask(query) ==
    /\ form = None
    /\ query # asked /\ asked' = query
    /\ Click
    /\ Begin(query)
    /\ crossed' = (crossed /\ loads # <<>>)
    /\ UNCHANGED <<table, form, submit, delete, changes, listed, faults>>

\* Mutant: the effect misses the sort.
ToggleSortUnseen ==
    /\ form = None /\ Click
    /\ asked' = [asked EXCEPT !.offset = 0,
                   !.sort = CASE @ = None -> "asc" [] @ = "asc" -> "desc" [] @ = "desc" -> None]
    /\ UNCHANGED <<table, loads, shown, loading, error, form, submit, delete, changes, listed,
                   crossed, faults>>

\* A click on the one header: ascending, descending, as it comes.
ToggleSort ==
    Ask([asked EXCEPT !.offset = 0,
           !.sort = CASE @ = None -> "asc" [] @ = "asc" -> "desc" [] @ = "desc" -> None])

ApplyFilters == \E name \in Typed["name"] : Ask([asked EXCEPT !.offset = 0, !.filter = name])

PrevPage ==
    /\ asked.offset > 0
    /\ Ask([asked EXCEPT !.offset = IF @ > PageSize THEN @ - PageSize ELSE 0])

NextPage == asked.offset + PageSize < shown.total /\ Ask([asked EXCEPT !.offset = @ + PageSize])

Answer(i) ==
    /\ loads[i].rows = None
    /\ \E order \in SetToSeqs(Matches(loads[i].query)) :
         /\ Sorted(order, loads[i].query)
         /\ loads' = [loads EXCEPT ![i].rows = Page(order, loads[i].query), ![i].total = Len(order)]
    /\ UNCHANGED <<table, asked, shown, loading, error, form, submit, delete, changes, listed,
                   crossed, clicks, faults>>

\* Whatever the order they were begun in, the last to come stays.
Ended(i) ==
    /\ loads' = RemoveAt(loads, i) /\ loading' = FALSE
    /\ crossed' = (crossed \/ i > 1)
    /\ UNCHANGED <<table, asked, form, submit, delete, changes, listed, clicks>>

Arrive(i) ==
    /\ loads[i].rows # None
    /\ shown' = loads[i]
    /\ Ended(i)
    /\ UNCHANGED <<error, faults>>

ReadFails(i) ==
    /\ Fault
    /\ error' = TRUE
    /\ Ended(i)
    /\ UNCHANGED shown

-----------------------------------------------------------------------------
(* The form.                                                               *)

OpenForm(id, row) ==
    /\ form = None
    /\ form' = [id |-> id, base |-> row, values |-> Widgets(row), touched |-> {}, saving |-> FALSE]
    /\ UNCHANGED <<table, pageVars, submit, delete, changes, listed, clicks, faults>>

SetValue(f) ==
    /\ form # None /\ ~form.saving
    /\ \E value \in Typed[f] :
         form' = [form EXCEPT !.values[f] = value, !.touched = @ \cup {f}]
    /\ UNCHANGED <<table, pageVars, submit, delete, changes, listed, clicks, faults>>

\* A request that is under way goes on.
Cancel ==
    /\ form # None
    /\ form' = None
    /\ UNCHANGED <<table, pageVars, submit, delete, changes, listed, clicks, faults>>

\* A mandatory field that is empty is an error of the form, and nothing is sent.
Submit ==
    /\ form # None /\ ~form.saving /\ submit = None
    /\ \A f \in Editable : Mandatory(f) => form.values[f] # None
    /\ Click
    /\ form' = [form EXCEPT !.saving = TRUE]
    /\ submit' = [id |-> form.id, base |-> form.base, touched |-> form.touched,
                  payload |-> Payload(form.values), query |-> asked, stage |-> "sent"]
    /\ UNCHANGED <<table, pageVars, delete, changes, listed, faults>>

\* create and update of the engine; a row that is gone is a 404.
Store ==
    /\ submit # None /\ submit.stage = "sent"
    /\ \E id \in IF submit.id # None THEN {submit.id} ELSE {i \in Ids : table[i] = None} :
         LET row == IF submit.id = None THEN Fresh ELSE table[id] IN
         /\ table' = IF row = None THEN table
                     ELSE [table EXCEPT ![id] = Patched(row, submit.payload)]
         /\ submit' = [submit EXCEPT !.stage = IF row = None THEN "failed" ELSE "done"]
    /\ UNCHANGED <<pageVars, form, delete, changes, listed, clicks, faults>>

SubmitFails ==
    /\ submit # None /\ submit.stage # "failed" /\ Fault
    /\ submit' = [submit EXCEPT !.stage = "failed"]
    /\ UNCHANGED <<table, pageVars, form, delete, changes, listed, clicks>>

\* A load as the handler knew it, which may be of what was asked for before.
Reload(query) ==
    /\ Begin(query)
    /\ crossed' = ((crossed /\ loads # <<>>) \/ query # asked)
    /\ UNCHANGED <<table, asked, changes, listed, clicks, faults>>

\* onSuccess closes the form, whichever is open by now.
Submitted ==
    /\ submit # None /\ submit.stage = "done"
    /\ form' = None /\ submit' = None
    /\ Reload(submit.query)
    /\ UNCHANGED delete

\* The banner is of the form that sent it, if it is still open.
NotSubmitted ==
    /\ submit # None /\ submit.stage = "failed"
    /\ form' = IF form = None THEN None ELSE [form EXCEPT !.saving = FALSE]
    /\ submit' = None
    /\ UNCHANGED <<table, pageVars, delete, changes, listed, clicks, faults>>

-----------------------------------------------------------------------------
(* Delete, and the users screen.                                           *)

Delete(id) ==
    /\ delete = None /\ ~loading /\ form = None
    /\ Click
    /\ delete' = [id |-> id, query |-> asked, stage |-> "sent"]
    /\ UNCHANGED <<table, pageVars, form, submit, changes, listed, faults>>

Erase ==
    /\ delete # None /\ delete.stage = "sent"
    /\ table' = [table EXCEPT ![delete.id] = None]
    /\ delete' = [delete EXCEPT !.stage = IF table[delete.id] = None THEN "failed" ELSE "done"]
    /\ UNCHANGED <<pageVars, form, submit, changes, listed, clicks, faults>>

DeleteFails ==
    /\ delete # None /\ delete.stage # "failed" /\ Fault
    /\ delete' = [delete EXCEPT !.stage = "failed"]
    /\ UNCHANGED <<table, pageVars, form, submit, changes, listed, clicks>>

Deleted ==
    /\ delete # None /\ delete.stage = "done"
    /\ delete' = None
    /\ Reload(delete.query)
    /\ UNCHANGED <<form, submit>>

NotDeleted ==
    /\ delete # None /\ delete.stage = "failed"
    /\ delete' = None /\ error' = TRUE
    /\ UNCHANGED <<table, asked, loads, shown, loading, crossed, form, submit, changes, listed,
                   clicks, faults>>

\* handleRoleChange; the list was loaded when the screen was mounted.
ChangeRole(id, role) ==
    /\ listed[id] # None /\ role # listed[id]
    /\ Click
    /\ changes' = Append(changes, [id |-> id, role |-> role, stage |-> "sent"])
    /\ UNCHANGED <<table, pageVars, form, submit, delete, listed, faults>>

\* An admin may write what is readonly.
Promote(i) ==
    /\ changes[i].stage = "sent"
    /\ LET id == changes[i].id IN
       /\ table' = IF table[id] = None THEN table
                   ELSE [table EXCEPT ![id].role = changes[i].role]
       /\ changes' = [changes EXCEPT ![i].stage = IF table[id] = None THEN "failed" ELSE "done"]
    /\ UNCHANGED <<pageVars, form, submit, delete, listed, clicks, faults>>

ChangeFails(i) ==
    /\ changes[i].stage # "failed" /\ Fault
    /\ changes' = [changes EXCEPT ![i].stage = "failed"]
    /\ UNCHANGED <<table, pageVars, form, submit, delete, listed, clicks>>

\* The row takes the reply, or an error next to it.
Changed(i) ==
    /\ changes[i].stage # "sent"
    /\ listed' = IF changes[i].stage = "failed" THEN listed
                 ELSE [listed EXCEPT ![changes[i].id] = changes[i].role]
    /\ changes' = RemoveAt(changes, i)
    /\ UNCHANGED <<table, pageVars, form, submit, delete, clicks, faults>>

Loading == \E i \in DOMAIN loads : Answer(i) \/ Arrive(i) \/ ReadFails(i)

Browsing ==
    \/ ToggleSort \/ ApplyFilters \/ PrevPage \/ NextPage
    \/ \E i \in DOMAIN shown.rows : Delete(shown.rows[i].id)
    \/ Erase \/ DeleteFails \/ Deleted \/ NotDeleted

Filling ==
    \/ OpenForm(None, Fresh)
    \/ \E i \in DOMAIN shown.rows : ~loading /\ OpenForm(shown.rows[i].id, shown.rows[i].row)
    \/ \E f \in Editable : SetValue(f)
    \/ Cancel \/ Submit \/ Store \/ SubmitFails \/ Submitted \/ NotSubmitted

Managing ==
    \/ \E id \in Ids, role \in Roles : ChangeRole(id, role)
    \/ \E i \in DOMAIN changes : Promote(i) \/ ChangeFails(i) \/ Changed(i)

RecordsNext == Loading \/ Browsing \/ Filling \/ Managing

\* The whole application: what the shell and the editors do, and what the
\* screens of records do.
AdminNext ==
    \/ Next /\ UNCHANGED recordVars
    \/ RecordsNext /\ UNCHANGED <<live, post, status, shell, pane, local, edits>>

AdminSpec == Init /\ RecordsInit /\ [][AdminNext]_<<vars, recordVars>>

-----------------------------------------------------------------------------
(* Properties.                                                             *)

\* No pane is left behind: the dashboard as SectionsAreCurrent says; a browser
\* with nothing under way shows an error or what was asked for last, unless
\* answers have crossed.
PanesAreCurrent ==
    /\ SectionsAreCurrent
    /\ loads = <<>> /\ ~crossed => error \/ shown.query = asked

\* However old the row a form was opened with, saving it changes a field only if
\* the admin has typed in it, or somebody else has changed it since, or the
\* widget cannot hold its value; and never a readonly field: no form undoes what
\* the users screen did.
SavesAreMeant ==
    [][Store /\ submit'.stage = "done" =>
         \A f \in Columns :
            LET was == IF submit.id = None THEN Fresh[f] ELSE table[submit.id][f]
                now == IF submit.id # None THEN table'[submit.id][f]
                       ELSE table'[CHOOSE id \in Ids : table[id] # table'[id]][f]
            IN  now # was =>
                  /\ f # "role"
                  /\ \/ f \in submit.touched
                     \/ was # submit.base[f]
                     \/ f = "active" /\ was = None
                     \/ f = "seen" /\ was # None /\ was % 60 # 0]_recordVars
==============================================================================
