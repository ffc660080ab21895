--------------------------------- MODULE Editor ---------------------------------
(***************************************************************************)
(* The admin application in managed mode: the shell that fetches the       *)
(* schema, the screens it shows one at a time, and the two that edit the   *)
(* schema and post all of it (src/packages/admin/spa/), against GET and    *)
(* POST /system/schema and deserializeConfig (src/packages/frogcp/src/api/ *)
(* routes.ts, managed/serialize.ts, schema/validate-config.ts).  What the  *)
(* server does to apply a schema is ManagedSchema's subject.               *)
(*                                                                         *)
(* A field is one of the form's making, or has what only code can give it, *)
(* a default or an onDelete.  A rule is a list of leaves under "or", empty *)
(* when the action has no rule; "and" stands for all the builder cannot    *)
(* show.                                                                   *)
(***************************************************************************)
EXTENDS Naturals, Sequences, SequencesExt

CONSTANTS
    Tabs,        \* the admin's browser tabs, or several admins'
    Entities,    \* names of entities the user owns
    Plugins,     \* names of entities of plugins
    Fields, Actions, Leaves,
    Target,      \* Target[f]: the entity a ref field names, or None
    OwnerField,  \* OwnerField[l]: the field an owner leaf names, or None
    Given,       \* the entities at first: Given[e], None for one that is not there
    MaxSaves, MaxEdits, MaxFaults,   \* bounds
    None

Names == Entities \cup Plugins
Saves == 1 .. MaxSaves
Panes == {"dashboard", "schema", "matrix"} \cup Names

\* What there may be of an entity, and what is posted of all of them.
Rules   == [op : {"or", "and"}, of : Seq(Leaves)]
Defs    == [fields : [Fields -> {"none", "form", "code"}], rules : [Actions -> Rules]]
Schemas == [Names -> Defs \cup {None}]

\* A condition of the matrix, and a save on its way.
Cell  == [opaque : BOOLEAN, leaves : Seq(Leaves), original : Rules]
Posts == [tab : Tabs, from : {"schema", "matrix"}, body : Schemas,
          stage : {"sent", "saved", "refused", "over"}, reply : Schemas \cup {None},
          mounted : BOOLEAN, alone : BOOLEAN]

ASSUME EditorAssumption ==
    /\ Entities \cap Plugins = {} /\ Names \cap {"dashboard", "schema", "matrix"} = {}
    /\ Given \in Schemas
    /\ None \notin Defs \cup [Actions -> Cell] \cup Posts
    /\ MaxSaves \in Nat /\ MaxEdits \in Nat /\ MaxFaults \in Nat

VARIABLES
    live,    \* the live schema: live[e], or None
    post,    \* post[s]: the s-th save, from request to reply
    status,  \* status[t]: "loading", "ready" or "failed"
    shell,   \* shell[t]: the entities of ShellScreen
    pane,    \* pane[t]: its selection
    local,   \* local[t]: the state of the screen that is mounted
    edits, faults

vars == <<live, post, status, shell, pane, local, edits, faults>>

NoRule == [op |-> "or", of |-> <<>>]
Blank  == [fields |-> [f \in Fields |-> "none"], rules |-> [a \in Actions |-> NoRule]]
Nowhere == [e \in Names |-> None]

-----------------------------------------------------------------------------
(* The server.                                                             *)

\* buildSchemaSummary; what plugins own is there whatever is posted.
SchemaSummary(schema) == [e \in Names |-> IF e \in Plugins THEN Given[e] ELSE schema[e]]

\* validateRefTargets and the owner rules of validateConfig, over what was posted.
Accepted(schema) ==
    \A e \in Names : schema[e] # None =>
        /\ \A f \in Fields : schema[e].fields[f] # "none" /\ Target[f] # None =>
             schema[Target[f]] # None
        /\ \A a \in Actions, l \in Leaves :
             Contains(schema[e].rules[a].of, l) /\ OwnerField[l] # None =>
                schema[e].fields[OwnerField[l]] # "none"

Fault == faults < MaxFaults /\ faults' = faults + 1

-----------------------------------------------------------------------------
(* Screens, as they are mounted.                                           *)

\* renderMain: the browser of an entity that is gone gives way to the dashboard.
View(p, entities) == IF p \in Names /\ entities[p] = None THEN "dashboard" ELSE p

\* A run of the dashboard's effect, which has nothing to do without entities.
Runs(entities) ==
    IF entities = Nowhere THEN {}
    ELSE {[entities |-> entities, step |-> 0, cancelled |-> FALSE]}

\* Mutant: what the builder cannot show is an empty list to it.
CellOfEmptied(rule) ==
    [opaque |-> FALSE, leaves |-> IF rule.op = "or" THEN rule.of ELSE <<>>, original |-> rule]

\* buildDraft and ruleExprToLeaves: a list of leaves to edit, or an opaque rule
\* with the original to send back.
CellOf(rule) ==
    [opaque |-> rule.op # "or", leaves |-> IF rule.op = "or" THEN rule.of ELSE <<>>,
     original |-> rule]

RuleOf(cell) == IF cell.opaque THEN cell.original ELSE [op |-> "or", of |-> cell.leaves]

Cells(entities) ==
    [e \in Names |-> IF entities[e] = None THEN None
                     ELSE [a \in Actions |-> CellOf(entities[e].rules[a])]]

\* An editor starts from the entities it is given, and from its own reply.
Draft(p, entities) ==
    [draft |-> IF p = "matrix" THEN Cells(entities) ELSE entities,
     base |-> entities, touched |-> {}, saving |-> FALSE]

\* The dashboard has three sections and the runs that fill them; what a browser
\* has is in Records.
Mounted(p, entities) ==
    IF p = "dashboard"
    THEN [sections |-> [i \in 1 .. 3 |-> None], runs |-> Runs(entities)]
    ELSE IF p \in Names THEN None
    ELSE Draft(p, entities)

\* What a screen that stays does when the shell passes it other entities.
Passed(p, was, entities) ==
    IF p = "dashboard"
    THEN [was EXCEPT !.runs = {[r EXCEPT !.cancelled = TRUE] : r \in @} \cup Runs(entities)]
    ELSE was

Showing(t) == View(pane[t], shell[t])

\* setEntities of the shell.
SetEntities(t, entities) ==
    /\ shell' = [shell EXCEPT ![t] = entities]
    /\ local' = [local EXCEPT ![t] =
                   IF View(pane[t], entities) = Showing(t)
                   THEN Passed(Showing(t), @, entities)
                   ELSE Mounted(View(pane[t], entities), entities)]

Init ==
    /\ live = Given
    /\ post = [s \in Saves |-> None]
    /\ status = [t \in Tabs |-> "loading"]
    /\ shell = [t \in Tabs |-> Nowhere]
    /\ pane = [t \in Tabs |-> "dashboard"]
    /\ local = [t \in Tabs |-> Mounted("dashboard", Nowhere)]
    /\ edits = 0 /\ faults = 0

-----------------------------------------------------------------------------
(* The shell.  Until the schema is there its entities are {} and its mode  *)
(* is "code"; the screens can be opened all the same.                      *)

Load(t) ==
    /\ status[t] = "loading"
    /\ status' = [status EXCEPT ![t] = "ready"]
    /\ SetEntities(t, SchemaSummary(live))
    /\ UNCHANGED <<live, post, pane, edits, faults>>

\* The error replaces the whole shell.
LoadFails(t) ==
    /\ status[t] = "loading" /\ Fault
    /\ status' = [status EXCEPT ![t] = "failed"]
    /\ shell' = [shell EXCEPT ![t] = Nowhere]
    /\ UNCHANGED <<live, post, pane, local, edits>>

Retry(t) ==
    /\ status[t] = "failed"
    /\ status' = [status EXCEPT ![t] = "loading"]
    /\ local' = [local EXCEPT ![t] = Mounted(Showing(t), shell[t])]
    /\ UNCHANGED <<live, post, shell, pane, edits, faults>>

\* Another selection mounts another screen; a save goes on without its own.
Select(t, p) ==
    /\ status[t] # "failed" /\ p # pane[t]
    /\ p \in Names => shell[t][p] # None
    /\ pane' = [pane EXCEPT ![t] = p]
    /\ local' = [local EXCEPT ![t] = IF View(p, shell[t]) = Showing(t) THEN @
                                     ELSE Mounted(p, shell[t])]
    /\ post' = [s \in Saves |-> IF post[s] # None /\ post[s].tab = t
                                THEN [post[s] EXCEPT !.mounted = FALSE] ELSE post[s]]
    /\ UNCHANGED <<live, status, shell, edits, faults>>

-----------------------------------------------------------------------------
(* The dashboard.                                                          *)

\* Mutant: a run does not look whether it is still wanted.
ResumeUnchecked(t, run) ==
    /\ Showing(t) = "dashboard" /\ run \in local[t].runs
    /\ LET rest == local[t].runs \ {run}
           next == [run EXCEPT !.step = @ + 1]
       IN  local' = [local EXCEPT ![t] =
                       [sections |-> [@.sections EXCEPT ![next.step] = run.entities],
                        runs |-> IF next.step = 3 THEN rest ELSE rest \cup {next}]]
    /\ UNCHANGED <<live, post, status, shell, pane, edits, faults>>

\* A run fills a section each time its requests have settled, failed or not.
Resume(t, run) ==
    /\ Showing(t) = "dashboard" /\ run \in local[t].runs
    /\ LET rest == local[t].runs \ {run}
           next == [run EXCEPT !.step = @ + 1]
       IN  local' = [local EXCEPT ![t] =
                       IF run.cancelled THEN [@ EXCEPT !.runs = rest]
                       ELSE [sections |-> [@.sections EXCEPT ![next.step] = run.entities],
                             runs |-> IF next.step = 3 THEN rest ELSE rest \cup {next}]]
    /\ UNCHANGED <<live, post, status, shell, pane, edits, faults>>

-----------------------------------------------------------------------------
(* The editors: edits, and what a save sends.                              *)

\* Both editors are read-only until the shell knows the mode.
Editing(t, p) == status[t] = "ready" /\ pane[t] = p

Edit(t, entity, what, to) ==
    /\ edits < MaxEdits /\ edits' = edits + 1
    /\ local' = [local EXCEPT ![t].draft[entity] = to, ![t].touched = @ \cup {what}]
    /\ UNCHANGED <<live, post, status, shell, pane, faults>>

AddEntity(t, e) ==
    /\ Editing(t, "schema") /\ local[t].draft[e] = None
    /\ Edit(t, e, <<e>>, Blank)

AddField(t, e, f) ==
    /\ Editing(t, "schema") /\ e \notin Plugins /\ local[t].draft[e] # None
    /\ local[t].draft[e].fields[f] = "none"
    /\ Edit(t, e, <<e, f>>, [local[t].draft[e] EXCEPT !.fields[f] = "form"])

RemoveField(t, e, f) ==
    /\ Editing(t, "schema") /\ e \notin Plugins /\ local[t].draft[e] # None
    /\ local[t].draft[e].fields[f] # "none"
    /\ Edit(t, e, <<e, f>>, [local[t].draft[e] EXCEPT !.fields[f] = "none"])

\* The cells of an entity; one that came after the screen has empty ones.
Row(t, e) ==
    IF local[t].draft[e] = None THEN [a \in Actions |-> CellOf(NoRule)] ELSE local[t].draft[e]

AddCondition(t, e, a, leaf) ==
    /\ Editing(t, "matrix") /\ e \notin Plugins /\ shell[t][e] # None
    /\ ~Row(t, e)[a].opaque
    /\ Edit(t, e, <<e, a>>, [Row(t, e) EXCEPT ![a].leaves = Append(@, leaf)])

RemoveCondition(t, e, a, i) ==
    /\ Editing(t, "matrix") /\ e \notin Plugins /\ shell[t][e] # None
    /\ ~Row(t, e)[a].opaque /\ i \in DOMAIN Row(t, e)[a].leaves
    /\ Edit(t, e, <<e, a>>, [Row(t, e) EXCEPT ![a].leaves = RemoveAt(@, i)])

\* buildSchemaUpdateConfig of the draft; the matrix sends the fields of the
\* shell's entities with the rules of its own cells.
Body(t) ==
    [e \in Names |->
       IF e \in Plugins THEN None
       ELSE IF pane[t] = "schema" THEN local[t].draft[e]
       ELSE IF shell[t][e] = None THEN None
       ELSE [fields |-> shell[t][e].fields, rules |-> [a \in Actions |-> RuleOf(Row(t, e)[a])]]]

Save(t, s) ==
    /\ Editing(t, "schema") \/ Editing(t, "matrix")
    /\ ~local[t].saving
    /\ post[s] = None /\ \A r \in 1 .. s - 1 : post[r] # None
    /\ local' = [local EXCEPT ![t].saving = TRUE]
    /\ LET others == {r \in Saves : post[r] # None /\ post[r].stage # "over"} IN
       post' = [r \in Saves |->
                  IF r = s THEN [tab |-> t, from |-> pane[t], body |-> Body(t), stage |-> "sent",
                                 reply |-> None, mounted |-> TRUE, alone |-> others = {}]
                  ELSE IF r \in others THEN [post[r] EXCEPT !.alone = FALSE] ELSE post[r]]
    /\ UNCHANGED <<live, status, shell, pane, edits, faults>>

-----------------------------------------------------------------------------
(* POST /system/schema, and its reply.                                     *)

\* What plugins own is stripped from what is posted.
Apply(s) ==
    /\ post[s] # None /\ post[s].stage = "sent" /\ Accepted(post[s].body)
    /\ live' = [e \in Names |-> IF e \in Plugins THEN Given[e] ELSE post[s].body[e]]
    /\ post' = [post EXCEPT ![s].stage = "saved", ![s].reply = SchemaSummary(live')]
    /\ UNCHANGED <<status, shell, pane, local, edits, faults>>

Refuse(s) ==
    /\ post[s] # None /\ post[s].stage = "sent" /\ ~Accepted(post[s].body)
    /\ post' = [post EXCEPT ![s].stage = "refused"]
    /\ UNCHANGED <<live, status, shell, pane, local, edits, faults>>

\* The session is over, the migration fails, or the reply is lost.
PostFails(s) ==
    /\ post[s] # None /\ post[s].stage \in {"sent", "saved"} /\ Fault
    /\ post' = [post EXCEPT ![s].stage = "refused"]
    /\ UNCHANGED <<live, status, shell, pane, local, edits>>

\* Mutant: the shell is not told.
ReplyUntold(s) ==
    /\ post[s] # None /\ post[s].stage = "saved"
    /\ LET t == post[s].tab IN
       local' = [local EXCEPT ![t] = IF post[s].mounted THEN Draft(pane[t], post[s].reply) ELSE @]
    /\ post' = [post EXCEPT ![s].stage = "over"]
    /\ UNCHANGED <<live, status, shell, pane, edits, faults>>

\* The screen takes the reply for its draft, if it is still there, and the
\* shell for its entities in any case.
Reply(s) ==
    /\ post[s] # None /\ post[s].stage = "saved"
    /\ LET t == post[s].tab IN
       IF post[s].mounted
       THEN /\ shell' = [shell EXCEPT ![t] = post[s].reply]
            /\ local' = [local EXCEPT ![t] = Draft(pane[t], post[s].reply)]
       ELSE SetEntities(t, post[s].reply)
    /\ post' = [post EXCEPT ![s].stage = "over"]
    /\ UNCHANGED <<live, status, pane, edits, faults>>

\* The draft stays as it is, to be saved again.
Error(s) ==
    /\ post[s] # None /\ post[s].stage = "refused"
    /\ LET t == post[s].tab IN
       local' = IF post[s].mounted THEN [local EXCEPT ![t].saving = FALSE] ELSE local
    /\ post' = [post EXCEPT ![s].stage = "over", ![s].alone = FALSE]
    /\ UNCHANGED <<live, status, shell, pane, edits, faults>>

Next ==
    \/ \E t \in Tabs :
          \/ Load(t) \/ LoadFails(t) \/ Retry(t)
          \/ \E p \in Panes : Select(t, p)
          \/ \E r \in IF Showing(t) = "dashboard" THEN local[t].runs ELSE {} : Resume(t, r)
          \/ \E e \in Entities :
                \/ AddEntity(t, e)
                \/ \E f \in Fields : AddField(t, e, f) \/ RemoveField(t, e, f)
                \/ \E a \in Actions, l \in Leaves : AddCondition(t, e, a, l)
                \/ \E a \in Actions : RemoveCondition(t, e, a, 1)
          \/ \E s \in Saves : Save(t, s)
    \/ \E s \in Saves : Apply(s) \/ Refuse(s) \/ PostFails(s) \/ Reply(s) \/ Error(s)

Spec == Init /\ [][Next]_vars

-----------------------------------------------------------------------------
(* Properties.                                                             *)

\* Whatever screens were opened, saved and left before, a save sends what its
\* screen was last given with the edits made since: of what it was given, no
\* rule the builder cannot show and no field the form cannot make is changed on
\* the way.  An entity it was not given, as when it was opened before the schema
\* came, is sent with the rules of the edits alone, whatever rules it has.
SavesOnlyEdits ==
    \A t \in Tabs, e \in Entities : Editing(t, "schema") \/ Editing(t, "matrix") =>
        LET base == local[t].base[e]
            sent == Body(t)[e]
            rules == IF base = None THEN Blank.rules ELSE base.rules
            kept(what) == what \notin local[t].touched
        IN  /\ sent # None =>
                 \A a \in Actions : kept(<<e, a>>) => sent.rules[a] = rules[a]
            /\ Editing(t, "schema") =>
                 /\ base = None => (sent # None <=> ~kept(<<e>>))
                 /\ base # None => /\ sent # None
                                   /\ \A f \in Fields : kept(<<e, f>>) =>
                                        sent.fields[f] = base.fields[f]

\* When the last save was the only one under way, its reply leaves its tab with
\* the live schema, and its screen with nothing to save but later edits.
SavedIsShown ==
    \A s \in Saves :
        /\ post[s] # None /\ post[s].stage = "over" /\ post[s].alone
        /\ \A r \in s + 1 .. MaxSaves : post[r] = None
        => LET t == post[s].tab IN
           /\ shell[t] = SchemaSummary(live)
           /\ post[s].mounted /\ local[t].touched = {} /\ ~local[t].saving =>
                \A e \in Entities : Body(t)[e] = live[e]

\* Whatever is still under way, a dashboard that has loaded shows no section of
\* a schema the shell has replaced.
SectionsAreCurrent ==
    \A t \in Tabs :
        /\ status[t] # "failed" /\ Showing(t) = "dashboard"
        /\ local[t].runs = {} /\ shell[t] # Nowhere
        => \A i \in 1 .. 3 : local[t].sections[i] = shell[t]

\* A save takes no permission away that its screen does not edit: with that of
\* the schema screen "every entity's existing permissions survive the round-trip"
\* (SchemaViewerScreen.tsx:81-82), and the rules that the matrix cannot show "pass
\* through unchanged on save" (PermissionMatrixScreen.tsx:42-43).
PermissionsSurvive ==
    [][\A s \in Saves : Apply(s) =>
         \A e \in Entities, a \in Actions :
            /\ live[e] # None
            /\ post[s].from = "matrix" => CellOf(live[e].rules[a]).opaque
            => live'[e] # None /\ live'[e].rules[a] = live[e].rules[a]]_vars
==============================================================================
