----------------------------- MODULE Editor_proofs -----------------------------
(***************************************************************************)
(* Proofs about Editor and Records for any number of tabs, entities,       *)
(* fields, rules, saves, rows and clicks: a save sends what its screen was *)
(* given with the edits made since, the reply of the last save is what its *)
(* tab shows, no pane is left behind, and a form changes what was typed.   *)
(*                                                                         *)
(* The invariant has four parts.  Screens is what is mounted in each tab:  *)
(* a draft and how far it is from its base, or a dashboard and its runs.   *)
(* Posted ties a save to the tab and the screen that sent it, and to the   *)
(* other saves.  Browser is which load the browser awaits last.  Forms is  *)
(* what a form, and the request it sent, hold of its row.                  *)
(***************************************************************************)
EXTENDS Records, SequenceTheorems, FiniteSetTheorems, TLAPS

Editors == {"schema", "matrix"}
Paths   == {<<e>> : e \in Names} \cup (Names \X (Fields \cup Actions))
Drafts  == [schema |-> Schemas, matrix |-> [Names -> [Actions -> Cell] \cup {None}]]
Running == [entities : Schemas, step : 0 .. 2, cancelled : BOOLEAN]

TypeOK ==
    /\ live \in Schemas
    /\ post \in [Saves -> Posts \cup {None}]
    /\ status \in [Tabs -> {"loading", "ready", "failed"}]
    /\ shell \in [Tabs -> Schemas]
    /\ pane \in [Tabs -> Panes]
    /\ DOMAIN local = Tabs
    /\ edits \in Nat /\ faults \in Nat

\* Before there is a schema there is nothing to open but screens.
Early(t) == status[t] # "ready" => shell[t] = Nowhere /\ pane[t] \notin Names

\* A draft is what its base was made into by the edits it remembers.
Untouched(l, p) == l.touched = {} => l.draft = Draft(p, l.base).draft
SchemaEdited(l) ==
    \A e \in Entities :
        /\ l.base[e] = None =>
             /\ l.draft[e] # None <=> <<e>> \in l.touched
             /\ l.draft[e] # None => l.draft[e].rules = Blank.rules
        /\ l.base[e] # None =>
             /\ l.draft[e] # None /\ l.draft[e].rules = l.base[e].rules
             /\ \A f \in Fields : <<e, f>> \notin l.touched =>
                  l.draft[e].fields[f] = l.base[e].fields[f]
MatrixEdited(l) ==
    \A e \in Entities :
        /\ l.base[e] # None => l.draft[e] # None
        /\ l.draft[e] # None => \A a \in Actions : <<e, a>> \notin l.touched =>
             l.draft[e][a] = CellOf(IF l.base[e] = None THEN NoRule ELSE l.base[e].rules[a])
Edited(l, p) ==
    /\ l \in [draft : Drafts[p], base : Schemas, touched : SUBSET Paths, saving : BOOLEAN]
    /\ Untouched(l, p)
    /\ p = "schema" => SchemaEdited(l)
    /\ p = "matrix" => MatrixEdited(l)

\* A dashboard shows the shell's schema as far as the run that is wanted has
\* come, or all of it.
Filled(l, entities) ==
    /\ l \in [sections : [1 .. 3 -> Schemas \cup {None}], runs : SUBSET Running]
    /\ \A r \in l.runs : ~r.cancelled =>
         r.entities = entities /\ \A i \in 1 .. r.step : l.sections[i] = entities
    /\ entities # Nowhere =>
         (\E r \in l.runs : ~r.cancelled) \/ \A i \in 1 .. 3 : l.sections[i] = entities

Mount(l, p, entities) ==
    /\ p = "dashboard" => Filled(l, entities)
    /\ p \in Editors => Edited(l, p)
Screens == \A t \in Tabs : Early(t) /\ Mount(local[t], Showing(t), shell[t])

\* A save goes on in a tab that is ready.  While its screen is there, that
\* screen waits for this save alone.
Waits(s) == post[s] # None /\ post[s].mounted /\ post[s].stage # "over"
Sent(s) ==
    LET t == post[s].tab IN
      /\ status[t] = "ready"
      /\ post[s].mounted => pane[t] = post[s].from
      /\ Waits(s) => local[t].saving
      /\ post[s].stage = "saved" => post[s].reply \in Schemas
      /\ \A r \in 1 .. s - 1 : post[r] # None

\* A save that is, or was, alone meets no other one under way.
Alone(s) ==
    LET t == post[s].tab IN
      /\ \A r \in Saves : r # s /\ post[r] # None /\ (r < s \/ post[s].stage # "over")
           => post[r].stage = "over"
      /\ post[s].stage = "saved" => post[s].reply = SchemaSummary(live)
      /\ post[s].stage = "over" /\ (\A r \in s + 1 .. MaxSaves : post[r] = None)
           => /\ shell[t] = SchemaSummary(live)
              /\ post[s].mounted => local[t].base = shell[t]
Posted ==
    /\ \A s \in Saves : post[s] # None => Sent(s) /\ (post[s].alone => Alone(s))
    /\ \A r, s \in Saves : Waits(r) /\ Waits(s) /\ post[r].tab = post[s].tab => r = s

Desk == TypeOK /\ Screens /\ Posted

-----------------------------------------------------------------------------
(* The screens of records.                                                 *)

Queries    == [offset : Nat, filter : Nat \cup {None}, sort : {None, "asc", "desc"}]
Items      == [id : Ids, row : Rows]
Loads      == [query : Queries, rows : Seq(Items) \cup {None}, total : Nat]
Pages      == [query : Queries \cup {None}, rows : Seq(Items), total : Nat]
FormStates == [id : Ids \cup {None}, base : Rows, values : Rows, touched : SUBSET Editable,
               saving : BOOLEAN]
Stages     == {"sent", "done", "failed"}
Submits    == [id : Ids \cup {None}, base : Rows, touched : SUBSET Editable,
               payload : {Payload(values) : values \in Rows}, query : Queries, stage : Stages]
Deletes    == [id : Ids, query : Queries, stage : Stages]
Changes    == [id : Ids, role : Roles, stage : Stages]

RecordsTypeOK ==
    /\ table \in [Ids -> Rows \cup {None}]
    /\ asked \in Queries /\ loads \in Seq(Loads) /\ shown \in Pages
    /\ loading \in BOOLEAN /\ error \in BOOLEAN /\ crossed \in BOOLEAN
    /\ form \in FormStates \cup {None} /\ submit \in Submits \cup {None}
    /\ delete \in Deletes \cup {None}
    /\ changes \in Seq(Changes) /\ listed \in [Ids -> Roles \cup {None}]
    /\ clicks \in Nat

\* The browser awaits what was asked for last, or shows it, or an error.
Browser ==
    ~crossed => IF loads = <<>> THEN error \/ shown.query = asked
                ELSE loads[Len(loads)].query = asked

\* A form, and what it sends, hold a row as the widgets do, but for what was typed.
FormOf(id, base, touched, values, fields) ==
    /\ id = None => base = Fresh
    /\ \A f \in fields : f \notin touched => values[f] = Widget(f, base[f])
Forms ==
    /\ form # None => FormOf(form.id, form.base, form.touched, form.values, Columns)
    /\ submit # None =>
         FormOf(submit.id, submit.base, submit.touched, submit.payload, DOMAIN submit.payload)

Books == RecordsTypeOK /\ Browser /\ Forms

IInv == Desk /\ Books

-----------------------------------------------------------------------------
(* What is mounted.                                                        *)

\* A rule goes through a cell of the matrix unchanged, whatever it is.
LEMMA CellRound ==
    ASSUME NEW rule \in Rules
    PROVE  CellOf(rule) \in Cell /\ RuleOf(CellOf(rule)) = rule
<1>1. CellOf(rule) \in Cell
  BY DEF CellOf, Cell, Rules
<1>2. CASE rule.op = "or"
  <2>1. CellOf(rule).opaque = FALSE /\ CellOf(rule).leaves = rule.of
    BY <1>2 DEF CellOf
  <2>2. rule = [op |-> rule.op, of |-> rule.of]
    BY DEF Rules
  <2> QED BY <1>2, <2>1, <2>2, <1>1 DEF RuleOf
<1>3. CASE rule.op # "or"
  <2>1. CellOf(rule).opaque = TRUE /\ CellOf(rule).original = rule
    BY <1>3 DEF CellOf
  <2> QED BY <2>1, <1>1 DEF RuleOf
<1> QED BY <1>1, <1>2, <1>3

LEMMA BlankTyped == Blank \in Defs /\ NoRule \in Rules /\ Nowhere \in Schemas
BY DEF Blank, NoRule, Nowhere, Defs, Rules, Schemas

LEMMA SummaryTyped ==
    ASSUME EditorAssumption, NEW schema \in Schemas
    PROVE  SchemaSummary(schema) \in Schemas
BY DEF SchemaSummary, Schemas, EditorAssumption

\* The cells that the matrix starts from are those of its entities.
LEMMA CellsTyped ==
    ASSUME NEW entities \in Schemas
    PROVE  Cells(entities) \in [Names -> [Actions -> Cell] \cup {None}]
<1>1. ASSUME NEW e \in Names, entities[e] # None
      PROVE  [a \in Actions |-> CellOf(entities[e].rules[a])] \in [Actions -> Cell]
  <2>1. \A a \in Actions : entities[e].rules[a] \in Rules
    BY <1>1 DEF Schemas, Defs
  <2> QED BY <2>1, CellRound
<1> QED BY <1>1 DEF Cells

\* An editor starts with what it is given and nothing edited.
LEMMA DraftEdited ==
    ASSUME EditorAssumption, NEW entities \in Schemas, NEW p \in Editors
    PROVE  /\ Edited(Draft(p, entities), p)
           /\ Draft(p, entities).base = entities /\ ~Draft(p, entities).saving
<1> DEFINE l == Draft(p, entities)
<1>1. /\ l.base = entities /\ l.touched = {} /\ l.saving = FALSE
      /\ l.draft = IF p = "matrix" THEN Cells(entities) ELSE entities
  BY DEF Draft
<1>2. l \in [draft : Drafts[p], base : Schemas, touched : SUBSET Paths, saving : BOOLEAN]
  <2>1. (IF p = "matrix" THEN Cells(entities) ELSE entities) \in Drafts[p]
    BY CellsTyped DEF Drafts, Editors
  <2> QED BY <2>1 DEF Draft
<1>3. Untouched(l, p)
  BY <1>1 DEF Untouched
<1>4. p = "schema" => SchemaEdited(l)
  <2> HIDE DEF l
  <2> QED BY <1>1 DEF SchemaEdited
<1>5. p = "matrix" => MatrixEdited(l)
  <2> SUFFICES ASSUME p = "matrix", NEW e \in Entities
               PROVE  /\ entities[e] = None <=> l.draft[e] = None
                      /\ entities[e] # None =>
                           \A a \in Actions : l.draft[e][a] = CellOf(entities[e].rules[a])
    BY <1>1 DEF MatrixEdited
  <2>1. CASE entities[e] = None
    BY <1>1, <2>1 DEF Cells, Names
  <2>2. CASE entities[e] # None
    <3>1. l.draft[e] = [a \in Actions |-> CellOf(entities[e].rules[a])]
      BY <1>1, <2>2 DEF Cells, Names
    <3>2. l.draft[e] \in [Actions -> Cell]
      <4>1. \A a \in Actions : entities[e].rules[a] \in Rules
        BY <2>2 DEF Schemas, Defs, Names
      <4> QED BY <3>1, <4>1, CellRound
    <3> QED BY <2>2, <3>1, <3>2 DEF EditorAssumption
  <2> QED BY <2>1, <2>2
<1> QED BY <1>1, <1>2, <1>3, <1>4, <1>5 DEF Edited

\* The run of the dashboard's effect, if there is one, is at its beginning.
LEMMA RunsBegin ==
    ASSUME NEW entities \in Schemas
    PROVE  /\ Runs(entities) \in SUBSET Running
           /\ \A r \in Runs(entities) : ~r.cancelled /\ r.entities = entities /\ r.step = 0
           /\ entities # Nowhere => \E r \in Runs(entities) : ~r.cancelled
<1> DEFINE run == [entities |-> entities, step |-> 0, cancelled |-> FALSE]
<1>1. run \in Running /\ ~run.cancelled /\ run.entities = entities /\ run.step = 0
  BY DEF Running
<1>2. Runs(entities) = IF entities = Nowhere THEN {} ELSE {run}
  BY DEF Runs
<1> HIDE DEF run
<1> QED BY <1>1, <1>2

\* A screen that is mounted shows what it is given.
LEMMA MountedMounts ==
    ASSUME EditorAssumption, NEW entities \in Schemas, NEW p \in Panes
    PROVE  Mount(Mounted(p, entities), p, entities)
<1>1. CASE p = "dashboard"
  <2>1. Filled([sections |-> [i \in 1 .. 3 |-> None], runs |-> Runs(entities)], entities)
    BY RunsBegin DEF Filled
  <2> QED BY <1>1, <2>1 DEF Mount, Mounted, Editors
<1>2. CASE p \in Editors
  <2>1. p \notin Names /\ p # "dashboard"
    BY <1>2 DEF Editors, EditorAssumption
  <2> QED BY <1>2, <2>1, DraftEdited DEF Mount, Mounted
<1>3. CASE p # "dashboard" /\ p \notin Editors
  BY <1>3 DEF Mount
<1> QED BY <1>1, <1>2, <1>3

\* A screen that stays when the shell has new entities gives up on the runs for
\* the old ones.
LEMMA PassedMounts ==
    ASSUME NEW entities \in Schemas, NEW old, NEW l, NEW p \in Panes, Mount(l, p, old)
    PROVE  Mount(Passed(p, l, entities), p, entities)
<1>1. CASE p = "dashboard"
  <2>1. Filled(l, old)
    BY <1>1 DEF Mount
  <2> DEFINE given == {[r EXCEPT !.cancelled = TRUE] : r \in l.runs}
             m == [l EXCEPT !.runs = given \cup Runs(entities)]
  <2>2. given \in SUBSET Running /\ \A r \in given : r.cancelled
    BY <2>1 DEF Filled, Running
  <2>3. Runs(entities) \in SUBSET Running
    BY RunsBegin
  <2>4. /\ m \in [sections : [1 .. 3 -> Schemas \cup {None}], runs : SUBSET Running]
        /\ m.runs = given \cup Runs(entities)
    <3> HIDE DEF given
    <3> QED BY <2>1, <2>2, <2>3 DEF Filled
  <2>5. \A r \in m.runs : ~r.cancelled => r.entities = entities /\ r.step = 0
    BY <2>2, <2>4, RunsBegin
  <2>6. entities # Nowhere => \E r \in m.runs : ~r.cancelled
    BY <2>4, RunsBegin
  <2>7. Filled(m, entities)
    <3> HIDE DEF m
    <3> QED BY <2>4, <2>5, <2>6 DEF Filled
  <2> QED BY <1>1, <2>7 DEF Passed, Mount, Editors
<1>2. CASE p # "dashboard"
  BY <1>2 DEF Passed, Mount
<1> QED BY <1>1, <1>2

-----------------------------------------------------------------------------
(* Frames.                                                                 *)

\* An editor is never hidden by what the shell has.
LEMMA EditorShows ==
    ASSUME EditorAssumption, TypeOK, NEW t \in Tabs
    PROVE  /\ Showing(t) \in Panes
           /\ pane[t] \in Editors => Showing(t) = pane[t]
           /\ Showing(t) \in Editors => pane[t] = Showing(t)
           /\ Showing(t) = "dashboard" => pane[t] \notin Editors
BY DEF Showing, View, Panes, Editors, EditorAssumption, TypeOK

\* A step of one tab leaves the others' screens as they are.
LEMMA ScreensFrame ==
    ASSUME Screens, NEW t \in Tabs, Early(t)', Mount(local'[t], Showing(t)', shell'[t]),
           \A u \in Tabs \ {t} : /\ local'[u] = local[u] /\ shell'[u] = shell[u]
                                 /\ pane'[u] = pane[u] /\ status'[u] = status[u]
    PROVE  Screens'
<1> SUFFICES ASSUME NEW u \in Tabs
             PROVE  Early(u)' /\ Mount(local'[u], Showing(u)', shell'[u])
  BY DEF Screens
<1>1. CASE u = t
  BY <1>1
<1>2. CASE u # t
  <2>1. Early(u) /\ Mount(local[u], Showing(u), shell[u])
    BY DEF Screens
  <2>2. Showing(u)' = Showing(u)
    BY <1>2 DEF Showing
  <2> QED BY <1>2, <2>1, <2>2 DEF Early
<1> QED BY <1>1, <1>2

\* Saves do not notice what leaves their tabs' screens waiting on their bases.
LEMMA PostedFrame ==
    ASSUME TypeOK, Posted, UNCHANGED <<live, post>>,
           \A s \in Saves : post[s] # None =>
               LET t == post[s].tab IN
                 /\ status'[t] = status[t] /\ pane'[t] = pane[t] /\ shell'[t] = shell[t]
                 /\ post[s].mounted => /\ local'[t].saving = local[t].saving
                                       /\ local'[t].base = local[t].base
    PROVE  Posted'
<1>1. \A s \in Saves : Waits(s)' <=> Waits(s)
  BY DEF Waits
<1>2. ASSUME NEW s \in Saves, post[s] # None
      PROVE  Sent(s)'
  <2>1. Sent(s)
    BY <1>2 DEF Posted
  <2> QED BY <1>1, <1>2, <2>1 DEF Sent, Waits
<1>3. ASSUME NEW s \in Saves, post[s] # None, post[s].alone
      PROVE  Alone(s)'
  <2>1. Alone(s)
    BY <1>3 DEF Posted
  <2> QED BY <1>3, <2>1 DEF Alone, SchemaSummary
<1> QED BY <1>1, <1>2, <1>3 DEF Posted

\* What the shell is given reaches its screen, or leaves an editor its draft.
LEMMA SetEntitiesStep ==
    ASSUME EditorAssumption, TypeOK, Screens, NEW t \in Tabs, NEW entities \in Schemas,
           SetEntities(t, entities), pane' = pane
    PROVE  /\ DOMAIN local' = Tabs /\ shell' \in [Tabs -> Schemas] /\ shell'[t] = entities
           /\ Mount(local'[t], Showing(t)', shell'[t])
           /\ \A u \in Tabs \ {t} : local'[u] = local[u] /\ shell'[u] = shell[u]
           /\ pane[t] \in Editors => local'[t] = local[t]
<1>1. /\ shell' = [shell EXCEPT ![t] = entities]
      /\ local' = [local EXCEPT ![t] =
                     IF View(pane[t], entities) = Showing(t)
                     THEN Passed(Showing(t), local[t], entities)
                     ELSE Mounted(View(pane[t], entities), entities)]
  BY DEF SetEntities
<1>2. /\ DOMAIN local' = Tabs /\ shell' \in [Tabs -> Schemas] /\ shell'[t] = entities
      /\ \A u \in Tabs \ {t} : local'[u] = local[u] /\ shell'[u] = shell[u]
      /\ local'[t] = IF View(pane[t], entities) = Showing(t)
                     THEN Passed(Showing(t), local[t], entities)
                     ELSE Mounted(View(pane[t], entities), entities)
  BY <1>1 DEF TypeOK
<1>3. Showing(t)' = View(pane[t], entities) /\ View(pane[t], entities) \in Panes
  BY <1>2 DEF Showing, View, Panes, TypeOK
<1>4. CASE View(pane[t], entities) = Showing(t)
  <2>1. Mount(local[t], Showing(t), shell[t]) /\ shell[t] \in Schemas
    BY DEF Screens, TypeOK
  <2>2. Mount(Passed(Showing(t), local[t], entities), Showing(t), entities)
    BY <1>3, <1>4, <2>1, PassedMounts
  <2>3. pane[t] \in Editors => local'[t] = local[t]
    BY <1>2, <1>4, EditorShows DEF Passed, Editors
  <2> QED BY <1>2, <1>3, <1>4, <2>2, <2>3
<1>5. CASE View(pane[t], entities) # Showing(t)
  <2>1. Mount(Mounted(View(pane[t], entities), entities), View(pane[t], entities), entities)
    BY <1>3, MountedMounts
  <2>2. pane[t] \notin Editors
    BY <1>5, EditorShows DEF View, Editors, EditorAssumption
  <2> QED BY <1>2, <1>3, <1>5, <2>1, <2>2
<1> QED BY <1>4, <1>5

\* What a screen posts is a schema.
LEMMA BodyTyped ==
    ASSUME EditorAssumption, TypeOK, Screens, NEW t \in Tabs, pane[t] \in Editors
    PROVE  Body(t) \in Schemas
<1>1. Edited(local[t], pane[t])
  BY EditorShows DEF Screens, Mount
<1>2. local[t].draft \in Drafts[pane[t]] /\ shell[t] \in Schemas
  BY <1>1 DEF Edited, TypeOK
<1>3. CASE pane[t] = "schema"
  <2>1. local[t].draft \in Schemas
    BY <1>2, <1>3 DEF Drafts
  <2> QED BY <1>3, <2>1 DEF Body, Schemas
<1>4. CASE pane[t] = "matrix"
  <2>1. ASSUME NEW e \in Names, shell[t][e] # None
        PROVE  [fields |-> shell[t][e].fields, rules |-> [a \in Actions |-> RuleOf(Row(t, e)[a])]]
                 \in Defs
    <3>1. shell[t][e] \in Defs
      BY <1>2, <2>1 DEF Schemas
    <3>2. Row(t, e) \in [Actions -> Cell]
      <4>1. [a \in Actions |-> CellOf(NoRule)] \in [Actions -> Cell]
        BY BlankTyped, CellRound
      <4>2. local[t].draft[e] \in [Actions -> Cell] \cup {None}
        BY <1>2, <1>4 DEF Drafts
      <4> QED BY <4>1, <4>2 DEF Row
    <3>3. \A a \in Actions : RuleOf(Row(t, e)[a]) \in Rules
      <4> SUFFICES ASSUME NEW a \in Actions PROVE RuleOf(Row(t, e)[a]) \in Rules
        OBVIOUS
      <4>1. Row(t, e)[a] \in Cell
        BY <3>2
      <4> QED BY <4>1 DEF RuleOf, Cell, Rules
    <3> QED BY <3>1, <3>3 DEF Defs
  <2> QED BY <1>4, <2>1 DEF Body, Schemas
<1> QED BY <1>3, <1>4 DEF Editors

-----------------------------------------------------------------------------
(* The shell and the dashboard.                                            *)

LEMMA LoadStep ==
    ASSUME EditorAssumption, Desk, NEW t \in Tabs, Load(t)
    PROVE  Desk'
<1> USE DEF Desk
<1>1. /\ status[t] = "loading" /\ status' = [status EXCEPT ![t] = "ready"]
      /\ SetEntities(t, SchemaSummary(live)) /\ pane' = pane
      /\ UNCHANGED <<live, post, edits, faults>>
  BY DEF Load
<1>2. SchemaSummary(live) \in Schemas
  BY SummaryTyped DEF TypeOK
<1>3. /\ DOMAIN local' = Tabs /\ shell' \in [Tabs -> Schemas]
      /\ Mount(local'[t], Showing(t)', shell'[t])
      /\ \A u \in Tabs \ {t} : local'[u] = local[u] /\ shell'[u] = shell[u]
  BY <1>1, <1>2, SetEntitiesStep
<1>4. status'[t] = "ready" /\ \A u \in Tabs \ {t} : status'[u] = status[u]
  BY <1>1 DEF TypeOK
<1>5. TypeOK'
  BY <1>1, <1>3 DEF TypeOK
<1>6. Screens'
  BY <1>1, <1>3, <1>4, ScreensFrame DEF Early
<1>7. ASSUME NEW s \in Saves, post[s] # None
      PROVE  post[s].tab \in Tabs \ {t}
  <2>1. post[s] \in Posts /\ Sent(s)
    BY <1>7 DEF TypeOK, Posted
  <2> QED BY <1>1, <2>1 DEF Sent, Posts
<1>8. Posted'
  BY <1>1, <1>3, <1>4, <1>7, PostedFrame
<1> QED BY <1>5, <1>6, <1>8

LEMMA LoadFailsStep ==
    ASSUME EditorAssumption, Desk, NEW t \in Tabs, LoadFails(t)
    PROVE  Desk'
<1> USE DEF Desk
<1>1. /\ status[t] = "loading" /\ status' = [status EXCEPT ![t] = "failed"]
      /\ shell' = [shell EXCEPT ![t] = Nowhere]
      /\ UNCHANGED <<live, post, pane, local, edits>> /\ faults' = faults + 1
  BY DEF LoadFails, Fault
<1>2. shell[t] = Nowhere /\ pane[t] \notin Names
  BY <1>1 DEF Screens, Early
<1>3. shell' = shell
  BY <1>1, <1>2 DEF TypeOK
<1>4. status'[t] = "failed" /\ \A u \in Tabs \ {t} : status'[u] = status[u]
  BY <1>1 DEF TypeOK
<1>5. TypeOK'
  BY <1>1, <1>3 DEF TypeOK
<1>6. Screens'
  <2>1. Early(t)'
    BY <1>1, <1>2, <1>3 DEF Early
  <2>2. Mount(local'[t], Showing(t)', shell'[t])
    BY <1>1, <1>3 DEF Screens, Showing
  <2> QED BY <1>1, <1>3, <1>4, <2>1, <2>2, ScreensFrame
<1>7. ASSUME NEW s \in Saves, post[s] # None
      PROVE  post[s].tab \in Tabs \ {t}
  <2>1. post[s] \in Posts /\ Sent(s)
    BY <1>7 DEF TypeOK, Posted
  <2> QED BY <1>1, <2>1 DEF Sent, Posts
<1>8. Posted'
  BY <1>1, <1>3, <1>4, <1>7, PostedFrame
<1> QED BY <1>5, <1>6, <1>8

LEMMA RetryStep ==
    ASSUME EditorAssumption, Desk, NEW t \in Tabs, Retry(t)
    PROVE  Desk'
<1> USE DEF Desk
<1>1. /\ status[t] = "failed" /\ status' = [status EXCEPT ![t] = "loading"]
      /\ local' = [local EXCEPT ![t] = Mounted(Showing(t), shell[t])]
      /\ UNCHANGED <<live, post, shell, pane, edits, faults>>
  BY DEF Retry
<1>2. /\ status'[t] = "loading" /\ local'[t] = Mounted(Showing(t), shell[t])
      /\ \A u \in Tabs \ {t} : status'[u] = status[u] /\ local'[u] = local[u]
      /\ DOMAIN local' = Tabs
  BY <1>1 DEF TypeOK
<1>3. TypeOK'
  BY <1>1, <1>2 DEF TypeOK
<1>4. Screens'
  <2>1. Early(t)'
    BY <1>1 DEF Screens, Early
  <2>2. Showing(t)' = Showing(t)
    BY <1>1 DEF Showing
  <2>3. Showing(t) \in Panes /\ shell[t] \in Schemas
    BY EditorShows DEF TypeOK
  <2>4. Mount(local'[t], Showing(t)', shell'[t])
    BY <1>1, <1>2, <2>2, <2>3, MountedMounts
  <2> QED BY <1>1, <1>2, <2>1, <2>4, ScreensFrame
<1>5. ASSUME NEW s \in Saves, post[s] # None
      PROVE  post[s].tab \in Tabs \ {t}
  <2>1. post[s] \in Posts /\ Sent(s)
    BY <1>5 DEF TypeOK, Posted
  <2> QED BY <1>1, <2>1 DEF Sent, Posts
<1>6. Posted'
  BY <1>1, <1>2, <1>5, PostedFrame
<1> QED BY <1>3, <1>4, <1>6

\* A screen that is left no longer waits for its save.
LEMMA SelectStep ==
    ASSUME EditorAssumption, Desk, NEW t \in Tabs, NEW p \in Panes, Select(t, p)
    PROVE  Desk'
<1> USE DEF Desk
<1> DEFINE left(s) == IF post[s] # None /\ post[s].tab = t
                      THEN [post[s] EXCEPT !.mounted = FALSE] ELSE post[s]
<1>1. /\ status[t] # "failed" /\ p # pane[t] /\ (p \in Names => shell[t][p] # None)
      /\ pane' = [pane EXCEPT ![t] = p]
      /\ local' = [local EXCEPT ![t] = IF View(p, shell[t]) = Showing(t) THEN @
                                       ELSE Mounted(p, shell[t])]
      /\ post' = [s \in Saves |-> left(s)]
      /\ UNCHANGED <<live, status, shell, edits, faults>>
  BY DEF Select
<1>2. /\ pane' \in [Tabs -> Panes] /\ pane'[t] = p
      /\ local'[t] = IF View(p, shell[t]) = Showing(t) THEN local[t] ELSE Mounted(p, shell[t])
      /\ \A u \in Tabs \ {t} : pane'[u] = pane[u] /\ local'[u] = local[u]
      /\ DOMAIN local' = Tabs
  BY <1>1 DEF TypeOK
<1>3. ASSUME NEW s \in Saves
      PROVE  /\ post'[s] \in Posts \cup {None} /\ (post'[s] = None <=> post[s] = None)
             /\ post[s] # None => /\ post'[s].tab = post[s].tab /\ post'[s].from = post[s].from
                                  /\ post'[s].stage = post[s].stage
                                  /\ post'[s].reply = post[s].reply
                                  /\ post'[s].alone = post[s].alone
                                  /\ post'[s].mounted <=> (post[s].mounted /\ post[s].tab # t)
  <2>1. post'[s] = left(s) /\ post[s] \in Posts \cup {None}
    BY <1>1 DEF TypeOK
  <2>2. CASE post[s] # None /\ post[s].tab = t
    <3>1. [post[s] EXCEPT !.mounted = FALSE] \in Posts
      BY <2>1, <2>2 DEF Posts
    <3> QED BY <2>1, <2>2, <3>1 DEF EditorAssumption, Posts
  <2>3. CASE ~(post[s] # None /\ post[s].tab = t)
    BY <2>1, <2>3
  <2> QED BY <2>2, <2>3
<1>4. TypeOK'
  <2>1. post' \in [Saves -> Posts \cup {None}]
    BY <1>1, <1>3
  <2> QED BY <1>1, <1>2, <2>1 DEF TypeOK
<1>5. Screens'
  <2>1. Early(t)'
    <3>1. shell[t] = Nowhere /\ p \in Names => shell[t][p] = None
      BY DEF Nowhere
    <3> QED BY <1>1, <1>2, <3>1 DEF Screens, Early
  <2>2. Showing(t)' = View(p, shell[t]) /\ View(p, shell[t]) = p
    BY <1>1, <1>2 DEF Showing, View
  <2>3. Mount(local'[t], Showing(t)', shell'[t])
    <3>1. shell[t] \in Schemas /\ Mount(local[t], Showing(t), shell[t])
      BY DEF TypeOK, Screens
    <3> QED BY <1>1, <1>2, <2>2, <3>1, MountedMounts
  <2> QED BY <1>1, <1>2, <2>1, <2>3, ScreensFrame
<1>6. \A s \in Saves : Waits(s)' <=> Waits(s) /\ post[s].tab # t
  BY <1>3 DEF Waits
<1>7. ASSUME NEW s \in Saves, post[s] # None
      PROVE  Sent(s)'
  <2>1. Sent(s) /\ post[s] \in Posts
    BY <1>7 DEF Posted, TypeOK
  <2>2. post[s].tab # t => pane'[post[s].tab] = pane[post[s].tab]
                           /\ local'[post[s].tab] = local[post[s].tab]
    BY <1>2, <2>1 DEF Posts
  <2>3. \A r \in 1 .. s - 1 : r \in Saves
    BY DEF Saves, EditorAssumption
  <2> QED BY <1>1, <1>3, <1>6, <1>7, <2>1, <2>2, <2>3 DEF Sent
<1>8. ASSUME NEW s \in Saves, post[s] # None, post[s].alone
      PROVE  Alone(s)'
  <2>1. Alone(s) /\ post[s] \in Posts
    BY <1>8 DEF Posted, TypeOK
  <2>2. post[s].tab # t => local'[post[s].tab] = local[post[s].tab]
    BY <1>2, <2>1 DEF Posts
  <2>3. \A r \in s + 1 .. MaxSaves : r \in Saves
    BY DEF Saves, EditorAssumption
  <2>4. ASSUME NEW r \in Saves, r # s, post[r] # None, r < s \/ post[s].stage # "over"
        PROVE  post[r].stage = "over"
    BY <2>1, <2>4 DEF Alone
  <2>5. post[s].stage = "saved" => post[s].reply = SchemaSummary(live)
    BY <2>1 DEF Alone
  <2>6. ASSUME post[s].stage = "over", \A r \in s + 1 .. MaxSaves : post[r] = None
        PROVE  /\ shell[post[s].tab] = SchemaSummary(live)
               /\ post[s].mounted /\ post[s].tab # t
                    => local'[post[s].tab].base = shell[post[s].tab]
    BY <2>1, <2>2, <2>6 DEF Alone
  <2>7. SchemaSummary(live)' = SchemaSummary(live)
    BY <1>1 DEF SchemaSummary
  <2>8. (\A r \in s + 1 .. MaxSaves : post'[r] = None)
          => \A r \in s + 1 .. MaxSaves : post[r] = None
    BY <1>3, <2>3
  <2> HIDE DEF left
  <2>9. ASSUME NEW r \in Saves, r # s, post'[r] # None, r < s \/ post'[s].stage # "over"
        PROVE  post'[r].stage = "over"
    BY <1>3, <1>8, <2>4, <2>9
  <2> QED BY <1>1, <1>3, <1>8, <2>5, <2>6, <2>7, <2>8, <2>9 DEF Alone
<1>9. Posted'
  BY <1>3, <1>6, <1>7, <1>8 DEF Posted
<1> QED BY <1>4, <1>5, <1>9

\* A run that is wanted fills a section with the shell's schema; another one
\* ends.
LEMMA ResumeStep ==
    ASSUME EditorAssumption, Desk, NEW t \in Tabs, NEW run, Resume(t, run)
    PROVE  Desk'
<1> USE DEF Desk
<1> DEFINE rest == local[t].runs \ {run}
           next == [run EXCEPT !.step = @ + 1]
           now == [local[t].sections EXCEPT ![next.step] = run.entities]
           filled == [sections |-> now,
                      runs |-> IF next.step = 3 THEN rest ELSE rest \cup {next}]
           ended == [local[t] EXCEPT !.runs = rest]
<1>1. /\ Showing(t) = "dashboard" /\ run \in local[t].runs
      /\ local' = [local EXCEPT ![t] = IF run.cancelled THEN ended ELSE filled]
      /\ UNCHANGED <<live, post, status, shell, pane, edits, faults>>
  BY DEF Resume
<1>2. /\ local'[t] = IF run.cancelled THEN ended ELSE filled
      /\ \A u \in Tabs \ {t} : local'[u] = local[u]
      /\ DOMAIN local' = Tabs
  BY <1>1 DEF TypeOK
<1>3. /\ Filled(local[t], shell[t]) /\ run \in Running
      /\ run.step \in 0 .. 2 /\ run.entities \in Schemas
  BY <1>1 DEF Screens, Mount, Filled, Running
<1>4. TypeOK'
  BY <1>1, <1>2 DEF TypeOK
<1>5. ASSUME run.cancelled PROVE Filled(ended, shell[t])
  <2>1. /\ ended \in [sections : [1 .. 3 -> Schemas \cup {None}], runs : SUBSET Running]
        /\ ended.sections = local[t].sections /\ ended.runs = rest
    BY <1>3 DEF Filled
  <2> HIDE DEF ended
  <2> QED BY <1>3, <1>5, <2>1 DEF Filled
<1>6. ASSUME ~run.cancelled PROVE Filled(filled, shell[t])
  <2>1. /\ next \in [entities : Schemas, step : 1 .. 3, cancelled : BOOLEAN]
        /\ next.step = run.step + 1 /\ next.entities = run.entities /\ ~next.cancelled
        /\ next.step # 3 => next \in Running
    BY <1>3, <1>6 DEF Running
  <2>2. run.entities = shell[t] /\ \A i \in 1 .. run.step : local[t].sections[i] = shell[t]
    BY <1>1, <1>3, <1>6 DEF Filled
  <2>3. /\ now \in [1 .. 3 -> Schemas \cup {None}]
        /\ \A i \in 1 .. 3 : now[i] = IF i = next.step THEN shell[t] ELSE local[t].sections[i]
    <3> HIDE DEF next
    <3> QED BY <1>3, <2>1, <2>2 DEF Filled
  <2>4. filled.sections = now /\ filled.runs = IF next.step = 3 THEN rest ELSE rest \cup {next}
    OBVIOUS
  <2>5. filled \in [sections : [1 .. 3 -> Schemas \cup {None}], runs : SUBSET Running]
    <3>1. rest \in SUBSET Running
      BY <1>3 DEF Filled
    <3> HIDE DEF now, next, rest
    <3> QED BY <2>1, <2>3, <3>1
  <2> HIDE DEF filled, now, next
  <2>6. ASSUME NEW r \in filled.runs, ~r.cancelled
        PROVE  r.entities = shell[t] /\ \A i \in 1 .. r.step : filled.sections[i] = shell[t]
    <3>1. CASE r = next
      <4>1. \A i \in 1 .. next.step : i \in 1 .. 3 /\ (i = next.step \/ i \in 1 .. run.step)
        BY <1>3, <2>1
      <4> QED BY <2>1, <2>2, <2>3, <2>4, <3>1, <4>1
    <3>2. CASE r \in rest
      <4>1. /\ r \in Running /\ r.entities = shell[t]
            /\ \A i \in 1 .. r.step : local[t].sections[i] = shell[t]
        BY <1>3, <2>6, <3>2 DEF Filled
      <4>2. \A i \in 1 .. r.step : i \in 1 .. 3
        BY <4>1 DEF Running
      <4> QED BY <2>3, <2>4, <4>1, <4>2
    <3> QED BY <2>4, <2>6, <3>1, <3>2
  <2>7. (\E r \in filled.runs : ~r.cancelled) \/ \A i \in 1 .. 3 : filled.sections[i] = shell[t]
    <3>1. CASE next.step = 3
      <4>1. \A i \in 1 .. 3 : i = next.step \/ i \in 1 .. run.step
        BY <1>3, <2>1, <3>1
      <4> QED BY <2>2, <2>3, <2>4, <4>1
    <3>2. CASE next.step # 3
      BY <2>1, <2>4, <3>2
    <3> QED BY <3>1, <3>2
  <2> QED BY <2>5, <2>6, <2>7 DEF Filled
<1>7. Filled(local'[t], shell'[t])
  <2> HIDE DEF ended, filled
  <2> QED BY <1>1, <1>2, <1>5, <1>6
<1>8. Screens'
  <2>1. Showing(t)' = Showing(t)
    BY <1>1 DEF Showing
  <2>2. Mount(local'[t], Showing(t)', shell'[t])
    BY <1>1, <1>7, <2>1 DEF Mount, Editors
  <2>3. Early(t)'
    BY <1>1 DEF Screens, Early
  <2> QED BY <1>1, <1>2, <2>2, <2>3, ScreensFrame
<1>9. Posted'
  <2>1. ASSUME NEW s \in Saves, post[s] # None, post[s].mounted
        PROVE  local'[post[s].tab] = local[post[s].tab]
    <3>1. post[s] \in Posts /\ Sent(s)
      BY <2>1 DEF TypeOK, Posted
    <3>2. post[s].tab \in Tabs /\ pane[post[s].tab] \in Editors
      BY <2>1, <3>1 DEF Sent, Posts, Editors
    <3> QED BY <1>1, <1>2, <3>2, EditorShows
  <2> QED BY <1>1, <2>1, PostedFrame
<1> QED BY <1>4, <1>8, <1>9

-----------------------------------------------------------------------------
(* Edits.                                                                  *)

\* What an edit leaves of the state of its editor.
LEMMA EditMakes ==
    ASSUME EditorAssumption, Desk, NEW t \in Tabs, pane[t] \in Editors,
           NEW e \in Entities, NEW what \in Paths, NEW to, Edit(t, e, what, to),
           [local[t].draft EXCEPT ![e] = to] \in Drafts[pane[t]]
    PROVE  /\ DOMAIN local' = Tabs
           /\ \A u \in Tabs \ {t} : local'[u] = local[u]
           /\ local'[t].draft = [local[t].draft EXCEPT ![e] = to]
           /\ local'[t].base = local[t].base /\ local'[t].saving = local[t].saving
           /\ local'[t].touched = local[t].touched \cup {what}
           /\ local'[t] \in [draft : Drafts[pane[t]], base : Schemas, touched : SUBSET Paths,
                             saving : BOOLEAN]
<1>1. /\ DOMAIN local = Tabs
      /\ local' = [local EXCEPT ![t].draft[e] = to, ![t].touched = @ \cup {what}]
  BY DEF Edit, Desk, TypeOK
<1>2. local[t] \in [draft : Drafts[pane[t]], base : Schemas, touched : SUBSET Paths,
                    saving : BOOLEAN]
  BY EditorShows DEF Desk, Screens, Mount, Edited
<1>3. /\ DOMAIN local' = Tabs /\ \A u \in Tabs \ {t} : local'[u] = local[u]
      /\ local'[t] = [local[t] EXCEPT !.draft = [@ EXCEPT ![e] = to],
                                      !.touched = @ \cup {what}]
  BY <1>1
<1>4. /\ local'[t].draft = [local[t].draft EXCEPT ![e] = to]
      /\ local'[t].base = local[t].base /\ local'[t].saving = local[t].saving
      /\ local'[t].touched = local[t].touched \cup {what}
  BY <1>2, <1>3
<1>5. local'[t] \in [draft : Drafts[pane[t]], base : Schemas, touched : SUBSET Paths,
                     saving : BOOLEAN]
  <2> DEFINE draft == [local[t].draft EXCEPT ![e] = to]
             touched == local[t].touched \cup {what}
  <2>1. local'[t] = [local[t] EXCEPT !.draft = draft, !.touched = touched]
    BY <1>3
  <2>2. draft \in Drafts[pane[t]] /\ touched \in SUBSET Paths
    BY <1>2
  <2> HIDE DEF draft, touched
  <2> QED BY <1>2, <2>1, <2>2
<1> QED BY <1>3, <1>4, <1>5

\* An edit that keeps track of itself keeps the invariant.
LEMMA EditStep ==
    ASSUME EditorAssumption, Desk, NEW t \in Tabs, pane[t] \in Editors,
           NEW e \in Entities, NEW what \in Paths, NEW to, Edit(t, e, what, to),
           [local[t].draft EXCEPT ![e] = to] \in Drafts[pane[t]],
           pane[t] = "schema" => SchemaEdited(local'[t]),
           pane[t] = "matrix" => MatrixEdited(local'[t])
    PROVE  Desk'
<1> USE DEF Desk
<1>1. /\ UNCHANGED <<live, post, status, shell, pane, faults>> /\ edits' = edits + 1
  BY DEF Edit
<1>2. /\ DOMAIN local' = Tabs
      /\ \A u \in Tabs \ {t} : local'[u] = local[u]
      /\ local'[t].base = local[t].base /\ local'[t].saving = local[t].saving
      /\ local'[t].touched # {}
      /\ local'[t] \in [draft : Drafts[pane[t]], base : Schemas, touched : SUBSET Paths,
                        saving : BOOLEAN]
  BY EditMakes
<1>3. TypeOK'
  BY <1>1, <1>2 DEF TypeOK
<1>4. Edited(local'[t], pane[t])
  BY <1>2 DEF Edited, Untouched
<1>5. Screens'
  <2>1. Showing(t)' = pane[t] /\ pane[t] # "dashboard"
    BY <1>1, EditorShows DEF Showing, Editors
  <2>2. Mount(local'[t], Showing(t)', shell'[t])
    BY <1>4, <2>1 DEF Mount
  <2>3. Early(t)'
    BY <1>1 DEF Screens, Early
  <2> QED BY <1>1, <1>2, <2>2, <2>3, ScreensFrame
<1>6. Posted'
  <2>1. ASSUME NEW s \in Saves, post[s] # None
        PROVE  /\ local'[post[s].tab].base = local[post[s].tab].base
               /\ local'[post[s].tab].saving = local[post[s].tab].saving
    <3>1. post[s].tab \in Tabs
      BY <2>1 DEF TypeOK, Posts
    <3> QED BY <1>2, <3>1
  <2> QED BY <1>1, <2>1, PostedFrame
<1> QED BY <1>3, <1>5, <1>6

\* Paths of different things differ.
LEMMA PathsDiffer ==
    ASSUME NEW e, NEW f, NEW d, NEW g
    PROVE  /\ <<e>> # <<d, g>>
           /\ <<e, f>> = <<d, g>> <=> e = d /\ f = g
           /\ <<e>> = <<d>> <=> e = d
<1>1. Len(<<e>>) = 1 /\ Len(<<d, g>>) = 2
  OBVIOUS
<1>2. <<e, f>> = <<d, g>> <=> e = d /\ f = g
  OBVIOUS
<1>3. <<e>> = <<d>> <=> e = d
  OBVIOUS
<1> QED BY <1>1, <1>2, <1>3

\* The schema screen.
LEMMA SchemaEditStep ==
    ASSUME EditorAssumption, Desk, NEW t \in Tabs, NEW e \in Entities,
           AddEntity(t, e) \/ \E f \in Fields : AddField(t, e, f) \/ RemoveField(t, e, f)
    PROVE  Desk'
<1>1. pane[t] = "schema" /\ pane[t] \in Editors /\ e \in Names
  BY DEF AddEntity, AddField, RemoveField, Editing, Editors, Names
<1> DEFINE l == local[t]
<1>2. /\ l \in [draft : Schemas, base : Schemas, touched : SUBSET Paths, saving : BOOLEAN]
      /\ SchemaEdited(l)
  BY <1>1, EditorShows DEF Desk, Screens, Mount, Edited, Drafts
<1>3. l.draft \in Schemas
  BY <1>2
<1>4. CASE AddEntity(t, e)
  <2>1. l.draft[e] = None /\ Edit(t, e, <<e>>, Blank)
    BY <1>4 DEF AddEntity
  <2>2. <<e>> \in Paths
    BY <1>1 DEF Paths
  <2>3. /\ [l.draft EXCEPT ![e] = Blank] \in Drafts[pane[t]] /\ Blank # None
        /\ \A d \in Names : [l.draft EXCEPT ![e] = Blank][d] = IF d = e THEN Blank ELSE l.draft[d]
    BY <1>1, <1>3, BlankTyped DEF Drafts, Schemas, EditorAssumption
  <2>4. /\ local'[t].draft = [l.draft EXCEPT ![e] = Blank] /\ local'[t].base = l.base
        /\ local'[t].touched = l.touched \cup {<<e>>}
    BY <1>1, <2>1, <2>2, <2>3, EditMakes
  <2>5. SchemaEdited(local'[t])
    <3> SUFFICES ASSUME NEW d \in Entities
                 PROVE  /\ local'[t].base[d] = None =>
                             /\ local'[t].draft[d] # None <=> <<d>> \in local'[t].touched
                             /\ local'[t].draft[d] # None =>
                                  local'[t].draft[d].rules = Blank.rules
                        /\ local'[t].base[d] # None =>
                             /\ local'[t].draft[d] # None
                             /\ local'[t].draft[d].rules = local'[t].base[d].rules
                             /\ \A g \in Fields : <<d, g>> \notin local'[t].touched =>
                                  local'[t].draft[d].fields[g] = local'[t].base[d].fields[g]
      BY DEF SchemaEdited
    <3>1. d \in Names
      BY DEF Names
    <3>2. CASE d = e
      BY <1>2, <2>1, <2>3, <2>4, <3>1, <3>2 DEF SchemaEdited
    <3>3. CASE d # e
      <4>1. local'[t].draft[d] = l.draft[d]
        BY <2>3, <2>4, <3>1, <3>3
      <4>2. <<d>> \in local'[t].touched <=> <<d>> \in l.touched
        BY <2>4, <3>3, PathsDiffer
      <4> HIDE DEF l
      <4> QED BY <1>2, <2>4, <4>1, <4>2 DEF SchemaEdited
    <3> QED BY <3>2, <3>3
  <2> QED BY <1>1, <2>1, <2>2, <2>3, <2>5, EditStep
<1>5. ASSUME NEW f \in Fields, NEW kind \in {"none", "form"}, l.draft[e] # None,
             Edit(t, e, <<e, f>>, [l.draft[e] EXCEPT !.fields[f] = kind])
      PROVE  Desk'
  <2> DEFINE to == [l.draft[e] EXCEPT !.fields[f] = kind]
  <2>1. <<e, f>> \in Paths
    BY <1>1 DEF Paths
  <2>2. /\ to \in Defs /\ to.rules = l.draft[e].rules
        /\ \A g \in Fields \ {f} : to.fields[g] = l.draft[e].fields[g]
    <3>1. l.draft[e] \in Defs
      BY <1>1, <1>3, <1>5 DEF Schemas
    <3> QED BY <3>1 DEF Defs
  <2> HIDE DEF to
  <2>3. /\ [l.draft EXCEPT ![e] = to] \in Drafts[pane[t]] /\ to # None
        /\ \A d \in Names : [l.draft EXCEPT ![e] = to][d] = IF d = e THEN to ELSE l.draft[d]
    BY <1>1, <1>3, <2>2 DEF Drafts, Schemas, EditorAssumption
  <2>4. Edit(t, e, <<e, f>>, to)
    BY <1>5 DEF to
  <2>5. /\ local'[t].draft = [l.draft EXCEPT ![e] = to] /\ local'[t].base = l.base
        /\ local'[t].touched = l.touched \cup {<<e, f>>}
    BY <1>1, <2>1, <2>3, <2>4, EditMakes
  <2>6. SchemaEdited(local'[t])
    <3> SUFFICES ASSUME NEW d \in Entities
                 PROVE  /\ local'[t].base[d] = None =>
                             /\ local'[t].draft[d] # None <=> <<d>> \in local'[t].touched
                             /\ local'[t].draft[d] # None =>
                                  local'[t].draft[d].rules = Blank.rules
                        /\ local'[t].base[d] # None =>
                             /\ local'[t].draft[d] # None
                             /\ local'[t].draft[d].rules = local'[t].base[d].rules
                             /\ \A g \in Fields : <<d, g>> \notin local'[t].touched =>
                                  local'[t].draft[d].fields[g] = local'[t].base[d].fields[g]
      BY DEF SchemaEdited
    <3>1. d \in Names
      BY DEF Names
    <3>2. <<d>> \in local'[t].touched <=> <<d>> \in l.touched
      BY <2>5, PathsDiffer
    <3>3. \A g \in Fields : <<d, g>> \notin local'[t].touched =>
             <<d, g>> \notin l.touched /\ ~(d = e /\ g = f)
      BY <2>5
    <3>4. /\ l.base[d] = None =>
               /\ l.draft[d] # None <=> <<d>> \in l.touched
               /\ l.draft[d] # None => l.draft[d].rules = Blank.rules
          /\ l.base[d] # None =>
               /\ l.draft[d] # None /\ l.draft[d].rules = l.base[d].rules
               /\ \A g \in Fields : <<d, g>> \notin l.touched =>
                    l.draft[d].fields[g] = l.base[d].fields[g]
      BY <1>2 DEF SchemaEdited
    <3>5. CASE d = e
      <4>1. local'[t].draft[d] = to /\ l.draft[d] # None
        BY <1>5, <2>3, <2>5, <3>1, <3>5
      <4> HIDE DEF l
      <4> QED BY <2>2, <2>3, <2>5, <3>2, <3>3, <3>4, <3>5, <4>1
    <3>6. CASE d # e
      <4>1. local'[t].draft[d] = l.draft[d]
        BY <2>3, <2>5, <3>1, <3>6
      <4> HIDE DEF l
      <4> QED BY <2>5, <3>2, <3>3, <3>4, <4>1
    <3> QED BY <3>5, <3>6
  <2> QED BY <1>1, <2>1, <2>3, <2>4, <2>6, EditStep
<1>6. CASE \E f \in Fields : AddField(t, e, f)
  BY <1>5, <1>6 DEF AddField
<1>7. CASE \E f \in Fields : RemoveField(t, e, f)
  BY <1>5, <1>7 DEF RemoveField
<1> QED BY <1>4, <1>6, <1>7

\* A sequence without one of its elements.
LEMMA RemoveAtTyped ==
    ASSUME NEW S, NEW q \in Seq(S), NEW i \in DOMAIN q
    PROVE  /\ RemoveAt(q, i) \in Seq(S) /\ Len(RemoveAt(q, i)) = Len(q) - 1
           /\ \A j \in 1 .. Len(q) - 1 :
                RemoveAt(q, i)[j] = IF j < i THEN q[j] ELSE q[j + 1]
<1>1. i \in 1 .. Len(q) /\ Len(q) \in Nat /\ DOMAIN q = 1 .. Len(q)
  OBVIOUS
<1> DEFINE before == SubSeq(q, 1, i - 1)
           after == SubSeq(q, i + 1, Len(q))
<1>2. /\ before \in Seq(S) /\ Len(before) = i - 1
      /\ \A j \in 1 .. i - 1 : before[j] = q[j]
  BY <1>1
<1>3. /\ after \in Seq(S) /\ Len(after) = Len(q) - i
      /\ \A j \in 1 .. Len(q) - i : after[j] = q[j + i]
  BY <1>1
<1>4. RemoveAt(q, i) = before \o after
  BY DEF RemoveAt
<1> HIDE DEF before, after
<1>5. before \o after \in Seq(S) /\ Len(before \o after) = Len(q) - 1
  <2>1. before \o after \in Seq(S) /\ Len(before \o after) = Len(before) + Len(after)
    BY <1>2, <1>3, ConcatProperties
  <2>2. (i - 1) + (Len(q) - i) = Len(q) - 1
    BY <1>1
  <2> QED BY <1>2, <1>3, <2>1, <2>2
<1>6. ASSUME NEW j \in 1 .. Len(q) - 1
      PROVE  (before \o after)[j] = IF j < i THEN q[j] ELSE q[j + 1]
  <2>1. CASE j < i
    BY <1>1, <1>2, <1>3, <2>1
  <2>2. CASE ~(j < i)
    <3>1. j - Len(before) \in 1 .. Len(q) - i /\ j - Len(before) + i = j + 1
      BY <1>1, <1>2, <2>2
    <3>2. (before \o after)[j] = after[j - Len(before)]
      BY <1>1, <1>2, <1>3, <2>2, <3>1
    <3> QED BY <1>3, <2>2, <3>1, <3>2
  <2> QED BY <2>1, <2>2
<1> QED BY <1>4, <1>5, <1>6

\* The matrix.
LEMMA MatrixEditStep ==
    ASSUME EditorAssumption, Desk, NEW t \in Tabs, NEW e \in Entities, NEW a \in Actions,
           \/ \E leaf \in Leaves : AddCondition(t, e, a, leaf)
           \/ \E i : RemoveCondition(t, e, a, i)
    PROVE  Desk'
<1>1. pane[t] = "matrix" /\ pane[t] \in Editors /\ e \in Names
  BY DEF AddCondition, RemoveCondition, Editing, Editors, Names
<1> DEFINE l == local[t]
<1>2. /\ l \in [draft : Drafts["matrix"], base : Schemas, touched : SUBSET Paths, saving : BOOLEAN]
      /\ MatrixEdited(l)
  BY <1>1, EditorShows DEF Desk, Screens, Mount, Edited
<1>3. l.draft \in [Names -> [Actions -> Cell] \cup {None}]
  BY <1>2 DEF Drafts
<1>4. Row(t, e) \in [Actions -> Cell] /\ (l.draft[e] # None => Row(t, e) = l.draft[e])
  <2>1. [b \in Actions |-> CellOf(NoRule)] \in [Actions -> Cell]
    BY BlankTyped, CellRound
  <2> QED BY <1>1, <1>3, <2>1 DEF Row
<1>5. PICK leaves \in Seq(Leaves) : Edit(t, e, <<e, a>>, [Row(t, e) EXCEPT ![a].leaves = leaves])
  <2>1. Row(t, e)[a] \in Cell /\ Row(t, e)[a].leaves \in Seq(Leaves)
    BY <1>4 DEF Cell
  <2>2. ASSUME NEW leaf \in Leaves, AddCondition(t, e, a, leaf)
        PROVE  Edit(t, e, <<e, a>>,
                    [Row(t, e) EXCEPT ![a].leaves = Append(Row(t, e)[a].leaves, leaf)])
    BY <2>2, <1>4 DEF AddCondition
  <2>3. \A leaf \in Leaves : Append(Row(t, e)[a].leaves, leaf) \in Seq(Leaves)
    BY <2>1
  <2>4. ASSUME NEW i, RemoveCondition(t, e, a, i)
        PROVE  /\ Edit(t, e, <<e, a>>,
                       [Row(t, e) EXCEPT ![a].leaves = RemoveAt(Row(t, e)[a].leaves, i)])
               /\ i \in DOMAIN Row(t, e)[a].leaves
    BY <2>4, <1>4 DEF RemoveCondition
  <2>5. \A i \in DOMAIN Row(t, e)[a].leaves : RemoveAt(Row(t, e)[a].leaves, i) \in Seq(Leaves)
    BY <2>1, RemoveAtTyped
  <2> QED BY <2>2, <2>3, <2>4, <2>5
<1> DEFINE to == [Row(t, e) EXCEPT ![a].leaves = leaves]
<1>6. /\ to \in [Actions -> Cell] /\ to # None
      /\ \A b \in Actions \ {a} : to[b] = Row(t, e)[b]
  <2>1. Row(t, e)[a] \in Cell
    BY <1>4
  <2>2. [Row(t, e)[a] EXCEPT !.leaves = leaves] \in Cell
    BY <2>1 DEF Cell
  <2>3. to \in [Actions -> Cell]
    BY <1>4, <2>2
  <2> QED BY <1>4, <2>3 DEF EditorAssumption
<1>7. <<e, a>> \in Paths /\ Edit(t, e, <<e, a>>, to)
  BY <1>1, <1>5 DEF Paths
<1> HIDE DEF to
<1>8. /\ [l.draft EXCEPT ![e] = to] \in Drafts[pane[t]]
      /\ \A d \in Names : [l.draft EXCEPT ![e] = to][d] = IF d = e THEN to ELSE l.draft[d]
  BY <1>1, <1>3, <1>6 DEF Drafts
<1>9. /\ local'[t].draft = [l.draft EXCEPT ![e] = to] /\ local'[t].base = l.base
      /\ local'[t].touched = l.touched \cup {<<e, a>>}
  BY <1>1, <1>7, <1>8, EditMakes
<1>10. MatrixEdited(local'[t])
  <2> DEFINE rules(d, b) == IF l.base[d] = None THEN NoRule ELSE l.base[d].rules[b]
  <2> SUFFICES ASSUME NEW d \in Entities
               PROVE  /\ l.base[d] # None => local'[t].draft[d] # None
                      /\ local'[t].draft[d] # None =>
                           \A b \in Actions : <<d, b>> \notin local'[t].touched =>
                              local'[t].draft[d][b] = CellOf(rules(d, b))
    BY <1>9 DEF MatrixEdited
  <2>1. d \in Names
    BY DEF Names
  <2>2. \A b \in Actions : <<d, b>> \notin local'[t].touched =>
           <<d, b>> \notin l.touched /\ ~(d = e /\ b = a)
    BY <1>9
  <2>3. /\ l.base[d] # None => l.draft[d] # None
        /\ l.draft[d] # None =>
             \A b \in Actions : <<d, b>> \notin l.touched => l.draft[d][b] = CellOf(rules(d, b))
    BY <1>2 DEF MatrixEdited
  <2>4. CASE d = e
    <3>1. local'[t].draft[d] = to
      BY <1>8, <1>9, <2>1, <2>4
    <3>2. ASSUME NEW b \in Actions, <<d, b>> \notin local'[t].touched
          PROVE  to[b] = CellOf(rules(d, b))
      <4>1. to[b] = Row(t, e)[b] /\ <<d, b>> \notin l.touched
        BY <1>6, <2>2, <2>4, <3>2
      <4>2. CASE l.draft[d] = None
        BY <2>3, <2>4, <4>1, <4>2 DEF Row
      <4>3. CASE l.draft[d] # None
        BY <1>4, <2>3, <2>4, <4>1, <4>3
      <4> QED BY <4>2, <4>3
    <3> QED BY <1>6, <3>1, <3>2
  <2>5. CASE d # e
    <3>1. local'[t].draft[d] = l.draft[d]
      BY <1>8, <1>9, <2>1, <2>5
    <3> HIDE DEF l
    <3> QED BY <1>9, <2>2, <2>3, <3>1
  <2> QED BY <2>4, <2>5
<1> QED BY <1>1, <1>7, <1>8, <1>10, EditStep

-----------------------------------------------------------------------------
(* Saves.                                                                  *)

\* A save that is alone is over, and not the last, when another is under way.
LEMMA OthersAlone ==
    ASSUME EditorAssumption, TypeOK, Posted, NEW s \in Saves, post[s] # None,
           post[s].stage # "over", post'[s] # None,
           \A q \in Saves \ {s} : post'[q] = post[q],
           NEW r \in Saves \ {s}, post[r] # None, post[r].alone
    PROVE  Alone(r)'
<1>1. Alone(r) /\ Sent(r) /\ Sent(s)
  BY DEF Posted
<1>2. r \in Nat /\ s \in Nat /\ MaxSaves \in Nat /\ s <= MaxSaves
  BY DEF Saves, EditorAssumption
<1>3. post[r].stage = "over" /\ r < s
  BY <1>1, <1>2 DEF Alone
<1>4. s \in r + 1 .. MaxSaves
  BY <1>2, <1>3
<1>5. ASSUME NEW q \in Saves, q # r, post'[q] # None, q < r
      PROVE  post'[q].stage = "over"
  <2>1. q # s
    BY <1>2, <1>3, <1>5 DEF Saves
  <2> QED BY <1>1, <1>5, <2>1 DEF Alone
<1>6. post'[r] = post[r]
  OBVIOUS
<1> QED BY <1>3, <1>4, <1>5, <1>6 DEF Alone

\* The next stage of a save that is under way.
LEMMA PostedStep ==
    ASSUME EditorAssumption, TypeOK, Posted, NEW s \in Saves, post[s] # None,
           post[s].stage # "over", post'[s] # None,
           \A q \in Saves \ {s} : post'[q] = post[q],
           post'[s].tab = post[s].tab, post'[s].mounted = post[s].mounted,
           Sent(s)', post'[s].alone => Alone(s)',
           status' = status, pane' = pane,
           \A r \in Saves \ {s} : Waits(r) => local'[post[r].tab].saving
    PROVE  Posted'
<1>1. /\ \A r \in Saves \ {s} : Waits(r)' <=> Waits(r)
      /\ Waits(s)' => Waits(s)
  BY DEF Waits
<1>2. ASSUME NEW r \in Saves, post'[r] # None
      PROVE  Sent(r)'
  <2>1. CASE r = s
    BY <2>1
  <2>2. CASE r # s
    <3>1. Sent(r) /\ post'[r] = post[r]
      BY <1>2, <2>2 DEF Posted
    <3>2. \A q \in 1 .. r - 1 : q \in Saves
      BY DEF Saves, EditorAssumption
    <3>3. \A q \in 1 .. r - 1 : post'[q] # None
      BY <3>1, <3>2 DEF Sent
    <3> QED BY <1>1, <2>2, <3>1, <3>3 DEF Sent
  <2> QED BY <2>1, <2>2
<1>3. ASSUME NEW r \in Saves, post'[r] # None, post'[r].alone
      PROVE  Alone(r)'
  BY <1>3, OthersAlone
<1>4. ASSUME NEW q \in Saves, NEW r \in Saves, Waits(q)', Waits(r)', post'[q].tab = post'[r].tab
      PROVE  q = r
  <2>1. Waits(q) /\ Waits(r) /\ post[q].tab = post[r].tab
    BY <1>1, <1>4
  <2> QED BY <2>1 DEF Posted
<1> QED BY <1>2, <1>3, <1>4 DEF Posted

\* Whether a save is awaited is no part of what is edited.
LEMMA SavingKept ==
    ASSUME NEW p, NEW l, Edited(l, p), NEW b \in BOOLEAN
    PROVE  Edited([l EXCEPT !.saving = b], p)
<1> DEFINE m == [l EXCEPT !.saving = b]
<1>1. /\ l \in [draft : Drafts[p], base : Schemas, touched : SUBSET Paths, saving : BOOLEAN]
      /\ Untouched(l, p) /\ (p = "schema" => SchemaEdited(l)) /\ (p = "matrix" => MatrixEdited(l))
  BY DEF Edited
<1>2. /\ m \in [draft : Drafts[p], base : Schemas, touched : SUBSET Paths, saving : BOOLEAN]
      /\ m.draft = l.draft /\ m.base = l.base /\ m.touched = l.touched
  BY <1>1
<1> HIDE DEF m
<1>3. Untouched(m, p)
  BY <1>1, <1>2 DEF Untouched
<1>4. p = "schema" => SchemaEdited(m)
  <2> SUFFICES ASSUME p = "schema", NEW e \in Entities
               PROVE  /\ m.base[e] = None =>
                           /\ m.draft[e] # None <=> <<e>> \in m.touched
                           /\ m.draft[e] # None => m.draft[e].rules = Blank.rules
                      /\ m.base[e] # None =>
                           /\ m.draft[e] # None /\ m.draft[e].rules = m.base[e].rules
                           /\ \A f \in Fields : <<e, f>> \notin m.touched =>
                                m.draft[e].fields[f] = m.base[e].fields[f]
    BY DEF SchemaEdited
  <2> QED BY <1>1, <1>2 DEF SchemaEdited
<1>5. p = "matrix" => MatrixEdited(m)
  BY <1>1, <1>2 DEF MatrixEdited
<1>6. Edited(m, p)
  BY <1>2, <1>3, <1>4, <1>5 DEF Edited
<1> QED BY <1>6 DEF m

LEMMA SaveStep ==
    ASSUME EditorAssumption, Desk, NEW t \in Tabs, NEW s \in Saves, Save(t, s)
    PROVE  Desk'
<1> USE DEF Desk
<1> DEFINE others == {r \in Saves : post[r] # None /\ post[r].stage # "over"}
           new == [tab |-> t, from |-> pane[t], body |-> Body(t), stage |-> "sent",
                   reply |-> None, mounted |-> TRUE, alone |-> others = {}]
           then(r) == IF r = s THEN new
                      ELSE IF r \in others THEN [post[r] EXCEPT !.alone = FALSE] ELSE post[r]
<1>1. /\ status[t] = "ready" /\ pane[t] \in Editors /\ ~local[t].saving
      /\ post[s] = None /\ \A r \in 1 .. s - 1 : post[r] # None
      /\ local' = [local EXCEPT ![t].saving = TRUE]
      /\ UNCHANGED <<live, status, shell, pane, edits, faults>>
  BY DEF Save, Editing, Editors
<1>2. post' = [r \in Saves |-> then(r)]
  BY DEF Save
<1>3. new \in Posts /\ new # None
  <2>1. Body(t) \in Schemas
    BY <1>1, BodyTyped
  <2>2. new \in Posts
    BY <1>1, <2>1 DEF Posts, Editors
  <2> QED BY <2>2 DEF EditorAssumption
<1>4. post'[s] = new
  BY <1>2
<1>5. ASSUME NEW r \in Saves \ {s}
      PROVE  /\ post'[r] \in Posts \cup {None} /\ (post'[r] = None <=> post[r] = None)
             /\ post[r] # None => /\ post'[r].tab = post[r].tab /\ post'[r].from = post[r].from
                                  /\ post'[r].stage = post[r].stage
                                  /\ post'[r].reply = post[r].reply
                                  /\ post'[r].mounted = post[r].mounted
                                  /\ post'[r].alone =>
                                       post[r].alone /\ post[r].stage = "over"
  <2>1. /\ post[r] \in Posts \cup {None}
        /\ post'[r] = IF post[r] # None /\ post[r].stage # "over"
                      THEN [post[r] EXCEPT !.alone = FALSE] ELSE post[r]
    BY <1>2 DEF TypeOK
  <2>2. CASE post[r] # None /\ post[r].stage # "over"
    <3>1. [post[r] EXCEPT !.alone = FALSE] \in Posts
      BY <2>1, <2>2 DEF Posts
    <3> QED BY <2>1, <2>2, <3>1 DEF EditorAssumption, Posts
  <2>3. CASE ~(post[r] # None /\ post[r].stage # "over")
    BY <2>1, <2>3
  <2> QED BY <2>2, <2>3
<1>6. /\ DOMAIN local' = Tabs /\ local'[t] = [local[t] EXCEPT !.saving = TRUE]
      /\ \A u \in Tabs \ {t} : local'[u] = local[u]
  BY <1>1 DEF TypeOK
<1>7. TypeOK'
  <2>1. ASSUME NEW r \in Saves
        PROVE  post'[r] \in Posts \cup {None}
    BY <1>3, <1>4, <1>5
  <2>2. post' \in [Saves -> Posts \cup {None}]
    BY <1>2, <2>1
  <2> QED BY <1>1, <1>6, <2>2 DEF TypeOK
<1>8. Edited(local[t], pane[t]) /\ Showing(t) = pane[t]
  BY <1>1, EditorShows DEF Screens, Mount
<1>9. Screens'
  <2>1. Edited(local'[t], pane[t])
    <3>1. Edited([local[t] EXCEPT !.saving = TRUE], pane[t])
      BY <1>8, SavingKept
    <3> QED BY <1>6, <3>1
  <2>2. Showing(t)' = pane[t] /\ pane[t] # "dashboard"
    BY <1>1, <1>8 DEF Showing, Editors
  <2>3. Mount(local'[t], Showing(t)', shell'[t])
    BY <2>1, <2>2 DEF Mount
  <2>4. Early(t)'
    BY <1>1 DEF Screens, Early
  <2> QED BY <1>1, <1>6, <2>3, <2>4, ScreensFrame
<1>10. \A u \in Tabs : /\ local[u].saving => local'[u].saving
                       /\ u # t => local'[u] = local[u]
                       /\ u = t => local'[u].saving
  <2>1. local'[t].saving
    BY <1>6, <1>8 DEF Edited
  <2> QED BY <1>6, <2>1
<1>11. \A r \in Saves : r # s => (Waits(r)' <=> Waits(r))
  BY <1>5 DEF Waits
<1> HIDE DEF then
<1>12. ASSUME NEW r \in Saves, post'[r] # None
       PROVE  Sent(r)'
  <2>1. \A q \in 1 .. r - 1 : q \in Saves
    BY DEF Saves, EditorAssumption
  <2>2. CASE r = s
    <3>1. \A q \in 1 .. s - 1 : q # s
      BY DEF Saves
    <3>2. \A q \in 1 .. s - 1 : post'[q] # None
      BY <1>1, <1>5, <2>1, <2>2, <3>1
    <3> QED BY <1>1, <1>4, <1>10, <2>2, <3>2 DEF Sent
  <2>3. CASE r # s
    <3>1. post[r] # None /\ Sent(r) /\ post[r] \in Posts
      BY <1>5, <1>12, <2>3 DEF Posted, TypeOK
    <3>2. \A q \in 1 .. r - 1 : post'[q] # None
      BY <1>3, <1>4, <1>5, <2>1, <3>1 DEF Sent
    <3>3. post[r].tab \in Tabs
      BY <3>1 DEF Posts
    <3> QED BY <1>1, <1>5, <1>10, <1>11, <2>3, <3>1, <3>2, <3>3 DEF Sent
  <2> QED BY <2>2, <2>3
<1>13. ASSUME NEW r \in Saves, post'[r] # None, post'[r].alone
       PROVE  Alone(r)'
  <2>1. CASE r = s
    <3>1. others = {}
      <4>1. new.alone
        BY <1>4, <1>13, <2>1
      <4>2. new.alone <=> others = {}
        <5> HIDE DEF others
        <5> QED BY Zenon
      <4> QED BY <4>1, <4>2
    <3>2. \A q \in Saves : q # s /\ post'[q] # None => post'[q].stage = "over"
      BY <1>5, <3>1
    <3> QED BY <1>4, <2>1, <3>2 DEF Alone
  <2>2. CASE r # s
    <3>1. post[r] # None /\ post[r].alone /\ post[r].stage = "over" /\ post'[r].stage = "over"
      BY <1>5, <1>13, <2>2
    <3>2. Alone(r) /\ Sent(r)
      BY <3>1 DEF Posted
    <3>3. r \in Nat /\ s \in Nat /\ MaxSaves \in Nat /\ s <= MaxSaves /\ 1 <= s
      BY DEF Saves, EditorAssumption
    <3>4. r < s
      <4>1. CASE s < r
        <5>1. s \in 1 .. r - 1
          BY <3>3, <4>1
        <5> QED BY <1>1, <3>2, <5>1 DEF Sent
      <4> QED BY <2>2, <3>3, <4>1
    <3>5. s \in r + 1 .. MaxSaves /\ post'[s] # None
      BY <1>3, <1>4, <3>3, <3>4
    <3>6. ASSUME NEW q \in Saves, q # r, post'[q] # None, q < r
          PROVE  post'[q].stage = "over"
      <4>1. q # s
        BY <3>3, <3>4, <3>6 DEF Saves
      <4> QED BY <1>5, <3>2, <3>6, <4>1 DEF Alone
    <3> QED BY <3>1, <3>5, <3>6 DEF Alone
  <2> QED BY <2>1, <2>2
<1>14. ASSUME NEW q \in Saves, NEW r \in Saves, Waits(q)', Waits(r)', post'[q].tab = post'[r].tab
       PROVE  q = r
  <2>1. ASSUME NEW x \in Saves, x # s, Waits(x)'
        PROVE  post'[x].tab = post[x].tab /\ post[x].tab # t
    <3>1. Waits(x) /\ Sent(x)
      BY <1>11, <2>1 DEF Posted, Waits
    <3> QED BY <1>1, <1>5, <2>1, <3>1 DEF Sent, Waits
  <2>2. CASE q # s /\ r # s
    BY <1>11, <1>14, <2>1, <2>2 DEF Posted
  <2>3. CASE q = s \/ r = s
    BY <1>4, <1>14, <2>1, <2>3
  <2> QED BY <2>2, <2>3
<1>15. Posted'
  BY <1>12, <1>13, <1>14 DEF Posted
<1> QED BY <1>7, <1>9, <1>15

\* The server's part: applied, refused or failed.
LEMMA ServeStep ==
    ASSUME EditorAssumption, Desk, NEW s \in Saves, Apply(s) \/ Refuse(s) \/ PostFails(s)
    PROVE  Desk'
<1> USE DEF Desk
<1>1. /\ post[s] # None /\ post[s].stage \in {"sent", "saved"} /\ post[s] \in Posts
      /\ UNCHANGED <<status, shell, pane, local, edits>>
  BY DEF Apply, Refuse, PostFails, Fault, TypeOK
<1>2. PICK stage \in {"saved", "refused"}, reply \in Schemas \cup {None} :
        /\ post' = [post EXCEPT ![s] = [@ EXCEPT !.stage = stage, !.reply = reply]]
        /\ stage = "saved" => reply = SchemaSummary(live)' /\ reply \in Schemas
        /\ live' \in Schemas /\ faults' \in Nat
  <2>1. CASE Apply(s)
    <3>1. live' = [e \in Names |-> IF e \in Plugins THEN Given[e] ELSE post[s].body[e]]
      BY <2>1 DEF Apply
    <3>2. live' \in Schemas
      BY <1>1, <3>1 DEF Posts, Schemas, EditorAssumption
    <3>3. SchemaSummary(live') \in Schemas
      BY <3>2, SummaryTyped
    <3>4. post' = [post EXCEPT ![s] = [@ EXCEPT !.stage = "saved", !.reply = SchemaSummary(live')]]
      BY <2>1, <1>1 DEF Apply, TypeOK
    <3>5. SchemaSummary(live)' = SchemaSummary(live') /\ faults' \in Nat
      BY <2>1 DEF Apply, SchemaSummary, TypeOK
    <3> QED BY <3>2, <3>3, <3>4, <3>5
  <2>2. CASE Refuse(s) \/ PostFails(s)
    <3>1. /\ post' = [post EXCEPT ![s].stage = "refused"] /\ live' = live /\ faults' \in Nat
          /\ post[s].reply \in Schemas \cup {None}
      BY <1>1, <2>2 DEF Refuse, PostFails, Fault, TypeOK, Posts
    <3>2. [post[s] EXCEPT !.stage = "refused"] =
             [post[s] EXCEPT !.stage = "refused", !.reply = post[s].reply]
      BY <1>1 DEF Posts
    <3>3. post' = [post EXCEPT ![s] = [@ EXCEPT !.stage = "refused", !.reply = post[s].reply]]
      BY <3>1, <3>2 DEF TypeOK
    <3> QED BY <3>1, <3>3 DEF TypeOK
  <2> QED BY <2>1, <2>2
<1>3. [post[s] EXCEPT !.stage = stage, !.reply = reply] \in Posts
  BY <1>1 DEF Posts
<1>4. /\ post'[s] \in Posts /\ post'[s] # None
      /\ post'[s].tab = post[s].tab /\ post'[s].from = post[s].from
      /\ post'[s].mounted = post[s].mounted /\ post'[s].alone = post[s].alone
      /\ post'[s].stage = stage /\ post'[s].reply = reply
      /\ \A q \in Saves \ {s} : post'[q] = post[q]
      /\ post' \in [Saves -> Posts \cup {None}]
  BY <1>1, <1>2, <1>3 DEF TypeOK, Posts, EditorAssumption
<1>5. TypeOK'
  BY <1>1, <1>2, <1>4 DEF TypeOK
<1>6. Screens'
  BY <1>1 DEF Screens, Early, Showing
<1>7. Sent(s)'
  <2>1. Sent(s) /\ \A q \in 1 .. s - 1 : q \in Saves \ {s}
    BY <1>1 DEF Posted, Saves, EditorAssumption
  <2>2. Waits(s)' => Waits(s)
    BY <1>1, <1>4 DEF Waits
  <2> QED BY <1>1, <1>2, <1>4, <2>1, <2>2 DEF Sent
<1>8. post'[s].alone => Alone(s)'
  <2> SUFFICES ASSUME post[s].alone PROVE Alone(s)'
    BY <1>4
  <2>1. Alone(s)
    BY <1>1 DEF Posted
  <2>2. ASSUME NEW r \in Saves, r # s, post'[r] # None
        PROVE  post'[r].stage = "over"
    BY <1>1, <1>4, <2>1, <2>2 DEF Alone
  <2> QED BY <1>2, <1>4, <2>2 DEF Alone
<1>9. \A r \in Saves \ {s} : Waits(r) => local'[post[r].tab].saving
  <2> SUFFICES ASSUME NEW r \in Saves, Waits(r) PROVE local[post[r].tab].saving
    BY <1>1
  <2>1. Sent(r)
    BY DEF Waits, Posted
  <2> QED BY <2>1 DEF Sent
<1>10. Posted'
  BY <1>1, <1>4, <1>7, <1>8, <1>9, PostedStep
<1> QED BY <1>5, <1>6, <1>10

\* Whoever else waits does so in another tab than a screen that waits.
LEMMA WaitsElsewhere ==
    ASSUME TypeOK, Posted, NEW s \in Saves, NEW r \in Saves \ {s}, Waits(r)
    PROVE  /\ post[r].tab \in Tabs /\ pane[post[r].tab] \in Editors
           /\ local[post[r].tab].saving
           /\ Waits(s) => post[r].tab # post[s].tab
<1>1. post[r] \in Posts /\ Sent(r)
  BY DEF Waits, Posted, TypeOK
<1>2. post[r].tab \in Tabs /\ pane[post[r].tab] \in Editors /\ local[post[r].tab].saving
  BY <1>1 DEF Sent, Posts, Editors, Waits
<1> QED BY <1>2 DEF Posted

\* The reply of a save.
LEMMA ReplyStep ==
    ASSUME EditorAssumption, Desk, NEW s \in Saves, Reply(s)
    PROVE  Desk'
<1> USE DEF Desk
<1> DEFINE t == post[s].tab
<1>1. /\ post[s] # None /\ post[s].stage = "saved" /\ post[s] \in Posts
      /\ post' = [post EXCEPT ![s].stage = "over"]
      /\ UNCHANGED <<live, status, pane, edits, faults>>
  BY DEF Reply, TypeOK
<1>2. Sent(s) /\ t \in Tabs /\ status[t] = "ready" /\ post[s].reply \in Schemas
  BY <1>1 DEF Posted, Sent, Posts
<1>3. /\ post'[s] \in Posts /\ post'[s] # None
      /\ post'[s].tab = t /\ post'[s].from = post[s].from
      /\ post'[s].mounted = post[s].mounted /\ post'[s].alone = post[s].alone
      /\ post'[s].stage = "over" /\ post'[s].reply = post[s].reply
      /\ \A q \in Saves \ {s} : post'[q] = post[q]
      /\ post' \in [Saves -> Posts \cup {None}]
  <2>1. [post[s] EXCEPT !.stage = "over"] \in Posts
    BY <1>1 DEF Posts
  <2> QED BY <1>1, <2>1 DEF TypeOK, Posts, EditorAssumption
<1>4. /\ DOMAIN local' = Tabs /\ shell' \in [Tabs -> Schemas] /\ shell'[t] = post[s].reply
      /\ Mount(local'[t], Showing(t)', shell'[t])
      /\ \A u \in Tabs \ {t} : local'[u] = local[u] /\ shell'[u] = shell[u]
      /\ post[s].mounted => local'[t].base = post[s].reply
      /\ ~post[s].mounted /\ pane[t] \in Editors => local'[t] = local[t]
  <2>1. CASE post[s].mounted
    <3>1. /\ shell' = [shell EXCEPT ![t] = post[s].reply]
          /\ local' = [local EXCEPT ![t] = Draft(pane[t], post[s].reply)]
      BY <2>1 DEF Reply
    <3>2. pane[t] \in Editors /\ pane[t] # "dashboard"
      BY <1>1, <1>2, <2>1 DEF Sent, Posts, Editors
    <3>3. /\ Edited(Draft(pane[t], post[s].reply), pane[t])
          /\ Draft(pane[t], post[s].reply).base = post[s].reply
      BY <1>2, <3>2, DraftEdited
    <3>4. Showing(t)' = pane[t]
      <4>1. pane[t] \notin Names
        BY <3>2 DEF Editors, EditorAssumption
      <4> QED BY <1>1, <4>1 DEF Showing, View
    <3>5. /\ DOMAIN local' = Tabs /\ shell' \in [Tabs -> Schemas] /\ shell'[t] = post[s].reply
          /\ local'[t] = Draft(pane[t], post[s].reply)
          /\ \A u \in Tabs \ {t} : local'[u] = local[u] /\ shell'[u] = shell[u]
      BY <1>2, <3>1 DEF TypeOK
    <3>6. Mount(local'[t], Showing(t)', shell'[t])
      BY <3>2, <3>3, <3>4, <3>5 DEF Mount
    <3> QED BY <2>1, <3>3, <3>5, <3>6
  <2>2. CASE ~post[s].mounted
    <3>1. SetEntities(t, post[s].reply)
      BY <2>2 DEF Reply
    <3> QED BY <1>1, <1>2, <2>2, <3>1, SetEntitiesStep
  <2> QED BY <2>1, <2>2
<1>5. TypeOK'
  BY <1>1, <1>3, <1>4 DEF TypeOK
<1>6. Screens'
  <2>1. Early(t)'
    BY <1>1, <1>2 DEF Early
  <2> QED BY <1>1, <1>2, <1>4, <2>1, ScreensFrame
<1>7. Sent(s)'
  <2>1. \A q \in 1 .. s - 1 : q \in Saves \ {s}
    BY DEF Saves, EditorAssumption
  <2>2. ~Waits(s)'
    BY <1>3 DEF Waits
  <2> QED BY <1>1, <1>2, <1>3, <2>1, <2>2 DEF Sent
<1>8. post'[s].alone => Alone(s)'
  <2> SUFFICES ASSUME post[s].alone PROVE Alone(s)'
    BY <1>3
  <2>1. Alone(s)
    BY <1>1 DEF Posted
  <2>2. ASSUME NEW r \in Saves, r # s, post'[r] # None
        PROVE  post'[r].stage = "over"
    BY <1>1, <1>3, <2>1, <2>2 DEF Alone
  <2>3. post[s].reply = SchemaSummary(live) /\ SchemaSummary(live)' = SchemaSummary(live)
    BY <1>1, <2>1 DEF Alone, SchemaSummary
  <2> QED BY <1>3, <1>4, <2>2, <2>3 DEF Alone
<1>9. ASSUME NEW r \in Saves \ {s}, Waits(r)
      PROVE  local'[post[r].tab].saving
  <2>1. /\ post[r].tab \in Tabs /\ pane[post[r].tab] \in Editors /\ local[post[r].tab].saving
        /\ Waits(s) => post[r].tab # t
    BY <1>9, WaitsElsewhere
  <2>2. CASE post[r].tab = t
    <3>1. ~post[s].mounted
      BY <1>1, <2>1, <2>2 DEF Waits
    <3> QED BY <1>4, <2>1, <2>2, <3>1
  <2>3. CASE post[r].tab # t
    BY <1>4, <2>1, <2>3
  <2> QED BY <2>2, <2>3
<1>10. Posted'
  BY <1>1, <1>3, <1>7, <1>8, <1>9, PostedStep
<1> QED BY <1>5, <1>6, <1>10

\* An error leaves the draft as it is.
LEMMA ErrorStep ==
    ASSUME EditorAssumption, Desk, NEW s \in Saves, Error(s)
    PROVE  Desk'
<1> USE DEF Desk
<1> DEFINE t == post[s].tab
<1>1. /\ post[s] # None /\ post[s].stage = "refused" /\ post[s] \in Posts
      /\ post' = [post EXCEPT ![s].stage = "over", ![s].alone = FALSE]
      /\ local' = IF post[s].mounted THEN [local EXCEPT ![t].saving = FALSE] ELSE local
      /\ UNCHANGED <<live, status, shell, pane, edits, faults>>
  BY DEF Error, TypeOK
<1>2. Sent(s) /\ t \in Tabs /\ status[t] = "ready"
  BY <1>1 DEF Posted, Sent, Posts
<1>3. /\ post'[s] \in Posts /\ post'[s] # None
      /\ post'[s].tab = t /\ post'[s].from = post[s].from
      /\ post'[s].mounted = post[s].mounted /\ ~post'[s].alone
      /\ post'[s].stage = "over"
      /\ \A q \in Saves \ {s} : post'[q] = post[q]
      /\ post' \in [Saves -> Posts \cup {None}]
  <2> DEFINE new == [post[s] EXCEPT !.stage = "over", !.alone = FALSE]
  <2>1. /\ new \in Posts /\ new.tab = t /\ new.from = post[s].from /\ new.stage = "over"
        /\ new.mounted = post[s].mounted /\ new.alone = FALSE
    BY <1>1 DEF Posts
  <2>2. post' = [post EXCEPT ![s] = new]
    BY <1>1 DEF TypeOK
  <2> HIDE DEF new
  <2> QED BY <2>1, <2>2 DEF TypeOK, EditorAssumption
<1>4. /\ DOMAIN local' = Tabs
      /\ \A u \in Tabs \ {t} : local'[u] = local[u]
      /\ Mount(local'[t], Showing(t), shell[t])
      /\ ~post[s].mounted => local' = local
  <2>1. CASE post[s].mounted
    <3>1. pane[t] \in Editors /\ Showing(t) = pane[t] /\ pane[t] # "dashboard"
      BY <1>1, <1>2, <2>1, EditorShows DEF Sent, Posts, Editors
    <3>2. Edited(local[t], pane[t])
      BY <1>2, <3>1 DEF Screens, Mount
    <3>3. /\ DOMAIN local' = Tabs /\ local'[t] = [local[t] EXCEPT !.saving = FALSE]
          /\ \A u \in Tabs \ {t} : local'[u] = local[u]
      BY <1>1, <1>2, <2>1 DEF TypeOK
    <3>4. Edited([local[t] EXCEPT !.saving = FALSE], pane[t])
      BY <3>2, SavingKept
    <3>5. Edited(local'[t], pane[t])
      BY <3>3, <3>4
    <3> QED BY <2>1, <3>1, <3>3, <3>5 DEF Mount
  <2>2. CASE ~post[s].mounted
    BY <1>1, <1>2, <2>2 DEF TypeOK, Screens
  <2> QED BY <2>1, <2>2
<1>5. TypeOK'
  BY <1>1, <1>3, <1>4 DEF TypeOK
<1>6. Screens'
  <2>1. Early(t)' /\ Showing(t)' = Showing(t)
    BY <1>1, <1>2, <1>3 DEF Early, Showing
  <2>2. Mount(local'[t], Showing(t)', shell'[t])
    BY <1>1, <1>3, <1>4, <2>1
  <2> QED BY <1>1, <1>2, <1>3, <1>4, <2>1, <2>2, ScreensFrame
<1>7. Sent(s)'
  <2>1. \A q \in 1 .. s - 1 : q \in Saves \ {s}
    BY DEF Saves, EditorAssumption
  <2>2. ~Waits(s)'
    BY <1>3 DEF Waits
  <2> QED BY <1>1, <1>2, <1>3, <2>1, <2>2 DEF Sent
<1>8. ASSUME NEW r \in Saves \ {s}, Waits(r)
      PROVE  local'[post[r].tab].saving
  <2>1. /\ post[r].tab \in Tabs /\ local[post[r].tab].saving
        /\ Waits(s) => post[r].tab # t
    BY <1>8, WaitsElsewhere
  <2>2. post[s].mounted => Waits(s)
    BY <1>1 DEF Waits
  <2> QED BY <1>4, <2>1, <2>2
<1>9. Posted'
  BY <1>1, <1>3, <1>7, <1>8, PostedStep
<1> QED BY <1>5, <1>6, <1>9

LEMMA InitDesk ==
    ASSUME EditorAssumption, Init
    PROVE  Desk
<1> USE DEF Init
<1>1. TypeOK
  BY BlankTyped DEF TypeOK, EditorAssumption, Panes
<1>2. Screens
  <2>1. "dashboard" \in Panes \ Names
    BY DEF Panes, EditorAssumption
  <2>2. Mount(Mounted("dashboard", Nowhere), "dashboard", Nowhere)
    BY <2>1, BlankTyped, MountedMounts
  <2>3. ASSUME NEW t \in Tabs
        PROVE  Early(t) /\ Mount(local[t], Showing(t), shell[t])
    BY <2>1, <2>2 DEF Early, Showing, View
  <2> QED BY <2>3 DEF Screens
<1>3. Posted
  BY DEF Posted, Waits
<1> QED BY <1>1, <1>2, <1>3 DEF Desk

\* Every step of the shell and the editors keeps Desk.
LEMMA DeskStep ==
    ASSUME EditorAssumption, Desk, Next
    PROVE  Desk'
<1>1. ASSUME NEW t \in Tabs, NEW e \in Entities,
             \/ AddEntity(t, e)
             \/ \E f \in Fields : AddField(t, e, f) \/ RemoveField(t, e, f)
      PROVE  Desk'
  BY <1>1, SchemaEditStep
<1>2. ASSUME NEW t \in Tabs, NEW e \in Entities,
             \/ \E a \in Actions, l \in Leaves : AddCondition(t, e, a, l)
             \/ \E a \in Actions : RemoveCondition(t, e, a, 1)
      PROVE  Desk'
  BY <1>2, MatrixEditStep
<1> QED BY <1>1, <1>2, LoadStep, LoadFailsStep, RetryStep, SelectStep, ResumeStep, SaveStep,
           ServeStep, ReplyStep, ErrorStep DEF Next

\* The screens of records share nothing with the shell but the faults there are.
LEMMA DeskFrame ==
    ASSUME EditorAssumption, Desk, faults' \in Nat,
           UNCHANGED <<live, post, status, shell, pane, local, edits>>
    PROVE  Desk'
<1>1. TypeOK'
  BY DEF Desk, TypeOK
<1>2. Screens'
  BY DEF Desk, Screens, Early, Showing
<1>3. Posted'
  BY DEF Desk, Posted, Waits, Sent, Alone, SchemaSummary
<1> QED BY <1>1, <1>2, <1>3 DEF Desk

-----------------------------------------------------------------------------
(* What Desk says of what is sent and shown.                               *)

\* With no edit left, what a screen posts is what it was given.
LEMMA BodyOfBase ==
    ASSUME EditorAssumption, Desk, NEW t \in Tabs, pane[t] \in Editors,
           NEW e \in Entities, local[t].base = shell[t], local[t].touched = {}
    PROVE  Body(t)[e] = shell[t][e]
<1>1. Edited(local[t], pane[t]) /\ shell[t] \in Schemas
  BY EditorShows DEF Desk, Screens, Mount, TypeOK
<1>2. e \in Names /\ e \notin Plugins
  BY DEF Names, EditorAssumption
<1>3. local[t].draft = Draft(pane[t], shell[t]).draft
  BY <1>1 DEF Edited, Untouched
<1>4. CASE pane[t] = "schema"
  <2>1. local[t].draft = shell[t]
    BY <1>3, <1>4 DEF Draft
  <2> QED BY <1>2, <1>4, <2>1 DEF Body
<1>5. CASE pane[t] = "matrix" /\ shell[t][e] = None
  BY <1>2, <1>5 DEF Body
<1>6. CASE pane[t] = "matrix" /\ shell[t][e] # None
  <2>1. shell[t][e] \in Defs
    BY <1>1, <1>2, <1>6 DEF Schemas
  <2>2. shell[t][e] = [fields |-> shell[t][e].fields,
                       rules |-> [a \in Actions |-> shell[t][e].rules[a]]]
    BY <2>1 DEF Defs
  <2>3. local[t].draft = Cells(shell[t])
    BY <1>3, <1>6 DEF Draft
  <2>4. local[t].draft[e] = [a \in Actions |-> CellOf(shell[t][e].rules[a])]
    BY <1>2, <1>6, <2>3 DEF Cells
  <2>5. \A a \in Actions : shell[t][e].rules[a] \in Rules
    BY <2>1 DEF Defs
  <2>6. local[t].draft[e] # None
    <3>1. local[t].draft[e] \in [Actions -> Cell]
      BY <2>4, <2>5, CellRound
    <3> QED BY <3>1 DEF EditorAssumption
  <2>7. \A a \in Actions : RuleOf(Row(t, e)[a]) = shell[t][e].rules[a]
    BY <2>4, <2>5, <2>6, CellRound DEF Row
  <2>8. Body(t)[e] = [fields |-> shell[t][e].fields,
                      rules |-> [a \in Actions |-> RuleOf(Row(t, e)[a])]]
    BY <1>2, <1>6 DEF Body
  <2>9. [a \in Actions |-> RuleOf(Row(t, e)[a])] = [a \in Actions |-> shell[t][e].rules[a]]
    BY <2>7
  <2> QED BY <2>2, <2>8, <2>9
<1> QED BY <1>4, <1>5, <1>6 DEF Editors

LEMMA DeskSaves ==
    ASSUME EditorAssumption, Desk
    PROVE  SavesOnlyEdits
<1> SUFFICES ASSUME NEW t \in Tabs, NEW e \in Entities,
                    Editing(t, "schema") \/ Editing(t, "matrix")
             PROVE  LET base == local[t].base[e]
                        sent == Body(t)[e]
                        rules == IF base = None THEN Blank.rules ELSE base.rules
                        kept(what) == what \notin local[t].touched
                    IN  /\ sent # None =>
                             \A a \in Actions : kept(<<e, a>>) => sent.rules[a] = rules[a]
                        /\ Editing(t, "schema") =>
                             /\ base = None => (sent # None <=> ~kept(<<e>>))
                             /\ base # None => /\ sent # None
                                               /\ \A f \in Fields : kept(<<e, f>>) =>
                                                    sent.fields[f] = base.fields[f]
  BY DEF SavesOnlyEdits
<1>1. pane[t] \in Editors /\ status[t] = "ready"
  BY DEF Editing, Editors
<1>2. Edited(local[t], pane[t])
  BY <1>1, EditorShows DEF Desk, Screens, Mount
<1>3. e \in Names /\ e \notin Plugins
  BY DEF Names, EditorAssumption
<1>4. CASE pane[t] = "schema"
  <2>1. Body(t)[e] = local[t].draft[e]
    BY <1>3, <1>4 DEF Body
  <2>2. SchemaEdited(local[t])
    BY <1>2, <1>4 DEF Edited
  <2> QED BY <2>1, <2>2 DEF SchemaEdited
<1>5. CASE pane[t] = "matrix"
  <2>1. ~Editing(t, "schema")
    BY <1>5 DEF Editing
  <2> DEFINE rule(a) == IF local[t].base[e] = None THEN NoRule ELSE local[t].base[e].rules[a]
  <2> SUFFICES ASSUME Body(t)[e] # None, NEW a \in Actions, <<e, a>> \notin local[t].touched
               PROVE  Body(t)[e].rules[a] = rule(a)
    BY <2>1 DEF Blank
  <2>2. Row(t, e)[a] = CellOf(rule(a))
    BY <1>2, <1>5 DEF Edited, MatrixEdited, Row
  <2>3. rule(a) \in Rules
    <3>1. local[t].base \in Schemas
      BY <1>2 DEF Edited
    <3>2. local[t].base[e] \in Defs \cup {None}
      BY <1>3, <3>1 DEF Schemas
    <3> QED BY <3>2, BlankTyped DEF Defs
  <2>4. RuleOf(Row(t, e)[a]) = rule(a)
    BY <2>2, <2>3, CellRound
  <2>5. Body(t)[e] = [fields |-> shell[t][e].fields,
                      rules |-> [b \in Actions |-> RuleOf(Row(t, e)[b])]]
    BY <1>3, <1>5 DEF Body
  <2> QED BY <2>4, <2>5
<1> QED BY <1>1, <1>4, <1>5 DEF Editors

LEMMA DeskShows ==
    ASSUME EditorAssumption, Desk
    PROVE  SavedIsShown
<1> SUFFICES ASSUME NEW s \in Saves, post[s] # None, post[s].stage = "over", post[s].alone,
                    \A r \in s + 1 .. MaxSaves : post[r] = None
             PROVE  LET t == post[s].tab IN
                    /\ shell[t] = SchemaSummary(live)
                    /\ post[s].mounted /\ local[t].touched = {} /\ ~local[t].saving =>
                         \A e \in Entities : Body(t)[e] = live[e]
  BY DEF SavedIsShown
<1> DEFINE t == post[s].tab
<1>1. post[s] \in Posts /\ Sent(s) /\ Alone(s)
  BY DEF Desk, TypeOK, Posted
<1>2. t \in Tabs /\ post[s].from \in Editors
  BY <1>1 DEF Posts, Editors
<1>3. shell[t] = SchemaSummary(live) /\ (post[s].mounted => local[t].base = shell[t])
  BY <1>1 DEF Alone
<1>4. post[s].mounted => pane[t] \in Editors
  BY <1>1, <1>2 DEF Sent
<1>5. \A e \in Entities : shell[t][e] = live[e]
  BY <1>3 DEF SchemaSummary, Names, EditorAssumption
<1>6. post[s].mounted /\ local[t].touched = {} =>
        \A e \in Entities : Body(t)[e] = shell[t][e]
  BY <1>2, <1>3, <1>4, BodyOfBase
<1> QED BY <1>3, <1>5, <1>6

LEMMA DeskFills ==
    ASSUME EditorAssumption, Desk
    PROVE  SectionsAreCurrent
<1> SUFFICES ASSUME NEW t \in Tabs, Showing(t) = "dashboard", local[t].runs = {},
                    shell[t] # Nowhere
             PROVE  \A i \in 1 .. 3 : local[t].sections[i] = shell[t]
  BY DEF SectionsAreCurrent
<1>1. Filled(local[t], shell[t])
  BY DEF Desk, Screens, Mount
<1> QED BY <1>1 DEF Filled

-----------------------------------------------------------------------------
(* Rows and pages.                                                         *)

LEMMA RowFields ==
    ASSUME NEW row \in Rows
    PROVE  /\ row["name"] \in Nat \cup {None} /\ row["seen"] \in Nat \cup {None}
           /\ row["role"] \in Roles /\ row["active"] \in BOOLEAN \cup {None}
<1>1. row["active"] \in BOOLEAN \cup {None}
  BY Zenon DEF Rows
<1> QED BY <1>1 DEF Rows

LEMMA RoleTyped ==
    ASSUME NEW row \in Rows, NEW role \in Roles
    PROVE  [row EXCEPT !.role = role] \in Rows
BY DEF Rows

LEMMA WidgetsTyped ==
    ASSUME NEW row \in Rows
    PROVE  /\ Widgets(row) \in Rows
           /\ \A f \in Columns : Widgets(row)[f] = Widget(f, row[f])
<1>1. /\ Widget("name", row["name"]) \in Nat \cup {None}
      /\ Widget("seen", row["seen"]) \in Nat \cup {None}
      /\ Widget("role", row["role"]) \in Roles
  BY RowFields DEF Widget
<1>2. Widget("active", row["active"]) \in BOOLEAN \cup {None}
  BY Zenon DEF Widget
<1> QED BY <1>1, <1>2 DEF Widgets, Columns, Rows

LEMMA FreshTyped ==
    ASSUME RecordsAssumption
    PROVE  Fresh \in Rows /\ Fresh # None
BY DEF Fresh, Rows, RecordsAssumption

\* What is typed into a widget its field may hold.
LEMMA TypedKeeps ==
    ASSUME RecordsAssumption, NEW values \in Rows, NEW f \in Editable, NEW value \in Typed[f]
    PROVE  /\ [values EXCEPT ![f] = value] \in Rows
           /\ \A g \in Columns \ {f} : [values EXCEPT ![f] = value][g] = values[g]
BY DEF Editable, Columns, Rows, RecordsAssumption

\* A row that takes the fields of a form is a row.
LEMMA PatchedTyped ==
    ASSUME NEW row \in Rows, NEW values \in Rows
    PROVE  Patched(row, Payload(values)) \in Rows
BY RowFields DEF Patched, Payload, Editable, Columns, Rows

\* A page of any order of the rows that match is a list of rows with their ids.
LEMMA PageTyped ==
    ASSUME RecordsAssumption, table \in [Ids -> Rows \cup {None}], NEW q \in Queries,
           NEW order \in SetToSeqs(Matches(q))
    PROVE  Page(order, q) \in Seq(Items) /\ Len(order) \in Nat
<1>1. Cardinality(Matches(q)) \in Nat
  BY FS_Subset, FS_CardinalityType DEF Matches, RecordsAssumption
<1>2. order \in [1 .. Cardinality(Matches(q)) -> Matches(q)]
  BY DEF SetToSeqs
<1>3. order \in Seq(Matches(q))
  BY <1>1, <1>2
<1>4. /\ Len(order) \in Nat /\ q.offset + PageSize \in Nat
  BY <1>3 DEF Queries, RecordsAssumption
<1> DEFINE last == Min({q.offset + PageSize, Len(order)})
           ids == SubSeq(order, q.offset + 1, last)
<1>5. last \in 0 .. Len(order)
  <2>1. \E x \in {q.offset + PageSize, Len(order)} :
           \A y \in {q.offset + PageSize, Len(order)} : x <= y
    BY <1>4
  <2>2. /\ last \in {q.offset + PageSize, Len(order)}
        /\ \A y \in {q.offset + PageSize, Len(order)} : last <= y
    BY <2>1 DEF Min
  <2> QED BY <1>4, <2>2
<1>6. ids \in Seq(Matches(q))
  <2> HIDE DEF last
  <2> QED BY <1>3, <1>5 DEF Queries
<1>7. \A i \in 1 .. Len(ids) : [id |-> ids[i], row |-> table[ids[i]]] \in Items
  <2> HIDE DEF ids
  <2> SUFFICES ASSUME NEW i \in 1 .. Len(ids)
               PROVE  [id |-> ids[i], row |-> table[ids[i]]] \in Items
    OBVIOUS
  <2>1. ids[i] \in Matches(q)
    BY <1>6
  <2> QED BY <2>1 DEF Matches, Items
<1>8. [i \in 1 .. Len(ids) |-> [id |-> ids[i], row |-> table[ids[i]]]] \in Seq(Items)
  <2> HIDE DEF ids
  <2> QED BY <1>6, <1>7
<1> QED BY <1>4, <1>8 DEF Page

-----------------------------------------------------------------------------
(* Loads and the browser.                                                  *)

\* Books does not notice what leaves its variables alone.
LEMMA BooksFrame ==
    ASSUME Books, UNCHANGED recordVars
    PROVE  Books'
<1>1. RecordsTypeOK'
  BY DEF Books, RecordsTypeOK, recordVars, pageVars
<1>2. Browser'
  BY DEF Books, Browser, recordVars, pageVars
<1>3. Forms'
  BY DEF Books, Forms, recordVars
<1> QED BY <1>1, <1>2, <1>3 DEF Books

\* A load that begins is the last, and awaited.
LEMMA BeginLoads ==
    ASSUME RecordsAssumption, loads \in Seq(Loads), NEW query \in Queries, Begin(query)
    PROVE  /\ loads' \in Seq(Loads) /\ loads' # <<>> /\ loads'[Len(loads')].query = query
           /\ loading' \in BOOLEAN /\ error' \in BOOLEAN /\ shown' = shown
<1> DEFINE load == [query |-> query, rows |-> None, total |-> 0]
<1>1. load \in Loads /\ load.query = query
  BY DEF Loads
<1>2. loads' = Append(loads, load) /\ loading' = TRUE /\ error' = FALSE /\ shown' = shown
  BY DEF Begin
<1> HIDE DEF load
<1>3. loads' \in Seq(Loads) /\ Len(loads') = Len(loads) + 1 /\ loads'[Len(loads')] = load
  BY <1>1, <1>2
<1>4. loads' # <<>>
  BY <1>3
<1> QED BY <1>1, <1>2, <1>3, <1>4

LEMMA AskStep ==
    ASSUME RecordsAssumption, Books, NEW query \in Queries, Ask(query)
    PROVE  Books'
<1>1. /\ asked' = query /\ Begin(query) /\ clicks' = clicks + 1
      /\ crossed' = (crossed /\ loads # <<>>)
      /\ UNCHANGED <<table, form, submit, delete, changes, listed>>
  BY DEF Ask, Click
<1>2. /\ loads' \in Seq(Loads) /\ loads' # <<>> /\ loads'[Len(loads')].query = query
      /\ loading' \in BOOLEAN /\ error' \in BOOLEAN /\ shown' = shown
  BY <1>1, BeginLoads DEF Books, RecordsTypeOK
<1>3. RecordsTypeOK'
  BY <1>1, <1>2 DEF Books, RecordsTypeOK
<1>4. Browser'
  BY <1>1, <1>2 DEF Browser
<1>5. Forms'
  BY <1>1 DEF Books, Forms
<1> QED BY <1>3, <1>4, <1>5 DEF Books

\* Every click of the browser that asks, asks for a query.
LEMMA BrowseStep ==
    ASSUME RecordsAssumption, Books, ToggleSort \/ ApplyFilters \/ PrevPage \/ NextPage
    PROVE  Books'
<1>1. asked \in Queries /\ asked.offset \in Nat /\ PageSize \in Nat
  BY DEF Books, RecordsTypeOK, Queries, RecordsAssumption
<1>2. CASE ToggleSort
  <2> DEFINE query == [asked EXCEPT !.offset = 0,
                         !.sort = CASE @ = None -> "asc" [] @ = "asc" -> "desc" [] @ = "desc" -> None]
  <2>1. query \in Queries
    BY <1>1 DEF Queries
  <2> HIDE DEF query
  <2>2. Ask(query)
    BY <1>2 DEF ToggleSort, query
  <2> QED BY <2>1, <2>2, AskStep
<1>3. CASE ApplyFilters
  <2>1. PICK name \in Typed["name"] : Ask([asked EXCEPT !.offset = 0, !.filter = name])
    BY <1>3 DEF ApplyFilters
  <2> DEFINE query == [asked EXCEPT !.offset = 0, !.filter = name]
  <2>2. query \in Queries
    BY <1>1 DEF Queries, RecordsAssumption
  <2> HIDE DEF query
  <2>3. Ask(query)
    BY <2>1 DEF query
  <2> QED BY <2>2, <2>3, AskStep
<1>4. CASE PrevPage
  <2> DEFINE query == [asked EXCEPT !.offset = IF @ > PageSize THEN @ - PageSize ELSE 0]
  <2>1. query \in Queries
    BY <1>1 DEF Queries
  <2> HIDE DEF query
  <2>2. Ask(query)
    BY <1>4 DEF PrevPage, query
  <2> QED BY <2>1, <2>2, AskStep
<1>5. CASE NextPage
  <2> DEFINE query == [asked EXCEPT !.offset = @ + PageSize]
  <2>1. query \in Queries
    BY <1>1 DEF Queries
  <2> HIDE DEF query
  <2>2. Ask(query)
    BY <1>5 DEF NextPage, query
  <2> QED BY <2>1, <2>2, AskStep
<1> QED BY <1>2, <1>3, <1>4, <1>5

LEMMA AnswerStep ==
    ASSUME RecordsAssumption, Books, NEW i \in DOMAIN loads, Answer(i)
    PROVE  Books'
<1> USE DEF Books
<1>1. PICK order \in SetToSeqs(Matches(loads[i].query)) :
         loads' = [loads EXCEPT ![i].rows = Page(order, loads[i].query), ![i].total = Len(order)]
  BY DEF Answer
<1>2. UNCHANGED <<table, asked, shown, loading, error, form, submit, delete, changes, listed,
                  crossed, clicks>>
  BY DEF Answer
<1>3. loads \in Seq(Loads) /\ loads[i] \in Loads /\ loads[i].query \in Queries
  <2>1. loads \in Seq(Loads) /\ loads[i] \in Loads
    BY DEF RecordsTypeOK
  <2> QED BY <2>1 DEF Loads
<1> DEFINE rows == Page(order, loads[i].query)
           load == [loads[i] EXCEPT !.rows = rows, !.total = Len(order)]
<1>4. rows \in Seq(Items) /\ Len(order) \in Nat
  BY <1>1, <1>3, PageTyped DEF RecordsTypeOK
<1>5. load \in Loads /\ load.query = loads[i].query
  <2> HIDE DEF rows
  <2> QED BY <1>3, <1>4 DEF Loads
<1>6. loads' = [loads EXCEPT ![i] = load]
  <2> HIDE DEF rows
  <2>1. loads' = [loads EXCEPT ![i].rows = rows, ![i].total = Len(order)]
    BY <1>1 DEF rows
  <2> QED BY <2>1, <1>3
<1> HIDE DEF load
<1>7. loads' \in Seq(Loads) /\ Len(loads') = Len(loads)
      /\ \A j \in DOMAIN loads : loads'[j].query = loads[j].query
  BY <1>3, <1>5, <1>6
<1>8. RecordsTypeOK'
  BY <1>2, <1>7 DEF RecordsTypeOK
<1>9. Browser'
  <2>1. loads # <<>> /\ loads' # <<>> /\ Len(loads) \in DOMAIN loads
    BY <1>3, <1>7
  <2>2. loads'[Len(loads')].query = loads[Len(loads)].query
    BY <1>7, <2>1
  <2> QED BY <1>2, <2>1, <2>2 DEF Browser
<1>10. Forms'
  BY <1>2 DEF Forms
<1> QED BY <1>8, <1>9, <1>10

\* A load ends, and in its turn if answers have not crossed.
LEMMA EndedLoads ==
    ASSUME Books, NEW i \in DOMAIN loads, Ended(i)
    PROVE  /\ loads' \in Seq(Loads) /\ loading' \in BOOLEAN /\ crossed' \in BOOLEAN
           /\ ~crossed' => i = 1 /\ ~crossed
           /\ ~crossed' => IF loads' = <<>> THEN loads[1].query = asked'
                           ELSE loads'[Len(loads')].query = asked'
           /\ UNCHANGED <<table, asked, form, submit, delete, changes, listed, clicks>>
<1>1. /\ loads' = RemoveAt(loads, i) /\ loading' = FALSE /\ crossed' = (crossed \/ i > 1)
      /\ UNCHANGED <<table, asked, form, submit, delete, changes, listed, clicks>>
  BY DEF Ended
<1>2. loads \in Seq(Loads) /\ i \in 1 .. Len(loads) /\ Len(loads) \in Nat
  BY DEF Books, RecordsTypeOK
<1>3. /\ loads' \in Seq(Loads) /\ Len(loads') = Len(loads) - 1
      /\ \A j \in 1 .. Len(loads) - 1 : loads'[j] = IF j < i THEN loads[j] ELSE loads[j + 1]
  BY <1>1, <1>2, RemoveAtTyped
<1>4. ~crossed' => i = 1 /\ ~crossed
  <2>1. ~crossed' => ~(i > 1) /\ ~crossed
    BY <1>1, Zenon
  <2> QED BY <1>2, <2>1
<1>5. ASSUME ~crossed'
      PROVE  IF loads' = <<>> THEN loads[1].query = asked'
             ELSE loads'[Len(loads')].query = asked'
  <2>1. loads # <<>> /\ loads[Len(loads)].query = asked /\ i = 1
    BY <1>2, <1>4, <1>5 DEF Books, Browser
  <2>2. CASE loads' = <<>>
    <3>1. Len(loads) = 1
      BY <1>2, <1>3, <2>2
    <3> QED BY <1>1, <2>1, <2>2, <3>1
  <2>3. CASE loads' # <<>>
    <3>1. Len(loads) - 1 \in 1 .. Len(loads) - 1
      BY <1>2, <1>3, <2>3
    <3>2. loads'[Len(loads')] = loads[Len(loads)]
      BY <1>2, <1>3, <2>1, <3>1
    <3> QED BY <1>1, <2>1, <2>3, <3>2
  <2> QED BY <2>2, <2>3
<1> QED BY <1>1, <1>3, <1>4, <1>5

LEMMA EndStep ==
    ASSUME Books, NEW i \in DOMAIN loads, Arrive(i) \/ ReadFails(i)
    PROVE  Books'
<1> USE DEF Books
<1>1. /\ Ended(i)
      /\ \/ shown' = loads[i] /\ loads[i].rows # None /\ error' = error
         \/ shown' = shown /\ error' = TRUE
  BY DEF Arrive, ReadFails
<1>2. /\ loads' \in Seq(Loads) /\ loading' \in BOOLEAN /\ crossed' \in BOOLEAN
      /\ ~crossed' => i = 1 /\ ~crossed
      /\ ~crossed' => IF loads' = <<>> THEN loads[1].query = asked'
                      ELSE loads'[Len(loads')].query = asked'
      /\ UNCHANGED <<table, asked, form, submit, delete, changes, listed, clicks>>
  BY <1>1, EndedLoads
<1>3. shown' \in Pages /\ error' \in BOOLEAN
  <2>1. loads[i] \in Loads
    BY DEF RecordsTypeOK
  <2>2. loads[i].rows # None => loads[i] \in Pages
    BY <2>1 DEF Loads, Pages
  <2> QED BY <1>1, <2>2 DEF RecordsTypeOK
<1>4. RecordsTypeOK'
  BY <1>2, <1>3 DEF RecordsTypeOK
<1>5. Browser'
  BY <1>1, <1>2 DEF Browser
<1>6. Forms'
  BY <1>2 DEF Forms
<1> QED BY <1>4, <1>5, <1>6

-----------------------------------------------------------------------------
(* The form.                                                               *)

\* A form opens with its row as the widgets hold it.
LEMMA OpenFormStep ==
    ASSUME RecordsAssumption, Books, NEW id \in Ids \cup {None}, NEW row \in Rows,
           id = None => row = Fresh, OpenForm(id, row)
    PROVE  Books'
<1> USE DEF Books
<1> DEFINE opened == [id |-> id, base |-> row, values |-> Widgets(row), touched |-> {},
                      saving |-> FALSE]
<1>1. /\ form' = opened
      /\ UNCHANGED <<table, pageVars, submit, delete, changes, listed, clicks>>
  BY DEF OpenForm
<1>2. opened \in FormStates
  BY WidgetsTyped DEF FormStates
<1>3. FormOf(opened.id, opened.base, opened.touched, opened.values, Columns)
  BY WidgetsTyped DEF FormOf
<1> HIDE DEF opened
<1>4. RecordsTypeOK'
  BY <1>1, <1>2 DEF RecordsTypeOK, pageVars
<1>5. Browser' /\ Forms'
  BY <1>1, <1>3 DEF Browser, Forms, pageVars
<1> QED BY <1>4, <1>5

\* What is typed is remembered as typed, and the rest stays as it was.
LEMMA SetValueStep ==
    ASSUME RecordsAssumption, Books, NEW f \in Editable, SetValue(f)
    PROVE  Books'
<1> USE DEF Books
<1>1. PICK value \in Typed[f] :
         form' = [form EXCEPT !.values[f] = value, !.touched = @ \cup {f}]
  BY DEF SetValue
<1>2. form # None /\ UNCHANGED <<table, pageVars, submit, delete, changes, listed, clicks>>
  BY DEF SetValue
<1>3. form \in FormStates /\ form.values \in Rows
  BY <1>2 DEF RecordsTypeOK, FormStates
<1> DEFINE values == [form.values EXCEPT ![f] = value]
<1>4. values \in Rows /\ \A g \in Columns \ {f} : values[g] = form.values[g]
  BY <1>3, TypedKeeps
<1> HIDE DEF values
<1>5. form' = [form EXCEPT !.values = values, !.touched = @ \cup {f}]
  BY <1>1, <1>3 DEF FormStates, values
<1>6. /\ form' \in FormStates /\ form'.id = form.id /\ form'.base = form.base
      /\ form'.values = values /\ form'.touched = form.touched \cup {f}
  BY <1>3, <1>4, <1>5 DEF FormStates
<1>7. FormOf(form'.id, form'.base, form'.touched, form'.values, Columns)
  <2>1. FormOf(form.id, form.base, form.touched, form.values, Columns)
    BY <1>2 DEF Forms
  <2> QED BY <1>4, <1>6, <2>1 DEF FormOf
<1>8. RecordsTypeOK'
  BY <1>2, <1>6 DEF RecordsTypeOK, pageVars
<1>9. Browser' /\ Forms'
  BY <1>2, <1>7 DEF Browser, Forms, pageVars
<1> QED BY <1>8, <1>9

\* A form sends what it holds of the fields it can edit.
LEMMA SubmitStep ==
    ASSUME RecordsAssumption, Books, Submit
    PROVE  Books'
<1> USE DEF Books
<1>1. /\ form # None /\ clicks' = clicks + 1
      /\ form' = [form EXCEPT !.saving = TRUE]
      /\ UNCHANGED <<table, pageVars, delete, changes, listed>>
  BY DEF Submit, Click
<1> DEFINE request == [id |-> form.id, base |-> form.base, touched |-> form.touched,
                       payload |-> Payload(form.values), query |-> asked, stage |-> "sent"]
<1>2. submit' = request
  BY DEF Submit
<1>3. form \in FormStates /\ form.values \in Rows
  BY <1>1 DEF RecordsTypeOK, FormStates
<1>4. FormOf(form.id, form.base, form.touched, form.values, Columns)
  BY <1>1 DEF Forms
<1>5. request \in Submits
  <2>1. Payload(form.values) \in {Payload(values) : values \in Rows}
    BY <1>3
  <2>2. form.id \in Ids \cup {None} /\ form.base \in Rows /\ form.touched \in SUBSET Editable
    BY <1>3 DEF FormStates
  <2>3. asked \in Queries
    BY DEF RecordsTypeOK
  <2> QED BY <2>1, <2>2, <2>3 DEF Submits, Stages
<1>6. FormOf(request.id, request.base, request.touched, request.payload, DOMAIN request.payload)
  <2>1. \A f \in DOMAIN Payload(form.values) : f \in Columns
    BY DEF Payload, Editable
  <2>2. \A f \in DOMAIN Payload(form.values) : Payload(form.values)[f] = form.values[f]
    BY DEF Payload
  <2> QED BY <1>4, <2>1, <2>2 DEF FormOf
<1> HIDE DEF request
<1>7. /\ form' \in FormStates /\ form'.id = form.id /\ form'.base = form.base
      /\ form'.touched = form.touched /\ form'.values = form.values
  BY <1>1, <1>3 DEF FormStates
<1>8. RecordsTypeOK'
  BY <1>1, <1>2, <1>5, <1>7 DEF RecordsTypeOK, pageVars
<1>9. Browser' /\ Forms'
  BY <1>1, <1>2, <1>4, <1>6, <1>7 DEF Browser, Forms, pageVars
<1> QED BY <1>8, <1>9

\* What a request that goes on keeps.
LEMMA SubmitStaged ==
    ASSUME Books, submit # None, NEW stage \in Stages
    PROVE  /\ [submit EXCEPT !.stage = stage] \in Submits
           /\ [submit EXCEPT !.stage = stage].stage = stage
           /\ \A f \in {"id", "base", "touched", "payload", "query"} :
                [submit EXCEPT !.stage = stage][f] = submit[f]
<1>1. submit \in Submits
  BY DEF Books, RecordsTypeOK
<1> QED BY <1>1 DEF Submits

\* The request of a form goes from stage to stage, and the table may take what
\* it sends.
LEMMA SubmitMoves ==
    ASSUME Books, submit # None, table' \in [Ids -> Rows \cup {None}],
           NEW stage \in Stages, submit' = [submit EXCEPT !.stage = stage],
           UNCHANGED <<pageVars, form, delete, changes, listed, clicks>>
    PROVE  Books'
<1> USE DEF Books
<1>1. /\ submit' \in Submits /\ submit'.id = submit.id /\ submit'.base = submit.base
      /\ submit'.touched = submit.touched /\ submit'.payload = submit.payload
  BY SubmitStaged
<1>2. RecordsTypeOK'
  BY <1>1 DEF RecordsTypeOK, pageVars
<1>3. Browser' /\ Forms'
  BY <1>1 DEF Browser, Forms, pageVars
<1> QED BY <1>2, <1>3

LEMMA StoreStep ==
    ASSUME RecordsAssumption, Books, Store \/ SubmitFails
    PROVE  Books'
<1>1. CASE Store
  <2>1. PICK id \in IF submit.id # None THEN {submit.id} ELSE {i \in Ids : table[i] = None} :
          LET row == IF submit.id = None THEN Fresh ELSE table[id] IN
          /\ table' = IF row = None THEN table
                      ELSE [table EXCEPT ![id] = Patched(row, submit.payload)]
          /\ submit' = [submit EXCEPT !.stage = IF row = None THEN "failed" ELSE "done"]
    BY <1>1 DEF Store
  <2>2. submit # None /\ UNCHANGED <<pageVars, form, delete, changes, listed, clicks>>
    BY <1>1 DEF Store
  <2>3. submit \in Submits /\ table \in [Ids -> Rows \cup {None}]
    BY <2>2 DEF Books, RecordsTypeOK
  <2>4. id \in Ids
    BY <2>1, <2>3 DEF Submits
  <2> DEFINE row == IF submit.id = None THEN Fresh ELSE table[id]
             stage == IF row = None THEN "failed" ELSE "done"
  <2>5. row \in Rows \cup {None}
    BY <2>3, <2>4, FreshTyped
  <2>6. row # None => Patched(row, submit.payload) \in Rows
    <3>1. PICK values \in Rows : submit.payload = Payload(values)
      BY <2>3 DEF Submits
    <3> QED BY <2>5, <3>1, PatchedTyped
  <2>7. table' \in [Ids -> Rows \cup {None}]
    <3>1. table' = IF row = None THEN table
                   ELSE [table EXCEPT ![id] = Patched(row, submit.payload)]
      BY <2>1
    <3> HIDE DEF row
    <3> QED BY <2>3, <2>6, <3>1
  <2>8. stage \in Stages /\ submit' = [submit EXCEPT !.stage = stage]
    BY <2>1 DEF Stages
  <2> HIDE DEF stage
  <2> QED BY <2>2, <2>7, <2>8, SubmitMoves
<1>2. CASE SubmitFails
  <2>1. /\ submit # None /\ submit' = [submit EXCEPT !.stage = "failed"] /\ "failed" \in Stages
        /\ UNCHANGED <<table, pageVars, form, delete, changes, listed, clicks>>
    BY <1>2 DEF SubmitFails, Stages
  <2>2. table' \in [Ids -> Rows \cup {None}]
    BY <2>1 DEF Books, RecordsTypeOK
  <2> QED BY <2>1, <2>2, SubmitMoves
<1> QED BY <1>1, <1>2

\* A reload is of what is asked for, or answers have crossed.
LEMMA ReloadPage ==
    ASSUME RecordsAssumption, Books, NEW query \in Queries, Reload(query)
    PROVE  /\ asked' \in Queries /\ loads' \in Seq(Loads) /\ shown' \in Pages
           /\ loading' \in BOOLEAN /\ error' \in BOOLEAN /\ crossed' \in BOOLEAN
           /\ Browser'
           /\ UNCHANGED <<table, changes, listed, clicks>>
<1>1. /\ Begin(query) /\ UNCHANGED <<table, asked, changes, listed, clicks>>
      /\ crossed' = ((crossed /\ loads # <<>>) \/ query # asked)
  BY DEF Reload
<1>2. /\ loads' \in Seq(Loads) /\ loads' # <<>> /\ loads'[Len(loads')].query = query
      /\ loading' \in BOOLEAN /\ error' \in BOOLEAN /\ shown' = shown
  BY <1>1, BeginLoads DEF Books, RecordsTypeOK
<1>3. Browser'
  BY <1>1, <1>2 DEF Browser
<1> QED BY <1>1, <1>2, <1>3 DEF Books, RecordsTypeOK

LEMMA SubmittedStep ==
    ASSUME RecordsAssumption, Books, Submitted \/ NotSubmitted \/ Cancel
    PROVE  Books'
<1>1. CASE Submitted
  <2>1. /\ submit # None /\ form' = None /\ submit' = None /\ delete' = delete
        /\ Reload(submit.query)
    BY <1>1 DEF Submitted
  <2>2. submit.query \in Queries
    BY <2>1 DEF Books, RecordsTypeOK, Submits
  <2>3. /\ asked' \in Queries /\ loads' \in Seq(Loads) /\ shown' \in Pages
        /\ loading' \in BOOLEAN /\ error' \in BOOLEAN /\ crossed' \in BOOLEAN
        /\ Browser'
        /\ UNCHANGED <<table, changes, listed, clicks>>
    BY <2>1, <2>2, ReloadPage
  <2>4. RecordsTypeOK' /\ Forms'
    BY <2>1, <2>3 DEF Books, RecordsTypeOK, Forms
  <2> QED BY <2>3, <2>4 DEF Books
<1>2. CASE NotSubmitted
  <2>1. /\ form' = IF form = None THEN None ELSE [form EXCEPT !.saving = FALSE]
        /\ submit' = None /\ UNCHANGED <<table, pageVars, delete, changes, listed, clicks>>
    BY <1>2 DEF NotSubmitted
  <2>2. form # None =>
          /\ form' \in FormStates /\ form'.id = form.id /\ form'.base = form.base
          /\ form'.touched = form.touched /\ form'.values = form.values
    BY <2>1 DEF Books, RecordsTypeOK, FormStates
  <2>3. RecordsTypeOK'
    BY <2>1, <2>2 DEF Books, RecordsTypeOK, pageVars
  <2>4. Browser' /\ Forms'
    BY <2>1, <2>2 DEF Books, Browser, Forms, pageVars
  <2> QED BY <2>3, <2>4 DEF Books
<1>3. CASE Cancel
  <2>1. form' = None /\ UNCHANGED <<table, pageVars, submit, delete, changes, listed, clicks>>
    BY <1>3 DEF Cancel
  <2> QED BY <2>1 DEF Books, RecordsTypeOK, Browser, Forms, pageVars
<1> QED BY <1>1, <1>2, <1>3

-----------------------------------------------------------------------------
(* Delete, and the users screen.                                           *)

LEMMA DeleteStep ==
    ASSUME RecordsAssumption, Books,
           (\E id \in Ids : Delete(id)) \/ Erase \/ DeleteFails \/ Deleted \/ NotDeleted
    PROVE  Books'
<1> USE DEF Books
<1>1. CASE \E id \in Ids : Delete(id)
  <2>1. PICK id \in Ids : Delete(id)
    BY <1>1
  <2>2. /\ delete' = [id |-> id, query |-> asked, stage |-> "sent"] /\ clicks' = clicks + 1
        /\ UNCHANGED <<table, pageVars, form, submit, changes, listed>>
    BY <2>1 DEF Delete, Click
  <2>3. delete' \in Deletes
    BY <2>2 DEF RecordsTypeOK, Deletes, Stages
  <2>4. RecordsTypeOK'
    BY <2>2, <2>3 DEF RecordsTypeOK, pageVars
  <2> QED BY <2>2, <2>4 DEF Browser, Forms, pageVars
<1>2. CASE Erase \/ DeleteFails
  <2>1. PICK stage \in Stages : delete' = [delete EXCEPT !.stage = stage]
    BY <1>2 DEF Erase, DeleteFails, Stages
  <2>2. /\ delete # None /\ UNCHANGED <<pageVars, form, submit, changes, listed, clicks>>
        /\ table' \in {table, [table EXCEPT ![delete.id] = None]}
    BY <1>2 DEF Erase, DeleteFails
  <2>3. delete' \in Deletes
    BY <2>1, <2>2 DEF RecordsTypeOK, Deletes
  <2>4. table' \in [Ids -> Rows \cup {None}]
    BY <2>2 DEF RecordsTypeOK
  <2>5. RecordsTypeOK'
    BY <2>2, <2>3, <2>4 DEF RecordsTypeOK, pageVars
  <2> QED BY <2>2, <2>5 DEF Browser, Forms, pageVars
<1>3. CASE Deleted
  <2>1. delete # None /\ delete' = None /\ Reload(delete.query) /\ UNCHANGED <<form, submit>>
    BY <1>3 DEF Deleted
  <2>2. delete.query \in Queries
    BY <2>1 DEF RecordsTypeOK, Deletes
  <2>3. /\ asked' \in Queries /\ loads' \in Seq(Loads) /\ shown' \in Pages
        /\ loading' \in BOOLEAN /\ error' \in BOOLEAN /\ crossed' \in BOOLEAN
        /\ Browser'
        /\ UNCHANGED <<table, changes, listed, clicks>>
    BY <2>1, <2>2, ReloadPage
  <2> QED BY <2>1, <2>3 DEF RecordsTypeOK, Forms
<1>4. CASE NotDeleted
  <2>1. /\ delete' = None /\ error' = TRUE
        /\ UNCHANGED <<table, asked, loads, shown, loading, crossed, form, submit, changes,
                       listed, clicks>>
    BY <1>4 DEF NotDeleted
  <2> QED BY <2>1 DEF RecordsTypeOK, Browser, Forms
<1> QED BY <1>1, <1>2, <1>3, <1>4

\* The users screen keeps to the table, its own list and its requests.
LEMMA ManagingStep ==
    ASSUME RecordsAssumption, Books, Managing
    PROVE  Books'
<1> USE DEF Books
<1>1. /\ table \in [Ids -> Rows \cup {None}] /\ changes \in Seq(Changes)
      /\ listed \in [Ids -> Roles \cup {None}] /\ clicks \in Nat
  BY DEF RecordsTypeOK
<1> DEFINE Kept == /\ table' \in [Ids -> Rows \cup {None}] /\ changes' \in Seq(Changes)
                   /\ listed' \in [Ids -> Roles \cup {None}] /\ clicks' \in Nat
                   /\ UNCHANGED <<pageVars, form, submit, delete>>
<1>2. Kept
  <2>1. ASSUME NEW id \in Ids, NEW role \in Roles, ChangeRole(id, role)
        PROVE  Kept
    <3>1. [id |-> id, role |-> role, stage |-> "sent"] \in Changes
      BY DEF Changes, Stages
    <3> QED BY <1>1, <2>1, <3>1 DEF ChangeRole, Click
  <2>2. ASSUME NEW i \in DOMAIN changes, Promote(i) \/ ChangeFails(i)
        PROVE  Kept
    <3>1. changes[i] \in Changes
      BY <1>1
    <3>2. changes[i].id \in Ids /\ changes[i].role \in Roles
      BY <3>1 DEF Changes
    <3>3. PICK stage \in Stages : changes' = [changes EXCEPT ![i].stage = stage]
      BY <2>2 DEF Promote, ChangeFails, Stages
    <3>4. changes' = [changes EXCEPT ![i] = [changes[i] EXCEPT !.stage = stage]]
      BY <1>1, <3>3
    <3>5. [changes[i] EXCEPT !.stage = stage] \in Changes
      BY <3>1 DEF Changes
    <3>6. changes' \in Seq(Changes)
      BY <1>1, <3>4, <3>5
    <3>7. table[changes[i].id] # None =>
            [table[changes[i].id] EXCEPT !.role = changes[i].role] \in Rows
      BY <1>1, <3>2, RoleTyped
    <3>8. table' \in [Ids -> Rows \cup {None}]
      BY <1>1, <2>2, <3>2, <3>7 DEF Promote, ChangeFails
    <3> QED BY <1>1, <2>2, <3>6, <3>8 DEF Promote, ChangeFails
  <2>3. ASSUME NEW i \in DOMAIN changes, Changed(i)
        PROVE  Kept
    <3>1. changes[i] \in Changes
      BY <1>1
    <3>2. changes[i].id \in Ids /\ changes[i].role \in Roles
      BY <3>1 DEF Changes
    <3>3. changes' \in Seq(Changes)
      BY <1>1, <2>3, RemoveAtTyped DEF Changed
    <3> QED BY <1>1, <2>3, <3>2, <3>3 DEF Changed
  <2> QED BY <2>1, <2>2, <2>3 DEF Managing
<1>3. RecordsTypeOK'
  BY <1>2 DEF RecordsTypeOK, pageVars
<1> QED BY <1>2, <1>3 DEF Browser, Forms, pageVars

\* The screens of records meet a fault or none.
LEMMA FaultsCounted ==
    ASSUME RecordsNext
    PROVE  Fault \/ UNCHANGED faults
<1>1. ASSUME NEW i, Answer(i) \/ Arrive(i) \/ ReadFails(i)
      PROVE  Fault \/ UNCHANGED faults
  BY <1>1 DEF Answer, Arrive, ReadFails
<1>2. ASSUME NEW query, Ask(query)
      PROVE  Fault \/ UNCHANGED faults
  BY <1>2 DEF Ask
<1>3. ASSUME ToggleSort \/ ApplyFilters \/ PrevPage \/ NextPage
      PROVE  Fault \/ UNCHANGED faults
  BY <1>2, <1>3 DEF ToggleSort, ApplyFilters, PrevPage, NextPage
<1>4. ASSUME NEW id, Delete(id)
      PROVE  Fault \/ UNCHANGED faults
  BY <1>4 DEF Delete
<1>5. ASSUME Erase \/ DeleteFails \/ Deleted \/ NotDeleted
      PROVE  Fault \/ UNCHANGED faults
  BY <1>5 DEF Erase, DeleteFails, Deleted, NotDeleted, Reload
<1>6. ASSUME NEW id, NEW row, OpenForm(id, row)
      PROVE  Fault \/ UNCHANGED faults
  BY <1>6 DEF OpenForm
<1>7. ASSUME NEW f, SetValue(f)
      PROVE  Fault \/ UNCHANGED faults
  BY <1>7 DEF SetValue
<1>8. ASSUME Cancel \/ Submit \/ Store \/ SubmitFails
      PROVE  Fault \/ UNCHANGED faults
  BY <1>8 DEF Cancel, Submit, Store, SubmitFails
<1>9. ASSUME Submitted \/ NotSubmitted
      PROVE  Fault \/ UNCHANGED faults
  BY <1>9 DEF Submitted, NotSubmitted, Reload
<1>10. ASSUME NEW id, NEW role, ChangeRole(id, role)
       PROVE  Fault \/ UNCHANGED faults
  BY <1>10 DEF ChangeRole
<1>11. ASSUME NEW i, Promote(i) \/ ChangeFails(i) \/ Changed(i)
       PROVE  Fault \/ UNCHANGED faults
  BY <1>11 DEF Promote, ChangeFails, Changed
<1> QED BY <1>1, <1>3, <1>4, <1>5, <1>6, <1>7, <1>8, <1>9, <1>10, <1>11
        DEF RecordsNext, Loading, Browsing, Filling, Managing

\* Every step of the screens of records keeps Books, and leaves Desk alone.
LEMMA RecordsStep ==
    ASSUME EditorAssumption, RecordsAssumption, IInv, RecordsNext,
           UNCHANGED <<live, post, status, shell, pane, local, edits>>
    PROVE  IInv'
<1>1. Books
  BY DEF IInv
<1>2. Desk'
  <2>1. faults \in Nat
    BY DEF IInv, Desk, TypeOK
  <2>2. faults' \in Nat
    BY <2>1, FaultsCounted DEF Fault
  <2> QED BY <2>2, DeskFrame DEF IInv
<1>3. \A i \in DOMAIN shown.rows : shown.rows[i].id \in Ids /\ shown.rows[i].row \in Rows
  <2>1. shown.rows \in Seq(Items)
    BY <1>1 DEF Books, RecordsTypeOK, Pages
  <2> SUFFICES ASSUME NEW i \in DOMAIN shown.rows
               PROVE  shown.rows[i].id \in Ids /\ shown.rows[i].row \in Rows
    OBVIOUS
  <2>2. shown.rows[i] \in Items
    BY <2>1
  <2> QED BY <2>2 DEF Items
<1>4. ASSUME NEW i \in DOMAIN shown.rows, OpenForm(shown.rows[i].id, shown.rows[i].row)
      PROVE  Books'
  <2>1. shown.rows[i].id # None
    BY <1>3 DEF RecordsAssumption
  <2> QED BY <1>1, <1>3, <1>4, <2>1, OpenFormStep
<1>5. OpenForm(None, Fresh) => Books'
  BY <1>1, FreshTyped, OpenFormStep
<1>6. CASE Loading
  BY <1>1, <1>2, <1>6, AnswerStep, EndStep DEF Loading, IInv
<1>7. CASE Browsing
  BY <1>1, <1>2, <1>3, <1>7, BrowseStep, DeleteStep DEF Browsing, IInv
<1>8. CASE Filling
  BY <1>1, <1>2, <1>4, <1>5, <1>8, SetValueStep, SubmitStep, StoreStep, SubmittedStep
     DEF Filling, IInv
<1>9. CASE Managing
  BY <1>1, <1>2, <1>9, ManagingStep DEF IInv
<1> QED BY <1>6, <1>7, <1>8, <1>9 DEF RecordsNext

LEMMA InitBooks ==
    ASSUME RecordsAssumption, RecordsInit
    PROVE  Books
<1> USE DEF RecordsInit
<1>1. asked \in Queries
  BY DEF Queries
<1> DEFINE load == [query |-> asked, rows |-> None, total |-> 0]
<1>2. load \in Loads /\ load.query = asked
  BY <1>1 DEF Loads
<1>3. loads \in Seq(Loads) /\ loads # <<>> /\ loads[Len(loads)].query = asked
  <2>1. loads = <<load>>
    OBVIOUS
  <2> HIDE DEF load, RecordsInit
  <2> QED BY <1>2, <2>1
<1>4. shown \in Pages
  BY DEF Pages
<1>5. table \in [Ids -> Rows \cup {None}] /\ listed \in [Ids -> Roles \cup {None}]
  <2>1. \A id \in Ids : Stored[id] # None => Stored[id].role \in Roles
    BY DEF RecordsAssumption, Rows
  <2> QED BY <2>1 DEF Listed, RecordsAssumption
<1>6. RecordsTypeOK
  <2>1. /\ loading \in BOOLEAN /\ error \in BOOLEAN /\ crossed \in BOOLEAN
        /\ form = None /\ submit = None /\ delete = None /\ changes = <<>> /\ clicks = 0
    OBVIOUS
  <2> HIDE DEF RecordsInit
  <2>2. changes \in Seq(Changes)
    BY <2>1
  <2> QED BY <1>1, <1>3, <1>4, <1>5, <2>1, <2>2 DEF RecordsTypeOK
<1> QED BY <1>3, <1>6 DEF Books, Browser, Forms

\* IInv is an invariant of the whole application.
LEMMA IInvInductive == AdminSpec => []IInv
<1> USE EditorAssumption, RecordsAssumption
<1>1. Init /\ RecordsInit => IInv
  BY InitDesk, InitBooks DEF IInv
<1>2. IInv /\ [AdminNext]_<<vars, recordVars>> => IInv'
  <2>1. ASSUME IInv, Next, UNCHANGED recordVars
        PROVE  IInv'
    BY <2>1, DeskStep, BooksFrame DEF IInv
  <2>2. ASSUME IInv, UNCHANGED <<vars, recordVars>>
        PROVE  IInv'
    <3>1. faults' \in Nat /\ UNCHANGED <<live, post, status, shell, pane, local, edits>>
      BY <2>2 DEF IInv, Desk, TypeOK, vars
    <3> QED BY <2>2, <3>1, DeskFrame, BooksFrame DEF IInv
  <2> QED BY <2>1, <2>2, RecordsStep DEF AdminNext
<1> QED BY <1>1, <1>2, PTL DEF AdminSpec

-----------------------------------------------------------------------------
(* What a form stores.                                                     *)

\* What a form that was not typed in stores is what its row had, but for what
\* a widget cannot hold.
LEMMA StoreMeans ==
    ASSUME EditorAssumption, RecordsAssumption, IInv, Store, submit'.stage = "done",
           NEW f \in Columns
    PROVE  LET was == IF submit.id = None THEN Fresh[f] ELSE table[submit.id][f]
               now == IF submit.id # None THEN table'[submit.id][f]
                      ELSE table'[CHOOSE id \in Ids : table[id] # table'[id]][f]
           IN  now # was =>
                 /\ f # "role"
                 /\ \/ f \in submit.touched
                    \/ was # submit.base[f]
                    \/ f = "active" /\ was = None
                    \/ f = "seen" /\ was # None /\ was % 60 # 0
<1>1. /\ submit \in Submits /\ table \in [Ids -> Rows \cup {None}]
      /\ FormOf(submit.id, submit.base, submit.touched, submit.payload, DOMAIN submit.payload)
  BY DEF Store, IInv, Books, RecordsTypeOK, Forms
<1>2. PICK id \in IF submit.id # None THEN {submit.id} ELSE {i \in Ids : table[i] = None} :
        LET row == IF submit.id = None THEN Fresh ELSE table[id] IN
        /\ table' = IF row = None THEN table
                    ELSE [table EXCEPT ![id] = Patched(row, submit.payload)]
        /\ submit' = [submit EXCEPT !.stage = IF row = None THEN "failed" ELSE "done"]
  BY DEF Store
<1> DEFINE row == IF submit.id = None THEN Fresh ELSE table[id]
           new == Patched(row, submit.payload)
<1>3. id \in Ids
  BY <1>1, <1>2 DEF Submits
<1>4. row # None /\ row \in Rows
  <2>1. submit'.stage = IF row = None THEN "failed" ELSE "done"
    BY <1>1, <1>2 DEF Submits
  <2> QED BY <1>1, <1>3, <2>1, FreshTyped
<1>5. table' = [table EXCEPT ![id] = new] /\ table'[id] = new
  BY <1>1, <1>2, <1>3, <1>4
<1>6. PICK values \in Rows : submit.payload = Payload(values)
  BY <1>1 DEF Submits
<1>7. new \in Rows /\ new # None
  BY <1>4, <1>6, PatchedTyped DEF RecordsAssumption
<1>8. new[f] = IF f \in DOMAIN submit.payload THEN submit.payload[f] ELSE row[f]
  BY DEF Patched
<1>9. DOMAIN submit.payload \subseteq Editable
  BY <1>6 DEF Payload
<1> DEFINE was == IF submit.id = None THEN Fresh[f] ELSE table[submit.id][f]
           now == IF submit.id # None THEN table'[submit.id][f]
                  ELSE table'[CHOOSE i \in Ids : table[i] # table'[i]][f]
<1>10. was = row[f]
  BY <1>2
<1>11. now = new[f]
  <2>1. CASE submit.id # None
    BY <1>2, <1>5, <2>1
  <2>2. CASE submit.id = None
    <3>1. table[id] = None
      BY <1>2, <2>2
    <3> HIDE DEF new
    <3>2. \A i \in Ids : table[i] # table'[i] <=> i = id
      BY <1>1, <1>3, <1>5, <1>7, <3>1
    <3>3. (CHOOSE i \in Ids : table[i] # table'[i]) = id
      BY <1>3, <3>2
    <3> QED BY <1>5, <2>2, <3>3
  <2> QED BY <2>1, <2>2
<1> HIDE DEF row, new, was, now
<1>12. ASSUME new[f] # row[f]
       PROVE  /\ f # "role"
              /\ \/ f \in submit.touched
                 \/ row[f] # submit.base[f]
                 \/ f = "active" /\ row[f] = None
                 \/ f = "seen" /\ row[f] # None /\ row[f] % 60 # 0
  <2>1. f \in DOMAIN submit.payload /\ new[f] = submit.payload[f] /\ f \in Editable
    BY <1>8, <1>9, <1>12
  <2>2. f # "role" /\ f \in {"name", "active", "seen"}
    BY <2>1 DEF Editable, Columns
  <2> SUFFICES ASSUME f \notin submit.touched, row[f] = submit.base[f]
               PROVE  \/ f = "active" /\ row[f] = None
                      \/ f = "seen" /\ row[f] # None /\ row[f] % 60 # 0
    BY <2>2
  <2>3. new[f] = Widget(f, row[f])
    BY <1>1, <2>1 DEF FormOf
  <2>4. CASE f = "name"
    BY <1>12, <2>3, <2>4 DEF Widget
  <2>5. CASE f = "active"
    <3>1. row["active"] \in BOOLEAN \cup {None}
      BY <1>4, RowFields
    <3>2. (row["active"] = TRUE) # row["active"]
      BY <1>12, <2>3, <2>5, Zenon DEF Widget
    <3>3. row["active"] \notin BOOLEAN
      BY <3>2, Zenon
    <3> QED BY <2>5, <3>1, <3>3, Zenon
  <2>6. CASE f = "seen"
    <3>1. row["seen"] \in Nat \cup {None}
      BY <1>4, RowFields
    <3>2. row["seen"] # None
      BY <1>12, <2>3, <2>6 DEF Widget
    <3>3. row["seen"] - (row["seen"] % 60) # row["seen"]
      BY <1>12, <2>3, <2>6, <3>2 DEF Widget
    <3> QED BY <2>6, <3>1, <3>2, <3>3
  <2> QED BY <2>2, <2>4, <2>5, <2>6
<1> QED BY <1>10, <1>11, <1>12 DEF was, now

-----------------------------------------------------------------------------
(* The theorems.                                                           *)

\* Whatever the screens do, and whatever answers the server gives them, every
\* variable of the application keeps its type: a draft is a schema, a page has
\* rows of the table's kind, a request is of a row there may be.
THEOREM TypeCorrect == AdminSpec => [](TypeOK /\ RecordsTypeOK)
<1>1. IInv => TypeOK /\ RecordsTypeOK
  BY DEF IInv, Desk, Books
<1> QED BY <1>1, IInvInductive, PTL

\* A save of the schema screen or of the matrix sends what the screen was last
\* given with the edits made since, for any number of tabs, saves and edits: of
\* the entities it was given, the rule the builder cannot show and the field the
\* form cannot make go through; of one it was not given, the edits alone are sent
\* (buildDraft, ruleExprToLeaves, buildSchemaUpdateConfig).
THEOREM EditsAreSent == AdminSpec => []SavesOnlyEdits
<1> USE EditorAssumption
<1>1. IInv => SavesOnlyEdits
  BY DeskSaves DEF IInv
<1> QED BY <1>1, IInvInductive, PTL

\* The reply of a save that was alone leaves its tab with the live schema, on
\* whichever screen the admin is by then (setEntities, the onSuccess of the save).
THEOREM ReplyIsShown == AdminSpec => []SavedIsShown
<1> USE EditorAssumption
<1>1. IInv => SavedIsShown
  BY DeskShows DEF IInv
<1> QED BY <1>1, IInvInductive, PTL

\* A dashboard that has loaded shows the shell's schema, whichever of its runs
\* were overtaken, and a browser with nothing under way what was asked for last,
\* unless answers have crossed.
THEOREM PanesKeepUp == AdminSpec => []PanesAreCurrent
<1> USE EditorAssumption
<1>1. IInv => PanesAreCurrent
  <2>1. SectionsAreCurrent /\ Browser => PanesAreCurrent
    BY DEF PanesAreCurrent, Browser
  <2> QED BY <2>1, DeskFills DEF IInv, Books
<1> QED BY <1>1, IInvInductive, PTL

\* A form changes of its row what was typed, what somebody else changed since, or
\* what a widget cannot hold, and never the role (toWidgetValue, handleSubmit).
THEOREM FormsAreMeant == AdminSpec => SavesAreMeant
<1> USE EditorAssumption, RecordsAssumption
<1> DEFINE Meant ==
      Store /\ submit'.stage = "done" =>
         \A f \in Columns :
            LET was == IF submit.id = None THEN Fresh[f] ELSE table[submit.id][f]
                now == IF submit.id # None THEN table'[submit.id][f]
                       ELSE table'[CHOOSE id \in Ids : table[id] # table'[id]][f]
            IN  now # was =>
                  /\ f # "role"
                  /\ \/ f \in submit.touched
                     \/ was # submit.base[f]
                     \/ f = "active" /\ was = None
                     \/ f = "seen" /\ was # None /\ was % 60 # 0
<1>1. IInv => Meant
  BY StoreMeans
<1>2. SavesAreMeant <=> [][Meant]_recordVars
  BY DEF SavesAreMeant
<1> HIDE DEF Meant
<1> QED BY <1>1, <1>2, IInvInductive, PTL
===============================================================================
