------------------------------- MODULE MCEditor -------------------------------
(* Instances of the admin application for TLC: its shell and editors, and a  *)
(* browser of records next to the users screen, each on its own.             *)
EXTENDS Records, TLC

CONSTANTS posts, notes, users, u1, u2,
          Turns,         \* which of the parts run
          MaxFormClicks  \* bound: of MaxClicks, in the form's part

MCTarget == [f \in Fields |-> IF f = "writer" THEN users ELSE None]
MCOwner  == [l \in Leaves |-> IF l = "own" THEN "author" ELSE None]

\* posts has a rule of each kind and a field only code can define.
MCGiven ==
    posts :> [fields |-> [f \in Fields |-> IF f = "author" THEN "code" ELSE "none"],
              rules  |-> [read |-> [op |-> "and", of |-> <<"own", "public">>],
                          edit |-> [op |-> "or", of |-> <<"own">>]]]
    @@ notes :> None
    @@ users :> Blank

\* One row with a NULL boolean and one whose timestamp has seconds.
MCStored ==
    u1 :> [name |-> 1, active |-> None, seen |-> 60, role |-> "member"]
    @@ u2 :> [name |-> 2, active |-> FALSE, seen |-> 61, role |-> "admin"]

MCTyped == [name |-> {None, 2}, active |-> {TRUE}, seen |-> {None, 120}]

VARIABLE turn

MCInit == turn \in Turns /\ Init /\ RecordsInit

MCNext ==
    \/ turn = "shell" /\ Next /\ UNCHANGED <<turn, recordVars>>
    \/ turn = "browser" /\ (Loading \/ Browsing)
       /\ UNCHANGED <<turn, live, post, status, shell, pane, local, edits>>
    \/ turn = "form" /\ (Loading \/ Filling \/ Managing) /\ clicks' <= MaxFormClicks
       /\ UNCHANGED <<turn, live, post, status, shell, pane, local, edits>>

MCSpec == MCInit /\ [][MCNext]_<<turn, vars, recordVars>>
==============================================================================
