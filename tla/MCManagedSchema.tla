--------------------------- MODULE MCManagedSchema ---------------------------
(* ManagedSchema on a small deployment: a plugin contributing users; user   *)
(* entities notes (a ref to users), comments (a ref to notes), tags, and    *)
(* bad, which validateConfig rejects.                                       *)
EXTENDS ManagedSchema

CONSTANTS users, notes, comments, tags, bad

MCUser == {notes, comments, tags, bad}
MCPlugin == {users}
MCRefs == [e \in MCUser \cup MCPlugin |->
             CASE e = notes -> {users} [] e = comments -> {notes} [] OTHER -> {}]
MCMalformed == {bad}

\* Two configs that apply, one with a dangling ref, one that is malformed, and
\* one that collides with the plugin unless the route has stripped its entity.
MCConfigs == {{tags}, {notes}, {comments}, {bad}, {users, notes}}
==============================================================================
