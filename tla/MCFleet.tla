------------------------------- MODULE MCFleet -------------------------------
(* Instances of Fleet for TLC. *)
EXTENDS Fleet

CONSTANTS users, notes, tags

\* One version on every isolate, over a new database or an older version's.
MCOne     == {{users, notes}}
MCEarlier == {{}, {users, tags}}

\* Two versions of the app on one database, as while a deployment is rolled out.
MCTwo  == {{users, notes}, {users, tags}}
MCBase == {{users}}
=============================================================================
