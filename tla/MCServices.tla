------------------------------ MODULE MCServices ------------------------------
(* The stores, the media plugin and what requests leave behind share nothing *)
(* but the budget of failures: a behaviour of this module is one of a single *)
(* part, with the others at rest.  A part but Telemetry may stop when its    *)
(* bounds are spent, and stays where it is.                                  *)
EXTENDS KeyValue, Media, Telemetry

VARIABLE turn

MCFamilies == [p \in {"a"} |-> [exact |-> {"a1", "a2"}, alike |-> {"A2"}]]
MCTtls == {0, 2, Forever}

Sent(declared, form) == [declared |-> declared, form |-> form]
MCBodies == {Sent("fits", "fits"), Sent("none", "over"), Sent("over", "fits"),
             Sent("none", "no file"), Sent("fits", "none")}

MCInit ==
    /\ KvInit /\ MediaInit /\ Init
    /\ \/ turn = "stores" /\ ~ownerScoped /\ storage = "r2"
       \/ turn = "media" /\ backend = "node"
       \/ turn = "telemetry" /\ ~ownerScoped /\ storage = "r2" /\ backend = "node"
    /\ turn # "telemetry" => host = "node"

MCNext ==
    \/ turn = "stores" /\ KvNext /\ UNCHANGED <<turn, mediaVars, vars>>
    \/ turn = "media" /\ MediaNext /\ UNCHANGED <<turn, kvVars, host, busVars, req, emitVars,
                                                   span, row, sent, awaits, sinkVars>>
    \/ turn = "telemetry" /\ Next /\ UNCHANGED <<turn, kvVars, mediaVars>>
    \/ turn # "telemetry" /\ UNCHANGED <<turn, kvVars, mediaVars, vars>>

MCSpec == MCInit /\ [][MCNext]_<<turn, kvVars, mediaVars, vars>>
==============================================================================
