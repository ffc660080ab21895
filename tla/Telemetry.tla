------------------------------ MODULE Telemetry ------------------------------
(***************************************************************************)
(* What a request leaves behind besides its answer: the events it emits to *)
(* the handlers of the EventBus, the audit rows, metrics, logs and spans   *)
(* those and the kernel hand to the sinks, and the flush that has to save  *)
(* them before the runtime may drop the process                            *)
(* (src/packages/frogcp/src/events.ts, kernel.ts, observability/,          *)
(* activity/, otel/, sink/sqlite/, adapter/cloudflare/pipelines.ts).       *)
(*                                                                         *)
(* Each request writes one row and so emits one event.  Its records are    *)
(* named by the request, the kind of record and, for a handler that threw, *)
(* the handler's place; their contents are left out.  The activity plugin  *)
(* with its audit sink is registered, on Node the SQLite sink too.         *)
(***************************************************************************)
EXTENDS Faults, FiniteSets

CONSTANTS
    Requests,
    Plugins,     \* event handlers of plugins and of the app
    Bridge,      \* the activity plugin's handler, subscribed for good at boot
    Hosts,       \* a subset of AllHosts
    MaxStamp     \* bound: subscriptions in a behaviour

\* Node; createWorkerHandler, which passes no ExecutionContext on;
\* backend.hono.fetch(req, env, ctx) on Workers, which does; and
\* createWorkerHandler with the Pipelines sink in the activity plugin's place.
AllHosts == {"node", "worker", "hono", "pipeline"}

ASSUME TelemetryAssumption ==
    /\ Hosts \subseteq AllHosts
    /\ Bridge \notin Plugins /\ None \notin Plugins \cup {Bridge}
    /\ MaxStamp \in Nat /\ MaxFaults \in Nat

Handlers == Plugins \cup {Bridge}
Kinds    == {"audit", "metric", "span", "threw", "insert"}
Records  == Requests \X Kinds \X Nat

VARIABLES
    host,
    stamp,     \* the place of each handler in the Set of its event; 0: not in it
    clock,     \* the last place given out
    req,       \* where each request is
    cursor,    \* the last place its emit has visited
    busy,      \* the handler its emit awaits
    ran,       \* the places its emit has run
    held,      \* the places subscribed ever since its emit began
    span,      \* the span of the request's traced function
    row,       \* its audit row: the insert is a promise in the sink's pending
    sent,      \* its audit event on its way through the Pipelines binding
    awaits,    \* the inserts its flush took from pending and awaits
    buffer,    \* the SQLite sink's four buffers
    stored,    \* records committed by the SQLite sink
    gone       \* records of a batch dropped by a failed transaction

busVars  == <<stamp, clock>>
emitVars == <<cursor, busy, ran, held>>
sinkVars == <<buffer, stored, gone>>
vars == <<host, busVars, req, emitVars, span, row, sent, awaits, sinkVars, faults>>

Live == {stamp[h] : h \in Handlers} \ {0}

Enter(r, where) == req' = [req EXCEPT ![r] = where]

\* What the SQLite sink buffers; on Workers it cannot be registered.
Keep(recs) == buffer' = IF host = "node" THEN buffer \cup recs ELSE buffer

-----------------------------------------------------------------------------
Init ==
    /\ host \in Hosts
    /\ clock = 2
    /\ \E h \in Plugins :
         stamp = [x \in Handlers |-> IF x = h THEN 1 ELSE IF x = Bridge THEN 2 ELSE 0]
    /\ req = [r \in Requests |-> "idle"]
    /\ cursor = [r \in Requests |-> 0]
    /\ busy = [r \in Requests |-> None]
    /\ ran = [r \in Requests |-> {}]
    /\ held = [r \in Requests |-> {}]
    /\ span = [r \in Requests |-> "none"]
    /\ row = [r \in Requests |-> "none"]
    /\ sent = [r \in Requests |-> "none"]
    /\ awaits = [r \in Requests |-> {}]
    /\ buffer = {} /\ stored = {} /\ gone = {}
    /\ faults = 0

-----------------------------------------------------------------------------
(* The EventBus.                                                           *)

\* Bound: subscriptions change while somebody emits; a change at another time
\* is as if made when the next emission begins.
Emitting == \E r \in Requests : req[r] = "emit"

\* on(): a handler that is in the Set already keeps its place.
Subscribe(h) ==
    /\ Emitting /\ stamp[h] = 0 /\ clock < MaxStamp
    /\ clock' = clock + 1
    /\ stamp' = [stamp EXCEPT ![h] = clock']
    /\ UNCHANGED <<host, req, emitVars, span, row, sent, awaits, sinkVars, faults>>

\* The function on() returned.
Unsubscribe(h) ==
    /\ Emitting /\ stamp[h] # 0
    /\ stamp' = [stamp EXCEPT ![h] = 0]
    /\ held' = [r \in Requests |-> held[r] \ {stamp[h]}]
    /\ UNCHANGED <<host, clock, req, cursor, busy, ran, span, row, sent, awaits, sinkVars, faults>>

\* A write under trace(): the row is written, its span is open, emit begins.
Write(r) ==
    /\ req[r] = "idle"
    /\ Enter(r, "emit")
    /\ span' = [span EXCEPT ![r] = "open"]
    /\ held' = [held EXCEPT ![r] = Live]
    /\ UNCHANGED <<host, busVars, cursor, busy, ran, row, sent, awaits, sinkVars, faults>>

Ahead(r) == {s \in Live : s > cursor[r]}

\* The iterator of a Set goes to the next entry in the order of insertion.
Visit(r, s) ==
    /\ req[r] = "emit" /\ busy[r] = None
    /\ s \in Ahead(r) /\ \A t \in Ahead(r) : s <= t
    /\ cursor' = [cursor EXCEPT ![r] = s]
    /\ ran' = [ran EXCEPT ![r] = @ \cup {s}]

\* The bridge emits an audit event: every audit sink starts on it, and none
\* is awaited.
RunBridge(r) ==
    /\ Visit(r, stamp[Bridge])
    /\ IF host = "pipeline" THEN sent' = [sent EXCEPT ![r] = "pending"] /\ UNCHANGED row
       ELSE row' = [row EXCEPT ![r] = "pending"] /\ UNCHANGED sent
    /\ Keep({<<r, "audit", 0>>})
    /\ UNCHANGED <<host, busVars, req, busy, held, span, awaits, stored, gone, faults>>

RunHandler(r, h) ==
    /\ Visit(r, stamp[h])
    /\ busy' = [busy EXCEPT ![r] = h]
    /\ UNCHANGED <<host, busVars, req, held, span, row, sent, awaits, sinkVars, faults>>

\* A handler may end the span it finds; ending it again does nothing.
HandlerReturns(r, status) ==
    /\ busy[r] # None
    /\ busy' = [busy EXCEPT ![r] = None]
    /\ IF status = "running" \/ span[r] # "open" THEN UNCHANGED <<span, buffer>>
       ELSE span' = [span EXCEPT ![r] = status] /\ Keep({<<r, "span", 0>>})
    /\ UNCHANGED <<host, busVars, req, cursor, ran, held, row, sent, awaits, stored, gone, faults>>

\* Mutant: a handler that throws ends the emission.
HandlerThrowsOut(r) ==
    /\ busy[r] # None /\ Fault
    /\ busy' = [busy EXCEPT ![r] = None]
    /\ Keep({<<r, "threw", cursor[r]>>})
    /\ Enter(r, "emitted")
    /\ UNCHANGED <<host, busVars, cursor, ran, held, span, row, sent, awaits, stored, gone>>

\* It is caught and logged, and the log line teed to the log sinks.
HandlerThrows(r) ==
    /\ busy[r] # None /\ Fault
    /\ busy' = [busy EXCEPT ![r] = None]
    /\ Keep({<<r, "threw", cursor[r]>>})
    /\ UNCHANGED <<host, busVars, req, cursor, ran, held, span, row, sent, awaits, stored, gone>>

\* The error has a field JSON.stringify rejects (a BigInt, a cycle): the
\* logger throws in emit's catch block, and emit throws.
HandlerThrowsUnprintable(r) ==
    /\ busy[r] # None /\ Fault
    /\ busy' = [busy EXCEPT ![r] = None]
    /\ Enter(r, "threw")
    /\ UNCHANGED <<host, busVars, cursor, ran, held, span, row, sent, awaits, sinkVars>>

EmitEnds(r) ==
    /\ req[r] = "emit" /\ busy[r] = None /\ Ahead(r) = {}
    /\ Enter(r, "emitted")
    /\ UNCHANGED <<host, busVars, emitVars, span, row, sent, awaits, sinkVars, faults>>

-----------------------------------------------------------------------------
(* The kernel's metric and flush middleware, and the sinks.                *)

\* drainAll, all of it synchronous: the buffers are emptied, and their records
\* committed in one transaction or dropped.
Drain(recs) ==
    \/ stored' = stored \cup recs /\ UNCHANGED <<gone, faults>>
    \/ recs # {} /\ host = "node" /\ Fault /\ gone' = gone \cup recs /\ UNCHANGED stored

\* Mutant: the activity sink has no flush.
PendingIgnored(r) == {}

\* The activity sink's flush: the inserts in flight at this moment.
Pending(r) == {q \in Requests : row[q] = "pending"}

\* trace() ends the span with the outcome, unless it has ended.
Final(r) ==
    IF span[r] # "open" THEN span[r] ELSE IF req[r] = "threw" THEN "error" ELSE "ok"

\* What the end of the traced function and the kernel's metric add.
Last(r) ==
    IF host # "node" THEN {}
    ELSE {<<r, "metric", 0>>} \cup (IF span[r] = "open" THEN {<<r, "span", 0>>} ELSE {})

\* Mutant: the buffers are emptied only after a commit.
FlushKeepsBatch(r) ==
    /\ req[r] \in {"emitted", "threw"}
    /\ span' = [span EXCEPT ![r] = Final(r)]
    /\ Drain(buffer \cup Last(r))
    /\ buffer' = IF gone' # gone THEN buffer \cup Last(r) ELSE {}
    /\ awaits' = [awaits EXCEPT ![r] = Pending(r)]
    /\ Enter(r, "flush")
    /\ UNCHANGED <<host, busVars, emitVars, row, sent>>

\* The middleware unwinds: the metric is recorded with the final status, then
\* every sink's flush is called: the SQLite sink drains, and the activity
\* sink's pending inserts are awaited.
Flush(r) ==
    /\ req[r] \in {"emitted", "threw"}
    /\ span' = [span EXCEPT ![r] = Final(r)]
    /\ Drain(buffer \cup Last(r))
    /\ buffer' = {}
    /\ awaits' = [awaits EXCEPT ![r] = Pending(r)]
    /\ Enter(r, "flush")
    /\ UNCHANGED <<host, busVars, emitVars, row, sent>>

Settled(q) == row[q] # "pending"

\* The answer leaves: after the flush, or at once with an ExecutionContext,
\* whose waitUntil holds the isolate.
Respond(r) ==
    /\ req[r] = "flush"
    /\ host # "hono" => \A q \in awaits[r] : Settled(q)
    /\ Enter(r, "answered")
    /\ cursor' = [cursor EXCEPT ![r] = 0]
    /\ ran' = [ran EXCEPT ![r] = {}]
    /\ held' = [held EXCEPT ![r] = {}]
    /\ UNCHANGED <<host, busVars, busy, span, row, sent, awaits, sinkVars, faults>>

Insert(r) ==
    /\ row[r] = "pending"
    /\ row' = [row EXCEPT ![r] = "stored"]
    /\ UNCHANGED <<host, busVars, req, emitVars, span, sent, awaits, sinkVars, faults>>

\* The sink logs the failure; the line goes to the log sinks in turn.
InsertFails(r) ==
    /\ row[r] = "pending" /\ Fault
    /\ row' = [row EXCEPT ![r] = "failed"]
    /\ Keep({<<r, "insert", 0>>})
    /\ UNCHANGED <<host, busVars, req, emitVars, span, sent, awaits, stored, gone>>

\* pipeline.send resolves or rejects; a rejection is swallowed.
Send(r) ==
    /\ sent[r] = "pending"
    /\ sent' = [sent EXCEPT ![r] = "sent"]
    /\ UNCHANGED <<host, busVars, req, emitVars, span, row, awaits, sinkVars, faults>>

\* Nothing keeps the isolate: no request is open, no waitUntil unsettled.
Quiet ==
    \A r \in Requests :
        req[r] \in {"idle", "answered"} /\ \A q \in awaits[r] : Settled(q)

\* On Workers an isolate nothing holds may be suspended for good: what it was
\* still writing never lands.
Suspend ==
    /\ host # "node" /\ Quiet
    /\ \E r \in Requests : row[r] = "pending" \/ sent[r] = "pending"
    /\ row' = [r \in Requests |-> IF row[r] = "pending" THEN "abandoned" ELSE row[r]]
    /\ sent' = [r \in Requests |-> IF sent[r] = "pending" THEN "abandoned" ELSE sent[r]]
    /\ UNCHANGED <<host, busVars, req, emitVars, span, awaits, sinkVars, faults>>

RequestStep(r) ==
    \/ RunBridge(r) \/ EmitEnds(r) \/ Flush(r) \/ Respond(r)
    \/ \E h \in Plugins : RunHandler(r, h)
    \/ \E status \in {"running", "error"} : HandlerReturns(r, status)

\* The process is at rest: nobody is being served.
Rest ==
    /\ \A r \in Requests : req[r] \in {"idle", "answered"}
    /\ UNCHANGED vars

Next ==
    \/ \E h \in Plugins : Subscribe(h) \/ Unsubscribe(h)
    \/ \E r \in Requests :
         \/ Write(r) \/ RequestStep(r) \/ Insert(r) \/ Send(r)
         \/ HandlerThrows(r) \/ HandlerThrowsUnprintable(r) \/ InsertFails(r)
    \/ Suspend \/ Rest

Spec == Init /\ [][Next]_vars

-----------------------------------------------------------------------------
(* Properties.                                                             *)

\* No handler is forgotten: whatever others throw, subscribe or unsubscribe
\* while an emission awaits, it runs every handler that was subscribed when it
\* began and still is when it ends.
HandlersRan == \A r \in Requests : req[r] = "emitted" => held[r] \subseteq ran[r]

\* The audit trail has no holes: once a request is answered and its flush
\* over, its audit row is stored, or the failure to store it was logged; no
\* row is abandoned by the suspension of an isolate that nothing holds.
AuditKept ==
    \A r \in Requests :
        req[r] = "answered" /\ (\A q \in awaits[r] : Settled(q))
            => \/ row[r] \in {"none", "stored"}
               \/ /\ row[r] = "failed"
                  /\ host = "node" => <<r, "insert", 0>> \in buffer \cup stored \cup gone

\* A record is in one place: buffered, stored once, or dropped with its
\* batch; no flush stores it again or buffers what another one took.
OnePlace ==
    /\ buffer \cap stored = {} /\ buffer \cap gone = {} /\ stored \cap gone = {}
    /\ \A rec \in buffer :
         req[rec[1]] \in {"flush", "answered"} => rec[2] = "insert"

=============================================================================
