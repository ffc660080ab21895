-------------------------------- MODULE Fleet --------------------------------
(***************************************************************************)
(* Isolates (processes) that serve one app from one shared database: the   *)
(* promise that caches an isolate's backend, the cold start it stands for, *)
(* the migrations that concurrent cold starts run, and the requests that   *)
(* share a build, outlive a failed one or retry it                         *)
(* (src/packages/frogcp/src/adapter/serve.ts, adapter/connection.ts,       *)
(* adapter/cloudflare/worker.ts, adapter/cloudflare/d1.ts,                 *)
(* adapter/nextjs/index.ts, migrate/sqlite.ts).                            *)
(*                                                                         *)
(* ManagedSchema is one process and the one connection it holds; here each *)
(* isolate has its own connection.  A config is the set of its tables.     *)
(***************************************************************************)
EXTENDS Naturals, FiniteSets

CONSTANTS
    Isolates, Requests,
    Tables,      \* names of tables
    Earlier,     \* configs the database may have been migrated to before
    Versions,    \* configs the isolates are deployed with
    Hosts,       \* runtimes to consider: a subset of AllHosts
    MaxFaults,   \* bound: failures and crashes in a behaviour
    None

\* createWorkerHandler; serve() of the Next.js adapter under Node, and under
\* Workers.
AllHosts == {"worker", "next-node", "next-edge"}

\* Names for attempts: one per isolate's slot and one per request still to be
\* told of a failure always suffice, so names are used again.
Attempts == 1 .. (Cardinality(Isolates) + Cardinality(Requests))

ASSUME FleetAssumption ==
    /\ IsFiniteSet(Isolates) /\ Isolates # {} /\ IsFiniteSet(Requests)
    /\ Earlier \subseteq SUBSET Tables
    /\ Versions \subseteq SUBSET Tables
    /\ Hosts \subseteq AllHosts
    /\ MaxFaults \in Nat
    /\ None \notin Attempts

VARIABLES
    host,      \* the runtime
    adapter,   \* what a D1-or-not choice decides: "file" has transactions, "d1" none
    kit,       \* drizzle-kit can be loaded where this runs
    explicit,  \* the app names its connection (else the adapter's default)
    version,   \* the config each isolate was deployed with
    db,        \* the shared database as a new reader sees it
    draft,     \* the uncommitted database of the isolate that holds the lock
    writer,    \* the attempt that holds the write lock
    slot,      \* the cached promise of each isolate
    phase,     \* where each attempt is between two awaits
    home,      \* the isolate of each attempt
    edge,      \* whether the attempt's RuntimeContext says Cloudflare
    todo,      \* the statements left of the attempt's migration
    req,       \* where each request is
    joined,    \* the attempt each request awaits or was answered by
    faults     \* failures so far

deployVars == <<host, adapter, kit, explicit, version>>
dbVars     == <<db, draft, writer>>
buildVars  == <<slot, phase, home, edge, todo>>
reqVars    == <<req, joined>>
vars == <<deployVars, dbVars, buildVars, reqVars, faults>>

InTxn    == {"ddl", "record", "commit", "rollback"}
InFlight == {"resolve", "connect", "snapshot", "begin", "boot"} \cup InTxn

Diff(from, to) == (from \ to) \cup (to \ from)

\* The database as the attempt's own connection sees it.
Seen(a) == IF writer = a THEN draft ELSE db

-----------------------------------------------------------------------------
Init ==
    /\ host \in Hosts
    /\ adapter \in {"file", "d1"}
    /\ kit \in BOOLEAN
    /\ explicit \in BOOLEAN
    /\ host = "worker" => explicit
    /\ host = "next-node" => adapter = "file" /\ kit
    /\ version \in [Isolates -> Versions]
    /\ \E old \in Earlier : db = [tables |-> old, snap |-> old]
    /\ draft = db
    /\ writer = None
    /\ slot = [i \in Isolates |-> None]
    /\ phase = [a \in Attempts |-> "free"]
    /\ home \in [Attempts -> {CHOOSE i \in Isolates : TRUE}]
    /\ edge = [a \in Attempts |-> FALSE]
    /\ todo = [a \in Attempts |-> {}]
    /\ req = [r \in Requests |-> "idle"]
    /\ joined = [r \in Requests |-> None]
    /\ faults = 0

Goto(a, where) == phase' = [phase EXCEPT ![a] = where]

Fault ==
    /\ faults < MaxFaults
    /\ faults' = faults + 1

-----------------------------------------------------------------------------
(* fetch: the memo.                                                        *)

Free == {a \in Attempts : /\ phase[a] = "free"
                          /\ \A r \in Requests : joined[r] # a}
Fresh == CHOOSE a \in Free : TRUE

Join(r, a) ==
    /\ req' = [req EXCEPT ![r] = "waiting"]
    /\ joined' = [joined EXCEPT ![r] = a]

\* Mutant: the promise is cached only once the build has succeeded.
BuildUncached(r, i) ==
    /\ slot[i] = None
    /\ phase' = [phase EXCEPT ![Fresh] = "resolve"]
    /\ home' = [home EXCEPT ![Fresh] = i]
    /\ edge' = [edge EXCEPT ![Fresh] = host = "worker"]
    /\ Join(r, Fresh)
    /\ UNCHANGED <<slot, todo>>

\* Nothing is cached: build() is called and its promise is cached at once.
Build(r, i) ==
    /\ slot[i] = None
    /\ slot' = [slot EXCEPT ![i] = Fresh]
    /\ phase' = [phase EXCEPT ![Fresh] = "resolve"]
    /\ home' = [home EXCEPT ![Fresh] = i]
    /\ edge' = [edge EXCEPT ![Fresh] = host = "worker"]
    /\ Join(r, Fresh)
    /\ UNCHANGED todo

Share(r, i) ==
    /\ slot[i] # None
    /\ Join(r, slot[i])
    /\ UNCHANGED buildVars

Fetch(r, i) ==
    /\ req[r] = "idle"
    /\ Build(r, i) \/ Share(r, i)
    /\ UNCHANGED <<deployVars, dbVars, faults>>

\* The Worker's options.resolve(env) throws before there is a promise:
\* nothing is cached.
ResolveThrows(r, i) ==
    /\ req[r] = "idle" /\ host = "worker" /\ slot[i] = None
    /\ Fault
    /\ req' = [req EXCEPT ![r] = "failed"]
    /\ UNCHANGED <<deployVars, dbVars, buildVars, joined>>

\* The build's promise rejects.
Reject(a) ==
    /\ Goto(a, "rejected")
    /\ UNCHANGED <<slot, home, edge, todo>>

\* Mutant: a failed build stays cached.
EvictNothing(a) ==
    /\ phase[a] = "rejected"
    /\ Goto(a, "free")
    /\ UNCHANGED <<slot, home, edge, todo, deployVars, dbVars, reqVars, faults>>

\* promise.catch: the first reaction registered on the promise.
Evict(a) ==
    /\ phase[a] = "rejected"
    /\ slot' = [slot EXCEPT ![home[a]] = IF @ = a THEN None ELSE @]
    /\ Goto(a, "free")
    /\ UNCHANGED <<home, edge, todo, deployVars, dbVars, reqVars, faults>>

\* Mutant: the callers' reactions run before the eviction.
AnswerFirst(r) ==
    /\ req[r] = "waiting"
    /\ \/ phase[joined[r]] = "up" /\ req' = [req EXCEPT ![r] = "ok"]
       \/ phase[joined[r]] \in {"rejected", "free"} /\ req' = [req EXCEPT ![r] = "failed"]
    /\ UNCHANGED <<deployVars, dbVars, buildVars, joined, faults>>

\* The reactions of those who await the promise come after it.
Answer(r) ==
    /\ req[r] = "waiting"
    /\ \/ phase[joined[r]] = "up" /\ req' = [req EXCEPT ![r] = "ok"]
       \/ phase[joined[r]] = "free" /\ req' = [req EXCEPT ![r] = "failed"]
    /\ UNCHANGED <<deployVars, dbVars, buildVars, joined, faults>>

\* The client goes away, or asks again.
Again(r) ==
    /\ req[r] \in {"ok", "failed", "lost"}
    /\ req' = [req EXCEPT ![r] = "idle"]
    /\ joined' = [joined EXCEPT ![r] = None]
    /\ UNCHANGED <<deployVars, dbVars, buildVars, faults>>

-----------------------------------------------------------------------------
(* buildBackend.                                                           *)

\* resolveRuntime, then the app's resolvers.  On Workers the Cloudflare
\* context is missed now and then, and the catch reports "not Cloudflare".
Resolve(a) ==
    /\ phase[a] = "resolve"
    /\ \/ host = "worker" /\ edge' = edge /\ UNCHANGED faults
       \/ host # "worker" /\ edge' = [edge EXCEPT ![a] = host = "next-edge"]
                          /\ UNCHANGED faults
       \/ host = "next-edge" /\ edge' = [edge EXCEPT ![a] = FALSE] /\ Fault
    /\ Goto(a, "connect")
    /\ UNCHANGED <<slot, home, todo, deployVars, dbVars, reqVars>>

\* Mutant: the file connection opens wherever the app runs.
OpensAnything(a) == TRUE

\* The default connection is the D1 binding, if the env has it, else a file,
\* which only Node can open.
Opens(a) ==
    explicit \/ host = "next-node" \/ (edge[a] /\ adapter = "d1")

\* createBackend migrates unless told not to; the Next.js adapter tells it
\* not to on Cloudflare.
Migrates(a) == host = "worker" \/ ~edge[a]

Connect(a) ==
    /\ phase[a] = "connect"
    /\ \/ Opens(a) /\ Goto(a, IF Migrates(a) THEN "snapshot" ELSE "boot")
       \/ ~Opens(a) /\ Goto(a, "rejected")
    /\ UNCHANGED <<slot, home, edge, todo, deployVars, dbVars, reqVars, faults>>

\* The plugins' onBoot, in order; then the backend is there.
Boot(a) ==
    /\ phase[a] = "boot"
    /\ Goto(a, "up")
    /\ UNCHANGED <<slot, home, edge, todo, deployVars, dbVars, reqVars, faults>>

\* A resolver, the connection, a statement before the transaction or an
\* onBoot throws.
Fail(a) ==
    /\ phase[a] \in {"resolve", "connect", "snapshot", "begin", "boot"}
    /\ Fault
    /\ Reject(a)
    /\ UNCHANGED <<deployVars, dbVars, reqVars>>

-----------------------------------------------------------------------------
(* migrateToConfig, on the isolate's own connection.                       *)

\* The last snapshot is read before the transaction begins, and compared
\* with the deployed config by drizzle-kit, if that loads.
ReadSnapshot(a) ==
    /\ phase[a] = "snapshot"
    /\ LET stmts == Diff(db.snap, version[home[a]]) IN
         /\ todo' = [todo EXCEPT ![a] = stmts]
         /\ Goto(a, IF ~kit THEN "rejected"
                    ELSE IF stmts = {} THEN "boot" ELSE "begin")
    /\ UNCHANGED <<slot, home, edge, deployVars, dbVars, reqVars, faults>>

\* Mutant: BEGIN does nothing, on a file as on D1.
BeginNothing(a) ==
    /\ phase[a] = "begin"
    /\ Goto(a, "ddl")
    /\ UNCHANGED <<slot, home, edge, todo, deployVars, dbVars, reqVars, faults>>

\* BEGIN IMMEDIATE takes the file's write lock or throws "database is
\* locked"; d1Adapter makes nothing of it.
Begin(a) ==
    /\ phase[a] = "begin"
    /\ \/ adapter = "d1" /\ Goto(a, "ddl") /\ UNCHANGED dbVars
       \/ /\ adapter = "file" /\ writer = None
          /\ writer' = a /\ draft' = db /\ db' = db
          /\ Goto(a, "ddl")
       \/ adapter = "file" /\ writer # None /\ Goto(a, "rejected") /\ UNCHANGED dbVars
    /\ UNCHANGED <<slot, home, edge, todo, deployVars, reqVars, faults>>

\* A write of the attempt: to its transaction, or to the database itself.
Put(a, new) ==
    IF writer = a THEN draft' = new /\ UNCHANGED <<db, writer>>
    ELSE db' = new /\ UNCHANGED <<draft, writer>>

\* One statement of the migration: it throws when the table is there
\* already, or is not there to drop.
Statement(a) ==
    /\ phase[a] = "ddl"
    /\ \E t \in todo[a] :
         LET create == t \in version[home[a]]
             there  == t \in Seen(a).tables
         IN \/ /\ create # there
               /\ Put(a, [Seen(a) EXCEPT !.tables = IF create THEN @ \cup {t} ELSE @ \ {t}])
               /\ todo' = [todo EXCEPT ![a] = @ \ {t}]
               /\ Goto(a, IF todo[a] = {t} THEN "record" ELSE "ddl")
            \/ /\ create = there
               /\ Goto(a, "rollback")
               /\ UNCHANGED <<dbVars, todo>>
    /\ UNCHANGED <<slot, home, edge, deployVars, reqVars, faults>>

RecordSnapshot(a) ==
    /\ phase[a] = "record"
    /\ Put(a, [Seen(a) EXCEPT !.snap = version[home[a]]])
    /\ Goto(a, "commit")
    /\ UNCHANGED <<slot, home, edge, todo, deployVars, reqVars, faults>>

Commit(a) ==
    /\ phase[a] = "commit"
    /\ db' = Seen(a)
    /\ writer' = IF writer = a THEN None ELSE writer
    /\ Goto(a, "boot")
    /\ UNCHANGED <<draft, slot, home, edge, todo, deployVars, reqVars, faults>>

FailInside(a) ==
    /\ phase[a] \in {"ddl", "record", "commit"}
    /\ Fault
    /\ Goto(a, "rollback")
    /\ UNCHANGED <<slot, home, edge, todo, deployVars, dbVars, reqVars>>

\* ROLLBACK, which d1Adapter makes nothing of either.
Rollback(a) ==
    /\ phase[a] = "rollback"
    /\ writer' = IF writer = a THEN None ELSE writer
    /\ Reject(a)
    /\ UNCHANGED <<db, draft, deployVars, reqVars, faults>>

-----------------------------------------------------------------------------
\* An isolate is discarded: its memory and its open transaction are gone.
Crash(i) ==
    /\ slot[i] # None
    /\ Fault
    /\ LET mine == {a \in Attempts : phase[a] # "free" /\ home[a] = i} IN
         /\ slot' = [slot EXCEPT ![i] = None]
         /\ phase' = [a \in Attempts |-> IF a \in mine THEN "free" ELSE phase[a]]
         /\ writer' = IF writer \in mine THEN None ELSE writer
         /\ req' = [r \in Requests |->
                      IF req[r] = "waiting" /\ home[joined[r]] = i THEN "lost" ELSE req[r]]
    /\ UNCHANGED <<deployVars, db, draft, home, edge, todo, joined>>

Step(a) ==
    \/ Resolve(a) \/ Connect(a) \/ ReadSnapshot(a) \/ Begin(a) \/ Statement(a)
    \/ RecordSnapshot(a) \/ Commit(a) \/ Rollback(a) \/ Boot(a) \/ Evict(a)

Next ==
    \/ \E r \in Requests, i \in Isolates : Fetch(r, i) \/ ResolveThrows(r, i)
    \/ \E r \in Requests : Answer(r) \/ Again(r)
    \/ \E a \in Attempts : Step(a) \/ Fail(a) \/ FailInside(a)
    \/ \E i \in Isolates : Crash(i)

\* Settled promises run their reactions and databases answer; nobody is
\* obliged to send a request.
Fairness ==
    /\ \A a \in Attempts : WF_vars(Step(a))
    /\ \A r \in Requests : WF_vars(Answer(r))

SafetySpec == Init /\ [][Next]_vars
Spec == SafetySpec /\ Fairness

-----------------------------------------------------------------------------
(* Properties.                                                             *)

\* Cold-start callers share one build: whatever is being built, or serves, in
\* an isolate is what its cache holds, so there are never two.
OneBuild ==
    \A a \in Attempts : phase[a] \in InFlight \cup {"up"} => slot[home[a]] = a

\* Nobody is told of a failed build while it is still cached: whoever retries
\* on seeing the failure gets a fresh attempt, never the old rejection.
FailureForgotten ==
    \A r \in Requests :
        req[r] = "failed" /\ joined[r] # None => \A i \in Isolates : slot[i] # joined[r]

\* On a database with transactions the recorded snapshot is that of the
\* tables at all times, however many isolates start cold, fail or die, so
\* that the statements of a retry apply.
SnapshotTrue == adapter = "file" => db.tables = db.snap

\* What is served, and cached for good, was built whole: a backend that
\* migrates finds the tables of its config, however the migration went, and on
\* Cloudflare one on the default connection was built from the env, never from
\* the fallback of a missed context.
UpIsWhole ==
    \A a \in Attempts : phase[a] = "up" =>
        /\ Migrates(a) /\ adapter = "file" => version[home[a]] \subseteq db.tables
        /\ host = "next-edge" /\ ~explicit => edge[a]

\* Failures do not stick: on a database with transactions, which this host can
\* open, an isolate that is asked again and again comes up in the end, though
\* other isolates migrate the same database meanwhile.
RetriesServe ==
    \A i \in Isolates :
        (/\ adapter = "file" /\ kit /\ (explicit \/ host # "next-edge")
         /\ []<>(\E r \in Requests : req[r] = "waiting" /\ home[joined[r]] = i))
        => <>(slot[i] # None /\ phase[slot[i]] = "up")

-----------------------------------------------------------------------------
(* A statement of the documentation that the code does not keep.           *)

\* migrate/sqlite.ts:64-66: "any failure rolls the whole migration back and a
\* later migrateToConfig can retry cleanly".  While no transaction is open,
\* the statements a boot would run apply to the tables there are.
RetriesCleanly ==
    writer = None /\ adapter = "file" =>
        \A i \in Isolates : \A t \in Diff(db.snap, version[i]) :
            t \in version[i] <=> t \notin db.tables
=============================================================================
