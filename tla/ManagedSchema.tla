---------------------------- MODULE ManagedSchema ----------------------------
(***************************************************************************)
(* The schema of one frogCP process: its boot, Backend.applySchema behind  *)
(* the in-process mutex, the migrator, the __frogcp_schema store, the hot  *)
(* swap of the engine, and the requests that write rows meanwhile          *)
(* (src/packages/frogcp/src/kernel.ts, migrate/sqlite.ts,                  *)
(* migrate/postgres.ts, managed/store.ts, api/routes.ts).                  *)
(*                                                                         *)
(* A config is the set of its user entities; a migration creates and drops *)
(* tables one statement at a time, which stands for column changes too.    *)
(* Every await of the code separates two actions.  The adapter has ONE     *)
(* connection, so what a request writes between a migration's BEGIN and    *)
(* its COMMIT or ROLLBACK belongs to the migration's transaction.          *)
(***************************************************************************)
EXTENDS Naturals, Sequences

CONSTANTS
    User,       \* names an author may give entities
    Plugin,     \* names of the entities the plugins contribute
    Refs,       \* Refs[e]: the entities the ref() fields of e target
    Malformed,  \* entities whose definition validateConfig rejects
    Configs,    \* the configs deployments and callers submit
    Calls,      \* applySchema calls, each made at most once
    Boot,       \* the actor that is createBackend
    Requests,   \* create requests, each writing one row
    NoStore,    \* __frogcp_schema holds no row
    Down, NoJob \* see SchemaAuthority

Names  == User \cup Plugin
Actors == Calls \cup {Boot}

ASSUME SchemaAssumption ==
    /\ User \cap Plugin = {}
    /\ Refs \in [Names -> SUBSET Names]
    /\ Malformed \subseteq User
    /\ Configs \subseteq SUBSET Names
    /\ Boot \notin Calls
    /\ \A cfg \in SUBSET Names : cfg # NoStore /\ cfg # Down /\ cfg # NoJob

VARIABLES
    mode,     \* opts.mode of the deployment: "managed" or "code"
    db,       \* what the connection sees: tables, last snapshot, store, rows
    saved,    \* db as it was at BEGIN (at the end of the last transaction)
    txn,      \* a transaction is open on the connection
    pc,       \* where each actor is between two awaits
    target,   \* the user config each actor is taking the database to
    todo,     \* the statements of each actor's migration still to run
    chain,    \* the mutex: the calls of this process in arrival order
    outcome,  \* what each call's promise settled to
    live,     \* the user config the engine serves (while Boot is "up")
    entity,   \* the entity each request writes
    rpc       \* where each request is between two awaits

vars == <<mode, db, saved, txn, pc, target, todo, chain, outcome, live, entity, rpc>>

InTxn     == {"ddl", "record", "commit", "rollback"}
Migrating == {"snapshot", "begin"} \cup InTxn
Landing   == {"store", "swap"}
Busy      == Migrating \cup Landing     \* a call holding the mutex

Databases == [tables : SUBSET Names, snap : SUBSET Names,
              store : {NoStore} \cup SUBSET User, rows : SUBSET Requests]

Up == pc[Boot] = "up"

\* The database as a crash or a ROLLBACK would leave it.
Committed == IF txn THEN saved ELSE db

-----------------------------------------------------------------------------
(* Configs: merging plugin entities, and the two validations.              *)

Merge(cfg)    == cfg \cup Plugin
Collides(cfg) == cfg \cap Plugin # {}
Dangling(cfg) == \E e \in cfg : ~(Refs[e] \subseteq cfg)

\* mergePluginEntities or validateConfig throws; neither looks at ref targets.
Rejected(cfg) == Collides(cfg) \/ cfg \cap Malformed # {}

\* deserializeConfig accepts what is stored or posted, taken on its own.
Loadable(cfg) == ~Dangling(cfg) /\ cfg \cap Malformed = {}

\* The statements that take a database from one schema to another.
Diff(from, to) == (from \ to) \cup (to \ from)

-----------------------------------------------------------------------------
Init ==
    /\ mode \in {"managed", "code"}
    /\ db = [tables |-> {}, snap |-> {}, store |-> NoStore, rows |-> {}]
    /\ saved = db
    /\ txn = FALSE
    /\ pc = [a \in Actors |-> "idle"]
    /\ target = [a \in Actors |-> {}]
    /\ todo = [a \in Actors |-> {}]
    /\ chain = <<>>
    /\ outcome = [c \in Calls |-> "none"]
    /\ live = {}
    /\ entity \in [Requests -> Names]
    /\ rpc = [r \in Requests |-> "idle"]

Goto(a, where) == pc' = [pc EXCEPT ![a] = where]

\* The actor's promise rejects before, or without, any effect of its own.
Reject(a) ==
    /\ Goto(a, IF a = Boot THEN "idle" ELSE "done")
    /\ outcome' = IF a = Boot THEN outcome ELSE [outcome EXCEPT ![a] = "failed"]

requestVars == <<entity, rpc>>

-----------------------------------------------------------------------------
(* Boot.  A boot that fails leaves Boot "idle"; it may be tried again.     *)

\* Code mode: config is the schema.  Merge, validate and compile throw
\* before anything is touched, so only an accepted config takes a step.
BootCode(cfg) ==
    /\ mode = "code" /\ pc[Boot] = "idle"
    /\ ~Rejected(cfg) /\ ~Dangling(Merge(cfg))
    /\ target' = [target EXCEPT ![Boot] = cfg]
    /\ Goto(Boot, "snapshot")
    /\ UNCHANGED <<db, saved, txn, todo, chain, outcome, live, mode, requestVars>>

BootManaged(cfg) ==
    /\ mode = "managed" /\ pc[Boot] = "idle"
    /\ target' = [target EXCEPT ![Boot] = cfg]
    /\ Goto(Boot, "load")
    /\ UNCHANGED <<db, saved, txn, todo, chain, outcome, live, mode, requestVars>>

\* Nothing is stored: opts.config, once merged and validated, is to be seeded.
LoadNothing ==
    /\ pc[Boot] = "load" /\ db.store = NoStore
    /\ Goto(Boot, IF Rejected(target[Boot]) THEN "idle" ELSE "seed")
    /\ UNCHANGED <<db, saved, txn, target, todo, chain, outcome, live, mode, requestVars>>

\* The stored schema replaces opts.config, if it still deserializes, merges
\* and compiles.
LoadStored ==
    /\ pc[Boot] = "load" /\ db.store # NoStore
    /\ target' = [target EXCEPT ![Boot] = db.store]
    /\ Goto(Boot, IF Loadable(db.store) /\ ~Rejected(db.store)
                     /\ ~Dangling(Merge(db.store)) THEN "snapshot" ELSE "idle")
    /\ UNCHANGED <<db, saved, txn, todo, chain, outcome, live, mode, requestVars>>

\* The seed is written, and only then is the config compiled.
Seed ==
    /\ pc[Boot] = "seed"
    /\ db' = [db EXCEPT !.store = target[Boot]]
    /\ Goto(Boot, IF Dangling(Merge(target[Boot])) THEN "idle" ELSE "snapshot")
    /\ UNCHANGED <<saved, txn, target, todo, chain, outcome, live, mode, requestVars>>

-----------------------------------------------------------------------------
(* applySchema and the mutex.                                              *)

Enqueue(c, cfg) ==
    /\ target' = [target EXCEPT ![c] = cfg]
    /\ chain' = Append(chain, c)
    /\ Goto(c, "wait")
    /\ UNCHANGED <<db, saved, txn, todo, outcome, live, mode, requestVars>>

Refuse(c, why) ==
    /\ Goto(c, "done")
    /\ outcome' = [outcome EXCEPT ![c] = why]
    /\ UNCHANGED <<db, saved, txn, target, todo, chain, live, mode, requestVars>>

ApplySchema(c, cfg) ==
    /\ Up /\ pc[c] = "idle"
    /\ \/ mode = "managed" /\ Enqueue(c, cfg)
       \/ mode = "code" /\ Refuse(c, "not_managed")

\* POST /api/system/schema: an admin's body is deserialized as posted, then
\* its plugin entities are stripped.
PostSchema(c, cfg) ==
    /\ Up /\ pc[c] = "idle"
    /\ \/ mode = "managed" /\ Loadable(cfg) /\ Enqueue(c, cfg \ Plugin)
       \/ ~Loadable(cfg) /\ Refuse(c, "malformed")
       \/ mode = "code" /\ Loadable(cfg) /\ Refuse(c, "not_managed")

\* Mutant: no mutex, a call runs at once.
TurnAtOnce(c) == \E i \in 1..Len(chain) : chain[i] = c

\* Mutant: mutex.then(run), which a failed call wedges.
TurnOnSuccess(c) ==
    \E i \in 1..Len(chain) :
        /\ chain[i] = c
        /\ i > 1 => outcome[chain[i - 1]] = "ok"

\* mutex.then(run, run): a call runs once the call before it has settled,
\* either way.
Turn(c) ==
    \E i \in 1..Len(chain) :
        /\ chain[i] = c
        /\ i > 1 => pc[chain[i - 1]] = "done"

Start(c) ==
    /\ pc[c] = "wait" /\ Turn(c)
    /\ \/ Rejected(target[c]) /\ Reject(c)
       \/ ~Rejected(target[c]) /\ Goto(c, "snapshot") /\ UNCHANGED outcome
    /\ UNCHANGED <<db, saved, txn, target, todo, chain, live, mode, requestVars>>

-----------------------------------------------------------------------------
(* migrateToConfig, run by Boot and by every call.                         *)

\* Mutant: the live schema is swapped before the store is written.
MigratedSwapFirst(a) ==
    /\ Goto(a, IF a = Boot THEN "up" ELSE "swap")
    /\ live' = IF a = Boot THEN target[Boot] ELSE live

\* The migration is over: a boot serves its config, a call goes on to store.
Migrated(a) ==
    /\ Goto(a, IF a = Boot THEN "up" ELSE "store")
    /\ live' = IF a = Boot THEN target[Boot] ELSE live

\* The last snapshot is read, the config compiled (which is where a call's
\* dangling ref() throws) and the two are compared; an empty diff returns.
ReadSnapshot(a) ==
    /\ pc[a] = "snapshot"
    /\ LET to == Merge(target[a]) IN
         \/ /\ Dangling(to)
            /\ Reject(a)
            /\ UNCHANGED <<todo, live>>
         \/ /\ ~Dangling(to)
            /\ todo' = [todo EXCEPT ![a] = Diff(db.snap, to)]
            /\ \/ db.snap = to /\ Migrated(a)
               \/ db.snap # to /\ Goto(a, "begin") /\ UNCHANGED live
            /\ UNCHANGED outcome
    /\ UNCHANGED <<db, saved, txn, target, chain, mode, requestVars>>

\* Mutant: transaction control does nothing (the exec of an adapter like D1's).
BeginNothing(a) ==
    /\ pc[a] = "begin" /\ ~txn
    /\ Goto(a, "ddl")
    /\ UNCHANGED <<db, saved, txn, target, todo, chain, outcome, live, mode, requestVars>>

Begin(a) ==
    /\ pc[a] = "begin" /\ ~txn
    /\ txn' = TRUE
    /\ saved' = db
    /\ Goto(a, "ddl")
    /\ UNCHANGED <<db, target, todo, chain, outcome, live, mode, requestVars>>

CreateTable(e) ==
    /\ e \notin db.tables
    /\ db' = [db EXCEPT !.tables = @ \cup {e}]

DropTable(e) ==
    /\ e \in db.tables
    /\ db' = [db EXCEPT !.tables = @ \ {e},
                        !.rows = {r \in @ : entity[r] # e}]

Statement(a) ==
    /\ pc[a] = "ddl"
    /\ \E e \in todo[a] :
         /\ \/ e \in Merge(target[a]) /\ CreateTable(e)
            \/ e \notin Merge(target[a]) /\ DropTable(e)
         /\ todo' = [todo EXCEPT ![a] = @ \ {e}]
         /\ Goto(a, IF todo[a] = {e} THEN "record" ELSE "ddl")
    /\ UNCHANGED <<saved, txn, target, chain, outcome, live, mode, requestVars>>

RecordSnapshot(a) ==
    /\ pc[a] = "record"
    /\ db' = [db EXCEPT !.snap = Merge(target[a])]
    /\ Goto(a, "commit")
    /\ UNCHANGED <<saved, txn, target, todo, chain, outcome, live, mode, requestVars>>

Commit(a) ==
    /\ pc[a] = "commit"
    /\ txn' = FALSE
    /\ saved' = db
    /\ Migrated(a)
    /\ UNCHANGED <<db, target, todo, chain, outcome, mode, requestVars>>

\* Any statement of the transaction, COMMIT included, may throw.
FailInside(a) ==
    /\ pc[a] \in {"ddl", "record", "commit"}
    /\ Goto(a, "rollback")
    /\ UNCHANGED <<db, saved, txn, target, todo, chain, outcome, live, mode, requestVars>>

\* Mutant: the catch block rethrows without ROLLBACK.
RollbackForgotten(a) ==
    /\ pc[a] = "rollback"
    /\ Reject(a)
    /\ UNCHANGED <<db, saved, txn, target, todo, chain, live, mode, requestVars>>

\* Mutant: the catch block does not rethrow.
RollbackSwallows(a) ==
    /\ pc[a] = "rollback"
    /\ db' = Committed
    /\ txn' = FALSE
    /\ Migrated(a)
    /\ UNCHANGED <<saved, target, todo, chain, outcome, mode, requestVars>>

\* Mutant: the catch block tries the migration again.
RollbackRetries(a) ==
    /\ pc[a] = "rollback"
    /\ db' = Committed
    /\ txn' = FALSE
    /\ Goto(a, "snapshot")
    /\ UNCHANGED <<saved, target, todo, chain, outcome, live, mode, requestVars>>

\* The catch block: ROLLBACK (its own failure, swallowed, means the driver
\* has ended the transaction already), then the error is rethrown.
Rollback(a) ==
    /\ pc[a] = "rollback"
    /\ db' = Committed
    /\ txn' = FALSE
    /\ Reject(a)
    /\ UNCHANGED <<saved, target, todo, chain, live, mode, requestVars>>

\* A driver error outside the try block: reading or seeding the store,
\* reading the snapshot, BEGIN.
FailOutside(a) ==
    /\ pc[a] \in {"load", "seed", "snapshot", "begin"}
    /\ Reject(a)
    /\ UNCHANGED <<db, saved, txn, target, todo, chain, live, mode, requestVars>>

-----------------------------------------------------------------------------
(* After a call's migration: the store write and the hot swap.             *)

WriteStore(c) ==
    /\ pc[c] = "store"
    /\ db' = [db EXCEPT !.store = target[c]]
    /\ Goto(c, "swap")
    /\ UNCHANGED <<saved, txn, target, todo, chain, outcome, live, mode, requestVars>>

\* Mutant: a failed store write is swallowed.
StoreFailsSilently(c) ==
    /\ pc[c] = "store"
    /\ Goto(c, "swap")
    /\ UNCHANGED <<db, saved, txn, target, todo, chain, outcome, live, mode, requestVars>>

\* "migration applied but schema store update failed"
StoreFails(c) ==
    /\ pc[c] = "store"
    /\ Goto(c, "done")
    /\ outcome' = [outcome EXCEPT ![c] = "alarm"]
    /\ UNCHANGED <<db, saved, txn, target, todo, chain, live, mode, requestVars>>

Swap(c) ==
    /\ pc[c] = "swap"
    /\ live' = target[c]
    /\ Goto(c, "done")
    /\ outcome' = [outcome EXCEPT ![c] = "ok"]
    /\ UNCHANGED <<db, saved, txn, target, todo, chain, mode, requestVars>>

-----------------------------------------------------------------------------
(* Create requests, on the same connection.                                *)

\* The entity is looked up in the engine's live config.
Accept(r) ==
    /\ Up /\ rpc[r] = "idle" /\ entity[r] \in Merge(live)
    /\ rpc' = [rpc EXCEPT ![r] = "accepted"]
    /\ UNCHANGED <<db, saved, txn, pc, target, todo, chain, outcome, live, entity, mode>>

Insert(r) ==
    /\ rpc[r] = "accepted" /\ entity[r] \in db.tables
    /\ db' = [db EXCEPT !.rows = @ \cup {r}]
    /\ rpc' = [rpc EXCEPT ![r] = "inserted"]
    /\ UNCHANGED <<saved, txn, pc, target, todo, chain, outcome, live, entity, mode>>

InsertFails(r) ==
    /\ rpc[r] = "accepted"
    /\ rpc' = [rpc EXCEPT ![r] = "failed"]
    /\ UNCHANGED <<db, saved, txn, pc, target, todo, chain, outcome, live, entity, mode>>

\* record.created is emitted and the response sent.
Acknowledge(r) ==
    /\ rpc[r] = "inserted"
    /\ rpc' = [rpc EXCEPT ![r] = "acked"]
    /\ UNCHANGED <<db, saved, txn, pc, target, todo, chain, outcome, live, entity, mode>>

-----------------------------------------------------------------------------
\* The process dies: an open transaction is gone, and so is everything in
\* memory.  Calls and requests it had not answered stay unanswered.
Crash ==
    /\ pc[Boot] # "idle"
    /\ db' = Committed
    /\ saved' = Committed
    /\ txn' = FALSE
    /\ pc' = [a \in Actors |-> IF a = Boot \/ pc[a] = "idle" THEN "idle" ELSE "done"]
    /\ outcome' = [c \in Calls |-> IF pc[c] \in {"wait"} \cup Busy
                                   THEN "lost" ELSE outcome[c]]
    /\ chain' = <<>>
    /\ rpc' = [r \in Requests |-> IF rpc[r] \in {"accepted", "inserted"}
                                  THEN "lost" ELSE rpc[r]]
    /\ UNCHANGED <<target, todo, live, entity, mode>>

Migrator(a) ==
    \/ ReadSnapshot(a) \/ Begin(a) \/ Statement(a) \/ RecordSnapshot(a)
    \/ Commit(a) \/ FailInside(a) \/ Rollback(a) \/ FailOutside(a)

BootStep == LoadNothing \/ LoadStored \/ Seed \/ Migrator(Boot)
CallStep(c) == Start(c) \/ Migrator(c) \/ WriteStore(c) \/ StoreFails(c) \/ Swap(c)
RequestStep(r) == Insert(r) \/ InsertFails(r) \/ Acknowledge(r)

Next ==
    \/ \E cfg \in Configs :
         \/ BootCode(cfg) \/ BootManaged(cfg)
         \/ \E c \in Calls : ApplySchema(c, cfg) \/ PostSchema(c, cfg)
    \/ BootStep
    \/ \E c \in Calls : CallStep(c)
    \/ \E r \in Requests : Accept(r) \/ RequestStep(r)
    \/ Crash

\* Continuations of settled promises run; nobody is obliged to boot, to call
\* or to crash.
Fairness ==
    /\ WF_vars(BootStep)
    /\ \A c \in Calls : WF_vars(CallStep(c))
    /\ \A r \in Requests : WF_vars(RequestStep(r))

SafetySpec == Init /\ [][Next]_vars
Spec == SafetySpec /\ Fairness

-----------------------------------------------------------------------------
(* Properties.                                                             *)

\* Every variable has its type; in particular the store only ever holds user
\* entities, never a plugin's (writeStoredSchema gets the config before the
\* merge, both at the seed and in applySchema).
TypeOK ==
    /\ mode \in {"managed", "code"}
    /\ db \in Databases
    /\ saved \in Databases
    /\ txn \in BOOLEAN
    /\ pc \in [Actors -> {"idle", "load", "seed", "wait", "done", "up"} \cup Busy]
    /\ target \in [Actors -> SUBSET Names]
    /\ todo \in [Actors -> SUBSET Names]
    /\ chain \in Seq(Calls)
    /\ outcome \in [Calls -> {"none", "not_managed", "malformed", "failed",
                              "alarm", "ok", "lost"}]
    /\ live \in SUBSET Names
    /\ entity \in [Requests -> Names]
    /\ rpc \in [Requests -> {"idle", "accepted", "inserted", "acked", "failed", "lost"}]

\* The mutex works: from its snapshot read to its swap a call is alone, and
\* no call runs unless the process has booted.
OneMigration ==
    /\ \A a, b \in Actors : pc[a] \in Busy /\ pc[b] \in Busy => a = b
    /\ \A c \in Calls : pc[c] \in Busy => Up

\* No transaction outlives its migration: between migrations everything a
\* request has been told was written is committed.
Durable == (\A a \in Actors : pc[a] \notin InTxn) => Committed = db

\* migrateToConfig is atomic: whatever fails, and whenever the process dies,
\* the tables are those of the last recorded snapshot.
SchemaAtomic == Committed.tables = Committed.snap

\* The live engine is never swapped to a schema the store does not reflect
\* yet, and the store never runs ahead of it but for the swap itself.
LiveIsStored ==
    Up /\ mode = "managed" =>
        db.store = IF \E c \in Calls : pc[c] = "swap"
                   THEN target[CHOOSE c \in Calls : pc[c] = "swap"]
                   ELSE live

\* The last call to leave a mark failed at its store write, and said so.
Behind ==
    \E i \in 1..Len(chain) :
        /\ outcome[chain[i]] = "alarm"
        /\ \A j \in (i + 1)..Len(chain) : outcome[chain[j]] # "ok"

\* Between migrations a serving engine has exactly the tables of its schema,
\* unless a call reported that only the store write failed.
TablesServeLive ==
    Up /\ ~Behind /\ (\A c \in Calls : pc[c] \notin Landing)
        => Committed.tables = Merge(live)

\* Calls take effect in the order they were made: a serving engine has the
\* schema of the last call that succeeded, or else the one it booted with.
LastOkWins ==
    LET oks == {i \in 1..Len(chain) : outcome[chain[i]] = "ok"} IN
    Up => live = IF oks = {} THEN target[Boot]
                 ELSE target[chain[CHOOSE i \in oks : \A j \in oks : j <= i]]

\* Whatever fails, nobody hangs: one failed call never wedges the mutex, every
\* call that waits for it is settled in the end (a crash settles it too), and a
\* boot comes to an end, serving or not.
Settles ==
    /\ \A c \in Calls : pc[c] = "wait" ~> pc[c] = "done"
    /\ pc[Boot] = "load" ~> pc[Boot] \in {"idle", "up"}

\* The whole machinery implements the abstract schema of SchemaAuthority.
Abstract == INSTANCE SchemaAuthority WITH
    schema <- Committed.tables,
    store  <- Committed.store,
    live   <- IF Up THEN live ELSE Down,
    job    <- IF \E c \in Calls : pc[c] \in Landing
              THEN target[CHOOSE c \in Calls : pc[c] \in Landing] ELSE NoJob

Authority == Abstract!Spec

-----------------------------------------------------------------------------
(* Statements of the documentation that the code does not keep.            *)

\* kernel.ts:125-127, on a failed migration: it "throws and leaves the
\* database and the live schema unchanged".  Ended by its rollback, a call
\* leaves every row a request has been told was written.
FailedMigrationKeepsRows ==
    [][\A c \in Calls : pc[c] = "rollback" /\ pc'[c] = "done" /\ Up /\ pc'[Boot] = "up"
         => \A r \in db.rows : rpc[r] = "acked" => r \in db'.rows]_vars
=============================================================================
