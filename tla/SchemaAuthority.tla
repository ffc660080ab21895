--------------------------- MODULE SchemaAuthority ---------------------------
(***************************************************************************)
(* What managed mode promises about the one schema of a deployment,        *)
(* whatever the interleaving of calls, statement failures and restarts     *)
(* behind it (Backend.applySchema and the boot of createBackend in         *)
(* src/packages/frogcp/src/kernel.ts):                                     *)
(*                                                                         *)
(*   - the tables of the database change from one whole schema to another  *)
(*     in a single step, or not at all;                                    *)
(*   - the order is migrate, then store, then swap: the live engine only   *)
(*     ever takes a schema that is migrated and stored;                    *)
(*   - a second job starts only when the one before it has ended;          *)
(*   - a backend starts serving the stored schema, migrated.               *)
(*                                                                         *)
(* ManagedSchema implements this specification (its property Authority).   *)
(***************************************************************************)
CONSTANTS
    User,      \* names an author may give entities
    Plugin,    \* names of the entities the plugins contribute
    NoStore,   \* the __frogcp_schema table holds no row
    Down,      \* no backend is serving
    NoJob      \* no schema change is under way

VARIABLES
    mode,      \* "managed" or "code"
    schema,    \* the entities the database has tables for
    store,     \* the user entities recorded in __frogcp_schema
    live,      \* the user entities the engine serves, or Down
    job        \* the user entities migrated to but not yet live, or NoJob

vars == <<mode, schema, store, live, job>>

Init ==
    /\ mode \in {"managed", "code"}
    /\ schema = {}
    /\ store = NoStore
    /\ live = Down
    /\ job = NoJob

\* A fresh database takes the code's config as its first stored schema.
Seed(cfg) ==
    /\ mode = "managed" /\ live = Down /\ store = NoStore
    /\ store' = cfg
    /\ UNCHANGED <<mode, schema, live, job>>

\* Booting moves the whole database to the schema the backend then serves.
Serve(cfg) ==
    /\ live = Down
    /\ mode = "managed" => cfg = store
    /\ schema' = cfg \cup Plugin
    /\ live' = cfg
    /\ UNCHANGED <<mode, store, job>>

\* An online migration takes the whole database to the requested schema.
Migrate(cfg) ==
    /\ mode = "managed" /\ live # Down /\ job = NoJob
    /\ schema' = cfg \cup Plugin
    /\ job' = cfg
    /\ UNCHANGED <<mode, store, live>>

Record ==
    /\ job # NoJob
    /\ store' = job
    /\ UNCHANGED <<mode, schema, live, job>>

Swap ==
    /\ job # NoJob /\ store = job
    /\ live' = job
    /\ job' = NoJob
    /\ UNCHANGED <<mode, schema, store>>

\* The store write fails: the job ends, migrated but neither stored nor live.
Alarm ==
    /\ job # NoJob
    /\ job' = NoJob
    /\ UNCHANGED <<mode, schema, store, live>>

Crash ==
    /\ live' = Down
    /\ job' = NoJob
    /\ UNCHANGED <<mode, schema, store>>

Next ==
    \/ \E cfg \in SUBSET User :
         Seed(cfg) \/ Serve(cfg) \/ Migrate(cfg)
    \/ Record \/ Swap \/ Alarm \/ Crash

Spec == Init /\ [][Next]_vars
=============================================================================
