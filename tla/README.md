# frogCP in TLA+

frogCP is a backend kernel: an author declares entities, fields and permission
rules, and gets tables, migrations, a REST API, accounts, media, an activity
log and observability, on node, Workers, SQLite, libSQL or Postgres. This
directory holds TLA+ models of the parts whose correctness depends on order,
interleaving and failure, the TLC configurations that check them, and TLAPS
proofs of what matters most.

All paths are relative to `src/packages/frogcp/src/` unless they start with
`src/`. The program is single-threaded: **every `await` is an interleaving
point, and nothing else is**. Each model therefore has one action per stretch
of code between two awaits, and a `pc` that says at which await a request, a
call or the boot is.

## Inventory

| Component | State it keeps | Operations | What is hard, and what makes it correct |
| --- | --- | --- | --- |
| Schema authority (`kernel.ts`, `managed/store.ts`, `migrate/*`) | the tables, the snapshot row `__frogcp_migrations`, the store row `__frogcp_schema`, the live config and tables, the mutex (a promise chain) | boot, `applySchema`, `POST /system/schema`, `migrateToConfig` | racing changes, failing statements, crashes, one connection shared with the requests. Schemas change whole; migrate, then store, then swap; a later boot serves what was stored |
| Import and validation (`managed/serialize.ts`, `schema/*`) | none | `deserializeConfig`, `validateConfig`, `mergePluginEntities` | what one path accepts another must accept too |
| Permission rules (`permissions/*`) | none | `role`, `rule.*`, `.or`, `.and`, `decide`, `checkRow` | two evaluators, one of them SQL with NULLs: they must agree |
| Data engine, writes (`data/engine.ts`, `data/validate.ts`) | the rows | `create`, `update`, `delete` | decide on a fetched copy, write later. Managed fields hold what the server or an admin gave; answers and events tell which rows exist; no existence oracle |
| Data engine, reads (`data/engine.ts`, `api/query.ts`, `client/query.ts`) | none | `list`, `read`, `with=` | a filter crosses the wire as text; page and total are two queries; the schema may be swapped in between; hidden fields stay hidden |
| Accounts (`auth/*`) | `users`, `oauthAccounts` | register, login, OAuth callback, password change, reset request/issue/confirm | count-then-insert, select-then-update, tokens that are used once |
| Signing in and identity (`auth/oauth.ts`, `session.ts`, `identify.ts`, `jwt-verify.ts`, `kernel.ts`) | the state and session cookies, the discovery cache | authorize, callback, logout, `resolveCtx` | tabs that share cookies, addresses opened twice, sessions that outlive accounts |
| Event bus (`events.ts`) | the handler sets | `on`, `emit` | handlers added and removed during an emit; a failing handler stops nothing |
| Activity log and observability (`activity/*`, `observability/*`, `sink/sqlite`, `otel`, `cloudflare/pipelines.ts`) | sinks, four buffers, pending inserts | `emit*`, `flushAll`, `drainAll`, `writeAudit`, `flush` | concurrent flushes, a failing transaction, sinks that throw, an isolate that is suspended after the response |
| Request pipeline (`kernel.ts`, `api/routes.ts`) | per-request id, ctx, logger | the middleware onion | order of identity, metrics, plugins, errors |
| Backend cache (`adapter/serve.ts`, `connection.ts`, `cloudflare/worker.ts`, `nextjs`) | one promise per isolate | `resolve`, `buildBackend` | concurrent cold starts, eviction of a failed build, several isolates that migrate one database |
| Media (`media/*`, storage adapters) | blobs and rows | upload, serve | two stores written in two steps |
| Key-value and session stores (`kv`, `adapter/*/kv.ts`, `session.ts`) | entries with expiry | get, put, delete, list | expiry, lazy deletion, TTL floor |
| Admin application (`src/packages/admin/spa`) | the shell's schema, drafts, pages of records, forms | edit and save the schema and the rules, browse, edit, delete, change roles | replies that arrive after a screen has been left, whole configs and whole rows posted back, cancelled fetches |
| Drivers, mail, codegen, CLI, conformance | (drivers, files) | | I/O and text |

Interactions. A request passes the middleware (identity from *accounts* or a
JWT plugin), reaches a route, and drives the *data engine*, which asks the
*permission rules*, writes through the *adapter* and calls the *event bus*,
whose handlers feed the *activity log* and through it *observability*, flushed
by the middleware. `POST /system/schema` calls the *schema authority*, which
swaps the engine's config and tables while other requests are between two
awaits. *Accounts* and the *activity log* bypass the engine and use the
adapter directly, emitting `record.created` themselves. The *backend cache*
decides how often the whole is built. The *admin application* is a client of
the schema and entity routes; its requests go through the *HTTP client*, whose
query encoding the *reads* decode.

## Modules

| Module | Models | Kind |
| --- | --- | --- |
| `SchemaAuthority` | what managed mode promises about the one schema of a deployment | abstract specification |
| `ManagedSchema` | boot, `applySchema`, migrators, store, swap, requests, crashes of one process | detailed; implements `SchemaAuthority` |
| `ManagedSchema_proofs` | types, mutual exclusion, atomicity, durability, store before swap, order of calls, tables served, refinement | TLAPS |
| `Fleet` | several isolates of an app on one database: the cached build, its cold start, concurrent migrations, requests that share or retry a build | detailed |
| `Fleet_proofs` | types, one build per isolate, failures forgotten, true snapshots, whole backends | TLAPS |
| `Permissions` | rule builder, `evalRow`/`checkRow`, `evalSql`/`decide`, SQL's value of a condition | algorithm: recursive functions on trees |
| `Reads` | the query grammar from client to condition, `list`, `read`, `embedRelations` under the rules of `Permissions` | detailed; extends `Permissions` |
| `Reads_proofs` | agreement of the evaluators, rules that mean what was meant, filters, pages and totals, hidden fields | TLAPS |
| `DataEngine` | interleaved `create`, `update`, `delete` of one entity | detailed |
| `DataEngine_proofs` | types, managed fields, answers and events tell rows, no oracle | TLAPS |
| `Accounts` | the routes that read and write `users` and `oauthAccounts` | detailed |
| `Accounts_proofs` | types, last token, one winner, sessions earned, races recovered, one announcement, the first admin | TLAPS |
| `SignIn` | redirect, callback, cookies, discovery cache, sessions, JWT tokens, identity of a request | detailed |
| `SignIn_proofs` | types, own flow, one discovery, current identity | TLAPS |
| `Telemetry` | `emit`, handlers, the audit sink, the SQLite sink, spans, `flushAll`, suspension | detailed |
| `ExpiringMap` | what a key-value or session store promises | abstract specification |
| `KeyValue` | the four stores over a moving clock | detailed; implements `ExpiringMap` |
| `Media` | upload, download, rows of `media_files`, lost blobs | detailed |
| `Services_proofs` | `Telemetry`: types, no handler forgotten, whole audit trail, records in one place; refinement of `ExpiringMap` by `KeyValue`; bytes and rows of `Media` fit | TLAPS |
| `Editor` | the admin shell, schema and permission screens, dashboard, against the schema routes | detailed |
| `Records` | the data browser, its form and the users screen | detailed; extends `Editor` |
| `Editor_proofs` | types, edits sent, replies shown, panes current, forms that change what was typed | TLAPS |
| `Faults` | a bounded number of failures | shared |
| `MC*` | values for constants; `MCServices` joins `KeyValue`, `Media` and `Telemetry`, `MCEditor` the parts of `Records` | model checking |

`MCServices` and `MCEditor` put independent parts next to each other: a
behaviour picks one part (`turn`) and leaves the others at rest, so a run of
theirs is the union of the parts' runs and nothing interacts.

### ManagedSchema

A config is the *set of its user entities*. A migration creates and drops
tables one statement at a time; adding or dropping a column is a statement like
any other, so tables stand for columns too. `db` is what the one connection
sees and `saved` what it was at `BEGIN`; `txn` says whether a transaction is
open. `exec` and `db` of the adapter share the connection (`adapter.ts:9-14`),
so a request's insert between a migration's `BEGIN` and `ROLLBACK` is undone
with it: this is what `failed_migration` shows. Postgres's migrator differs in
how it fails (`FailOutside`, `Statement`) and shares the actions otherwise.

`mode` is chosen in `Init` and never changes: in managed mode the stored schema
wins at boot, in code mode the config is the schema, no schema is stored beside the snapshot and
calls are refused.

`chain` is the promise chain of `applySchema` (`kernel.ts:593-598`): a call is
appended when made and may start (`Turn`) when all before it have settled,
well or not. `pc[Boot] = "up"` is a serving process; `Crash` resets every actor
and leaves `Committed`. Stored schemas are loaded by `LoadStored`, where the
same checks as in the code (`Loadable`, `Rejected`, `Dangling`) decide in the
code's order.

### Permissions

An author chains up to `MaxCalls` combinator calls; `meaning` accumulates by
set union and intersection what the author meant, independently of any
evaluator. A rule is a tree of `or` and `and` over atoms, the condition that
`evalSql` makes of it one over comparisons; `Trees(leaves, depth)` is the set
of those no deeper than `depth`, and the evaluators are recursive functions on
it. The parts of a combinator are a set: the code keeps them in an array, but
neither evaluator nor the database tells their order, or one part from the same
part twice. (An `or` of one part written twice is asked of the database once
here.) `SqlValue` gives conditions SQL's three truth values, so that `WHERE`
keeps a row only if its condition is true of it.

### DataEngine

A create request's row is known by the request. `rows` is the table; `seen` is
the copy (`existing`) an update or a delete fetched, `result` the row returned
by the statement, `event` the payload emitted, `answer` the status. `Fetch`
does all the code does on the fetched copy, in the code's order: 404 for a
missing row and for a row the rule denies, then validation, then the check of
server-managed fields, then the empty patch. `Write` and `Remove` act on
whatever the row is *then*. Constraints are the database's (`Unique`, `Refs`,
the latter restricting deletes). `Objects` are the fields that decode to
objects (dates, timestamps, JSON), whose `!==` is by identity; `engine` has
one, which is readonly, so that repeating its value is refused. Rules are sets
of atoms here, any of which admits; nested rules are the subject of
`Permissions`, which shows that the two evaluators used here agree.

### Accounts

A user's id and a reset token are known by the request that made them.
`history` records, per user, what happened to its credentials in the database's
order; it is not read by any action except to bound deletions. A hash is the
password it is of; scrypt and the provider are awaits. `Expire` lets the hour
of a token pass at any moment; `DeleteUser` is an admin's delete through the
entity routes, which cascades to the links. A route whose input fails
validation answers without touching anything and is left out, as are a
self-serve request without a configured mailer (a constant 202) and a confirm
with a token that was never handed out (it is answered as a superseded one is).
Changing an email through the entity routes is not modelled.

### Fleet

Each isolate has a `slot`, the promise its memo caches; an attempt is a build
that the promise stands for, and its `phase` says at which await of
`buildBackend` it is. A request that has `joined` an attempt is told what
became of it. All attempts share `db`; one of them may be the `writer` of a
transaction whose state is `draft`, as `BEGIN IMMEDIATE` has it. With the D1
adapter there are no transactions and `Put` writes through. `host` is where
the app runs; what a host may leave unsaid, whether the connection is
explicit, whether the app has the migration tool (`kit`), is chosen in `Init`.

### Reads

A text is the sequence of what its commas part, and `Numeral` the text of each
number, so that `Encode`, `Fold` and `Coerce` do to them what the client and
the server do. A filter is a set of clauses, as the object it stands for has
one value per field and operator; a clause becomes one parameter per item, told
apart by `nth`, and the server folds those that share a key. Rows here hold
their fields without the id, so no query names `id`. `Hidden` is any set of
fields: a filter or a sort key that names one is refused, but a ref to embed is
a ref like any other, as in `resolveRelationFields`. In TLC it has a number and
a ref. `FetchRows` keeps the rows as the database has them; `Embed` follows the
refs of those rows, one row and one ref at a time, and only `Return` strips
what is answered (`engine.ts:338-340`). A list is ordered by all its sort keys,
and NULLs come first as in SQLite or last as in Postgres (`low`). `MaxRule`
bounds the rules that lists run under in TLC: that longer rules decide alike is
`FilterIsRowCheck`, of every rule. `Pages` is the set of pages a database may
answer with: ties may come in any order. `Write`, `DeleteTopic` and `Swap`
happen between any two awaits of a list. `who` and `rule` come from
`Permissions`, whose author chains up to `MaxCalls` calls first.

### SignIn

A flow is the state that the redirect draws. `jar[b]` is the pair of cookies
of a browser; `code[f]` says who signed in at the provider for flow `f`, and
whether the provider has taken the code. `out[c]` is a response on its way:
cookies change when it arrives. An account has a generation: whoever is
deleted and returns is somebody new. `seen[r]` is what the accounts have been
while request `r` ran, against which its identity is judged. `plugin` is which
plugin identifies requests; with `"jwt"`, tokens come from the constant
`Bearers`, and with `"auth"` a bearer token that auth has not issued comes in
requests of signed-in browsers, whose cookie it hides.

### Telemetry

`stamp[h]` is the place of a handler in the Set that `emit` iterates and
`cursor[r]` the last place it has visited; a handler that leaves and returns
gets a new place at the end, as in JavaScript. A record is named by its
request, its kind and, for the log of a handler that threw, the handler's
place: several may throw in one emission. `buffer`, `stored` and `gone` are the
SQLite sink's; `row` is the audit insert that runs beside the request;
`Suspend` is a Workers isolate that no open request and no unsettled
`waitUntil` holds.

### KeyValue and Media

An operation of a store is one step. `Expired` is where the stores differ from
each other; the refinement mapping hides expired rows that are still in the
table. A prefix stands for the keys under it (`Families[p].exact`) and the
look-alikes that `LIKE` takes for them (`alike`). A store lists all live keys
under the prefix, unless it is Workers KV and there are more than a `Page`. The
contract asks for that, and lets the look-alikes pass, which is disagreement
14. An upload in `Media` goes through the checks of its length, its form and
its file, stores the bytes under a fresh key and then creates the row;
`CreateRow` and `DeleteRow` are the entity routes, and `lost` says that a
restart has emptied an in-memory storage.

### Editor and Records

`shell[t]` is the schema that a tab fetched, `local[t]` the state of the screen
it shows, with the draft (`base` and edits) and what has been `touched`;
`post[s]` is a save on its way to the server and back. A rule is a list of
leaves, or `"and"` for all that the builder cannot show, and a field is one
that the form makes or one that only code can. A screen may be opened before
the shell's fetch has answered: its draft is then made from no entities, and
`base` is `None` for each of them until a save has been answered. In `Records`
a row has one field of each kind that `EntityForm` treats in its own way;
`loads` are the requests of the browser, `submit` the form's, `changes` the
users screen's, each answered, refused or lost when the model pleases.
`crossed` records that an answer overtook a later one.

## Runs

| Run | Bounds | Shows |
| --- | --- | --- |
| `managed` | managed or code mode, 2 calls, 1 request, 3 user and 1 plugin entities, 5 configs that are accepted, dangle, collide or are malformed, any number of boots, failures, crashes | `OneMigration`, `SchemaAtomic`, `Durable`, `LiveIsStored`, `TablesServeLive`; `LastOkWins`: the calls take effect in the order they were made; implements `Authority`; `Settles`: every call is answered and every boot ends |
| `fleet` | 2 isolates, 2 requests, 1 failure or crash, new or older database, on Workers, Next on Node and Next on the edge | `OneBuild`, `FailureForgotten`, `SnapshotTrue`, `UpIsWhole`, `RetriesServe` |
| `reads` | rules of up to 2 combinator calls over 2 users and guests; lists by 15 queries over 3 posts and 2 topics, under each rule of no call, with 1 write, deletion or swap between any two awaits | `FilterIsRowCheck`, `MeansWhatItSays`, `FilterSurvivesTheWire`, `PageFitsTotal`, `HiddenInvisible` |
| `engine` | 3 requests, an admin, a member, the guest; an owner field, a readonly unique field that decodes to an object, a self-reference | `ServerManaged`, `NoOracle`, `AnswersTellRows`, `EventsTellRows` |
| `accounts` | 3 requests to any route, from an empty table or from one of 2 users, 2 emails, 2 passwords, 1 subject, 1 deletion | `SessionsAreEarned`, `RacesAreRecovered`, `CreatedOnce`, `FirstIsAdmin`, `ResetsByLastToken` |
| `signin` | 2 browsers, 2 flows, 2 callbacks, 1 request, 2 discoveries, 2 failures or restarts, 1 edit of an account, a clock of one tick | `SignedInByOwnFlow`, `DiscoveryHeals`, `IdentityIsCurrent` |
| `services` | 2 requests, 1 handler besides the bridge, 3 subscriptions, 4 hosts; 3 keys, one of them a look-alike, 3 lives, a clock of 2 ticks, pages of 1 key; 2 uploads, 1 download, 2 edited rows; 1 failure in each | `HandlersRan`, `AuditKept`, `OnePlace`, `KeepsContract`, `FilesAreWhole` |
| `editor` | 1 tab, 2 entities and a plugin's, 2 saves, 2 edits; 2 rows, 2 loads, 3 clicks (2 in the form's part), 1 failure | `SavesOnlyEdits`, `SavedIsShown`, `PanesAreCurrent`, `SavesAreMeant` |
| `failed_migration`, `rollout` | as `managed`; as `fleet`, with two versions | disagreements 1 and 2 below |
| `early_editor`, `hidden_ref` | the shell of `editor`, with one save; as `reads` | 3 and 4 |

The bounds by name. `MaxCalls` is the number of combinator calls in a rule and
`MaxRule` of those in a rule that lists are asked under; `MaxWrites` how often
others write while a list runs; `MaxDeletes`, `MaxEdits` and `MaxRows` how
often an admin deletes users, edits accounts (in `Editor`: a draft) and edits
rows of files; `MaxFaults` how often the environment fails; `MaxNow` where a
clock stops; `Page` how many keys Workers KV lists at once; `MaxStamp` how many
subscriptions there are; `MaxSaves`, `MaxLoads`, `MaxClicks` and
`MaxFormClicks` how often the admin acts. Counters are bounded in the guards of
the actions that raise them. In `SignIn`, with auth, foreign bearer tokens come
only in requests that also carry a session.

Why the bounds are enough. The interesting cases are pairwise races with a
third party's result in between: two writers and the request that created the
row; two racing confirms with the request that minted the token and a change;
two callbacks and a deletion; two isolates that migrate, with one failure; a
save that overtakes another and the screen opened meanwhile. Three actors
reach all of them. Two calls suffice for mutual exclusion and for the order of
effects, which is about pairs. A failure can come anywhere, so one or two are
enough to follow each other. Where a bound was doubted, the mutants of
`PROJECT.json` show that it lets the case happen: each property has a plausible
bug that the same bounds expose.

Symmetry is used over actors, in runs without liveness; no definition refers
to one by name. In `Accounts`, requests are also user ids and tokens, all of
which are permuted together. In `DataEngine` they are also the values of the
self-reference, and every one of them may be sent. Deadlock is not checked in
`DataEngine`, `Accounts`, `Reads`, `SignIn` and `Editor`, where the requests
run out. It is in `managed`, because a process can always
crash and boot again, in `fleet`, where requests are sent again, and in
`services`, where `Telemetry` may rest only when every request has been
answered: none hangs.

### Fairness

Two runs assume it, for `Settles` and `RetriesServe`. `ManagedSchema` has weak
fairness of the boot's, each call's and each request's own steps, `Fleet` of
each attempt's own steps and of the answer to a request whose attempt has
settled. A promise continuation that is enabled is run by the event loop, and
a statement sent to the driver resolves or rejects; neither crashes nor new
calls, requests or failures are assumed to happen or not to. `RetriesServe`
assumes in its own statement that somebody keeps asking. A waiting `BEGIN
IMMEDIATE` that finds another writer is refused rather than queued, and the
attempt fails, which is why the property speaks of asking again and again.

### Disagreements found

Four are runs in which TLC refutes what the repository says of the code, with a
trace of the code as written.

1. `failed_migration`: the `ROLLBACK` of a failed migration takes with it rows
   that requests wrote and acknowledged meanwhile on the same connection.
2. `rollout`: the snapshot is read before `BEGIN`, so two versions that start
   together on one database may leave a snapshot that fits neither, and one of
   them never boots again.
3. `early_editor`: the schema screen opened before the shell's fetch has
   answered keeps an empty draft, and saving it drops every entity. So does the
   permission matrix (`PermissionMatrixScreen.tsx:106`): its save goes over the
   entities there are by then (`:164`) and sends an empty list for every cell
   it lacks (`:176`), so all rules go, with those the builder cannot show and
   promises to pass through (`:40-43`). `PermissionsSurvive` is about both
   screens; TLC shows one trace, the shortest it meets.
4. `hidden_ref`: `?with=` of a hidden ref embeds its target
   (`data/engine.ts:714-723`, `:738`), although "a hidden field can never leak"
   (`:182-188`).

The others were met while translating. The models contain the behaviour, so the
properties that hold do so in spite of it, but no run is spent on it.

5. A seed with a dangling `ref()` is stored before it is rejected
   (`kernel.ts:411`), although `managed-mode.md:77-78` says that a bad seed
   never persists.
6. A user entity with a `ref()` to a plugin entity seeds and serves once; every
   later boot throws, because the stored portion is checked for dangling
   references on its own (`managed/store.ts:63`). For the same reason such a
   schema cannot be saved from the admin application.
7. Repeating the current value of a readonly date or JSON field is refused,
   because decoded objects are compared with `!==` (`data/engine.ts:493`),
   although such a patch "is a harmless no-op" (`:488-489`).
8. A member's patch that repeats the owner it read undoes an admin's transfer
   that committed between its fetch and its write.
9. A password change verifies one password and may overwrite another, set
   between its check and its update (`auth/routes.ts:350`).
10. `record.deleted` carries the row fetched before the permission check, so an
    update in between is missing from its payload, and of two racing deletes
    both announce themselves (`data/engine.ts:534-543`, against
    `events.ts:6-16`).
11. A handler that throws an error that JSON cannot print makes the logger throw
    inside `emit`'s catch (`observability/logger.ts:91`), and the request fails
    after its write, against `events.ts:39-42`.
12. The promise of a Pipelines send is handed to nobody
    (`cloudflare/pipelines.ts:45`): a suspended isolate abandons it, and nothing
    awaits it in `flush`, which the sink omits (`observability.md:173-174`: it
    hands "each record straight to the platform").
13. A client's filter with `in: []` leaves no parameter and so returns
    everything.
14. `list` of the node store ignores the case of the prefix
    (`adapter/node/kv.ts:65`), although it is to answer the keys stored under it
    (`adapter.ts:103-108`). Workers KV does not.
15. An error that is no `ApiError` leaves the OAuth state cookie in place,
    although `auth/oauth.ts:538` says it is cleared on every exit.
16. In the admin application: leaving a screen while its save is under way lets
    a later save post what was there before; a form cannot clear an optional
    field, writes a NULL boolean as false and cuts a timestamp to minutes,
    although `lib/schema.ts:90-92` calls the conversions inverse.

## Proofs

TLAPS proves, for every value of the constants that the named assumptions
(`SchemaAssumption`, `EngineAssumption`, `AccountsAssumption`,
`FleetAssumption`, `TelemetryAssumption`, `SignInAssumption`,
`KeyValueAssumption`, `MediaAssumption`, `EditorAssumption`,
`RecordsAssumption`, `PermissionsAssumption`, `ReadsAssumption`) allow, any
number of calls, requests, entities, users, isolates, handlers, browsers, keys,
files, tabs, rows, rules and queries. They say what kind of thing a constant is
and that the names of different things differ; TLC evaluates each of them in a
run. Where the number of faults, edits, deletions or ticks is bounded for TLC,
the bound is a constant and the theorem holds for all its values. Three
hypotheses are of another kind and are stated with the theorems that need them:
`OneVersion`, `AdminsAtFirst` and `OwnersShown`, discussed below.

| Theorem | Module | States |
| --- | --- | --- |
| `TypeCorrect` | `ManagedSchema_proofs` | `TypeOK`; the store never holds a plugin's entity |
| `MutualExclusion` | | `OneMigration` |
| `MigrationAtomic` | | `SchemaAtomic` |
| `NothingUncommitted` | | `Durable` |
| `StoreBeforeSwap` | | `LiveIsStored` |
| `LastCallWins` | | `LastOkWins` |
| `TablesAreServed` | | `TablesServeLive` |
| `Refinement` | | `SafetySpec => Authority` |
| `TypeCorrect` | `DataEngine_proofs` | `TypeOK`; the guest never owns a row |
| `ManagedByServer` | | `ServerManaged` |
| `AnswersAreTrue` | | `AnswersTellRows` |
| `NoExistenceOracle` | | `NoOracle` |
| `EventsAreTrue` | | `EventsTellRows` |
| `TypeCorrect` | `Accounts_proofs` | `TypeOK` |
| `LastToken` | | `ResetsByLastToken` |
| `SingleUse` | | `OneWinner` |
| `Earns` | | `SessionsAreEarned` |
| `Recovers` | | `RacesAreRecovered` |
| `Announces` | | `CreatedOnce` |
| `AdminFirst` | | `FirstIsAdmin`, given `AdminsAtFirst` |
| `TypeCorrect` | `Fleet_proofs` | `TypeOK` |
| `BuildIsCached` | | `OneBuild` |
| `NeverTwoBuilds` | | `OnePerIsolate`, what `OneBuild` is for |
| `ForgottenFirst` | | `FailureForgotten` |
| `SnapshotStaysTrue` | | `SnapshotTrue`, given `OneVersion` |
| `ServesWhole` | | `UpIsWhole`, given `OneVersion` |
| `TypeCorrect` | `Services_proofs` | `TypeOK` of `Telemetry` |
| `NoneForgotten` | | `HandlersRan` |
| `TrailIsWhole` | | `AuditKept` |
| `InOnePlace` | | `OnePlace` |
| `StoresKeepContract` | | `KvSpec => KeepsContract`, the refinement |
| `UploadsAreWhole` | | `FilesAreWhole` |
| `TypeCorrect` | `SignIn_proofs` | `TypeOK` |
| `OwnFlowSignsIn` | | `SignedInByOwnFlow` |
| `DiscoveryIsShared` | | `DiscoveryHeals` |
| `CurrentIdentity` | | `IdentityIsCurrent` |
| `TypeCorrect` | `Editor_proofs` | `TypeOK`, `RecordsTypeOK` |
| `EditsAreSent` | | `SavesOnlyEdits` |
| `ReplyIsShown` | | `SavedIsShown` |
| `PanesKeepUp` | | `PanesAreCurrent` |
| `FormsAreMeant` | | `SavesAreMeant`, an action property |
| `EvaluatorsAgree` | `Reads_proofs` | a rule's condition is true of a row exactly when the row check admits it |
| `RulesAreBuilt` | | `Building`, the inductive invariant of the builder |
| `RulesAgree` | | `FilterIsRowCheck` |
| `RulesMean` | | `MeansWhatItSays` |
| `ReadsBuildRules` | | `ReadSpec => Spec`: reads leave the rule as it was built |
| `ReadersAgree` | | both, of the rules that reads are decided by |
| `ReadsProceed` | | `Reading`, `Counting`, the inductive invariant of a read |
| `FiltersSurvive` | | `FilterSurvivesTheWire` |
| `PagesFit` | | `PageFitsTotal` |
| `HiddenFieldsHide` | | `HiddenInvisible`, given `OwnersShown` |

**ManagedSchema.** The invariant is `TypeOK`, `Roles` (boot and calls are where
they can be), `Chained` (an unsettled call is on the chain once, and one that
has started stands behind settled ones), `Core` and `StoreUse`. `OneMigration`
is not inductive: it follows from `Chained`, because two busy calls would each
have to stand behind the other. `SchemaAtomic` needs `Progress` (how far a
migration has got relates `todo`, the tables and the snapshot), and that needs
`TxnOpen` (the transaction is open exactly while some actor is in one), which
in turn needs the exclusion. `LiveIsStored` needs `Stored`. The refinement maps
the abstract `schema` to the committed tables and `job` to the target of the
call between commit and swap; every step is an abstract step or stutters.

`LastOkWins` and `TablesServeLive` rest on a second invariant, `Latest`, proved
on top of the first: a call has an outcome only when it is done, and the live
schema comes from the last call of the chain that succeeded. Most steps are
`Quiet` (they mark no call, land no call and leave the engine and the committed
tables alone) or `ComesUp` (the boot's last step); what is left are the swap
and the two ways in which a call fails after its commit (`Landed`,
`LandingKeeps`). A call that swaps is the last of the chain to leave a mark,
because `Chained` has everything behind it still waiting.

**DataEngine.** The invariant adds `Shape` (what is known of a request at each
await: which operation, that its rule admitted the copy it holds, that the row
it is about was created) and `Checked` (a non-admin's patch about to be
written holds only legitimate values). `Checked` is what the code's comparison
with `existing` buys: the copy may be stale, but what it held was legitimate,
and what is legitimate stays so (`LegitimateStable`). That is exactly the
difference between `ServerManaged`, which holds, and the stronger claim that no
non-admin's write ever changes a managed field, which does not. `EventsTellRows`
follows from `AnswersTellRows` and `Told`: a request has emitted exactly when
it is answered ok, and what it is about to emit is a row.

**Accounts.** The invariant adds `Shape` (what is known of a request at each
await), `Identity` (rows keep the email of the account they were created for,
a link's subject was vouched to own that email, and what a request has found is
such a row) and `Credentials` (the token on a row is the last entry of that
user's history, each entry was written by the request it names, and a request
writes at most one). `ResetsByLastToken` is not inductive without the first of
these: the confirm's UPDATE compares the token on the row, and only `Tokened`
says that nothing was written after its mint. `OneWinner` follows from it: two
winners of a token would both be the entry after one and the same mint.
`SessionsAreEarned` needs `Identity`, because a session is issued from a row or
a link found one or more awaits earlier, and that user may be gone by then.
`FirstIsAdmin` needs `Bootstrap`: whoever counted somebody and is about to
insert a member did so while a user was there, who has not been deleted since.
Its hypothesis `AdminsAtFirst` says that a backend which is already populated
when the behaviour begins has an admin, as the theorem itself promises of the
behaviour that populated it.

**Fleet.** `Memo` is the cache of promises: what is building or serving is what
its isolate's slot holds, and the other way round. `OnePerIsolate` follows from
it. `FreshIsFree` shows that there is always a name for the attempt of a new
build, by counting: each slot and each other request holds one at most. `Locked`
ties the write lock to the one attempt in a transaction, and `Migrating` says
what is left to do of each migration: before `BEGIN` the recorded difference, or
what another isolate has made of it meanwhile, which is then nothing. That
alternative is true only while all isolates are deployed with one config
(`OneVersion`). With two versions it fails, and so do `SnapshotTrue` and
`UpIsWhole`: `rollout` shows the trace. The other theorems need no such
hypothesis.

**Telemetry.** `Emission` relates an emit's cursor to the handlers it has run:
a handler that was subscribed when the emission began and has not left keeps
its place, and all places up to the cursor have been run. `Trail` follows the
audit row from the bridge, which an emission visits once, to the flush that
awaits it, and so to a suspension that finds none pending. `OnePlace` is not
inductive: a step that buffers a record must know that this record is new.
`Kept` says so, as the records that a request can have left by the point it has
reached.

**SignIn.** `Own` follows a flow from its state cookie (only the browser that
began it ever holds it), through the provider's code (present only once somebody
returned) to the one callback that spends it. That a code is used once is what
makes two callbacks that signed in with the same flow be the same callback.
`Discovery` is that the cache holds the one discovery that has not failed.
`Identity` says that a request under way has seen what the accounts are *now*
(an edit adds to what it has seen), so that whatever the lookup reads is in it.

**Stores.** `KeyValue` needs no more than its types: `Held` is the table
without what has expired, and sweeps, lazy deletions and expired rows that are
still there change nothing in it. What a list may leave out is a matter of
`Most`, the page that Workers KV imposes and the local stores do not. `Media`
needs what each request has checked, stored and found between two awaits
(`UploadOf`, `GetOf`): an upload about to insert its row has its bytes in
place, unless a restart has emptied an in-memory storage.

**Editor and Records.** The theorems are about `AdminSpec`, in which any screen
may take any step; every step of a run of `MCEditor` is one of its steps.
`Screens` follows what is mounted in each tab: `Edited` says how far a draft is
from its base, given what has been touched (from an empty one, for an entity the
screen was not given: `EditsAreSent` says what is sent for those too, and it is
not their rules), and `Filled` how far the run of the
dashboard that is still wanted has come. `Posted` ties a save to its tab: while
its screen is there, that screen waits for this save alone, so the reply it
starts over from is the one it asked for. `SavedIsShown` is
about the end of a save, but holds only because of `Alone`, which follows the
save from its beginning: nothing else has been under way since, so its reply is
the live schema. In `Records`, `Browser` names the load the browser awaits last,
and `Forms` says that a form, and the request it sent, hold their row as the
widgets do but for what was typed. `SavesAreMeant` then is a fact about one
step, `Store`, in a state where `Forms` holds.

**Permissions.** `EvaluatorsAgree` is about every rule, and so by induction on
trees. The library's induction theorems take an operator as a parameter, which
the provers cannot instantiate; `Induction` is the same principle for a *set* of
numbers, from the well-foundedness of `<`, and `TreeInduction` carries it to
trees: a set with the leaves, and with each combinator whose parts it has, has
every tree. A function defined by recursion must be shown to exist before
anything follows from its definition, level by level (`RowFnExists`,
`SqlFnExists`, `ValueFnExists`); the value of a combinator is then made of those
of its parts (`evalRowAt`, `evalSqlAt`, `SqlValueAt`). The induction's step is
`OrSelects` and `AndSelects`: dropping the neutral parts and settling by an
absorbing one loses nothing that `WHERE` can tell, although the two differ in
what is unknown. The evaluators are defined on trees of bounded depth, and the
invariant `Building` shows that no rule outgrows it: each call adds one level at
most, because an argument has one combinator at most.

**Reads.** No step of a read changes the rule, so both theorems about rules
hold of reads too. `Reading` says what is known at each await (what was parsed
is what was asked, the tables hold rows of posts, the page holds them whole
until they are answered, and then without what is hidden), and `Counting` that
a page is as long as the chosen rows of its table allow: between the two
queries it is about the table of now, as long as nobody has written.
`FiltersSurvive` follows a clause over the wire: the parameters that share a
key come from one clause (`KeyOfClause`), an `in` never travels alone
(`NeverAlone`, which is what sending a lone item twice is for), and so what is
folded is what was sent (`ConditionOf`). It needs of a client that it is typed:
numbers for number fields, no operator of a field twice. `HiddenInvisible` has
two parts: two tables that differ in hidden fields only give the same pages and
totals (`PagesAlike`), and no answered row has a hidden field. The first needs
that a rule reads the fields it names and no other (`evalRowReads`, a second
induction on trees) and that none of them is hidden. The code does not check
the latter, so it is a hypothesis, `OwnersShown`; conditions and sort keys have
been refused by then if they name one. What is *embedded* does depend on a
hidden ref: that is disagreement 4, and the theorem does not speak of it.
`PageLength` is about every table, tie and order, and uses of `Posts` only that
they are finitely many.

Only model-checked is liveness, `Settles` and `RetriesServe`: liveness under
fairness is out of the prover's reach. Every safety property of a passing run is
a theorem. The proofs take no fairness: they are about `SafetySpec` where the
specification has any.

## Not modelled

- Drivers and SQL text: a statement is its effect or its failure. The remote
  transport of libSQL, whose statements may not share a connection, is warned
  about by its adapter and left out; D1, which behaves so, is in `Fleet`.
- Cascades of foreign keys in the data engine: `ON DELETE CASCADE` and `SET
  NULL` are the database's and run no code. (The links of a deleted user
  cascade in `Accounts`, where a callback races them.)
- Managed mode in several processes, which the documentation rules out
  (`managed-mode.md:131-139`).
- Signatures, hashes and encodings: a token has an issuer, a hash is the
  password it is of.
- Workers KV is one location. Across locations its writes arrive late, which
  its own documentation says and frogCP does not hide.
- The login and media screens of the admin application, the activity section's
  paging, and widgets; the headers of a download; the Analytics Engine sink,
  which writes synchronously and keeps nothing.
- Mail (one call of a transport), code generation, the conformance suite, the
  CLI with its templates: text, files and child processes, run by one person
  at a time. `deploy` calls other tools one after another and keeps no state
  of its own.

What could come next: the composition of `DataEngine`'s events with `Telemetry`,
so that the audit trail is about the rows of the engine, and the two evaluators
of `Permissions` in place of the sets of atoms that decide in `DataEngine`.
