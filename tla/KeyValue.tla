-------------------------------- MODULE KeyValue --------------------------------
(***************************************************************************)
(* The key-value and session stores: a table of node:sqlite with a sweep on*)
(* every put and a lazy deletion on every get, the Map of the session store*)
(* for development, and the bindings of Workers KV, which refuse a short   *)
(* life (adapter/node/kv.ts, adapter/node/session.ts, adapter/cloudflare/  *)
(* kv.ts and session.ts, kv/index.ts in src/packages/frogcp/src).          *)
(*                                                                         *)
(* Every method of the local stores runs without an await, and a location  *)
(* of Workers KV sees its own writes at once: an operation is one step.    *)
(***************************************************************************)
EXTENDS Integers, FiniteSets

CONSTANTS
    Keys, Values,
    Json,        \* the values that parse
    Families,    \* Families[p]: the keys under a prefix p, and its look-alikes
    Ttls,        \* lives in seconds, or Forever
    Floor,       \* KV_MIN_TTL_SECONDS
    Page,        \* the keys Workers KV lists at a time
    MaxNow,      \* bound on the clock
    Forever, Nothing

ASSUME KeyValueAssumption ==
    /\ Forever \notin Int /\ Ttls \subseteq Nat \cup {Forever} /\ Floor \in Nat /\ Page \in Nat
    /\ Nothing \notin [value : Values, until : Nat \cup {Forever}]
    /\ \A p \in DOMAIN Families : Families[p].exact \cup Families[p].alike \subseteq Keys

VARIABLES
    backend,     \* "node", "memory" or "worker"
    now, table,
    reply        \* what the last read said

kvVars == <<backend, now, table, reply>>

Entry(value, ttl) ==
    [value |-> value, until |-> IF ttl = Forever THEN Forever ELSE now + ttl]

Expired(entry) == entry # Nothing /\ entry.until # Forever /\ entry.until <= now

Absent(t, gone) == [k \in Keys |-> IF k \in gone THEN Nothing ELSE t[k]]

KvInit ==
    /\ backend \in {"node", "memory", "worker"}
    /\ now = 0
    /\ table = [k \in Keys |-> Nothing]
    /\ reply = Nothing

\* Date.now(); Workers KV drops what has run out by itself.
Clock ==
    /\ now < MaxNow /\ now' = now + 1
    /\ table' = IF backend = "worker"
                THEN Absent(table, {k \in Keys : table[k] # Nothing /\ table[k].until = now'})
                ELSE table
    /\ UNCHANGED <<backend, reply>>

Swept == Absent(table, {k \in Keys : Expired(table[k])})

\* Mutant: ON CONFLICT updates the value and not expires_at.
PutKeepsDeadline(k, value, ttl) ==
    /\ backend = "node"
    /\ table' = [Swept EXCEPT ![k] =
                   IF @ = Nothing THEN Entry(value, ttl) ELSE [@ EXCEPT !.value = value]]
    /\ UNCHANGED <<backend, now, reply>>

Put(k, value, ttl) ==
    /\ backend = "node"
    /\ table' = [Swept EXCEPT ![k] = Entry(value, ttl)]
    /\ UNCHANGED <<backend, now, reply>>

\* A session always has a life.
SetSession(k, value, ttl) ==
    /\ backend = "memory" /\ ttl # Forever
    /\ table' = [table EXCEPT ![k] = Entry(value, ttl)]
    /\ UNCHANGED <<backend, now, reply>>

PutBinding(k, value, ttl) ==
    /\ backend = "worker"
    /\ table' = [table EXCEPT ![k] =
                   Entry(value, IF ttl # Forever /\ ttl < Floor THEN Floor ELSE ttl)]
    /\ UNCHANGED <<backend, now, reply>>

Delete(k) ==
    /\ table' = [table EXCEPT ![k] = Nothing]
    /\ UNCHANGED <<backend, now, reply>>

\* get, which also deletes the row it finds expired; what its caller cannot
\* parse is answered as nothing.
Read(k, parsed) ==
    /\ IF Expired(table[k])
       THEN table' = [table EXCEPT ![k] = Nothing] /\ reply' = [value |-> Nothing]
       ELSE /\ reply' = [value |-> IF table[k] # Nothing /\ table[k].value \in parsed
                                   THEN table[k].value ELSE Nothing]
            /\ UNCHANGED table
    /\ UNCHANGED <<backend, now>>

Get(k) == Read(k, Values)
GetJSON(k) == Read(k, Json)

\* Mutant: the query does not look at expires_at.
ListExpired(p) ==
    /\ backend # "memory"
    /\ LET under == Families[p].exact \cup
                       (IF backend = "node" THEN Families[p].alike ELSE {})
           found == {k \in under : table[k] # Nothing}
       IN \E keys \in SUBSET found :
            /\ IF backend = "worker" /\ Cardinality(found) > Page
               THEN Cardinality(keys) = Page ELSE keys = found
            /\ reply' = [keys |-> keys]
    /\ UNCHANGED <<backend, now, table>>

\* LIKE takes the look-alikes of a prefix too: it ignores the case of letters.
\* The binding lists one page, and of what it leaves nothing is said.
List(p) ==
    /\ backend # "memory"
    /\ LET under == Families[p].exact \cup
                       (IF backend = "node" THEN Families[p].alike ELSE {})
           found == {k \in under : table[k] # Nothing /\ ~Expired(table[k])}
       IN \E keys \in SUBSET found :
            /\ IF backend = "worker" /\ Cardinality(found) > Page
               THEN Cardinality(keys) = Page ELSE keys = found
            /\ reply' = [keys |-> keys]
    /\ UNCHANGED <<backend, now, table>>

KvNext ==
    \/ Clock
    \/ \E k \in Keys, value \in Values, ttl \in Ttls :
          Put(k, value, ttl) \/ SetSession(k, value, ttl) \/ PutBinding(k, value, ttl)
    \/ \E k \in Keys : Delete(k) \/ Get(k) \/ GetJSON(k)
    \/ \E p \in DOMAIN Families : List(p)

KvSpec == KvInit /\ [][KvNext]_kvVars

-----------------------------------------------------------------------------
(* Properties.                                                             *)

\* An overwritten, expired, swept or lazily deleted entry is never seen and
\* none is lost early: each store keeps the contract of adapter.ts, where an
\* entry is there until its life ends and not a second longer, and a list names
\* what is there under its prefix, up to a page.
Contract == INSTANCE ExpiringMap WITH
    held  <- [k \in Keys |-> IF Expired(table[k]) THEN Nothing ELSE table[k]],
    clock <- now,
    floor <- IF backend = "worker" THEN Floor ELSE 0,
    page  <- IF backend = "worker" THEN Page ELSE Nothing

KeepsContract == Contract!Spec
==============================================================================
