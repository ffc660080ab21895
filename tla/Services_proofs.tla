---------------------------- MODULE Services_proofs ----------------------------
(***************************************************************************)
(* Proofs about KeyValue, Media and Telemetry for any keys, values, lives, *)
(* uploads, downloads, requests, handlers, subscriptions and failures: the *)
(* key-value stores implement the map of ExpiringMap, bytes and rows of    *)
(* uploads fit, no handler is forgotten, the audit trail has no holes, and *)
(* a record is in one place.                                               *)
(*                                                                         *)
(* The stores need no invariant but their types: sweeps and lazy deletions *)
(* change nothing that the map shows.  For the media plugin, Whole says    *)
(* what each request has checked, stored and found between two awaits.     *)
(* Of Telemetry, Emission is how far each emit is in the Set of handlers,  *)
(* Trail follows the audit row from the bridge to the flush that awaits it,*)
(* and Kept says which records the sink can have, so that the one a step   *)
(* adds is new.                                                            *)
(***************************************************************************)
EXTENDS KeyValue, Media, Telemetry, TLAPS

-----------------------------------------------------------------------------
(* The key-value stores.                                                   *)

Entries == [value : Values, until : Nat \cup {Forever}]

KvTypeOK ==
    /\ backend \in {"node", "memory", "worker"}
    /\ now \in Nat
    /\ table \in [Keys -> Entries \cup {Nothing}]

\* What the contract sees of the table.
Held == [k \in Keys |-> IF Expired(table[k]) THEN Nothing ELSE table[k]]
Shortest == IF backend = "worker" THEN Floor ELSE 0
Most     == IF backend = "worker" THEN Page ELSE Nothing

LEMMA KvInitType ==
    ASSUME KvInit
    PROVE  KvTypeOK
BY DEF KvInit, KvTypeOK

\* An entry made now, for a life that is asked or imposed.
LEMMA EntryType ==
    ASSUME KeyValueAssumption, KvTypeOK, NEW value \in Values, NEW ttl \in Nat \cup {Forever}
    PROVE  Entry(value, ttl) \in Entries
BY DEF KeyValueAssumption, KvTypeOK, Entry, Entries

LEMMA KvNextType ==
    ASSUME KeyValueAssumption, KvTypeOK, [KvNext]_kvVars
    PROVE  KvTypeOK'
<1> USE DEF KvTypeOK
<1>1. CASE Clock
  BY <1>1 DEF Clock, Absent
<1>2. ASSUME NEW k \in Keys, NEW value \in Values, NEW ttl \in Ttls, Put(k, value, ttl)
      PROVE  KvTypeOK'
  BY <1>2, EntryType DEF Put, Swept, Absent, KeyValueAssumption
<1>3. ASSUME NEW k \in Keys, NEW value \in Values, NEW ttl \in Ttls, SetSession(k, value, ttl)
      PROVE  KvTypeOK'
  BY <1>3, EntryType DEF SetSession, KeyValueAssumption
<1>4. ASSUME NEW k \in Keys, NEW value \in Values, NEW ttl \in Ttls, PutBinding(k, value, ttl)
      PROVE  KvTypeOK'
  BY <1>4, EntryType DEF PutBinding, KeyValueAssumption
<1>5. ASSUME NEW k \in Keys, Delete(k) \/ Get(k) \/ GetJSON(k)
      PROVE  KvTypeOK'
  BY <1>5 DEF Delete, Get, GetJSON, Read
<1>6. ASSUME NEW p \in DOMAIN Families, List(p)
      PROVE  KvTypeOK'
  BY <1>6 DEF List
<1>7. CASE UNCHANGED kvVars
  BY <1>7 DEF kvVars
<1> QED BY <1>1, <1>2, <1>3, <1>4, <1>5, <1>6, <1>7 DEF KvNext

\* An entry put with a life of the right length is what the contract puts.
LEMMA PutMaps ==
    ASSUME KeyValueAssumption, KvTypeOK, NEW k \in Keys, NEW value \in Values, NEW ttl \in Ttls,
           NEW life \in Nat \cup {Forever},
           life = ttl \/ (ttl # Forever /\ ttl < Shortest /\ life = Shortest),
           UNCHANGED <<backend, now, reply>>,
           Held' = [Held EXCEPT ![k] = IF Expired(Entry(value, life)) THEN Nothing
                                       ELSE Entry(value, life)]
    PROVE  Contract!Put(k, value, ttl)
<1> DEFINE until == IF life = Forever THEN Forever ELSE now + life
           entry == [value |-> value, until |-> until]
<1>1. Entry(value, life) = entry /\ entry \in Entries /\ entry # Nothing
  BY EntryType DEF Entry, Entries, KeyValueAssumption
<1>2. until \in IF ttl = Forever THEN {Forever}
                ELSE now + ttl .. now + (IF ttl < Shortest THEN Shortest ELSE ttl)
  BY DEF KeyValueAssumption, KvTypeOK, Shortest, Most
<1>3. Contract!Live(entry, now) = ~Expired(entry)
  BY <1>1 DEF Contract!Live, Expired, KeyValueAssumption, KvTypeOK
<1>4. Held' = [Held EXCEPT ![k] = IF Contract!Live(entry, now) THEN entry ELSE Nothing]
  BY <1>1, <1>3
<1>5. UNCHANGED <<now, Shortest, Most, reply>>
  BY DEF Shortest, Most
<1> HIDE DEF until, Expired
<1> QED BY <1>2, <1>4, <1>5 DEF Contract!Put, Held, Shortest
\* An operation that only forgets what has expired shows nothing.
LEMMA SweptHeld ==
    ASSUME KvTypeOK, UNCHANGED now,
           \A k \in Keys : table'[k] = table[k] \/ (Expired(table[k]) /\ table'[k] = Nothing)
    PROVE  Held' = Held
BY DEF Held, Expired

\* An operation of the table is an operation of the map, or shows nothing.
LEMMA KvStep ==
    ASSUME KeyValueAssumption, KvTypeOK, [KvNext]_kvVars
    PROVE  [Contract!Next]_(Contract!absVars)
<1> DEFINE Goal == Contract!Next \/ UNCHANGED <<Held, now, Shortest, Most, reply>>
<1> SUFFICES Goal
  BY DEF Contract!absVars, Held, Shortest, Most
<1> USE DEF KvTypeOK
<1>1. CASE Clock
  <2>1. ASSUME NEW k \in Keys
        PROVE  Held'[k] = IF Contract!Live(Held[k], now') THEN Held[k] ELSE Nothing
    <3>1. now' = now + 1 /\ Forever \notin Int
      BY <1>1 DEF Clock, KeyValueAssumption
    <3>2. CASE table[k] = Nothing
      BY <1>1, <3>2 DEF Clock, Absent, Held, Expired, Contract!Live
    <3>3. CASE table[k] # Nothing /\ table[k].until = Forever
      BY <1>1, <3>1, <3>3 DEF Clock, Absent, Held, Expired, Contract!Live
    <3>4. CASE table[k] # Nothing /\ table[k].until \in Nat
      <4>1. table'[k] = table[k] \/ (table'[k] = Nothing /\ table[k].until = now')
        BY <1>1 DEF Clock, Absent
      <4>2. CASE table[k].until <= now
        BY <3>1, <3>4, <4>1, <4>2 DEF Held, Expired, Contract!Live
      <4>3. CASE table[k].until = now + 1
        BY <3>1, <3>4, <4>1, <4>3 DEF Held, Expired, Contract!Live
      <4>4. CASE table[k].until > now + 1
        BY <3>1, <3>4, <4>1, <4>4 DEF Held, Expired, Contract!Live
      <4> QED BY <3>4, <4>2, <4>3, <4>4
    <3> QED BY <3>2, <3>3, <3>4 DEF Entries
  <2>2. Held' = [k \in Keys |-> IF Contract!Live(Held[k], now') THEN Held[k] ELSE Nothing]
    BY <2>1 DEF Held
  <2>3. now' = now + 1 /\ UNCHANGED <<Shortest, Most, reply>>
    BY <1>1 DEF Clock, Shortest, Most
  <2>4. Contract!Tick
    BY <2>2, <2>3 DEF Contract!Tick, Held, Shortest, Most
  <2> QED BY <2>4 DEF Contract!Next
<1>2. ASSUME NEW k \in Keys, NEW value \in Values, NEW ttl \in Ttls, Put(k, value, ttl)
      PROVE  Goal
  <2>1. /\ UNCHANGED <<backend, now, reply>> /\ ttl \in Nat \cup {Forever}
        /\ table' = [Swept EXCEPT ![k] = Entry(value, ttl)]
    BY <1>2 DEF Put, KeyValueAssumption
  <2>2. Held' = [Held EXCEPT ![k] = IF Expired(Entry(value, ttl)) THEN Nothing ELSE Entry(value, ttl)]
    BY <2>1 DEF Held, Swept, Absent, Expired
  <2>3. Contract!Put(k, value, ttl)
    BY <2>1, <2>2, PutMaps
  <2> QED BY <2>3 DEF Contract!Next
<1>3. ASSUME NEW k \in Keys, NEW value \in Values, NEW ttl \in Ttls, SetSession(k, value, ttl)
      PROVE  Goal
  <2>1. /\ UNCHANGED <<backend, now, reply>> /\ ttl \in Nat \cup {Forever}
        /\ table' = [table EXCEPT ![k] = Entry(value, ttl)]
    BY <1>3 DEF SetSession, KeyValueAssumption
  <2>2. Held' = [Held EXCEPT ![k] = IF Expired(Entry(value, ttl)) THEN Nothing ELSE Entry(value, ttl)]
    BY <2>1 DEF Held, Expired
  <2>3. Contract!Put(k, value, ttl)
    BY <2>1, <2>2, PutMaps
  <2> QED BY <2>3 DEF Contract!Next
<1>4. ASSUME NEW k \in Keys, NEW value \in Values, NEW ttl \in Ttls, PutBinding(k, value, ttl)
      PROVE  Goal
  <2> DEFINE life == IF ttl # Forever /\ ttl < Floor THEN Floor ELSE ttl
  <2>1. /\ UNCHANGED <<backend, now, reply>> /\ Shortest = Floor
        /\ life \in Nat \cup {Forever}
        /\ life = ttl \/ (ttl # Forever /\ ttl < Shortest /\ life = Shortest)
        /\ table' = [table EXCEPT ![k] = Entry(value, life)]
    BY <1>4 DEF PutBinding, Shortest, Most, KeyValueAssumption
  <2> HIDE DEF life
  <2>2. Held' = [Held EXCEPT ![k] = IF Expired(Entry(value, life)) THEN Nothing ELSE Entry(value, life)]
    BY <2>1 DEF Held, Expired
  <2>3. Contract!Put(k, value, ttl)
    BY <2>1, <2>2, PutMaps
  <2> QED BY <2>3 DEF Contract!Next
<1>5. ASSUME NEW k \in Keys, Delete(k)
      PROVE  Goal
  <2>1. Held' = [Held EXCEPT ![k] = Nothing] /\ UNCHANGED <<now, Shortest, Most, reply>>
    BY <1>5 DEF Delete, Held, Expired, Shortest, Most
  <2>2. Contract!Delete(k)
    BY <2>1 DEF Contract!Delete, Held, Shortest, Most
  <2> QED BY <2>2 DEF Contract!Next
<1>6. ASSUME NEW k \in Keys, NEW parsed \in SUBSET Values, Read(k, parsed)
      PROVE  /\ UNCHANGED <<Held, now, Shortest, Most>>
             /\ reply' = [value |-> IF Held[k] # Nothing /\ Held[k].value \in parsed
                                    THEN Held[k].value ELSE Nothing]
  <2>1. UNCHANGED Held
    BY <1>6, SweptHeld DEF Read
  <2>2. UNCHANGED <<now, Shortest, Most>>
    BY <1>6 DEF Read, Shortest, Most
  <2>3. reply' = [value |-> IF Held[k] # Nothing /\ Held[k].value \in parsed
                           THEN Held[k].value ELSE Nothing]
    BY <1>6 DEF Read, Held, Expired
  <2> QED BY <2>1, <2>2, <2>3
<1>7. ASSUME NEW k \in Keys, Get(k)
      PROVE  Goal
  <2>1. Held[k] # Nothing => Held[k].value \in Values
    BY DEF Held, Entries
  <2>2. /\ UNCHANGED <<Held, now, Shortest, Most>>
        /\ reply' = [value |-> IF Held[k] = Nothing THEN Nothing ELSE Held[k].value]
    BY <1>6, <1>7, <2>1 DEF Get
  <2>3. Contract!Get(k)
    BY <2>2 DEF Contract!Get, Held, Shortest, Most
  <2> QED BY <2>3 DEF Contract!Next
<1>8. ASSUME NEW k \in Keys, GetJSON(k)
      PROVE  Goal
  <2>1. GetJSON(k) <=> Read(k, Json \cap Values)
    BY DEF GetJSON, Read, Entries
  <2>2. /\ UNCHANGED <<Held, now, Shortest, Most>>
        /\ reply' = [value |-> IF Held[k] # Nothing /\ Held[k].value \in Json
                               THEN Held[k].value ELSE Nothing]
    BY <1>6, <1>8, <2>1 DEF Held, Entries
  <2>3. Contract!GetJSON(k)
    BY <2>2 DEF Contract!GetJSON, Held, Shortest, Most
  <2> QED BY <2>3 DEF Contract!Next
<1>9. ASSUME NEW p \in DOMAIN Families, List(p)
      PROVE  Goal
  <2> DEFINE under == Families[p].exact \cup (IF backend = "node" THEN Families[p].alike ELSE {})
             found == {k \in under : table[k] # Nothing /\ ~Expired(table[k])}
  <2>1. under \in SUBSET Keys /\ Families[p].exact \in SUBSET Keys
    BY DEF KeyValueAssumption
  <2>2. PICK keys \in SUBSET found :
           /\ keys = found \/ (backend = "worker" /\ Cardinality(keys) = Page)
           /\ reply' = [keys |-> keys]
    BY <1>9 DEF List
  <2>3. UNCHANGED <<Held, now, Shortest, Most>>
    BY <1>9 DEF List, Held, Shortest, Most, Expired
  <2>4. found = {k \in under : Held[k] # Nothing}
    BY <2>1 DEF Held
  <2>5. keys \in SUBSET {k \in Families[p].exact \cup Families[p].alike : Held[k] # Nothing}
    BY <2>2, <2>4
  <2>6. (\A k \in Families[p].exact : Held[k] # Nothing => k \in keys) \/ Cardinality(keys) = Most
    BY <2>2, <2>4 DEF Most
  <2>7. Contract!Cardinality(keys) = Cardinality(keys)
    BY DEF Cardinality, Contract!Cardinality
  <2> HIDE DEF found
  <2>8. Contract!List(p)
    BY <2>2, <2>3, <2>5, <2>6, <2>7 DEF Contract!List, Held, Shortest, Most
  <2> QED BY <2>8 DEF Contract!Next
<1>10. CASE UNCHANGED kvVars
  BY <1>10 DEF kvVars, Held, Shortest, Most, Expired
<1> QED BY <1>1, <1>2, <1>3, <1>4, <1>5, <1>7, <1>8, <1>9, <1>10 DEF KvNext

\* The stores answer as a map whose entries expire by themselves, whatever is
\* swept, deleted lazily or put with too short a life (adapter.ts: KvStore and
\* SessionStore; adapter/node/kv.ts, adapter/cloudflare/kv.ts).
THEOREM StoresKeepContract == ASSUME KeyValueAssumption PROVE KvSpec => KeepsContract
<1>1. KvInit => KvTypeOK /\ Contract!Init
  BY KvInitType DEF KvInit, Contract!Init, Expired, KeyValueAssumption
<1>2. KvTypeOK /\ [KvNext]_kvVars => KvTypeOK' /\ [Contract!Next]_(Contract!absVars)
  BY KvNextType, KvStep
<1> QED BY <1>1, <1>2, PTL DEF KvSpec, KeepsContract, Contract!Spec

-----------------------------------------------------------------------------
(* The media plugin.                                                       *)

Rows == [owner : Users, by : {"upload", "entity"}]
Sent == [who : Callers, body : Bodies]

MediaTypeOK ==
    /\ ownerScoped \in BOOLEAN /\ storage \in {"memory", "r2"} /\ lost \in BOOLEAN
    /\ blobs \in [Uploads -> Uploads \cup {None}]
    /\ rows \in [Uploads -> Rows \cup {None}]
    /\ upload \in [Uploads -> Sent \cup {None}]
    /\ get \in [Gets -> [key : Uploads, row : Rows \cup {None}] \cup {None}]
    /\ pc \in [Uploads \cup Gets -> {"idle", "put", "insert", "fetch", "done"}]
    /\ answer \in [Uploads \cup Gets -> {None, "200", "403", "404", "413", "422", "500"}]

\* An upload past its checks was accepted, and past its put has its bytes.
Accepted(u) == upload[u].who # Guest /\ upload[u].body.form = "fits"
UploadOf(u) ==
    /\ pc[u] = "idle" => blobs[u] = None
    /\ pc[u] \in {"put", "insert"} => upload[u] \in Sent /\ Accepted(u)
    /\ pc[u] = "insert" /\ ~lost => blobs[u] = u

\* A download that found an upload's row will find its bytes.
GetOf(g) ==
    /\ pc[g] \in {"idle", "fetch"} => answer[g] = None
    /\ pc[g] = "fetch" =>
         /\ get[g] \in [key : Uploads, row : Rows]
         /\ get[g].row.by = "upload" /\ ~lost => blobs[get[g].key] = get[g].key

Whole ==
    /\ MediaTypeOK /\ FilesAreWhole
    /\ \A u \in Uploads : UploadOf(u)
    /\ \A g \in Gets : GetOf(g)

LEMMA MediaInitWhole ==
    ASSUME MediaAssumption, MediaInit
    PROVE  Whole
BY DEF MediaAssumption, MediaInit, Whole, MediaTypeOK, FilesAreWhole, UploadOf, GetOf

\* What passes the checks is a file that fits, sent by a user.
LEMMA Passes ==
    ASSUME MediaAssumption, NEW who \in Callers, NEW body \in Bodies, Refusal(who, body) = None
    PROVE  who # Guest /\ body.form = "fits"
BY DEF MediaAssumption, Refusal, MayCreate

\* An upload's step leaves downloads alone, and theirs leaves uploads alone.
LEMMA UploadStep ==
    ASSUME MediaAssumption, Whole, NEW u \in Uploads, NEW to, NEW what,
           pc' = [pc EXCEPT ![u] = to], answer' = [answer EXCEPT ![u] = what],
           UNCHANGED <<blobs, get, lost>>
    PROVE  \A g \in Gets : GetOf(g)' /\ UNCHANGED <<pc[g], answer[g], get[g]>>
BY DEF MediaAssumption, Whole, MediaTypeOK, GetOf

LEMMA UploadKeeps ==
    ASSUME MediaAssumption, Whole, NEW u \in Uploads, NEW who \in Callers, NEW body \in Bodies,
           Upload(u, who, body)
    PROVE  Whole'
<1> DEFINE no == Refusal(who, body)
           to == IF no # None THEN "done" ELSE "put"
           what == IF no # None THEN no ELSE answer[u]
<1>1. /\ pc[u] = "idle" /\ upload' = [upload EXCEPT ![u] = [who |-> who, body |-> body]]
      /\ UNCHANGED <<ownerScoped, storage, blobs, rows, get, lost>>
  BY DEF Upload
<1>2. pc' = [pc EXCEPT ![u] = to] /\ answer' = [answer EXCEPT ![u] = what]
  BY DEF Upload, Reply, Go, Whole, MediaTypeOK
<1>3. no \in {None, "403", "413", "422"} /\ (no = None => who # Guest /\ body.form = "fits")
  BY Passes DEF Refusal
<1>4. [who |-> who, body |-> body] \in Sent
  BY DEF Sent
<1> HIDE DEF no
<1>5. MediaTypeOK'
  BY <1>1, <1>2, <1>3, <1>4 DEF Whole, MediaTypeOK
<1>6. \A g \in Gets : GetOf(g)' /\ UNCHANGED <<pc[g], answer[g], get[g]>>
  BY <1>1, <1>2, UploadStep
<1>7. blobs[u] = None
  BY <1>1 DEF Whole, UploadOf
<1>8. UploadOf(u)'
  BY <1>1, <1>2, <1>3, <1>4, <1>7 DEF Whole, MediaTypeOK, UploadOf, Accepted
<1>9. ASSUME NEW v \in Uploads, v # u
      PROVE  UploadOf(v)'
  BY <1>1, <1>2, <1>9 DEF Whole, MediaTypeOK, UploadOf, Accepted
<1>10. FilesAreWhole'
  BY <1>1, <1>6, <1>7 DEF Whole, MediaTypeOK, FilesAreWhole
<1> QED BY <1>5, <1>6, <1>8, <1>9, <1>10 DEF Whole

LEMMA PutKeeps ==
    ASSUME MediaAssumption, Whole, NEW u \in Uploads, PutBlob(u)
    PROVE  Whole'
<1>1. /\ pc[u] = "put" /\ pc' = [pc EXCEPT ![u] = "insert"]
      /\ blobs' = [blobs EXCEPT ![u] = u]
      /\ UNCHANGED <<ownerScoped, storage, rows, upload, get, lost, answer>>
  BY DEF PutBlob, Go
<1>2. upload[u] \in Sent /\ Accepted(u) /\ u # None
  BY <1>1 DEF Whole, UploadOf, MediaAssumption
<1>3. MediaTypeOK'
  BY <1>1 DEF Whole, MediaTypeOK
<1>4. ASSUME NEW v \in Uploads
      PROVE  UploadOf(v)'
  BY <1>1, <1>2 DEF Whole, MediaTypeOK, UploadOf, Accepted
<1>5. ASSUME NEW g \in Gets
      PROVE  GetOf(g)'
  BY <1>1 DEF Whole, MediaTypeOK, GetOf, MediaAssumption
<1>6. FilesAreWhole'
  BY <1>1, <1>2 DEF Whole, MediaTypeOK, FilesAreWhole, Accepted
<1> QED BY <1>3, <1>4, <1>5, <1>6 DEF Whole

LEMMA InsertKeeps ==
    ASSUME MediaAssumption, Whole, NEW u \in Uploads, InsertRow(u)
    PROVE  Whole'
<1> DEFINE entry == [owner |-> upload[u].who, by |-> "upload"]
<1>1. /\ pc[u] = "insert" /\ pc' = [pc EXCEPT ![u] = "done"]
      /\ answer' = [answer EXCEPT ![u] = "200"] /\ rows' = [rows EXCEPT ![u] = entry]
      /\ UNCHANGED <<ownerScoped, storage, blobs, upload, get, lost>>
  BY DEF InsertRow, Reply
<1>2. upload[u].who \in Users /\ (~lost => blobs[u] = u)
  BY <1>1 DEF Whole, UploadOf, Accepted, Sent, Callers
<1>3. entry \in Rows
  BY <1>2 DEF Rows
<1>4. MediaTypeOK'
  BY <1>1, <1>3 DEF Whole, MediaTypeOK
<1>5. ASSUME NEW v \in Uploads
      PROVE  UploadOf(v)'
  BY <1>1 DEF Whole, MediaTypeOK, UploadOf, Accepted
<1>6. \A g \in Gets : GetOf(g)' /\ UNCHANGED <<pc[g], answer[g], get[g]>>
  BY <1>1, UploadStep
<1>7. FilesAreWhole'
  BY <1>1, <1>2, <1>6 DEF Whole, MediaTypeOK, FilesAreWhole
<1> QED BY <1>4, <1>5, <1>6, <1>7 DEF Whole

LEMMA FailKeeps ==
    ASSUME MediaAssumption, Whole, NEW u \in Uploads, UploadFails(u)
    PROVE  Whole'
<1>1. /\ pc[u] \in {"put", "insert"} /\ pc' = [pc EXCEPT ![u] = "done"]
      /\ answer' = [answer EXCEPT ![u] = "500"]
      /\ UNCHANGED <<ownerScoped, storage, blobs, rows, upload, get, lost>>
  BY DEF UploadFails, Reply
<1>2. MediaTypeOK'
  BY <1>1 DEF Whole, MediaTypeOK
<1>3. ASSUME NEW v \in Uploads
      PROVE  UploadOf(v)'
  BY <1>1 DEF Whole, MediaTypeOK, UploadOf, Accepted
<1>4. \A g \in Gets : GetOf(g)' /\ UNCHANGED <<pc[g], answer[g], get[g]>>
  BY <1>1, UploadStep
<1>5. FilesAreWhole'
  BY <1>1, <1>4 DEF Whole, MediaTypeOK, FilesAreWhole
<1> QED BY <1>2, <1>3, <1>4, <1>5 DEF Whole

LEMMA FindKeeps ==
    ASSUME MediaAssumption, Whole, NEW g \in Gets, NEW who \in Callers, NEW key \in Uploads,
           Find(g, who, key)
    PROVE  Whole'
<1> DEFINE entry == IF MayRead(who) /\ rows[key] # None /\ Admits(who, rows[key])
                  THEN rows[key] ELSE None
           to == IF entry = None THEN "done" ELSE "fetch"
           what == IF entry = None THEN "404" ELSE answer[g]
<1>1. /\ pc[g] = "idle" /\ get' = [get EXCEPT ![g] = [key |-> key, row |-> entry]]
      /\ UNCHANGED <<ownerScoped, storage, blobs, rows, upload, lost>>
  BY DEF Find
<1>2. pc' = [pc EXCEPT ![g] = to] /\ answer' = [answer EXCEPT ![g] = what]
  BY DEF Find, Reply, Go, Whole, MediaTypeOK
<1>3. entry \in Rows \cup {None} /\ (entry # None => entry = rows[key])
  BY DEF Whole, MediaTypeOK
<1>4. answer[g] = None /\ g \notin Uploads
  BY <1>1 DEF Whole, GetOf, MediaAssumption
<1> HIDE DEF entry
<1>5. [key |-> key, row |-> entry] \in [key : Uploads, row : Rows \cup {None}]
  BY <1>3
<1>6. MediaTypeOK'
  BY <1>1, <1>2, <1>5 DEF Whole, MediaTypeOK
<1>7. ASSUME NEW v \in Uploads
      PROVE  UploadOf(v)'
  BY <1>1, <1>2, <1>4 DEF Whole, MediaTypeOK, UploadOf, Accepted
<1>8. entry # None /\ entry.by = "upload" /\ ~lost => blobs[key] = key
  BY <1>3 DEF Whole, FilesAreWhole
<1>9. GetOf(g)'
  <2>1. get'[g] = [key |-> key, row |-> entry] /\ pc'[g] = to /\ answer'[g] = what
    BY <1>1, <1>2 DEF Whole, MediaTypeOK
  <2>2. entry # None => [key |-> key, row |-> entry] \in [key : Uploads, row : Rows]
    BY <1>3
  <2>3. CASE entry = None
    BY <2>1, <2>3 DEF GetOf
  <2>4. CASE entry # None
    <3>1. get'[g] \in [key : Uploads, row : Rows]
      BY <2>1, <2>2, <2>4, Zenon
    <3>2. get'[g].row = entry /\ get'[g].key = key
      <4>1. [key |-> key, row |-> entry].row = entry /\ [key |-> key, row |-> entry].key = key
        OBVIOUS
      <4> QED BY <2>1, <4>1, Zenon
    <3>3. answer'[g] = None /\ UNCHANGED <<blobs, lost>>
      BY <1>1, <1>4, <2>1, <2>4
    <3> QED BY <1>8, <2>4, <3>1, <3>2, <3>3 DEF GetOf
  <2> QED BY <2>3, <2>4
<1>10. ASSUME NEW h \in Gets, h # g
       PROVE  GetOf(h)'
  BY <1>1, <1>2, <1>10 DEF Whole, MediaTypeOK, GetOf
<1>11. FilesAreWhole'
  BY <1>1, <1>2, <1>4 DEF Whole, MediaTypeOK, FilesAreWhole, MediaAssumption
<1> QED BY <1>6, <1>7, <1>9, <1>10, <1>11 DEF Whole

LEMMA ServeKeeps ==
    ASSUME MediaAssumption, Whole, NEW g \in Gets, Serve(g)
    PROVE  Whole'
<1> DEFINE what == IF blobs[get[g].key] = None THEN "404" ELSE "200"
<1>1. /\ pc[g] = "fetch" /\ pc' = [pc EXCEPT ![g] = "done"]
      /\ answer' = [answer EXCEPT ![g] = what]
      /\ UNCHANGED <<ownerScoped, storage, blobs, rows, upload, get, lost>>
  BY DEF Serve, Reply
<1>2. /\ get[g].key \in Uploads /\ g \notin Uploads
      /\ get[g].row.by = "upload" /\ ~lost => blobs[get[g].key] = get[g].key
  BY <1>1 DEF Whole, GetOf, MediaAssumption
<1>3. what = "404" /\ get[g].row.by = "upload" => lost
  BY <1>2 DEF MediaAssumption
<1> HIDE DEF what
<1>4. MediaTypeOK'
  BY <1>1 DEF Whole, MediaTypeOK, what
<1>5. ASSUME NEW v \in Uploads
      PROVE  UploadOf(v)'
  BY <1>1, <1>2 DEF Whole, MediaTypeOK, UploadOf, Accepted
<1>6. ASSUME NEW h \in Gets
      PROVE  GetOf(h)'
  BY <1>1 DEF Whole, MediaTypeOK, GetOf
<1>7. FilesAreWhole'
  BY <1>1, <1>3 DEF Whole, MediaTypeOK, FilesAreWhole
<1> QED BY <1>4, <1>5, <1>6, <1>7 DEF Whole

\* Rows of other routes come without bytes, and go without them.
LEMMA RowKeeps ==
    ASSUME MediaAssumption, Whole, NEW key \in Uploads, NEW who \in Callers,
           CreateRow(key, who) \/ DeleteRow(key, who)
    PROVE  Whole'
<1>1. PICK entry \in {None, [owner |-> who, by |-> "entity"]} :
        /\ rows' = [rows EXCEPT ![key] = entry] /\ (entry # None => who \in Users)
        /\ UNCHANGED <<ownerScoped, storage, blobs, upload, get, pc, answer, lost>>
  BY DEF CreateRow, DeleteRow, MayCreate, Callers
<1>2. entry \in Rows \cup {None} /\ (entry # None => entry.by = "entity")
  <2>1. who \in Users => [owner |-> who, by |-> "entity"] \in Rows
    BY DEF Rows
  <2>2. CASE entry = None
    BY <2>2
  <2>3. CASE entry # None
    <3>1. entry = [owner |-> who, by |-> "entity"] /\ who \in Users
      BY <1>1, <2>3
    <3>2. entry \in Rows
      BY <2>1, <3>1, Zenon
    <3> QED BY <3>1, <3>2
  <2> QED BY <2>2, <2>3
<1>3. MediaTypeOK'
  BY <1>1, <1>2 DEF Whole, MediaTypeOK
<1>4. FilesAreWhole'
  BY <1>1, <1>2 DEF Whole, MediaTypeOK, FilesAreWhole
<1> QED BY <1>1, <1>3, <1>4 DEF Whole, UploadOf, Accepted, GetOf

LEMMA RestartKeeps ==
    ASSUME MediaAssumption, Whole, Restart
    PROVE  Whole'
<1>1. /\ pc' = [r \in Uploads \cup Gets |-> IF pc[r] = "idle" THEN "idle" ELSE "done"]
      /\ UNCHANGED <<ownerScoped, storage, rows, upload, get, answer>>
      /\ \/ lost' = TRUE /\ blobs' = [u \in Uploads |-> None]
         \/ lost' = lost /\ blobs' = blobs
  BY DEF Restart, Whole, MediaTypeOK
<1>2. MediaTypeOK'
  <2>1. lost' \in BOOLEAN
    BY DEF Restart, Whole, MediaTypeOK
  <2> QED BY <1>1, <2>1 DEF Whole, MediaTypeOK
<1>3. FilesAreWhole'
  <2>1. CASE lost' = TRUE /\ blobs' = [u \in Uploads |-> None]
    BY <1>1, <2>1 DEF Whole, FilesAreWhole
  <2>2. CASE lost' = lost /\ blobs' = blobs
    BY <1>1, <2>2 DEF Whole, FilesAreWhole
  <2> QED BY <1>1, <2>1, <2>2
<1>4. ASSUME NEW u \in Uploads
      PROVE  UploadOf(u)'
  BY <1>1 DEF Whole, MediaTypeOK, UploadOf
<1>5. ASSUME NEW g \in Gets
      PROVE  GetOf(g)'
  BY <1>1 DEF Whole, MediaTypeOK, GetOf
<1> QED BY <1>2, <1>3, <1>4, <1>5 DEF Whole

\* Bytes and rows fit: a row an upload made has its bytes until a restart loses
\* those of an in-memory storage, and nothing is stored for a caller or a file
\* that is not accepted (media/plugin.ts: the upload and download handlers).
THEOREM UploadsAreWhole == ASSUME MediaAssumption PROVE MediaSpec => []FilesAreWhole
<1>1. ASSUME Whole, [MediaNext]_<<mediaVars, faults>>
      PROVE  Whole'
  <2>1. CASE UNCHANGED <<mediaVars, faults>>
    BY <1>1, <2>1 DEF mediaVars, Whole, MediaTypeOK, FilesAreWhole, UploadOf, Accepted, GetOf
  <2> QED BY <1>1, <2>1, UploadKeeps, PutKeeps, InsertKeeps, FailKeeps, FindKeeps, ServeKeeps,
             RowKeeps, RestartKeeps DEF MediaNext
<1>2. Whole => FilesAreWhole
  BY DEF Whole
<1> QED BY <1>1, <1>2, MediaInitWhole, PTL DEF MediaSpec

-----------------------------------------------------------------------------
(* Telemetry.                                                              *)

Past == {"emitted", "threw", "flush", "answered"}
AllKept == buffer \cup stored \cup gone

TypeOK ==
    /\ host \in AllHosts
    /\ stamp \in [Handlers -> Nat] /\ clock \in Nat
    /\ req \in [Requests -> {"idle", "emit"} \cup Past]
    /\ cursor \in [Requests -> Nat]
    /\ busy \in [Requests -> Plugins \cup {None}]
    /\ ran \in [Requests -> SUBSET Nat]
    /\ held \in [Requests -> SUBSET Nat]
    /\ span \in [Requests -> {"none", "open", "ok", "error"}]
    /\ row \in [Requests -> {"none", "pending", "stored", "failed", "abandoned"}]
    /\ sent \in [Requests -> {"none", "pending", "sent", "abandoned"}]
    /\ awaits \in [Requests -> SUBSET Requests]
    /\ AllKept \subseteq Records
    /\ faults \in Nat

\* What an emit has passed and is still to run.
EmissionOf(r) ==
    /\ req[r] = "idle" => cursor[r] = 0 /\ ran[r] = {} /\ span[r] = "none"
    /\ req[r] = "emit" => /\ held[r] \subseteq Live
                          /\ \A s \in held[r] : s <= cursor[r] => s \in ran[r]
    /\ req[r] = "emitted" => held[r] \subseteq ran[r]
    /\ busy[r] # None => req[r] = "emit"
Emission == \A r \in Requests : EmissionOf(r)

\* An audit row is begun by the bridge, which the emit visits once, and is
\* awaited by its own request's flush.
TrailOf(r) ==
    /\ req[r] = "idle" \/ (req[r] = "emit" /\ cursor[r] < stamp[Bridge]) => row[r] = "none"
    /\ row[r] = "pending" /\ req[r] \in {"flush", "answered"} => r \in awaits[r]
    /\ row[r] # "abandoned"
    /\ row[r] = "failed" /\ host = "node" => <<r, "insert", 0>> \in AllKept
Trail == \A r \in Requests : TrailOf(r)

\* The records a request can have left by now.
Possible(r, kind, place) ==
    CASE kind = "audit"  -> row[r] # "none"
      [] kind = "span"   -> span[r] \in {"ok", "error"}
      [] kind = "metric" -> req[r] \in {"flush", "answered"}
      [] kind = "insert" -> row[r] = "failed"
      [] kind = "threw"  -> \/ req[r] \in Past
                            \/ req[r] = "emit" /\ place < cursor[r]
                            \/ req[r] = "emit" /\ place = cursor[r] /\ busy[r] = None
Kept ==
    /\ \A rec \in AllKept : Possible(rec[1], rec[2], rec[3])
    /\ host # "node" => AllKept = {}

IInv == TypeOK /\ Emission /\ Trail /\ Kept /\ OnePlace
-----------------------------------------------------------------------------
(* Types.                                                                  *)

LEMMA InitInv ==
    ASSUME TelemetryAssumption, Init
    PROVE  IInv
<1> USE DEF Init, TelemetryAssumption
<1>1. TypeOK
  BY DEF TypeOK, Handlers, AllKept
<1>2. Emission /\ Trail /\ Kept /\ OnePlace
  BY DEF Emission, EmissionOf, Trail, TrailOf, Kept, AllKept, OnePlace
<1> QED BY <1>1, <1>2 DEF IInv

\* Every step keeps the types.
LEMMA NextType ==
    ASSUME TelemetryAssumption, TypeOK, Next
    PROVE  TypeOK'
<1> USE DEF TypeOK, TelemetryAssumption, Handlers, Past, AllKept, Records, Kinds, Enter, Keep, Fault,
        busVars, emitVars, sinkVars
<1>1. ASSUME NEW h \in Plugins, Subscribe(h) \/ Unsubscribe(h)
      PROVE  TypeOK'
  BY <1>1 DEF Subscribe, Unsubscribe
<1>2. ASSUME NEW r \in Requests, Write(r)
      PROVE  TypeOK'
  BY <1>2 DEF Write, Live
<1>3. ASSUME NEW r \in Requests, RunBridge(r)
      PROVE  TypeOK'
  BY <1>3 DEF RunBridge, Visit
<1>4. ASSUME NEW r \in Requests, NEW h \in Plugins, RunHandler(r, h)
      PROVE  TypeOK'
  BY <1>4 DEF RunHandler, Visit
<1>5. ASSUME NEW r \in Requests, NEW status \in {"running", "error"}, HandlerReturns(r, status)
      PROVE  TypeOK'
  BY <1>5 DEF HandlerReturns
<1>6. ASSUME NEW r \in Requests, EmitEnds(r) \/ Respond(r)
      PROVE  TypeOK'
  BY <1>6 DEF EmitEnds, Respond
<1>7. ASSUME NEW r \in Requests, Flush(r)
      PROVE  TypeOK'
  <2>1. Pending(r) \in SUBSET Requests /\ Last(r) \subseteq Records
    BY DEF Pending, Last
  <2> QED BY <1>7, <2>1 DEF Flush, Final, Drain
<1>8. ASSUME NEW r \in Requests, Insert(r) \/ Send(r) \/ InsertFails(r)
      PROVE  TypeOK'
  BY <1>8 DEF Insert, Send, InsertFails
<1>9. ASSUME NEW r \in Requests, HandlerThrows(r) \/ HandlerThrowsUnprintable(r)
      PROVE  TypeOK'
  BY <1>9 DEF HandlerThrows, HandlerThrowsUnprintable
<1>10. CASE Suspend
  BY <1>10 DEF Suspend
<1>11. CASE Rest
  BY <1>11 DEF Rest, vars
<1> QED BY <1>1, <1>2, <1>3, <1>4, <1>5, <1>6, <1>7, <1>8, <1>9, <1>10, <1>11 DEF Next, RequestStep

-----------------------------------------------------------------------------
(* The emission.                                                           *)

\* Going to the nearest place ahead passes over nothing.
LEMMA VisitStep ==
    ASSUME TypeOK, Emission, NEW r \in Requests, NEW h \in Handlers, Visit(r, stamp[h])
    PROVE  /\ req[r] = "emit" /\ busy[r] = None
           /\ cursor' = [cursor EXCEPT ![r] = stamp[h]] /\ cursor[r] < stamp[h]
           /\ ran' = [ran EXCEPT ![r] = @ \cup {stamp[h]}]
           /\ \A s \in held[r] : s <= stamp[h] => s \in ran'[r]
<1>1. /\ stamp[h] \in Nat /\ cursor[r] \in Nat /\ cursor[r] < stamp[h]
      /\ \A t \in Live : t > cursor[r] => stamp[h] <= t
  BY DEF Visit, Ahead, TypeOK
<1>2. held[r] \subseteq Live /\ held[r] \subseteq Nat
      /\ \A s \in held[r] : s <= cursor[r] => s \in ran[r]
  BY DEF Visit, Emission, EmissionOf, TypeOK
<1>3. /\ cursor' = [cursor EXCEPT ![r] = stamp[h]]
      /\ ran' = [ran EXCEPT ![r] = @ \cup {stamp[h]}]
  BY DEF Visit
<1>4. ASSUME NEW s \in held[r], s <= stamp[h]
      PROVE  s \in ran'[r]
  <2>1. CASE s <= cursor[r]
    BY <1>2, <1>3, <2>1 DEF TypeOK
  <2>2. CASE s > cursor[r]
    <3>1. s = stamp[h]
      BY <1>1, <1>2, <1>4, <2>2
    <3> QED BY <1>3, <3>1 DEF TypeOK
  <2> QED BY <1>1, <1>2, <2>1, <2>2
<1> QED BY <1>1, <1>3, <1>4 DEF Visit

\* What a handler does to the bus while others emit, no emission misses.
LEMMA NextEmission ==
    ASSUME TelemetryAssumption, TypeOK, Emission, Next
    PROVE  Emission'
<1> USE DEF TypeOK, Emission, EmissionOf, TelemetryAssumption, Handlers, Past, Enter, busVars, emitVars
<1>1. ASSUME NEW h \in Plugins, Subscribe(h)
      PROVE  Emission'
  <2>1. Live \subseteq Live'
    BY <1>1 DEF Subscribe, Live
  <2> QED BY <1>1, <2>1 DEF Subscribe
<1>2. ASSUME NEW h \in Plugins, Unsubscribe(h)
      PROVE  Emission'
  <2>1. Live \ {stamp[h]} \subseteq Live'
    BY <1>2 DEF Unsubscribe, Live
  <2>2. \A r \in Requests : held'[r] = held[r] \ {stamp[h]}
    BY <1>2 DEF Unsubscribe
  <2> QED BY <1>2, <2>1, <2>2 DEF Unsubscribe
<1>3. ASSUME NEW r \in Requests, Write(r)
      PROVE  Emission'
  <2>1. \A s \in Live : s \in Nat /\ s # 0
    BY DEF Live
  <2>2. Live' = Live
    BY <1>3 DEF Write, Live
  <2> QED BY <1>3, <2>1, <2>2 DEF Write
<1>4. ASSUME NEW r \in Requests, RunBridge(r)
      PROVE  Emission'
  <2>1. Live' = Live /\ UNCHANGED <<req, busy, held, span>>
    BY <1>4 DEF RunBridge, Live
  <2>2. Visit(r, stamp[Bridge])
    BY <1>4 DEF RunBridge
  <2> QED BY <2>1, <2>2, VisitStep
<1>5. ASSUME NEW r \in Requests, NEW h \in Plugins, RunHandler(r, h)
      PROVE  Emission'
  <2>1. Live' = Live /\ UNCHANGED <<req, held, span>> /\ busy' = [busy EXCEPT ![r] = h]
    BY <1>5 DEF RunHandler, Live
  <2>2. Visit(r, stamp[h])
    BY <1>5 DEF RunHandler
  <2> QED BY <2>1, <2>2, VisitStep
<1>6. ASSUME NEW r \in Requests, NEW status \in {"running", "error"}, HandlerReturns(r, status)
      PROVE  Emission'
  BY <1>6 DEF HandlerReturns, Live
<1>7. ASSUME NEW r \in Requests, HandlerThrows(r) \/ HandlerThrowsUnprintable(r)
      PROVE  Emission'
  BY <1>7 DEF HandlerThrows, HandlerThrowsUnprintable, Live
<1>8. ASSUME NEW r \in Requests, EmitEnds(r)
      PROVE  Emission'
  <2>1. \A s \in Live : s \in Nat /\ s <= cursor[r]
    <3>1. \A s \in Live : s \in Nat
      BY DEF Live
    <3>2. \A s \in Live : ~(s > cursor[r])
      BY <1>8 DEF EmitEnds, Ahead
    <3>3. cursor[r] \in Nat
      OBVIOUS
    <3> QED BY <3>1, <3>2, <3>3
  <2> QED BY <1>8, <2>1 DEF EmitEnds, Live
<1>9. ASSUME NEW r \in Requests, Flush(r) \/ Respond(r)
      PROVE  Emission'
  BY <1>9 DEF Flush, Respond, Live
<1>10. ASSUME NEW r \in Requests, Insert(r) \/ Send(r) \/ InsertFails(r)
      PROVE  Emission'
  BY <1>10 DEF Insert, Send, InsertFails, Live
<1>11. CASE Suspend \/ Rest
  BY <1>11 DEF Suspend, Rest, vars, Live
<1> QED BY <1>1, <1>2, <1>3, <1>4, <1>5, <1>6, <1>7, <1>8, <1>9, <1>10, <1>11 DEF Next, RequestStep

-----------------------------------------------------------------------------
(* The audit row.                                                          *)

\* What the sink was given stays with it, but for what is still to be added.
LEMMA NothingLost ==
    ASSUME TypeOK, Next
    PROVE  AllKept \subseteq AllKept'
<1> USE DEF AllKept, Keep, sinkVars
<1>1. ASSUME NEW r \in Requests, Flush(r)
      PROVE  AllKept \subseteq AllKept'
  BY <1>1 DEF Flush, Drain
<1>2. ASSUME NEW r \in Requests, RunBridge(r) \/ HandlerThrows(r) \/ InsertFails(r)
      PROVE  AllKept \subseteq AllKept'
  BY <1>2 DEF RunBridge, HandlerThrows, InsertFails
<1>3. ASSUME NEW r \in Requests, NEW status \in {"running", "error"}, HandlerReturns(r, status)
      PROVE  AllKept \subseteq AllKept'
  BY <1>3 DEF HandlerReturns
<1>4. ASSUME NEW r \in Requests,
             \/ Write(r) \/ EmitEnds(r) \/ Respond(r) \/ Insert(r) \/ Send(r)
             \/ HandlerThrowsUnprintable(r) \/ \E h \in Plugins : RunHandler(r, h)
      PROVE  AllKept \subseteq AllKept'
  BY <1>4 DEF Write, EmitEnds, Respond, Insert, Send, HandlerThrowsUnprintable, RunHandler
<1>5. CASE Suspend \/ Rest \/ \E h \in Plugins : Subscribe(h) \/ Unsubscribe(h)
  BY <1>5 DEF Suspend, Rest, Subscribe, Unsubscribe, vars
<1> QED BY <1>1, <1>2, <1>3, <1>4, <1>5 DEF Next, RequestStep

\* A pending row is begun once and awaited by its own flush, so that an
\* isolate with such a row is never at rest.
LEMMA NextTrail ==
    ASSUME TelemetryAssumption, TypeOK, Emission, Trail, Next
    PROVE  Trail'
<1>1. host' = host /\ stamp'[Bridge] = stamp[Bridge] /\ stamp[Bridge] \in Nat
  BY DEF Next, RequestStep, Subscribe, Unsubscribe, Write, RunBridge, RunHandler, HandlerReturns,
     HandlerThrows, HandlerThrowsUnprintable, EmitEnds, Flush, Respond, Insert, InsertFails, Send,
     Suspend, Rest, vars, busVars, TypeOK, Handlers, TelemetryAssumption
<1> SUFFICES ASSUME NEW q \in Requests
             PROVE  TrailOf(q)'
  BY DEF Trail
<1>2. /\ row[q] = "failed" /\ host = "node" => <<q, "insert", 0>> \in AllKept'
      /\ req[q] = "idle" => row[q] = "none"
      /\ req[q] = "emit" /\ cursor[q] < stamp[Bridge] => row[q] = "none"
      /\ row[q] = "pending" /\ req[q] \in {"flush", "answered"} => q \in awaits[q]
      /\ row[q] # "abandoned" /\ cursor[q] \in Nat
  BY NothingLost DEF Trail, TrailOf, TypeOK
<1> USE DEF TrailOf
<1>3. ASSUME NEW h \in Plugins, Subscribe(h) \/ Unsubscribe(h)
      PROVE  TrailOf(q)'
  BY <1>1, <1>2, <1>3 DEF Subscribe, Unsubscribe, emitVars
<1>4. ASSUME NEW r \in Requests,
             \/ Write(r) \/ EmitEnds(r) \/ Respond(r)
             \/ HandlerThrows(r) \/ HandlerThrowsUnprintable(r)
      PROVE  TrailOf(q)'
  <2>1. row' = row /\ awaits' = awaits
    BY <1>4 DEF Write, EmitEnds, Respond, HandlerThrows, HandlerThrowsUnprintable
  <2>2. CASE q # r
    <3>1. req'[q] = req[q] /\ cursor'[q] = cursor[q]
      BY <1>4, <2>2 DEF TypeOK, Write, EmitEnds, Respond, HandlerThrows, HandlerThrowsUnprintable,
         Enter, emitVars
    <3> QED BY <1>1, <1>2, <2>1, <3>1
  <2>3. CASE q = r
    <3>1. \/ req[r] = "idle"
          \/ req[r] = "emit" /\ req'[r] = "emit" /\ cursor'[r] = cursor[r]
          \/ req'[r] \in {"emitted", "threw"}
          \/ req[r] = "flush" /\ req'[r] = "answered"
      BY <1>4 DEF TypeOK, Write, EmitEnds, Respond, HandlerThrows, HandlerThrowsUnprintable,
         Enter, emitVars, Emission, EmissionOf
    <3> QED BY <1>1, <1>2, <2>1, <2>3, <3>1
  <2> QED BY <2>2, <2>3
<1>5. ASSUME NEW r \in Requests, RunBridge(r)
      PROVE  TrailOf(q)'
  <2>1. /\ req[r] = "emit" /\ cursor' = [cursor EXCEPT ![r] = stamp[Bridge]]
        /\ UNCHANGED <<req, awaits>>
    BY <1>5, VisitStep DEF RunBridge, Handlers
  <2>2. CASE q # r
    <3>1. row'[q] = row[q] /\ cursor'[q] = cursor[q]
      BY <1>5, <2>1, <2>2 DEF RunBridge, TypeOK
    <3> QED BY <1>1, <1>2, <2>1, <3>1
  <2>3. CASE q = r
    <3>1. cursor'[r] = stamp[Bridge] /\ row[r] = "none" /\ row'[r] \in {"none", "pending"}
      BY <1>2, <1>5, <2>1, <2>3, VisitStep DEF RunBridge, Handlers, TypeOK
    <3> QED BY <1>1, <1>2, <2>1, <2>3, <3>1
  <2> QED BY <2>2, <2>3
<1>6. ASSUME NEW r \in Requests, NEW h \in Plugins, RunHandler(r, h)
      PROVE  TrailOf(q)'
  <2>1. /\ cursor' = [cursor EXCEPT ![r] = stamp[h]]
        /\ cursor[r] < stamp[h] /\ stamp[h] \in Nat
        /\ UNCHANGED <<req, row, awaits>>
    BY <1>6, VisitStep DEF RunHandler, Handlers, TypeOK
  <2>2. cursor[q] <= cursor'[q] /\ cursor'[q] \in Nat
    BY <1>2, <2>1 DEF TypeOK
  <2> QED BY <1>1, <1>2, <2>1, <2>2
<1>7. ASSUME NEW r \in Requests,
             \/ Send(r) \/ \E status \in {"running", "error"} : HandlerReturns(r, status)
      PROVE  TrailOf(q)'
  BY <1>1, <1>2, <1>7 DEF HandlerReturns, Send, emitVars
<1>8. ASSUME NEW r \in Requests, Flush(r)
      PROVE  TrailOf(q)'
  <2>1. UNCHANGED <<row, cursor>>
    BY <1>8 DEF Flush, emitVars
  <2>2. CASE q # r
    BY <1>1, <1>2, <1>8, <2>1, <2>2 DEF Flush, Enter, TypeOK
  <2>3. CASE q = r
    <3>1. req'[r] = "flush" /\ awaits'[r] = Pending(r)
      BY <1>8 DEF Flush, Enter, TypeOK
    <3> QED BY <1>1, <1>2, <2>1, <2>3, <3>1 DEF Pending
  <2> QED BY <2>2, <2>3
<1>9. ASSUME NEW r \in Requests, Insert(r) \/ InsertFails(r)
      PROVE  TrailOf(q)'
  <2>1. UNCHANGED <<req, cursor, awaits>> /\ row[r] = "pending"
    BY <1>9 DEF Insert, InsertFails, emitVars
  <2>2. CASE q # r
    <3>1. row'[q] = row[q]
      BY <1>9, <2>2 DEF Insert, InsertFails, TypeOK
    <3> QED BY <1>1, <1>2, <2>1, <3>1
  <2>3. CASE q = r
    <3>1. /\ row'[r] \in {"stored", "failed"}
          /\ row'[r] = "failed" /\ host = "node" => <<r, "insert", 0>> \in AllKept'
      BY <1>9 DEF Insert, InsertFails, Keep, AllKept, TypeOK
    <3> QED BY <1>1, <1>2, <2>1, <2>3, <3>1
  <2> QED BY <2>2, <2>3
<1>10. CASE Suspend
  <2>1. row[q] # "pending"
    BY <1>2, <1>10 DEF Suspend, Quiet, Settled
  <2>2. UNCHANGED <<req, cursor, awaits>> /\ row'[q] = row[q]
    BY <1>10, <2>1 DEF Suspend, emitVars
  <2> QED BY <1>1, <1>2, <2>2
<1>11. CASE Rest
  BY <1>1, <1>2, <1>11 DEF Rest, vars, emitVars
<1> QED BY <1>3, <1>4, <1>5, <1>6, <1>7, <1>8, <1>9, <1>10, <1>11 DEF Next, RequestStep

-----------------------------------------------------------------------------
(* The records.                                                            *)

\* What a request can have left, it can have left from then on.
LEMMA PossibleStays ==
    ASSUME TelemetryAssumption, TypeOK, Emission, Trail, Next,
           NEW q \in Requests, NEW kind \in Kinds, NEW place \in Nat, Possible(q, kind, place)
    PROVE  Possible(q, kind, place)'
<1> DEFINE Threw == \/ req[q] \in Past
                    \/ req[q] = "emit" /\ place < cursor[q]
                    \/ req[q] = "emit" /\ place = cursor[q] /\ busy[q] = None
           Stays == /\ row[q] # "none" => row'[q] # "none"
                    /\ row[q] = "failed" => row'[q] = "failed"
                    /\ span[q] \in {"ok", "error"} => span'[q] = span[q]
                    /\ req[q] \in {"flush", "answered"} => req'[q] \in {"flush", "answered"}
                    /\ Threw => Threw'
<1> SUFFICES Stays
  BY DEF Possible, Kinds
<1> USE DEF TypeOK, Past, Enter, busVars, emitVars
<1>1. CASE \/ Rest \/ \E h \in Plugins : Subscribe(h) \/ Unsubscribe(h)
  BY <1>1 DEF Rest, Subscribe, Unsubscribe, vars
<1>2. CASE Suspend
  BY <1>2 DEF Suspend
<1>3. ASSUME NEW r \in Requests, Write(r)
      PROVE  Stays
  BY <1>3 DEF Write, Emission, EmissionOf
<1>4. ASSUME NEW r \in Requests, RunBridge(r)
      PROVE  Stays
  <2>1. /\ req[r] = "emit" /\ cursor' = [cursor EXCEPT ![r] = stamp[Bridge]]
        /\ cursor[r] < stamp[Bridge] /\ stamp[Bridge] \in Nat
        /\ UNCHANGED <<req, busy, span>>
    BY <1>4, VisitStep DEF RunBridge, Handlers
  <2>2. row[q] # "none" => row'[q] # "none"
    BY <1>4 DEF RunBridge
  <2>3. row[q] = "failed" => row'[q] = "failed"
    BY <1>4, <2>1 DEF RunBridge, Trail, TrailOf
  <2>4. Threw => Threw'
    BY <2>1
  <2> QED BY <2>1, <2>2, <2>3, <2>4
<1>5. ASSUME NEW r \in Requests, NEW h \in Plugins, RunHandler(r, h)
      PROVE  Stays
  <2>1. /\ req[r] = "emit" /\ cursor' = [cursor EXCEPT ![r] = stamp[h]]
        /\ cursor[r] < stamp[h] /\ stamp[h] \in Nat /\ busy' = [busy EXCEPT ![r] = h]
        /\ UNCHANGED <<req, row, span>>
    BY <1>5, VisitStep DEF RunHandler, Handlers
  <2> QED BY <2>1
<1>6. ASSUME NEW r \in Requests, NEW status \in {"running", "error"}, HandlerReturns(r, status)
      PROVE  Stays
  BY <1>6 DEF HandlerReturns
<1>7. ASSUME NEW r \in Requests, HandlerThrows(r) \/ HandlerThrowsUnprintable(r)
      PROVE  Stays
  BY <1>7 DEF HandlerThrows, HandlerThrowsUnprintable, Emission, EmissionOf
<1>8. ASSUME NEW r \in Requests, EmitEnds(r) \/ Respond(r)
      PROVE  Stays
  BY <1>8 DEF EmitEnds, Respond
<1>9. ASSUME NEW r \in Requests, Flush(r)
      PROVE  Stays
  BY <1>9 DEF Flush, Final
<1>10. ASSUME NEW r \in Requests, Insert(r) \/ Send(r) \/ InsertFails(r)
      PROVE  Stays
  BY <1>10 DEF Insert, Send, InsertFails
<1> QED BY <1>1, <1>2, <1>3, <1>4, <1>5, <1>6, <1>7, <1>8, <1>9, <1>10 DEF Next, RequestStep

Flushed(q) == req[q] \in {"flush", "answered"}

\* A step that adds no record, and flushes nothing, leaves each in its place.
LEMMA NothingAdded ==
    ASSUME TelemetryAssumption, TypeOK, Emission, Trail, Kept, OnePlace, Next, UNCHANGED <<host, sinkVars>>,
           \A q \in Requests : Flushed(q)' => Flushed(q)
    PROVE  Kept' /\ OnePlace'
<1>1. AllKept' = AllKept /\ AllKept \subseteq Records
  BY DEF AllKept, sinkVars, TypeOK
<1>2. ASSUME NEW rec \in AllKept
      PROVE  Possible(rec[1], rec[2], rec[3])'
  BY <1>1, PossibleStays DEF Kept, Records
<1>3. Kept'
  BY <1>1, <1>2 DEF Kept
<1>4. OnePlace'
  BY <1>1 DEF OnePlace, sinkVars, Flushed, Records, AllKept
<1> QED BY <1>3, <1>4

\* A record that was not possible before is new, wherever it is put.
LEMMA OneAdded ==
    ASSUME TelemetryAssumption, TypeOK, Emission, Trail, Kept, OnePlace, Next,
           UNCHANGED <<host, stored, gone>>,
           \A q \in Requests : Flushed(q)' => Flushed(q),
           NEW r \in Requests, NEW kind \in Kinds, NEW place \in Nat,
           Keep({<<r, kind, place>>}),
           host = "node" => ~Possible(r, kind, place) /\ Possible(r, kind, place)',
           kind = "insert" \/ ~Flushed(r)'
    PROVE  Kept' /\ OnePlace'
<1>1. CASE host # "node"
  BY <1>1, NothingAdded DEF Keep, sinkVars
<1>2. CASE host = "node"
  <2> DEFINE new == <<r, kind, place>>
  <2>1. new \notin AllKept /\ buffer' = buffer \cup {new}
    BY <1>2 DEF Kept, Keep
  <2>2. AllKept' = AllKept \cup {new} /\ AllKept \subseteq Records
    BY <2>1 DEF AllKept, TypeOK
  <2>3. ASSUME NEW rec \in AllKept
        PROVE  Possible(rec[1], rec[2], rec[3])'
    BY <2>2, PossibleStays DEF Kept, Records
  <2>4. Possible(new[1], new[2], new[3])'
    BY <1>2
  <2>5. Kept'
    BY <1>2, <2>2, <2>3, <2>4 DEF Kept
  <2>6. /\ buffer' \cap stored' = {} /\ buffer' \cap gone' = {} /\ stored' \cap gone' = {}
    BY <2>1 DEF OnePlace, AllKept
  <2>7. ASSUME NEW rec \in buffer', Flushed(rec[1])'
        PROVE  rec[2] = "insert"
    BY <2>1, <2>2, <2>7 DEF OnePlace, Flushed, Records, AllKept
  <2> QED BY <2>5, <2>6, <2>7 DEF OnePlace, Flushed
<1> QED BY <1>1, <1>2

\* A drained batch and what the end of the request adds go to one place.
LEMMA FlushKept ==
    ASSUME TelemetryAssumption, TypeOK, Emission, Trail, Kept, OnePlace, Next,
           NEW r \in Requests, Flush(r)
    PROVE  Kept' /\ OnePlace'
<1>1. /\ host' = host /\ buffer' = {}
      /\ req[r] \in {"emitted", "threw"} /\ req'[r] = "flush"
      /\ span' = [span EXCEPT ![r] = Final(r)]
  BY DEF Flush, Enter, TypeOK
<1>2. \/ stored' = stored \cup buffer \cup Last(r) /\ gone' = gone
      \/ gone' = gone \cup buffer \cup Last(r) /\ stored' = stored
  BY DEF Flush, Drain
<1>3. /\ AllKept' = AllKept \cup Last(r) /\ AllKept \subseteq Records
  BY <1>1, <1>2 DEF AllKept, TypeOK
<1>4. ASSUME NEW rec \in Last(r)
      PROVE  /\ host = "node" /\ rec \notin AllKept
             /\ Possible(rec[1], rec[2], rec[3])'
  <2>1. host = "node" /\ (rec = <<r, "metric", 0>> \/ (rec = <<r, "span", 0>> /\ span[r] = "open"))
    BY <1>4 DEF Last
  <2>2. span[r] = "open" => span'[r] \in {"ok", "error"}
    BY <1>1 DEF Final, TypeOK
  <2>3. CASE rec = <<r, "metric", 0>>
    BY <1>1, <2>1, <2>3 DEF Possible, Kept
  <2>4. CASE rec = <<r, "span", 0>> /\ span[r] = "open"
    BY <1>1, <2>1, <2>2, <2>4 DEF Possible, Kept
  <2> QED BY <2>1, <2>3, <2>4
<1>5. ASSUME NEW rec \in AllKept
      PROVE  Possible(rec[1], rec[2], rec[3])'
  BY <1>3, PossibleStays DEF Kept, Records
<1>6. Kept'
  BY <1>1, <1>3, <1>4, <1>5 DEF Kept
<1>7. OnePlace'
  BY <1>1, <1>2, <1>4 DEF OnePlace, AllKept
<1> QED BY <1>6, <1>7

\* Every step names the records it adds by what only this step can add.
LEMMA NextKept ==
    ASSUME TelemetryAssumption, IInv, Next
    PROVE  Kept' /\ OnePlace'
<1> USE DEF IInv, TypeOK, Past, Enter, Flushed, busVars, emitVars
<1>1. CASE \/ Rest \/ \E h \in Plugins : Subscribe(h) \/ Unsubscribe(h)
  BY <1>1, NothingAdded DEF Rest, Subscribe, Unsubscribe, vars, sinkVars
<1>2. CASE Suspend
  BY <1>2, NothingAdded DEF Suspend
<1>3. ASSUME NEW r \in Requests,
             \/ Write(r) \/ EmitEnds(r) \/ Respond(r) \/ Insert(r) \/ Send(r)
             \/ HandlerThrowsUnprintable(r) \/ \E h \in Plugins : RunHandler(r, h)
      PROVE  Kept' /\ OnePlace'
  <2>1. UNCHANGED <<host, sinkVars>>
    BY <1>3 DEF Write, EmitEnds, Respond, Insert, Send, HandlerThrowsUnprintable, RunHandler
  <2>2. \A q \in Requests : Flushed(q)' => Flushed(q)
    BY <1>3 DEF Write, EmitEnds, Respond, Insert, Send, HandlerThrowsUnprintable, RunHandler
  <2> QED BY <2>1, <2>2, NothingAdded
<1>4. ASSUME NEW r \in Requests, RunBridge(r)
      PROVE  Kept' /\ OnePlace'
  <2>1. req[r] = "emit" /\ cursor[r] < stamp[Bridge] /\ row[r] = "none"
    BY <1>4, VisitStep DEF RunBridge, Handlers, Trail, TrailOf
  <2>2. host = "node" => row'[r] = "pending"
    BY <1>4 DEF RunBridge
  <2>3. Keep({<<r, "audit", 0>>}) /\ UNCHANGED <<host, req, stored, gone>>
    BY <1>4 DEF RunBridge
  <2>4. host = "node" => ~Possible(r, "audit", 0) /\ Possible(r, "audit", 0)'
    BY <2>1, <2>2 DEF Possible
  <2> QED BY <2>1, <2>3, <2>4, OneAdded DEF Kinds
<1>5. ASSUME NEW r \in Requests, NEW status \in {"running", "error"}, HandlerReturns(r, status)
      PROVE  Kept' /\ OnePlace'
  <2>1. UNCHANGED <<host, req, stored, gone>> /\ req[r] = "emit"
    BY <1>5 DEF HandlerReturns, Emission, EmissionOf
  <2>2. CASE UNCHANGED buffer
    BY <2>1, <2>2, NothingAdded DEF sinkVars
  <2>3. CASE /\ span[r] = "open" /\ status = "error" /\ span' = [span EXCEPT ![r] = status]
             /\ Keep({<<r, "span", 0>>})
    <3>1. ~Possible(r, "span", 0) /\ Possible(r, "span", 0)'
      BY <2>3 DEF Possible
    <3> QED BY <2>1, <2>3, <3>1, OneAdded DEF Kinds
  <2> QED BY <1>5, <2>2, <2>3 DEF HandlerReturns
<1>6. ASSUME NEW r \in Requests, HandlerThrows(r)
      PROVE  Kept' /\ OnePlace'
  <2>1. /\ Keep({<<r, "threw", cursor[r]>>}) /\ UNCHANGED <<host, req, cursor, stored, gone>>
        /\ req[r] = "emit" /\ busy[r] # None /\ busy'[r] = None
    BY <1>6 DEF HandlerThrows, Emission, EmissionOf
  <2>2. ~Possible(r, "threw", cursor[r])
    BY <2>1 DEF Possible
  <2>3. Possible(r, "threw", cursor[r])'
    BY <2>1 DEF Possible
  <2>4. cursor[r] \in Nat /\ "threw" \in Kinds
    BY DEF Kinds
  <2> QED BY <2>1, <2>2, <2>3, <2>4, OneAdded
<1>7. ASSUME NEW r \in Requests, InsertFails(r)
      PROVE  Kept' /\ OnePlace'
  <2>1. /\ Keep({<<r, "insert", 0>>}) /\ UNCHANGED <<host, req, stored, gone>>
        /\ row[r] = "pending" /\ row'[r] = "failed"
    BY <1>7 DEF InsertFails
  <2>2. ~Possible(r, "insert", 0) /\ Possible(r, "insert", 0)'
    BY <2>1 DEF Possible
  <2> QED BY <2>1, <2>2, OneAdded DEF Kinds
<1>8. ASSUME NEW r \in Requests, Flush(r)
      PROVE  Kept' /\ OnePlace'
  BY <1>8, FlushKept
<1> QED BY <1>1, <1>2, <1>3, <1>4, <1>5, <1>6, <1>7, <1>8 DEF Next, RequestStep

-----------------------------------------------------------------------------
(* Theorems.                                                               *)

LEMMA NextIInv ==
    ASSUME TelemetryAssumption, IInv, [Next]_vars
    PROVE  IInv'
<1>1. CASE Next
  BY <1>1, NextType, NextEmission, NextTrail, NextKept DEF IInv
<1>2. CASE UNCHANGED vars
  <2>1. UNCHANGED <<TypeOK, AllKept>> /\ UNCHANGED <<Live, OnePlace>>
    BY <1>2 DEF vars, busVars, emitVars, sinkVars, TypeOK, AllKept, Live, OnePlace
  <2>2. Emission' /\ Trail' /\ Kept'
    BY <1>2, <2>1 DEF IInv, vars, busVars, emitVars, sinkVars, Emission, EmissionOf, Trail, TrailOf,
       Kept, Possible
  <2> QED BY <2>1, <2>2 DEF IInv
<1> QED BY <1>1, <1>2

LEMMA Inductive == ASSUME TelemetryAssumption PROVE Spec => []IInv
<1>1. Init => IInv
  BY InitInv
<1>2. IInv /\ [Next]_vars => IInv'
  BY NextIInv
<1> QED BY <1>1, <1>2, PTL DEF Spec

\* The bus, the requests and the records keep their types.
THEOREM TypeCorrect == ASSUME TelemetryAssumption PROVE Spec => []TypeOK
<1>1. IInv => TypeOK
  BY DEF IInv
<1> QED BY <1>1, Inductive, PTL

\* An emission runs every handler subscribed throughout, however many others
\* come, go and throw meanwhile (events.ts: the loop over the live Set).
THEOREM NoneForgotten == ASSUME TelemetryAssumption PROVE Spec => []HandlersRan
<1>1. IInv => HandlersRan
  BY DEF IInv, Emission, EmissionOf, HandlersRan
<1> QED BY <1>1, Inductive, PTL

\* The audit row of an answered request whose flush is over is stored, or its
\* failure logged; none is abandoned (activity/index.ts: the pending set and
\* the flush that awaits it).
THEOREM TrailIsWhole == ASSUME TelemetryAssumption PROVE Spec => []AuditKept
<1>1. IInv => AuditKept
  BY DEF IInv, TypeOK, Trail, TrailOf, AllKept, AuditKept, Settled
<1> QED BY <1>1, Inductive, PTL

\* A record is buffered, stored once or dropped once, for any number of
\* requests whose flushes empty one buffer and of transactions that fail
\* (sink/sqlite/index.ts: drainAll).
THEOREM InOnePlace == ASSUME TelemetryAssumption PROVE Spec => []OnePlace
<1>1. IInv => OnePlace
  BY DEF IInv
<1> QED BY <1>1, Inductive, PTL
=============================================================================
