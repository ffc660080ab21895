--------------------------------- MODULE Media ---------------------------------
(***************************************************************************)
(* The media plugin: an upload is authorised, measured, stored and only    *)
(* then recorded as a row of media_files; GET /files/:key looks for the row*)
(* and then for the bytes (src/packages/frogcp/src/media/, the storage     *)
(* adapters and DataEngine.findByField).  Rows of media_files may also be  *)
(* created and deleted as those of any entity, bytes and all else apart.   *)
(***************************************************************************)
EXTENDS Faults

CONSTANTS
    Uploads,     \* POST {route}/upload; each draws a fresh key, itself
    Gets,        \* GET /files/:key
    Users, Guest, Admins,
    Bodies,      \* what is sent: the declared length, the form, its file's size
    MaxRows      \* bound: rows created or deleted over /api/entity

ASSUME MediaAssumption ==
    /\ Uploads \cap Gets = {} /\ Guest \notin Users
    /\ None \notin Uploads \cup {"200", "403", "404", "413", "422", "500"}
    /\ \A body \in Bodies : body.form \in {"none", "no file", "over", "fits"}

Callers == Users \cup {Guest}

VARIABLES
    ownerScoped, \* the option of the plugin
    storage,     \* "memory" or "r2"
    blobs,       \* blobs[key]: whose bytes are there, or None
    rows,        \* rows[key]: the row, an owner and whether an upload made it
    upload,      \* upload[u]: who sent what, or None
    get,         \* get[g]: the key asked for and the row found, or None
    pc, answer,
    lost,        \* a restart has emptied an in-memory storage
    edits

mediaVars == <<ownerScoped, storage, blobs, rows, upload, get, pc, answer, lost, edits>>

Admin(who) == who \in Admins
MayCreate(who) == who # Guest
\* owner("owner"), or public() when files are not scoped
Admits(who, row) == Admin(who) \/ ~ownerScoped \/ (who # Guest /\ row.owner = who)
MayRead(who) == Admin(who) \/ ~ownerScoped \/ who # Guest

MediaInit ==
    /\ ownerScoped \in BOOLEAN
    /\ storage \in {"memory", "r2"}
    /\ blobs = [u \in Uploads |-> None]
    /\ rows = [u \in Uploads |-> None]
    /\ upload = [u \in Uploads |-> None]
    /\ get = [g \in Gets |-> None]
    /\ pc = [r \in Uploads \cup Gets |-> "idle"]
    /\ answer = [r \in Uploads \cup Gets |-> None]
    /\ lost = FALSE
    /\ faults = 0 /\ edits = 0

Reply(r, what) ==
    /\ answer' = [answer EXCEPT ![r] = what]
    /\ pc' = [pc EXCEPT ![r] = "done"]

Go(r, where) == pc' = [pc EXCEPT ![r] = where] /\ UNCHANGED answer

\* The checks before a byte is stored, in their order.
Refusal(who, body) ==
    IF ~MayCreate(who) THEN "403"
    ELSE IF body.declared = "over" THEN "413"
    ELSE IF body.form \in {"none", "no file"} THEN "422"
    ELSE IF body.form = "over" THEN "413" ELSE None

Upload(u, who, body) ==
    /\ pc[u] = "idle"
    /\ upload' = [upload EXCEPT ![u] = [who |-> who, body |-> body]]
    /\ IF Refusal(who, body) # None THEN Reply(u, Refusal(who, body)) ELSE Go(u, "put")
    /\ UNCHANGED <<ownerScoped, storage, blobs, rows, get, lost, faults, edits>>

\* storage.put, awaited.
PutBlob(u) ==
    /\ pc[u] = "put"
    /\ blobs' = [blobs EXCEPT ![u] = u]
    /\ Go(u, "insert")
    /\ UNCHANGED <<ownerScoped, storage, rows, upload, get, lost, faults, edits>>

\* engine.create, which decides again, on the same caller; the owner is the
\* uploader's id, or is stamped with it.
InsertRow(u) ==
    /\ pc[u] = "insert" /\ MayCreate(upload[u].who)
    /\ rows' = [rows EXCEPT ![u] = [owner |-> upload[u].who, by |-> "upload"]]
    /\ Reply(u, "200")
    /\ UNCHANGED <<ownerScoped, storage, blobs, upload, get, lost, faults, edits>>

\* Mutant: a failed put is not noticed.
UploadFailsUnnoticed(u) ==
    /\ pc[u] \in {"put", "insert"} /\ Fault
    /\ IF pc[u] = "put" THEN Go(u, "insert") ELSE Reply(u, "500")
    /\ UNCHANGED <<ownerScoped, storage, blobs, rows, upload, get, lost, edits>>

\* The storage or the database rejects: nothing is undone.
UploadFails(u) ==
    /\ pc[u] \in {"put", "insert"} /\ Fault
    /\ Reply(u, "500")
    /\ UNCHANGED <<ownerScoped, storage, blobs, rows, upload, get, lost, edits>>

\* findByField tells a missing row, a denied one and a denied action alike.
Find(g, who, key) ==
    /\ pc[g] = "idle"
    /\ LET row == IF MayRead(who) /\ rows[key] # None /\ Admits(who, rows[key])
                  THEN rows[key] ELSE None
       IN /\ get' = [get EXCEPT ![g] = [key |-> key, row |-> row]]
          /\ IF row = None THEN Reply(g, "404") ELSE Go(g, "fetch")
    /\ UNCHANGED <<ownerScoped, storage, blobs, rows, upload, lost, faults, edits>>

Serve(g) ==
    /\ pc[g] = "fetch"
    /\ Reply(g, IF blobs[get[g].key] = None THEN "404" ELSE "200")
    /\ UNCHANGED <<ownerScoped, storage, blobs, rows, upload, get, lost, faults, edits>>

\* POST /api/entity/media_files: a row of any free key, without bytes.
CreateRow(key, who) ==
    /\ edits < MaxRows /\ MayCreate(who) /\ rows[key] = None /\ pc[key] = "done"
    /\ rows' = [rows EXCEPT ![key] = [owner |-> who, by |-> "entity"]]
    /\ edits' = edits + 1
    /\ UNCHANGED <<ownerScoped, storage, blobs, upload, get, pc, answer, lost, faults>>

\* DELETE /api/entity/media_files/:id leaves the bytes where they are.
DeleteRow(key, who) ==
    /\ edits < MaxRows /\ rows[key] # None /\ MayRead(who) /\ Admits(who, rows[key])
    /\ rows' = [rows EXCEPT ![key] = None]
    /\ edits' = edits + 1
    /\ UNCHANGED <<ownerScoped, storage, blobs, upload, get, pc, answer, lost, faults>>

\* The process restarts: requests are gone, and what memoryStorage held.
Restart ==
    /\ Fault
    /\ pc' = [r \in DOMAIN pc |-> IF pc[r] = "idle" THEN "idle" ELSE "done"]
    /\ blobs' = IF storage = "memory" THEN [u \in Uploads |-> None] ELSE blobs
    /\ lost' = (lost \/ storage = "memory")
    /\ UNCHANGED <<ownerScoped, storage, rows, upload, get, answer, edits>>

MediaNext ==
    \/ \E u \in Uploads :
          \/ \E who \in Callers, body \in Bodies : Upload(u, who, body)
          \/ PutBlob(u) \/ InsertRow(u) \/ UploadFails(u)
    \/ \E g \in Gets : Serve(g) \/ \E who \in Callers, key \in Uploads : Find(g, who, key)
    \/ \E key \in Uploads, who \in Callers : CreateRow(key, who) \/ DeleteRow(key, who)
    \/ Restart

MediaSpec == MediaInit /\ [][MediaNext]_<<mediaVars, faults>>

-----------------------------------------------------------------------------
(* Properties.                                                             *)

\* Bytes and rows fit, whatever fails or is deleted in between: a row that an
\* upload made has its bytes and whoever finds it gets them, until a restart
\* loses those of an in-memory storage; and no bytes are ever stored for a
\* caller or a file that is not accepted.
FilesAreWhole ==
    /\ \A u \in Uploads :
         /\ rows[u] # None /\ rows[u].by = "upload" /\ ~lost => blobs[u] = u
         /\ blobs[u] # None => upload[u].who # Guest /\ upload[u].body.form = "fits"
    /\ \A g \in Gets :
         answer[g] = "404" /\ get[g].row # None /\ get[g].row.by = "upload" => lost
==============================================================================
