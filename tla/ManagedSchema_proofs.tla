------------------------ MODULE ManagedSchema_proofs ------------------------
(***************************************************************************)
(* Proofs about ManagedSchema for every set of entities, plugins, configs, *)
(* calls and requests: types, mutual exclusion of migrations, atomicity    *)
(* of the schema, durability, store before swap, and the refinement of     *)
(* SchemaAuthority.                                                        *)
(***************************************************************************)
EXTENDS ManagedSchema, TLAPS

\* Where Boot and the calls can be; a call waits or runs only while the
\* process is up.
Roles ==
    /\ pc[Boot] \in {"idle", "load", "seed", "up"} \cup Migrating
    /\ \A c \in Calls : pc[c] \in {"idle", "wait", "done"} \cup Busy
    /\ \A c \in Calls : pc[c] \in {"wait"} \cup Busy => Up

\* The promise chain: every unsettled call is on it, once, and a call that
\* has started stands behind settled calls only.
Chained ==
    /\ \A c \in Calls : pc[c] \in {"wait"} \cup Busy
                          => \E i \in 1..Len(chain) : chain[i] = c
    /\ \A i \in 1..Len(chain) : pc[chain[i]] # "idle"
    /\ \A i, j \in 1..Len(chain) : i # j => chain[i] # chain[j]
    /\ \A i, j \in 1..Len(chain) :
         i < j /\ pc[chain[j]] \in {"done"} \cup Busy => pc[chain[i]] = "done"

\* The connection is in a transaction exactly while some actor's migration is.
TxnOpen ==
    /\ txn <=> \E a \in Actors : pc[a] \in InTxn
    /\ txn => saved.store = db.store

\* How far a migration has got.
Progress ==
    /\ \A a \in Actors :
         /\ pc[a] \in Busy => target[a] \subseteq User
         /\ pc[a] = "begin" => todo[a] = Diff(db.snap, Merge(target[a]))
         /\ pc[a] = "ddl" => todo[a] = Diff(db.tables, Merge(target[a]))
         /\ pc[a] \in {"record", "commit"} \cup Landing
              => db.tables = Merge(target[a])
         /\ pc[a] = "commit" => db.snap = Merge(target[a])
    /\ pc[Boot] = "seed" => target[Boot] \subseteq User

\* Code mode has no use for the store, and only an empty one is seeded.
StoreUse ==
    /\ pc[Boot] = "load" => mode = "managed"
    /\ pc[Boot] = "seed" => mode = "managed" /\ db.store = NoStore
    /\ \A c \in Calls : pc[c] \in {"wait"} \cup Busy => mode = "managed"

\* Which config the store holds, while booting and while serving.
Stored ==
    /\ Up => live \subseteq User
    /\ mode = "managed" /\ pc[Boot] \in Migrating => db.store = target[Boot]
    /\ mode = "managed" /\ Up =>
         /\ \A c \in Calls : pc[c] = "swap" => db.store = target[c]
         /\ (\A c \in Calls : pc[c] # "swap") => db.store = live

IInv == /\ TypeOK /\ Roles /\ Chained
        /\ TxnOpen /\ SchemaAtomic /\ Progress /\ StoreUse /\ Stored

-----------------------------------------------------------------------------
(* Types.                                                                  *)

\* The steps of the migrator keep the types, whichever actor runs them.
LEMMA MigratorType ==
    ASSUME SchemaAssumption, TypeOK, NEW a \in Actors, Migrator(a)
    PROVE  TypeOK'
<1> USE DEF TypeOK, requestVars, Goto, Reject, Actors, Busy, Migrating, InTxn, Landing
<1>1. CASE ReadSnapshot(a)
  <2>1. Diff(db.snap, Merge(target[a])) \in SUBSET Names
    BY DEF Databases, Diff, Merge, Names
  <2> QED  BY <1>1, <2>1 DEF ReadSnapshot, Migrated
<1>2. CASE Begin(a)
  BY <1>2 DEF Begin
<1>3. CASE Statement(a)
  <2> PICK e \in todo[a] :
         /\ \/ e \in Merge(target[a]) /\ CreateTable(e)
            \/ e \notin Merge(target[a]) /\ DropTable(e)
         /\ todo' = [todo EXCEPT ![a] = @ \ {e}]
         /\ Goto(a, IF todo[a] = {e} THEN "record" ELSE "ddl")
    BY <1>3 DEF Statement
  <2>1. CASE CreateTable(e)
    <3>1. e \in Names
      OBVIOUS
    <3>2. db' \in Databases
      BY <2>1, <3>1 DEF CreateTable, Databases
    <3> QED  BY <1>3, <3>2 DEF Statement
  <2>2. CASE DropTable(e)
    <3>1. db' \in Databases
      BY <2>2 DEF DropTable, Databases
    <3> QED  BY <1>3, <3>1 DEF Statement
  <2> QED  BY <2>1, <2>2
<1>4. CASE RecordSnapshot(a)
  <2>1. db' \in Databases
    BY <1>4 DEF RecordSnapshot, Databases, Merge, Names
  <2> QED  BY <1>4, <2>1 DEF RecordSnapshot
<1>5. CASE Commit(a)
  BY <1>5 DEF Commit, Migrated
<1>6. CASE FailInside(a)
  BY <1>6 DEF FailInside
<1>7. CASE Rollback(a)
  BY <1>7 DEF Rollback, Committed
<1>8. CASE FailOutside(a)
  BY <1>8 DEF FailOutside
<1> QED  BY <1>1, <1>2, <1>3, <1>4, <1>5, <1>6, <1>7, <1>8 DEF Migrator

\* Every step keeps the types; the store is written with a config that has
\* been through the collision check, so it holds no plugin entity.
LEMMA TypeStep ==
    ASSUME SchemaAssumption, TypeOK, Roles, Progress, [Next]_vars
    PROVE  TypeOK'
<1> USE DEF TypeOK, requestVars, Goto, Reject, Actors, Busy, Migrating, InTxn, Landing
<1>1. ASSUME NEW cfg \in Configs, BootCode(cfg) \/ BootManaged(cfg)
      PROVE  TypeOK'
  BY <1>1 DEF BootCode, BootManaged, SchemaAssumption
<1>2. ASSUME NEW cfg \in Configs, NEW c \in Calls, ApplySchema(c, cfg) \/ PostSchema(c, cfg)
      PROVE  TypeOK'
  <2>1. cfg \in SUBSET Names /\ cfg \ Plugin \in SUBSET Names
    BY DEF SchemaAssumption
  <2>2. Append(chain, c) \in Seq(Calls)
    OBVIOUS
  <2>3. ASSUME NEW to \in SUBSET Names, Enqueue(c, to)
        PROVE  TypeOK'
    BY <2>2, <2>3 DEF Enqueue
  <2>4. ASSUME NEW why \in {"malformed", "not_managed"}, Refuse(c, why)
        PROVE  TypeOK'
    BY <2>4 DEF Refuse
  <2> QED
    BY <1>2, <2>1, <2>3, <2>4 DEF ApplySchema, PostSchema
<1>3. CASE LoadNothing
  BY <1>3 DEF LoadNothing
<1>4. CASE LoadStored
  BY <1>4 DEF LoadStored, Databases, Names
<1>5. CASE Seed
  <2>1. db' \in Databases
    BY <1>5 DEF Seed, Databases, Progress
  <2> QED  BY <1>5, <2>1 DEF Seed
<1>6. ASSUME NEW c \in Calls, Start(c)
      PROVE  TypeOK'
  BY <1>6 DEF Start
<1>7. ASSUME NEW c \in Calls, WriteStore(c)
      PROVE  TypeOK'
  <2>1. db' \in Databases
    BY <1>7 DEF WriteStore, Databases, Progress
  <2> QED  BY <1>7, <2>1 DEF WriteStore
<1>8. ASSUME NEW c \in Calls, StoreFails(c) \/ Swap(c)
      PROVE  TypeOK'
  BY <1>8 DEF StoreFails, Swap
<1>9. ASSUME NEW a \in Actors, Migrator(a)
      PROVE  TypeOK'
  BY <1>9, MigratorType
<1>10. ASSUME NEW r \in Requests, Accept(r) \/ RequestStep(r)
       PROVE  TypeOK'
  <2>1. CASE Insert(r)
    <3>1. db.rows \cup {r} \in SUBSET Requests
      BY DEF Databases
    <3>2. [db EXCEPT !.rows = @ \cup {r}] \in Databases
      BY <3>1 DEF Databases
    <3> QED  BY <2>1, <3>2 DEF Insert
  <2>2. CASE Accept(r) \/ InsertFails(r) \/ Acknowledge(r)
    BY <2>2 DEF Accept, InsertFails, Acknowledge
  <2> QED
    BY <1>10, <2>1, <2>2 DEF RequestStep
<1>11. CASE Crash
  <2>1. db' \in Databases /\ saved' \in Databases
    BY <1>11 DEF Crash, Committed
  <2>2. pc' \in [Actors -> {"idle", "load", "seed", "wait", "done", "up"} \cup Busy]
    BY <1>11 DEF Crash
  <2>3. outcome' \in [Calls -> {"none", "not_managed", "malformed", "failed",
                                "alarm", "ok", "lost"}]
    BY <1>11 DEF Crash
  <2>4. rpc' \in [Requests -> {"idle", "accepted", "inserted", "acked", "failed", "lost"}]
    BY <1>11 DEF Crash
  <2>5. <<>> \in Seq(Calls)
    OBVIOUS
  <2> QED  BY <1>11, <2>1, <2>2, <2>3, <2>4, <2>5 DEF Crash
<1>12. CASE UNCHANGED vars
  BY <1>12 DEF vars, Databases
<1> QED
  BY <1>1, <1>2, <1>3, <1>4, <1>5, <1>6, <1>7, <1>8, <1>9, <1>10, <1>11, <1>12
     DEF Next, BootStep, CallStep

-----------------------------------------------------------------------------
\* A deployment keeps its mode: no step of a migration changes it.
LEMMA MigratorMode == ASSUME NEW a, Migrator(a) PROVE mode' = mode
  BY DEF Migrator, ReadSnapshot, Begin, Statement, RecordSnapshot, Commit, FailInside,
     Rollback, FailOutside

\* Nor does any other.
LEMMA ModeStays == ASSUME [Next]_vars PROVE mode' = mode
<1>1. ASSUME NEW cfg, NEW c,
             BootCode(cfg) \/ BootManaged(cfg) \/ ApplySchema(c, cfg) \/ PostSchema(c, cfg)
      PROVE  mode' = mode
  BY <1>1 DEF BootCode, BootManaged, ApplySchema, PostSchema, Enqueue, Refuse
<1>2. BootStep => mode' = mode
  BY MigratorMode DEF BootStep, LoadNothing, LoadStored, Seed
<1>3. ASSUME NEW c, CallStep(c) PROVE mode' = mode
  BY <1>3, MigratorMode DEF CallStep, Start, WriteStore, StoreFails, Swap
<1>4. ASSUME NEW r, Accept(r) \/ RequestStep(r) PROVE mode' = mode
  BY <1>4 DEF Accept, RequestStep, Insert, InsertFails, Acknowledge
<1> QED  BY <1>1, <1>2, <1>3, <1>4 DEF Next, Crash, vars

-----------------------------------------------------------------------------
(* The mutex.                                                              *)

\* How a step can move the actors, for the arguments that need no more.
CallMoves(c, from, to) ==
    /\ pc[c] \in from
    /\ \E w \in to : pc' = [pc EXCEPT ![c] = w]

Moves ==
    \/ UNCHANGED <<pc, chain>>
    \/ CallMoves(Boot, {"idle"}, {"load"}) /\ mode = "managed" /\ chain' = chain
    \/ CallMoves(Boot, {"load"}, {"seed"}) /\ db'.store = NoStore /\ chain' = chain
    \/ CallMoves(Boot, {"idle", "load", "seed"} \cup Migrating,
                 {"idle", "up"} \cup Migrating) /\ chain' = chain
    \/ \E c \in Calls : /\ CallMoves(c, {"idle"}, {"wait"}) /\ chain' = Append(chain, c)
                        /\ Up /\ mode = "managed"
    \/ \E c \in Calls : CallMoves(c, {"idle"}, {"done"}) /\ chain' = chain
    \/ \E c \in Calls : CallMoves(c, {"wait"}, {"done", "snapshot"}) /\ Turn(c) /\ chain' = chain
    \/ \E c \in Calls : CallMoves(c, Busy, {"done"} \cup Busy) /\ chain' = chain
    \/ /\ pc' = [a \in Actors |-> IF a = Boot \/ pc[a] = "idle" THEN "idle" ELSE "done"]
       /\ chain' = <<>>

\* The steps of the migrator move its own actor only.
LEMMA MigratorMoves ==
    ASSUME SchemaAssumption, TypeOK, Roles, NEW a \in Actors, Migrator(a)
    PROVE  Moves
<1>1. /\ chain' = chain
      /\ \/ a = Boot /\ CallMoves(a, {"load", "seed"} \cup Migrating, {"idle", "up"} \cup Migrating)
         \/ a \in Calls /\ CallMoves(a, Busy, {"done"} \cup Busy)
  <2> USE DEF Migrating, InTxn, Busy, Landing, Goto, CallMoves, Actors, Roles, SchemaAssumption
  <2>1. CASE ReadSnapshot(a)
    BY <2>1 DEF ReadSnapshot, Reject, Migrated
  <2>2. CASE Begin(a) \/ RecordSnapshot(a) \/ Commit(a)
    BY <2>2 DEF Begin, RecordSnapshot, Commit, Migrated
  <2>3. CASE Statement(a)
    BY <2>3 DEF Statement
  <2>4. CASE FailInside(a) \/ Rollback(a) \/ FailOutside(a)
    BY <2>4 DEF FailInside, Rollback, FailOutside, Reject
  <2> QED  BY <2>1, <2>2, <2>3, <2>4 DEF Migrator
<1> QED  BY <1>1 DEF Moves, CallMoves

\* Every step moves the actors in one of the ways Moves lists.
LEMMA NextMoves ==
    ASSUME SchemaAssumption, TypeOK, Roles, [Next]_vars
    PROVE  Moves
<1>1. ASSUME NEW cfg \in Configs, BootCode(cfg) \/ BootManaged(cfg)
      PROVE  Moves
  BY <1>1 DEF BootCode, BootManaged, Goto, Moves, CallMoves, Migrating
<1>2. ASSUME NEW cfg \in Configs, NEW c \in Calls, ApplySchema(c, cfg) \/ PostSchema(c, cfg)
      PROVE  Moves
  BY <1>2 DEF ApplySchema, PostSchema, Enqueue, Refuse, Goto, Moves, CallMoves
<1>3. CASE LoadNothing \/ LoadStored \/ Seed
  BY <1>3 DEF LoadNothing, LoadStored, Seed, Goto, Moves, CallMoves, Migrating
<1>4. ASSUME NEW c \in Calls, Start(c)
      PROVE  Moves
  <2>1. c # Boot
    BY DEF SchemaAssumption
  <2> QED  BY <1>4, <2>1 DEF Start, Reject, Goto, Moves, CallMoves
<1>5. ASSUME NEW c \in Calls, WriteStore(c) \/ StoreFails(c) \/ Swap(c)
      PROVE  Moves
  BY <1>5 DEF WriteStore, StoreFails, Swap, Goto, Moves, CallMoves, Busy, Landing
<1>6. ASSUME NEW a \in Actors, Migrator(a)
      PROVE  Moves
  BY <1>6, MigratorMoves
<1>7. ASSUME NEW r \in Requests, Accept(r) \/ RequestStep(r)
      PROVE  Moves
  BY <1>7 DEF Accept, RequestStep, Insert, InsertFails, Acknowledge, Moves
<1>8. CASE Crash
  BY <1>8 DEF Crash, Moves
<1>9. CASE UNCHANGED vars
  BY <1>9 DEF vars, Moves
<1> QED
  BY <1>1, <1>2, <1>3, <1>4, <1>5, <1>6, <1>7, <1>8, <1>9
     DEF Next, BootStep, CallStep, Actors

\* A call that runs is alone, and the process is up: two calls that both run
\* stand at two places of the chain, and the one behind has not started.
LEMMA Exclusive ==
    ASSUME SchemaAssumption, TypeOK, Roles, Chained
    PROVE  OneMigration
<1>1. ASSUME NEW c \in Calls, NEW d \in Calls, pc[c] \in Busy, pc[d] \in Busy
      PROVE  c = d
  <2>1. PICK i \in 1..Len(chain) : chain[i] = c
    BY <1>1 DEF Chained
  <2>2. PICK j \in 1..Len(chain) : chain[j] = d
    BY <1>1 DEF Chained
  <2>3. Len(chain) \in Nat
    BY DEF TypeOK
  <2>4. ~(i < j) /\ ~(j < i)
    BY <1>1, <2>1, <2>2 DEF Chained, Busy, Migrating, InTxn, Landing
  <2> QED  BY <2>1, <2>2, <2>3, <2>4
<1>2. ASSUME NEW c \in Calls, pc[c] \in Busy
      PROVE  Up /\ pc[Boot] \notin Busy
  BY <1>2 DEF Roles, Up, Busy, Migrating, InTxn, Landing
<1> QED  BY <1>1, <1>2 DEF OneMigration, Actors

\* The boot and the calls stay where Roles says they can be.
LEMMA RolesStep ==
    ASSUME SchemaAssumption, TypeOK, Roles, Chained, Moves
    PROVE  Roles'
<1> USE DEF Roles, Up, TypeOK, Actors, CallMoves, SchemaAssumption
<1>1. CASE UNCHANGED <<pc, chain>>
  BY <1>1
<1>2. CASE CallMoves(Boot, {"idle", "load", "seed"} \cup Migrating,
                     {"idle", "load", "seed", "up"} \cup Migrating)
  BY <1>2 DEF Busy, Migrating, InTxn, Landing
<1>3. CASE \E c \in Calls : CallMoves(c, {"idle"}, {"wait"}) /\ Up
  BY <1>3
<1>4. CASE \E c \in Calls : CallMoves(c, {"idle"}, {"done"})
  BY <1>4 DEF Busy, Migrating, InTxn, Landing
<1>5. CASE \E c \in Calls : CallMoves(c, {"wait"}, {"done", "snapshot"})
  BY <1>5 DEF Busy, Migrating
<1>6. CASE \E c \in Calls : CallMoves(c, Busy, {"done"} \cup Busy)
  BY <1>6
<1>7. CASE pc' = [a \in Actors |-> IF a = Boot \/ pc[a] = "idle" THEN "idle" ELSE "done"]
  BY <1>7 DEF Busy, Migrating, InTxn, Landing
<1> QED  BY <1>1, <1>2, <1>3, <1>4, <1>5, <1>6, <1>7 DEF Moves, CallMoves

\* The promise chain keeps its order: a call that runs stands behind settled
\* calls only.
LEMMA ChainedStep ==
    ASSUME SchemaAssumption, TypeOK, Roles, Chained, Moves
    PROVE  Chained'
<1> USE DEF TypeOK, Actors, SchemaAssumption
<1>0. /\ Len(chain) \in Nat
      /\ \A i \in 1..Len(chain) : chain[i] \in Calls
      /\ "done" \notin Busy /\ "wait" \notin Busy /\ "idle" \notin Busy /\ "snapshot" \in Busy
  BY DEF Busy, Migrating, InTxn, Landing
<1>1. CASE UNCHANGED <<pc, chain>>
  BY <1>1 DEF Chained
<1>2. CASE CallMoves(Boot, {"idle", "load", "seed"} \cup Migrating,
                     {"idle", "load", "seed", "up"} \cup Migrating) /\ chain' = chain
  <2>1. \A c \in Calls : pc'[c] = pc[c]
    BY <1>2 DEF CallMoves
  <2> QED  BY <1>0, <1>2, <2>1 DEF Chained
<1>3. CASE \E c \in Calls : CallMoves(c, {"idle"}, {"wait"}) /\ chain' = Append(chain, c)
  <2> PICK c \in Calls : CallMoves(c, {"idle"}, {"wait"}) /\ chain' = Append(chain, c)
    BY <1>3
  <2>1. pc[c] = "idle" /\ pc'[c] = "wait" /\ \A d \in Calls \ {c} : pc'[d] = pc[d]
    BY DEF CallMoves
  <2>2. /\ Len(chain') = Len(chain) + 1
        /\ chain'[Len(chain) + 1] = c
        /\ \A i \in 1..Len(chain) : chain'[i] = chain[i]
    OBVIOUS
  <2>3. \A i \in 1..Len(chain) : chain[i] # c
    BY <2>1 DEF Chained
  <2>4. \A d \in Calls : pc'[d] \in {"wait"} \cup Busy
                           => \E i \in 1..Len(chain') : chain'[i] = d
    BY <1>0, <2>1, <2>2 DEF Chained
  <2>5. \A i \in 1..Len(chain') : pc'[chain'[i]] # "idle"
    BY <1>0, <2>1, <2>2, <2>3 DEF Chained
  <2>6. \A i, j \in 1..Len(chain') : i # j => chain'[i] # chain'[j]
    BY <1>0, <2>2, <2>3 DEF Chained
  <2>7. \A i, j \in 1..Len(chain') :
           i < j /\ pc'[chain'[j]] \in {"done"} \cup Busy => pc'[chain'[i]] = "done"
    BY <1>0, <2>1, <2>2, <2>3 DEF Chained
  <2> QED  BY <2>4, <2>5, <2>6, <2>7 DEF Chained
<1>4. CASE \E c \in Calls : CallMoves(c, {"idle"}, {"done"}) /\ chain' = chain
  <2> PICK c \in Calls : CallMoves(c, {"idle"}, {"done"}) /\ chain' = chain
    BY <1>4
  <2>1. pc[c] = "idle" /\ pc'[c] = "done" /\ \A d \in Calls \ {c} : pc'[d] = pc[d]
    BY DEF CallMoves
  <2>2. \A i \in 1..Len(chain) : chain[i] # c
    BY <2>1 DEF Chained
  <2> QED  BY <1>0, <2>1, <2>2 DEF Chained
<1>5. CASE \E c \in Calls : CallMoves(c, {"wait"}, {"done", "snapshot"}) /\ Turn(c) /\ chain' = chain
  <2> PICK c \in Calls : CallMoves(c, {"wait"}, {"done", "snapshot"}) /\ Turn(c) /\ chain' = chain
    BY <1>5
  <2>1. /\ pc[c] = "wait" /\ pc'[c] \in {"done", "snapshot"}
        /\ \A d \in Calls \ {c} : pc'[d] = pc[d]
    BY DEF CallMoves
  <2>2. PICK k \in 1..Len(chain) : chain[k] = c /\ (k > 1 => pc[chain[k - 1]] = "done")
    BY DEF Turn
  <2>3. \A i \in 1..Len(chain) : i < k => pc[chain[i]] = "done"
    BY <1>0, <2>2 DEF Chained
  <2>4. \A i, j \in 1..Len(chain) :
           i < j /\ pc'[chain[j]] \in {"done"} \cup Busy => pc'[chain[i]] = "done"
    <3> SUFFICES ASSUME NEW i \in 1..Len(chain), NEW j \in 1..Len(chain),
                        i < j, pc'[chain[j]] \in {"done"} \cup Busy
                 PROVE  pc'[chain[i]] = "done"
      OBVIOUS
    <3>1. CASE chain[j] = c
      BY <1>0, <2>1, <2>2, <2>3, <3>1 DEF Chained
    <3>2. CASE chain[j] # c
      <4>1. pc[chain[i]] = "done"
        BY <1>0, <2>1, <3>2 DEF Chained
      <4> QED  BY <1>0, <2>1, <4>1
    <3> QED  BY <3>1, <3>2
  <2>5. \A d \in Calls : pc'[d] \in {"wait"} \cup Busy => \E i \in 1..Len(chain) : chain[i] = d
    BY <1>0, <2>1 DEF Chained
  <2>6. \A i \in 1..Len(chain) : pc'[chain[i]] # "idle"
    BY <1>0, <2>1 DEF Chained
  <2> QED  BY <2>4, <2>5, <2>6 DEF Chained
<1>6. CASE \E c \in Calls : CallMoves(c, Busy, {"done"} \cup Busy) /\ chain' = chain
  <2> PICK c \in Calls : CallMoves(c, Busy, {"done"} \cup Busy) /\ chain' = chain
    BY <1>6
  <2>1. /\ pc[c] \in Busy /\ pc'[c] \in {"done"} \cup Busy
        /\ \A d \in Calls \ {c} : pc'[d] = pc[d]
    BY DEF CallMoves
  <2>2. \A i, j \in 1..Len(chain) :
           i < j /\ pc'[chain[j]] \in {"done"} \cup Busy => pc'[chain[i]] = "done"
    BY <1>0, <2>1 DEF Chained
  <2>3. \A d \in Calls : pc'[d] \in {"wait"} \cup Busy => \E i \in 1..Len(chain) : chain[i] = d
    BY <1>0, <2>1 DEF Chained
  <2>4. \A i \in 1..Len(chain) : pc'[chain[i]] # "idle"
    BY <1>0, <2>1 DEF Chained
  <2> QED  BY <2>2, <2>3, <2>4 DEF Chained
<1>7. CASE /\ pc' = [a \in Actors |-> IF a = Boot \/ pc[a] = "idle" THEN "idle" ELSE "done"]
           /\ chain' = <<>>
  <2>1. \A c \in Calls : pc'[c] \in {"idle", "done"}
    BY <1>7
  <2>2. Len(chain') = 0
    BY <1>7
  <2> QED  BY <1>0, <2>1, <2>2 DEF Chained
<1> QED  BY <1>1, <1>2, <1>3, <1>4, <1>5, <1>6, <1>7 DEF Moves, CallMoves

-----------------------------------------------------------------------------
(* The database, the migration under way, and the store.                   *)

Core == TxnOpen /\ SchemaAtomic /\ Progress /\ Stored

\* What is known of a running migrator: nobody else runs.
LEMMA Alone ==
    ASSUME SchemaAssumption, IInv, NEW a \in Actors, pc[a] \in Busy
    PROVE  /\ \A b \in Actors \ {a} : pc[b] \notin Busy
           /\ a # Boot => Up
           /\ a = Boot => ~Up
           /\ pc[Boot] # "seed"
           /\ txn <=> pc[a] \in InTxn
<1>1. OneMigration
  BY Exclusive DEF IInv
<1>2. \A b \in Actors \ {a} : pc[b] \notin Busy
  BY <1>1 DEF OneMigration
<1>3. a # Boot => Up
  BY <1>1 DEF OneMigration, Actors
<1>4. txn <=> pc[a] \in InTxn
  BY <1>2 DEF IInv, TxnOpen, Busy, Migrating
<1> QED  BY <1>2, <1>3, <1>4 DEF Up, Busy, Migrating, InTxn, Landing

\* No statement is left exactly when the two schemas are the same.
LEMMA NoDiff ==
    ASSUME NEW A \in SUBSET Names, NEW B \in SUBSET Names, Diff(A, B) = {}
    PROVE  A = B
<1>1. A \subseteq B /\ B \subseteq A
  BY DEF Diff
<1> QED  BY <1>1

\* The steps of the migrator keep the transaction, the tables and the store in
\* the relation that Core states.
LEMMA MigratorCore ==
    ASSUME SchemaAssumption, IInv, NEW a \in Actors, Migrator(a)
    PROVE  Core'
<1> USE DEF Goto, Reject, requestVars, Up
<1>1. TypeOK /\ TxnOpen /\ SchemaAtomic /\ Progress /\ Stored /\ Roles
  BY DEF IInv
<1>2. CASE pc[a] \in {"load", "seed"}
  <2>1. a = Boot /\ FailOutside(a)
    BY <1>1, <1>2 DEF Roles, Busy, Migrating, InTxn, Landing, Actors, Migrator,
       ReadSnapshot, Begin, Statement, RecordSnapshot, Commit, FailInside, Rollback
  <2>2. /\ pc' = [pc EXCEPT ![Boot] = "idle"]
        /\ UNCHANGED <<db, saved, txn, target, todo, live>>
    BY <2>1 DEF FailOutside
  <2>3. \A b \in Actors : pc[b] \notin Busy /\ pc'[b] \notin Busy
    BY <1>1, <1>2, <2>1, <2>2 DEF Roles, TypeOK, Actors, Busy, Migrating, InTxn, Landing
  <2>4. pc'[Boot] = "idle"
    BY <1>1, <2>2 DEF TypeOK, Actors
  <2> QED
    BY <1>1, <2>2, <2>3, <2>4 DEF Core, TxnOpen, SchemaAtomic, Committed, Progress, Stored,
       Busy, Migrating, InTxn, Landing, Actors
<1>3. CASE pc[a] \in Busy
  <2>1. /\ \A b \in Actors \ {a} : pc[b] \notin Busy
        /\ a # Boot => Up
        /\ a = Boot => ~Up
        /\ pc[Boot] # "seed"
        /\ txn <=> pc[a] \in InTxn
    BY <1>3, Alone
  <2>2. /\ db \in Databases /\ saved \in Databases
        /\ target[a] \in SUBSET Names /\ target[a] \subseteq User
    BY <1>1, <1>3 DEF TypeOK, Progress
  <2> DEFINE w == pc'[a]
  <2>3. ASSUME pc' = [pc EXCEPT ![a] = w], w \notin {"seed", "load"},
               w = "up" => a = Boot, a = Boot => w \notin Landing,
               target' = target, todo' = [todo EXCEPT ![a] = todo'[a]],
               txn' <=> w \in InTxn,
               txn' => saved'.store = db'.store,
               SchemaAtomic',
               w = "begin" => todo'[a] = Diff(db'.snap, Merge(target[a])),
               w = "ddl" => todo'[a] = Diff(db'.tables, Merge(target[a])),
               w \in {"record", "commit"} \cup Landing => db'.tables = Merge(target[a]),
               w = "commit" => db'.snap = Merge(target[a]),
               db'.store = db.store,
               a # Boot => live' = live /\ w # "swap",
               w = "up" => live' = target[a]
        PROVE  Core'
    <3>1. pc'[a] = w /\ \A b \in Actors \ {a} : pc'[b] = pc[b] /\ todo'[b] = todo[b]
      BY <1>1, <2>3 DEF TypeOK
    <3>2. TxnOpen'
      BY <2>1, <2>3, <3>1 DEF TxnOpen, Busy, Migrating
    <3>3. Progress'
      <4>1. ASSUME NEW b \in Actors
            PROVE  /\ pc'[b] \in Busy => target'[b] \subseteq User
                   /\ pc'[b] = "begin" => todo'[b] = Diff(db'.snap, Merge(target'[b]))
                   /\ pc'[b] = "ddl" => todo'[b] = Diff(db'.tables, Merge(target'[b]))
                   /\ pc'[b] \in {"record", "commit"} \cup Landing
                        => db'.tables = Merge(target'[b])
                   /\ pc'[b] = "commit" => db'.snap = Merge(target'[b])
        <5>1. CASE b = a
          BY <2>2, <2>3, <3>1, <5>1
        <5>2. CASE b # a
          BY <2>1, <2>3, <3>1, <5>2 DEF Busy, Migrating, InTxn
        <5> QED  BY <5>1, <5>2
      <4>2. pc'[Boot] # "seed"
        BY <2>1, <2>3, <3>1 DEF Actors
      <4> QED  BY <4>1, <4>2 DEF Progress
    <3>4. Stored'
      <4>1. CASE a = Boot
        <5>1. \A c \in Calls : pc'[c] # "swap"
          BY <2>1, <3>1, <4>1 DEF SchemaAssumption, Actors, Busy, Landing
        <5>2. pc[Boot] \in Migrating
          BY <1>1, <1>3, <4>1 DEF Roles, Busy, Migrating, InTxn, Landing
        <5>3. mode = "managed" => db.store = target[Boot]
          BY <1>1, <5>2 DEF Stored
        <5> QED  BY <2>2, <2>3, <3>1, <4>1, <5>1, <5>3, MigratorMode DEF Stored
      <4>2. CASE a # Boot
        <5>1. pc'[Boot] = "up" /\ pc[Boot] = "up"
          BY <2>1, <3>1, <4>2 DEF Actors
        <5>2. \A c \in Calls : pc'[c] # "swap" /\ (c # a => pc[c] # "swap")
          BY <2>1, <2>3, <3>1, <4>2 DEF Actors, Busy, Landing
        <5>3. pc[a] # "swap"
          BY DEF Migrator, ReadSnapshot, Begin, Statement, RecordSnapshot, Commit,
             FailInside, Rollback, FailOutside
        <5>4. \A c \in Calls : pc[c] # "swap"
          BY <5>2, <5>3
        <5> QED  BY <1>1, <2>3, <4>2, <5>1, <5>2, <5>4, MigratorMode DEF Stored, Migrating, InTxn
      <4> QED  BY <4>1, <4>2
    <3> QED  BY <2>3, <3>2, <3>3, <3>4 DEF Core
  <2>4. CASE ReadSnapshot(a)
    <3> DEFINE to == Merge(target[a])
    <3>1. ~txn /\ db.tables = db.snap
      BY <1>1, <2>1, <2>4 DEF ReadSnapshot, InTxn, SchemaAtomic, Committed
    <3>2. CASE Dangling(to) /\ Goto(a, IF a = Boot THEN "idle" ELSE "done") /\ UNCHANGED <<todo, live>>
      BY <1>1, <2>3, <2>4, <3>1, <3>2 DEF ReadSnapshot, InTxn, Landing, SchemaAtomic, Committed, TypeOK
    <3>3. CASE db.snap = to /\ Migrated(a) /\ todo' = [todo EXCEPT ![a] = Diff(db.snap, to)]
      BY <1>1, <2>3, <2>4, <3>1, <3>3 DEF ReadSnapshot, Migrated, InTxn, Landing,
         SchemaAtomic, Committed, TypeOK
    <3>4. CASE Goto(a, "begin") /\ UNCHANGED live /\ todo' = [todo EXCEPT ![a] = Diff(db.snap, to)]
      BY <1>1, <2>3, <2>4, <3>1, <3>4 DEF ReadSnapshot, InTxn, Landing,
         SchemaAtomic, Committed, TypeOK
    <3> QED  BY <2>4, <3>2, <3>3, <3>4 DEF ReadSnapshot
  <2>5. CASE Begin(a)
    <3>1. db.tables = db.snap /\ todo[a] = Diff(db.snap, Merge(target[a]))
      BY <1>1, <2>5 DEF Begin, SchemaAtomic, Committed, Progress
    <3> QED
      BY <1>1, <2>3, <2>5, <3>1 DEF Begin, InTxn, Landing, SchemaAtomic, Committed, TypeOK
  <2>6. CASE Statement(a)
    <3> PICK e \in todo[a] :
           /\ \/ e \in Merge(target[a]) /\ CreateTable(e)
              \/ e \notin Merge(target[a]) /\ DropTable(e)
           /\ todo' = [todo EXCEPT ![a] = @ \ {e}]
           /\ Goto(a, IF todo[a] = {e} THEN "record" ELSE "ddl")
      BY <2>6 DEF Statement
    <3>1. txn /\ todo[a] = Diff(db.tables, Merge(target[a])) /\ saved.tables = saved.snap
          /\ saved.store = db.store
      BY <1>1, <2>1, <2>6 DEF Statement, InTxn, SchemaAtomic, Committed, Progress, TxnOpen
    <3>2. /\ db'.store = db.store
          /\ db'.tables = IF e \in Merge(target[a]) THEN db.tables \cup {e} ELSE db.tables \ {e}
      BY <2>2 DEF CreateTable, DropTable, Databases
    <3>3. todo'[a] = Diff(db'.tables, Merge(target[a])) /\ todo'[a] = todo[a] \ {e}
      BY <1>1, <3>1, <3>2 DEF Diff, TypeOK
    <3>4. todo[a] = {e} => db'.tables = Merge(target[a])
      <4>1. db'.tables \in SUBSET Names /\ Merge(target[a]) \in SUBSET Names
        BY <2>2, <3>2 DEF Databases, Merge, Names
      <4> HIDE DEF w
      <4>2. ASSUME todo[a] = {e} PROVE Diff(db'.tables, Merge(target[a])) = {}
        BY <3>3, <4>2
      <4> QED  BY <4>1, <4>2, NoDiff
    <3>5. SchemaAtomic'
      BY <2>6, <3>1 DEF Statement, SchemaAtomic, Committed
    <3>6. /\ pc' = [pc EXCEPT ![a] = w] /\ w \in {"ddl", "record"}
          /\ w = "record" => todo[a] = {e}
          /\ todo' = [todo EXCEPT ![a] = todo'[a]]
          /\ target' = target /\ live' = live /\ txn' = txn /\ saved' = saved
      <4>1. w = IF todo[a] = {e} THEN "record" ELSE "ddl"
        BY <1>1 DEF TypeOK
      <4>2. todo' = [todo EXCEPT ![a] = todo'[a]]
        BY <1>1, <3>3 DEF TypeOK
      <4> QED  BY <2>6, <4>1, <4>2 DEF Statement
    <3>7. w \in InTxn /\ w \notin Landing /\ w \notin {"commit", "begin", "up", "seed", "load", "swap"}
      BY <3>6 DEF InTxn, Landing
    <3> QED
      BY <2>3, <3>1, <3>2, <3>3, <3>4, <3>5, <3>6, <3>7
  <2>7. CASE RecordSnapshot(a)
    <3>1. txn /\ db.tables = Merge(target[a]) /\ saved.tables = saved.snap
          /\ saved.store = db.store
      BY <1>1, <2>1, <2>7 DEF RecordSnapshot, InTxn, SchemaAtomic, Committed, Progress, TxnOpen
    <3>2. db'.store = db.store /\ db'.tables = db.tables /\ db'.snap = Merge(target[a])
      BY <2>2, <2>7 DEF RecordSnapshot, Databases
    <3> QED
      BY <1>1, <2>3, <2>7, <3>1, <3>2 DEF RecordSnapshot, InTxn, Landing,
         SchemaAtomic, Committed, TypeOK
  <2>8. CASE Commit(a)
    <3>1. db.tables = Merge(target[a]) /\ db.snap = Merge(target[a])
      BY <1>1, <2>8 DEF Commit, Progress
    <3> QED
      BY <1>1, <2>3, <2>8, <3>1 DEF Commit, Migrated, InTxn, Landing,
         SchemaAtomic, Committed, TypeOK
  <2>9. CASE FailInside(a)
    <3>1. txn /\ saved.tables = saved.snap /\ saved.store = db.store
      BY <1>1, <2>1, <2>9 DEF FailInside, InTxn, SchemaAtomic, Committed, TxnOpen
    <3> QED
      BY <1>1, <2>3, <2>9, <3>1 DEF FailInside, InTxn, Landing, SchemaAtomic, Committed, TypeOK
  <2>10. CASE Rollback(a)
    <3>1. txn /\ saved.tables = saved.snap /\ saved.store = db.store
      BY <1>1, <2>1, <2>10 DEF Rollback, InTxn, SchemaAtomic, Committed, TxnOpen
    <3> QED
      BY <1>1, <2>3, <2>10, <3>1 DEF Rollback, InTxn, Landing, SchemaAtomic, Committed, TypeOK
  <2>11. CASE FailOutside(a)
    <3>1. ~txn /\ db.tables = db.snap
      BY <1>1, <1>3, <2>1, <2>11 DEF FailOutside, InTxn, SchemaAtomic, Committed
    <3> QED
      BY <1>1, <2>3, <2>11, <3>1 DEF FailOutside, InTxn, Landing, SchemaAtomic, Committed, TypeOK
  <2> QED
    BY <2>4, <2>5, <2>6, <2>7, <2>8, <2>9, <2>10, <2>11 DEF Migrator
<1> QED  BY <1>2, <1>3 DEF Migrator, ReadSnapshot, Begin, Statement, RecordSnapshot,
       Commit, FailInside, Rollback, FailOutside, Busy, Migrating, InTxn

\* A booting process: no call runs, and no transaction is open before its
\* migration.
LEMMA BootCore ==
    ASSUME SchemaAssumption, IInv,
           \/ \E cfg \in Configs : BootCode(cfg) \/ BootManaged(cfg)
           \/ LoadNothing \/ LoadStored \/ Seed
    PROVE  Core'
<1> USE DEF Goto, requestVars, Up
<1>1. TypeOK /\ TxnOpen /\ SchemaAtomic /\ Progress /\ Stored /\ Roles
  BY DEF IInv
<1>2. pc[Boot] \in {"idle", "load", "seed"}
  BY DEF BootCode, BootManaged, LoadNothing, LoadStored, Seed
<1>3. /\ \A b \in Actors : pc[b] \notin Busy
      /\ \A c \in Calls : c # Boot
  BY <1>1, <1>2 DEF Roles, Actors, Busy, Migrating, InTxn, Landing, SchemaAssumption
<1>4. ~txn /\ db.tables = db.snap
  BY <1>1, <1>3 DEF TxnOpen, SchemaAtomic, Committed, Busy, Migrating
<1>5. /\ \A c \in Calls : pc'[c] = pc[c] /\ target'[c] = target[c]
      /\ pc'[Boot] \in {"idle", "load", "seed", "snapshot"}
      /\ UNCHANGED <<saved, txn, todo, live, mode>>
  BY <1>1, <1>3 DEF BootCode, BootManaged, LoadNothing, LoadStored, Seed, TypeOK, Actors
<1>6. /\ db'.tables = db.tables /\ db'.snap = db.snap
      /\ \A b \in Actors : pc'[b] \notin InTxn \cup Landing \cup {"begin"}
  BY <1>1, <1>3, <1>5
     DEF BootCode, BootManaged, LoadNothing, LoadStored, Seed, TypeOK, Databases, Actors,
         Busy, Migrating, InTxn, Landing
<1>7. pc'[Boot] \in {"seed", "snapshot"} => target'[Boot] \subseteq User
  <2>1. CASE \E cfg \in Configs : BootCode(cfg)
    BY <1>1, <2>1 DEF BootCode, Rejected, Collides, SchemaAssumption, Names, TypeOK, Actors
  <2>2. CASE \E cfg \in Configs : BootManaged(cfg)
    BY <1>1, <2>2 DEF BootManaged, TypeOK, Actors
  <2>3. CASE LoadNothing
    BY <1>1, <2>3 DEF LoadNothing, Rejected, Collides, Names, TypeOK, Actors
  <2>4. CASE LoadStored
    <3>1. db.store \in SUBSET User
      BY <1>1, <2>4 DEF LoadStored, TypeOK, Databases
    <3> QED  BY <1>1, <2>4, <3>1 DEF LoadStored, TypeOK, Actors
  <2>5. CASE Seed
    BY <1>1, <2>5 DEF Seed, Progress, TypeOK, Actors
  <2> QED  BY <2>1, <2>2, <2>3, <2>4, <2>5
<1>8. mode = "managed" /\ pc'[Boot] = "snapshot" => db'.store = target'[Boot]
  BY <1>1 DEF BootCode, BootManaged, LoadNothing, LoadStored, Seed, TypeOK, Databases, Actors
<1>9. TxnOpen' /\ SchemaAtomic'
  BY <1>4, <1>5, <1>6 DEF TxnOpen, SchemaAtomic, Committed
<1>10. Progress'
  <2>1. ASSUME NEW b \in Actors, pc'[b] \in Busy
        PROVE  b = Boot /\ pc'[Boot] = "snapshot"
    BY <1>3, <1>5, <2>1 DEF Actors, Busy, Migrating, InTxn, Landing
  <2>2. \A b \in Actors : pc'[b] \in Busy => target'[b] \subseteq User
    BY <1>7, <2>1
  <2> QED  BY <1>6, <1>7, <2>2 DEF Progress, InTxn
<1>11. Stored'
  BY <1>5, <1>8 DEF Stored, Migrating, InTxn
<1> QED  BY <1>9, <1>10, <1>11 DEF Core

\* A call that is made, waits or is refused; the store write; the swap.
LEMMA CallCore ==
    ASSUME SchemaAssumption, IInv, NEW c \in Calls,
           \/ \E cfg \in Configs : ApplySchema(c, cfg) \/ PostSchema(c, cfg)
           \/ Start(c) \/ WriteStore(c) \/ StoreFails(c) \/ Swap(c)
    PROVE  Core'
<1> USE DEF Goto, requestVars, Up, Reject
<1>1. TypeOK /\ TxnOpen /\ SchemaAtomic /\ Progress /\ Stored /\ Roles
  BY DEF IInv
<1>2. c \in Actors /\ c # Boot /\ pc'[Boot] = pc[Boot] /\ target'[Boot] = target[Boot]
  BY <1>1 DEF TypeOK, Actors, SchemaAssumption, ApplySchema, PostSchema, Enqueue, Refuse,
     Start, WriteStore, StoreFails, Swap
<1>3. CASE \/ \E cfg \in Configs : ApplySchema(c, cfg) \/ PostSchema(c, cfg)
           \/ Start(c)
  <2>1. /\ pc[c] \in {"idle", "wait"} /\ pc'[c] \in {"wait", "done", "snapshot"}
        /\ pc'[c] = "snapshot" => target'[c] \subseteq User
        /\ \A b \in Actors \ {c} : pc'[b] = pc[b] /\ target'[b] = target[b]
        /\ UNCHANGED <<db, saved, txn, todo, live, mode>>
    BY <1>1, <1>2, <1>3 DEF TypeOK, ApplySchema, PostSchema, Enqueue, Refuse, Start,
       Rejected, Collides, Names
  <2>2. TxnOpen' /\ SchemaAtomic'
    BY <1>1, <2>1 DEF TxnOpen, InTxn, SchemaAtomic, Committed
  <2>3. Progress'
    BY <1>1, <1>2, <2>1 DEF Progress, Busy, Migrating, InTxn, Landing
  <2>4. Stored'
    BY <1>1, <1>2, <2>1 DEF Stored, Actors
  <2> QED  BY <2>2, <2>3, <2>4 DEF Core
<1>4. CASE WriteStore(c) \/ StoreFails(c) \/ Swap(c)
  <2>1. pc[c] \in Landing /\ pc[c] \in Busy
    BY <1>4 DEF WriteStore, StoreFails, Swap, Busy, Landing
  <2>2. /\ \A b \in Actors \ {c} : pc[b] \notin Busy
        /\ Up /\ ~txn
    BY <1>2, <2>1, Alone DEF Landing, InTxn
  <2>3. /\ \A b \in Actors \ {c} : pc'[b] = pc[b]
        /\ UNCHANGED <<saved, txn, todo, target>>
        /\ db'.tables = db.tables /\ db'.snap = db.snap
    BY <1>1, <1>4 DEF TypeOK, Databases, WriteStore, StoreFails, Swap
  <2>4. TxnOpen' /\ SchemaAtomic'
    <3>1. \A b \in Actors : pc'[b] \notin InTxn
      BY <1>1, <1>2, <1>4, <2>2, <2>3 DEF TypeOK, WriteStore, StoreFails, Swap,
         Busy, Migrating, InTxn
    <3> QED  BY <1>1, <2>2, <2>3, <3>1 DEF TxnOpen, SchemaAtomic, Committed
  <2>5. Progress'
    <3>1. /\ target[c] \subseteq User /\ db.tables = Merge(target[c])
          /\ pc'[c] \in {"swap", "done"}
      BY <1>1, <1>2, <1>4, <2>1 DEF Progress, TypeOK, WriteStore, StoreFails, Swap
    <3>2. \A b \in Actors \ {c} : pc'[b] \notin Busy
      BY <2>2, <2>3
    <3>3. pc'[Boot] # "seed"
      BY <1>2, <2>2
    <3> QED
      BY <2>3, <3>1, <3>2, <3>3 DEF Progress, Busy, Migrating, InTxn, Landing
  <2>6. Stored'
    <3>1. target[c] \subseteq User
      BY <1>1, <1>2, <2>1 DEF Progress
    <3>2. \A d \in Calls \ {c} : pc[d] # "swap" /\ pc'[d] # "swap"
      BY <2>2, <2>3 DEF Actors, Busy, Landing
    <3>3. pc'[Boot] \notin Migrating /\ pc[Boot] = "up" /\ pc'[Boot] = "up"
      BY <1>2, <2>2 DEF Migrating, InTxn
    <3>4. CASE WriteStore(c)
      BY <1>1, <1>2, <2>3, <3>1, <3>2, <3>3, <3>4 DEF WriteStore, Stored, TypeOK, Databases
    <3>5. CASE StoreFails(c)
      BY <1>1, <1>2, <2>3, <3>1, <3>2, <3>3, <3>5 DEF StoreFails, Stored, TypeOK
    <3>6. CASE Swap(c)
      BY <1>1, <1>2, <2>3, <3>1, <3>2, <3>3, <3>6 DEF Swap, Stored, TypeOK
    <3> QED  BY <1>4, <3>4, <3>5, <3>6
  <2> QED  BY <2>4, <2>5, <2>6 DEF Core
<1> QED  BY <1>3, <1>4

\* Requests only add rows.
LEMMA RequestCore ==
    ASSUME SchemaAssumption, IInv, NEW r \in Requests, Accept(r) \/ RequestStep(r)
    PROVE  Core'
<1>1. TypeOK /\ TxnOpen /\ SchemaAtomic /\ Progress /\ Stored
  BY DEF IInv
<1>2. /\ db'.tables = db.tables /\ db'.snap = db.snap /\ db'.store = db.store
      /\ UNCHANGED <<saved, txn, pc, target, todo, live, mode>>
  BY <1>1 DEF Accept, RequestStep, Insert, InsertFails, Acknowledge, TypeOK, Databases
<1> QED
  BY <1>1, <1>2 DEF Core, TxnOpen, SchemaAtomic, Committed, Progress, Stored, Up

\* A crash rolls back what is not committed and so keeps Core.
LEMMA CrashCore ==
    ASSUME SchemaAssumption, IInv, Crash
    PROVE  Core'
<1>1. TypeOK /\ TxnOpen /\ SchemaAtomic /\ Progress /\ Stored
  BY DEF IInv
<1>2. pc'[Boot] = "idle" /\ \A a \in Actors : pc'[a] \in {"idle", "done"}
  BY <1>1 DEF Crash, Actors
<1>3. db' = Committed /\ txn' = FALSE /\ saved' = Committed /\ target' = target /\ mode' = mode
  BY DEF Crash
<1> QED
  BY <1>1, <1>2, <1>3 DEF Core, TxnOpen, SchemaAtomic, Committed, Progress, Stored, Up,
     Busy, Migrating, InTxn, Landing

\* The store is used in managed mode only, and seeded only when empty.
LEMMA StoreUseStep ==
    ASSUME SchemaAssumption, IInv, [Next]_vars
    PROVE  StoreUse'
<1> USE DEF StoreUse
<1>1. TypeOK /\ StoreUse /\ Roles
  BY DEF IInv
<1>2. Moves
  BY NextMoves DEF IInv
<1>3. ASSUME NEW c \in Calls, pc'[c] \in {"wait"} \cup Busy
      PROVE  mode = "managed"
  <2>1. pc[c] \in {"wait"} \cup Busy \/ mode = "managed"
    BY <1>1, <1>2, <1>3 DEF Moves, CallMoves, TypeOK, Actors, SchemaAssumption,
       Busy, Migrating, InTxn, Landing
  <2> QED  BY <1>1, <2>1
<1>4. pc'[Boot] = "load" => mode = "managed"
  BY <1>1, <1>2 DEF Moves, CallMoves, TypeOK, Actors, SchemaAssumption, Migrating, InTxn
<1>5. ASSUME pc'[Boot] = "seed"
      PROVE  mode = "managed" /\ db'.store = NoStore
  <2>1. \/ pc[Boot] = "load" /\ db'.store = NoStore
        \/ pc[Boot] = "seed"
    BY <1>1, <1>2, <1>5 DEF Moves, CallMoves, TypeOK, Actors, SchemaAssumption, Migrating, InTxn
  <2>2. CASE pc[Boot] = "seed"
    <3>1. \A c \in Calls : c # Boot /\ pc[c] \notin Busy
      BY <1>1, <2>2 DEF Roles, Up, SchemaAssumption
    <3>2. UNCHANGED db \/ \E r \in Requests : Insert(r)
      <4>1. ~Seed /\ ~Crash /\ \A cfg \in Configs : ~BootCode(cfg) /\ ~BootManaged(cfg)
        BY <1>1, <1>5, <2>2 DEF Seed, Crash, BootCode, BootManaged, Goto, TypeOK, Actors
      <4>2. \A a \in Actors : Migrator(a) => UNCHANGED db
        BY <3>1, <2>2 DEF Migrator, Actors, ReadSnapshot, Begin, Statement, RecordSnapshot,
           Commit, FailInside, Rollback, FailOutside, Busy, Migrating, InTxn
      <4>3. \A c \in Calls : CallStep(c) => UNCHANGED db
        BY <3>1, <4>2 DEF CallStep, Start, WriteStore, StoreFails, Swap, Actors, Busy, Landing
      <4>4. \A c \in Calls, cfg \in Configs : ApplySchema(c, cfg) \/ PostSchema(c, cfg) => UNCHANGED db
        BY DEF ApplySchema, PostSchema, Enqueue, Refuse
      <4>5. \A r \in Requests : Accept(r) \/ RequestStep(r) => UNCHANGED db \/ Insert(r)
        BY DEF Accept, RequestStep, InsertFails, Acknowledge
      <4> QED
        BY <4>1, <4>2, <4>3, <4>4, <4>5
           DEF Next, BootStep, LoadNothing, LoadStored, vars, Actors
    <3> QED  BY <1>1, <2>2, <3>2 DEF Insert, TypeOK, Databases
  <2> QED  BY <1>1, <2>1, <2>2
<1> QED  BY <1>3, <1>4, <1>5, ModeStays

-----------------------------------------------------------------------------
(* The inductive invariant.                                                *)

\* An empty database and no process satisfy the invariant.
LEMMA InitIInv == ASSUME SchemaAssumption, Init PROVE IInv
<1> USE DEF Init, Actors
<1>1. TypeOK
  <2>1. db \in Databases
    BY DEF Databases
  <2>2. <<>> \in Seq(Calls)
    OBVIOUS
  <2> QED  BY <2>1, <2>2 DEF TypeOK
<1>2. Roles
  BY DEF Roles, Up, Busy, Migrating, InTxn, Landing
<1>3. Chained
  BY DEF Chained, Busy, Migrating, InTxn, Landing
<1>4. TxnOpen /\ SchemaAtomic
  BY DEF TxnOpen, SchemaAtomic, Committed, InTxn
<1>5. Progress /\ StoreUse /\ Stored
  BY DEF Progress, StoreUse, Stored, Up, Busy, Migrating, InTxn, Landing
<1> QED  BY <1>1, <1>2, <1>3, <1>4, <1>5 DEF IInv

\* Every step, and stuttering, keeps the invariant.
LEMMA NextIInv == ASSUME SchemaAssumption, IInv, [Next]_vars PROVE IInv'
<1>1. TypeOK'
  BY TypeStep DEF IInv
<1>2. Moves
  BY NextMoves DEF IInv
<1>3. Roles' /\ Chained'
  BY <1>2, RolesStep, ChainedStep DEF IInv
<1>4. Core'
  <2>1. CASE Next
    <3>1. ASSUME NEW cfg \in Configs, BootCode(cfg) \/ BootManaged(cfg)
          PROVE  Core'
      BY <3>1, BootCore
    <3>2. ASSUME NEW cfg \in Configs, NEW c \in Calls, ApplySchema(c, cfg) \/ PostSchema(c, cfg)
          PROVE  Core'
      BY <3>2, CallCore
    <3>3. CASE BootStep
      BY <3>3, BootCore, MigratorCore DEF BootStep, Actors
    <3>4. ASSUME NEW c \in Calls, CallStep(c)
          PROVE  Core'
      BY <3>4, CallCore, MigratorCore DEF CallStep, Actors
    <3>5. ASSUME NEW r \in Requests, Accept(r) \/ RequestStep(r)
          PROVE  Core'
      BY <3>5, RequestCore
    <3>6. CASE Crash
      BY <3>6, CrashCore
    <3> QED  BY <2>1, <3>1, <3>2, <3>3, <3>4, <3>5, <3>6 DEF Next
  <2>2. CASE UNCHANGED vars
    BY <2>2 DEF vars, IInv, Core, TxnOpen, SchemaAtomic, Committed, Progress, Stored, Up
  <2> QED  BY <2>1, <2>2
<1> QED  BY <1>1, <1>3, <1>4, StoreUseStep DEF IInv, Core

\* The inductive invariant holds of every behaviour.
LEMMA Inductive == ASSUME SchemaAssumption PROVE SafetySpec => []IInv
<1>1. Init => IInv
  BY InitIInv
<1>2. IInv /\ [Next]_vars => IInv'
  BY NextIInv
<1> QED  BY <1>1, <1>2, PTL DEF SafetySpec

-----------------------------------------------------------------------------
(* Theorems.                                                               *)

\* Types, and with them: the store never holds a plugin's entity.
THEOREM TypeCorrect == ASSUME SchemaAssumption PROVE SafetySpec => []TypeOK
<1>1. IInv => TypeOK
  BY DEF IInv
<1> QED  BY <1>1, Inductive, PTL

\* The promise-chain mutex of applySchema excludes, for any number of calls.
THEOREM MutualExclusion == ASSUME SchemaAssumption PROVE SafetySpec => []OneMigration
<1>1. IInv => OneMigration
  BY Exclusive DEF IInv
<1> QED  BY <1>1, Inductive, PTL

\* migrateToConfig is atomic across failures and crashes.
THEOREM MigrationAtomic == ASSUME SchemaAssumption PROVE SafetySpec => []SchemaAtomic
<1>1. IInv => SchemaAtomic
  BY DEF IInv
<1> QED  BY <1>1, Inductive, PTL

\* No transaction outlives its migration.
THEOREM NothingUncommitted == ASSUME SchemaAssumption PROVE SafetySpec => []Durable
<1>1. IInv => Durable
  BY DEF IInv, TxnOpen, Durable, Committed
<1> QED  BY <1>1, Inductive, PTL

\* Migrate, store, swap: the engine never runs ahead of the store.
THEOREM StoreBeforeSwap == ASSUME SchemaAssumption PROVE SafetySpec => []LiveIsStored
<1>1. ASSUME IInv PROVE LiveIsStored
  <2>1. Stored
    BY <1>1 DEF IInv
  <2>2. CASE \E c \in Calls : pc[c] = "swap"
    BY <2>1, <2>2 DEF Stored, LiveIsStored
  <2>3. CASE ~\E c \in Calls : pc[c] = "swap"
    BY <2>1, <2>3 DEF Stored, LiveIsStored
  <2> QED  BY <2>2, <2>3
<1> QED  BY <1>1, Inductive, PTL

-----------------------------------------------------------------------------
(* ManagedSchema implements SchemaAuthority.                               *)

aLive == IF Up THEN live ELSE Down
aJob  == IF \E c \in Calls : pc[c] \in Landing
         THEN target[CHOOSE c \in Calls : pc[c] \in Landing] ELSE NoJob

\* What the abstract specification takes for the change under way.
LEMMA JobIs ==
    ASSUME SchemaAssumption, IInv
    PROVE  /\ \A c \in Calls : pc[c] \in Landing => aJob = target[c]
           /\ (\A c \in Calls : pc[c] \notin Landing) => aJob = NoJob
<1>1. OneMigration
  BY Exclusive DEF IInv
<1>2. ASSUME NEW c \in Calls, pc[c] \in Landing
      PROVE  aJob = target[c]
  <2>1. \A d \in Calls : pc[d] \in Landing => d = c
    BY <1>1, <1>2 DEF OneMigration, Actors, Busy
  <2>2. (CHOOSE d \in Calls : pc[d] \in Landing) = c
    BY <1>2, <2>1
  <2> QED  BY <1>2, <2>2 DEF aJob
<1> QED  BY <1>2 DEF aJob

\* A step of the abstract specification, or none.
AStep == [Abstract!Next]_(Abstract!vars)

\* Steps that change neither the committed schema and store, nor what is
\* served, nor which call has migrated.
LEMMA Stutter ==
    ASSUME mode' = mode,
           Committed'.tables = Committed.tables, Committed'.store = Committed.store,
           aLive' = aLive, aJob' = aJob
    PROVE  AStep
  BY DEF AStep, Abstract!vars, aLive, aJob

\* Seeding, serving or migrating to a config is an abstract step.
LEMMA ConfigStep ==
    ASSUME NEW cfg \in SUBSET User,
           Abstract!Seed(cfg) \/ Abstract!Serve(cfg) \/ Abstract!Migrate(cfg)
    PROVE  AStep
<1>1. Abstract!Next
  BY DEF Abstract!Next
<1> QED  BY <1>1 DEF AStep

\* Of the migrator only the commit is an abstract step; the rest stutters.
LEMMA MigratorRefines ==
    ASSUME SchemaAssumption, IInv, IInv', NEW a \in Actors, Migrator(a)
    PROVE  AStep
<1> USE DEF Goto, Reject, requestVars
<1>1. TypeOK /\ TxnOpen /\ SchemaAtomic /\ Progress /\ StoreUse /\ Stored /\ Roles
  BY DEF IInv
<1>2. CASE pc[a] \in {"load", "seed"}
  <2>1. a = Boot /\ FailOutside(a)
    BY <1>1, <1>2 DEF Roles, Busy, Migrating, InTxn, Landing, Actors, Migrator,
       ReadSnapshot, Begin, Statement, RecordSnapshot, Commit, FailInside, Rollback
  <2>2. /\ UNCHANGED <<db, saved, txn, target>>
        /\ ~Up /\ ~Up'
        /\ \A c \in Calls : pc'[c] = pc[c]
    BY <1>1, <1>2, <2>1 DEF FailOutside, TypeOK, Actors, Up, SchemaAssumption
  <2>3. \A c \in Calls : pc[c] \notin Landing
    BY <1>1, <2>2 DEF Roles, Busy
  <2> QED  BY <2>2, <2>3, MigratorMode, Stutter, JobIs DEF aLive, aJob, Committed
<1>3. CASE pc[a] \in Busy
  <2>1. /\ \A b \in Actors \ {a} : pc[b] \notin Busy
        /\ a # Boot => Up
        /\ a = Boot => ~Up
        /\ txn <=> pc[a] \in InTxn
    BY <1>3, Alone
  <2>2. /\ pc[a] \in Migrating /\ target' = target
        /\ \A b \in Actors \ {a} : pc'[b] = pc[b]
    BY <1>1, <1>3 DEF TypeOK, Migrator, ReadSnapshot, Begin, Statement, RecordSnapshot, Commit,
       FailInside, Rollback, FailOutside, Migrated, Busy, Migrating, InTxn, Landing
  <2>3. aJob = NoJob
    <3>1. \A c \in Calls : pc[c] \notin Landing
      BY <2>1, <2>2 DEF Actors, Busy, Migrating, InTxn, Landing
    <3> QED  BY <3>1, JobIs
  <2>4. target[a] \in SUBSET User /\ target[a] \subseteq User
    BY <1>1, <1>3 DEF Progress
  <2>5. ASSUME pc'[a] \notin Landing \cup {"up"}, UNCHANGED live,
               Committed'.tables = Committed.tables, Committed'.store = Committed.store
        PROVE  AStep
    <3>1. aJob' = NoJob
      <4>1. \A c \in Calls : pc'[c] \notin Landing
        BY <2>1, <2>2, <2>5 DEF Actors, Busy
      <4> QED  BY <4>1 DEF aJob
    <3>2. Up' = Up
      BY <2>1, <2>2, <2>5 DEF Up, Actors
    <3> QED  BY <2>3, <2>5, <3>1, <3>2, MigratorMode, Stutter DEF aLive
  <2>6. ASSUME Migrated(a), Committed'.tables = Merge(target[a]),
               Committed'.store = Committed.store
        PROVE  AStep
    <3>1. CASE a = Boot
      <4>1. /\ pc'[Boot] = "up" /\ live' = target[Boot] /\ ~Up
        BY <1>1, <2>1, <2>6, <3>1 DEF Migrated, TypeOK
      <4>2. mode = "managed" => Committed.store = target[Boot]
        BY <1>1, <2>2, <3>1 DEF Stored, Committed, TxnOpen
      <4>3. aJob' = NoJob
        <5>1. \A c \in Calls : pc'[c] \notin Landing
          BY <2>1, <2>2, <3>1 DEF Actors, Busy, SchemaAssumption
        <5> QED  BY <5>1 DEF aJob
      <4>4. Abstract!Serve(target[Boot])
        BY <2>3, <2>6, <3>1, <4>1, <4>2, <4>3, MigratorMode DEF Abstract!Serve, aJob, Up, Merge
      <4> QED  BY <2>4, <3>1, <4>4, ConfigStep
    <3>2. CASE a # Boot
      <4>1. a \in Calls /\ pc'[a] = "store" /\ live' = live /\ Up /\ Up'
        BY <1>1, <2>1, <2>2, <2>6, <3>2 DEF Migrated, TypeOK, Actors, Up
      <4>2. aJob' = target[a]
        <5>1. \A c \in Calls : pc'[c] \in Landing <=> c = a
          BY <2>1, <2>2, <4>1 DEF Actors, Busy, Landing
        <5>2. (CHOOSE c \in Calls : pc'[c] \in Landing) = a
          BY <4>1, <5>1
        <5> QED  BY <2>2, <4>1, <5>1, <5>2 DEF aJob
      <4>3. live # Down
        <5>1. live \in SUBSET Names
          BY <1>1 DEF TypeOK
        <5> QED  BY <5>1 DEF SchemaAssumption
      <4>4. mode = "managed"
        BY <1>1, <1>3, <4>1 DEF StoreUse
      <4>5. PICK cfg \in SUBSET User : cfg = target[a]
        BY <2>4
      <4>6. Abstract!Migrate(cfg)
        BY <2>3, <2>6, <4>1, <4>2, <4>3, <4>4, <4>5, MigratorMode DEF Abstract!Migrate, aJob, Merge
      <4> QED  BY <4>6, ConfigStep
    <3> QED  BY <3>1, <3>2
  <2>7. CASE ReadSnapshot(a)
    <3>1. ~txn /\ db.tables = db.snap
      BY <1>1, <2>1, <2>7 DEF ReadSnapshot, InTxn, SchemaAtomic, Committed
    <3>2. Committed'.tables = Committed.tables /\ Committed'.store = Committed.store
          /\ Committed.tables = db.tables
      BY <2>7, <3>1 DEF ReadSnapshot, Committed
    <3>3. CASE db.snap = Merge(target[a]) /\ Migrated(a)
      BY <2>6, <3>1, <3>2, <3>3
    <3>4. CASE pc'[a] \in {"idle", "done", "begin"} /\ UNCHANGED live
      BY <2>5, <3>2, <3>4 DEF Landing
    <3> QED  BY <1>1, <2>7, <3>3, <3>4 DEF ReadSnapshot, TypeOK
  <2>8. CASE Begin(a)
    <3>1. pc'[a] = "ddl"
      BY <1>1, <2>8 DEF Begin, TypeOK
    <3> QED  BY <2>5, <2>8, <3>1 DEF Begin, Landing, Committed
  <2>9. CASE Statement(a) \/ RecordSnapshot(a) \/ FailInside(a)
    <3>1. pc'[a] \in {"ddl", "record", "commit", "rollback"} /\ txn
          /\ UNCHANGED <<saved, txn, live>>
      BY <1>1, <2>1, <2>9 DEF Statement, RecordSnapshot, FailInside, TypeOK, InTxn
    <3> QED  BY <2>5, <3>1 DEF Landing, Committed
  <2>10. CASE Commit(a)
    <3>1. /\ txn /\ saved.store = db.store /\ db.tables = Merge(target[a])
          /\ Committed' = db /\ Migrated(a)
      BY <1>1, <2>1, <2>10 DEF Commit, Progress, TxnOpen, InTxn, Committed
    <3> QED  BY <2>6, <3>1 DEF Committed
  <2>11. CASE Rollback(a)
    <3>1. pc'[a] \in {"idle", "done"} /\ Committed' = Committed
      BY <1>1, <2>11 DEF Rollback, TypeOK, Committed
    <3> QED  BY <2>5, <2>11, <3>1 DEF Rollback, Landing
  <2>12. CASE FailOutside(a)
    <3>1. pc'[a] \in {"idle", "done"}
      BY <1>1, <2>12 DEF FailOutside, TypeOK
    <3> QED  BY <2>5, <2>12, <3>1 DEF FailOutside, Landing, Committed
  <2> QED
    BY <2>7, <2>8, <2>9, <2>10, <2>11, <2>12 DEF Migrator
<1> QED  BY <1>2, <1>3 DEF Migrator, ReadSnapshot, Begin, Statement, RecordSnapshot,
       Commit, FailInside, Rollback, FailOutside, Busy, Migrating, InTxn

\* Every boot step is an abstract boot, seed or serve, or stutters.
LEMMA BootRefines ==
    ASSUME SchemaAssumption, IInv,
           \/ \E cfg \in Configs : BootCode(cfg) \/ BootManaged(cfg)
           \/ LoadNothing \/ LoadStored \/ Seed
    PROVE  AStep
<1> USE DEF Goto, requestVars
<1>1. TypeOK /\ TxnOpen /\ SchemaAtomic /\ Progress /\ StoreUse /\ Stored /\ Roles
  BY DEF IInv
<1>2. pc[Boot] \in {"idle", "load", "seed"} /\ ~Up
  BY DEF BootCode, BootManaged, LoadNothing, LoadStored, Seed, Up
<1>3. /\ \A c \in Calls : c # Boot /\ pc[c] \notin Busy
      /\ \A b \in Actors : pc[b] \notin InTxn
  BY <1>1, <1>2 DEF Roles, Actors, Busy, Migrating, InTxn, Landing, SchemaAssumption
<1>4. /\ ~Up' /\ UNCHANGED <<saved, txn, live, mode>>
      /\ \A c \in Calls : pc'[c] = pc[c]
  BY <1>1, <1>3 DEF BootCode, BootManaged, LoadNothing, LoadStored, Seed, Up, TypeOK, Actors
<1>5. aJob = NoJob /\ aJob' = NoJob
  BY <1>3, <1>4 DEF aJob, Busy
<1>6. CASE UNCHANGED db
  BY <1>2, <1>4, <1>5, <1>6, Stutter DEF aLive, Committed
<1>7. CASE Seed
  <2>1. ~txn /\ db.store = NoStore /\ mode = "managed"
    BY <1>1, <1>3, <1>7 DEF Seed, StoreUse, TxnOpen
  <2>2. /\ Committed'.store = target[Boot] /\ Committed'.tables = Committed.tables
        /\ Committed.store = NoStore
    BY <1>1, <1>4, <1>7, <2>1 DEF Seed, Committed, TypeOK, Databases
  <2>3. PICK cfg \in SUBSET User : cfg = target[Boot]
    BY <1>1, <1>7 DEF Seed, Progress
  <2>4. Abstract!Seed(cfg)
    BY <1>2, <1>4, <1>5, <2>1, <2>2, <2>3 DEF Abstract!Seed, aJob
  <2> QED  BY <2>4, ConfigStep
<1> QED  BY <1>6, <1>7 DEF BootCode, BootManaged, LoadNothing, LoadStored

\* Every step of an applySchema call is an abstract step or stutters.
LEMMA CallRefines ==
    ASSUME SchemaAssumption, IInv, NEW c \in Calls,
           \/ \E cfg \in Configs : ApplySchema(c, cfg) \/ PostSchema(c, cfg)
           \/ Start(c) \/ WriteStore(c) \/ StoreFails(c) \/ Swap(c)
    PROVE  AStep
<1> USE DEF Goto, requestVars, Reject
<1>1. TypeOK /\ TxnOpen /\ SchemaAtomic /\ Progress /\ StoreUse /\ Stored /\ Roles
  BY DEF IInv
<1>2. c \in Actors /\ c # Boot /\ pc'[Boot] = pc[Boot] /\ Up' = Up
  BY <1>1 DEF TypeOK, Actors, SchemaAssumption, ApplySchema, PostSchema, Enqueue, Refuse,
     Start, WriteStore, StoreFails, Swap, Up
<1>3. CASE \/ \E cfg \in Configs : ApplySchema(c, cfg) \/ PostSchema(c, cfg)
           \/ Start(c)
  <2>1. /\ pc[c] \in {"idle", "wait"} /\ pc'[c] \in {"wait", "done", "snapshot"}
        /\ \A b \in Actors \ {c} : pc'[b] = pc[b] /\ target'[b] = target[b]
        /\ UNCHANGED <<db, saved, txn, todo, live, mode>>
    BY <1>1, <1>2, <1>3 DEF TypeOK, ApplySchema, PostSchema, Enqueue, Refuse, Start
  <2>2. aJob' = aJob
    <3>1. \A d \in Calls : /\ pc'[d] \in Landing <=> pc[d] \in Landing
                           /\ pc[d] \in Landing => target'[d] = target[d]
      BY <2>1 DEF Landing, Actors
    <3>2. CASE \E d \in Calls : pc[d] \in Landing
      <4>1. PICK d \in Calls : pc[d] \in Landing
        BY <3>2
      <4>2. \A b \in Calls : pc[b] \in Landing => b = d
        BY <4>1, Exclusive DEF IInv, OneMigration, Actors, Busy
      <4>3. /\ (CHOOSE b \in Calls : pc[b] \in Landing) = d
            /\ (CHOOSE b \in Calls : pc'[b] \in Landing) = d
        BY <3>1, <4>1, <4>2
      <4> QED  BY <3>1, <4>1, <4>3 DEF aJob
    <3>3. CASE ~\E d \in Calls : pc[d] \in Landing
      BY <3>1, <3>3 DEF aJob
    <3> QED  BY <3>2, <3>3
  <2> QED  BY <1>2, <2>1, <2>2, Stutter DEF aLive, Committed
<1>4. CASE WriteStore(c) \/ StoreFails(c) \/ Swap(c)
  <2>1. pc[c] \in Landing /\ pc[c] \in Busy
    BY <1>4 DEF WriteStore, StoreFails, Swap, Busy, Landing
  <2>2. /\ \A b \in Actors \ {c} : pc[b] \notin Busy /\ pc'[b] = pc[b]
        /\ Up /\ ~txn /\ txn' = txn /\ saved' = saved /\ target' = target
    <3>1. \A b \in Actors \ {c} : pc[b] \notin Busy
      BY <1>2, <2>1, Alone
    <3>2. Up /\ ~txn
      BY <1>2, <2>1, Alone DEF Landing, InTxn
    <3> QED
      BY <1>1, <1>4, <3>1, <3>2 DEF TypeOK, WriteStore, StoreFails, Swap
  <2>3. aJob = target[c] /\ target[c] \in SUBSET User /\ target[c] # NoJob
    <3>1. target[c] \in SUBSET User
      BY <1>1, <1>2, <2>1 DEF Progress
    <3>2. target[c] \in SUBSET Names
      BY <3>1 DEF Names
    <3> QED  BY <2>1, <3>1, <3>2, JobIs DEF SchemaAssumption
  <2>4. CASE WriteStore(c)
    <3>1. /\ Committed'.tables = Committed.tables /\ Committed'.store = target[c]
          /\ live' = live /\ mode' = mode
      BY <1>1, <2>2, <2>4 DEF WriteStore, Committed, TypeOK, Databases
    <3>2. aJob' = target[c]
      <4>1. \A d \in Calls : pc'[d] \in Landing <=> d = c
        BY <1>1, <1>2, <2>2, <2>4 DEF WriteStore, TypeOK, Actors, Busy, Landing
      <4>2. (CHOOSE d \in Calls : pc'[d] \in Landing) = c
        BY <4>1
      <4> QED  BY <2>2, <4>1, <4>2 DEF aJob
    <3>3. Abstract!Record
      BY <1>2, <2>3, <3>1, <3>2 DEF Abstract!Record, aJob
    <3> QED  BY <3>3 DEF AStep, Abstract!Next
  <2>5. CASE StoreFails(c) \/ Swap(c)
    <3>1. Committed' = Committed /\ pc'[c] = "done"
      BY <1>1, <1>2, <2>2, <2>5 DEF StoreFails, Swap, Committed, TypeOK
    <3>2. aJob' = NoJob
      <4>1. \A d \in Calls : pc'[d] \notin Landing
        BY <2>2, <3>1 DEF Actors, Busy, Landing
      <4> QED  BY <4>1 DEF aJob
    <3>3. CASE StoreFails(c)
      <4>1. Abstract!Alarm
        BY <1>2, <2>3, <3>1, <3>2, <3>3 DEF StoreFails, Abstract!Alarm, aJob
      <4> QED  BY <4>1 DEF AStep, Abstract!Next
    <3>4. CASE Swap(c)
      <4>1. Committed.store = target[c]
        BY <1>1, <1>2, <2>1, <2>2, <3>4 DEF Swap, Stored, StoreUse, Committed
      <4>2. Abstract!Swap
        BY <1>2, <2>2, <2>3, <3>1, <3>2, <3>4, <4>1 DEF Swap, Abstract!Swap, aJob
      <4> QED  BY <4>2 DEF AStep, Abstract!Next
    <3> QED  BY <2>5, <3>3, <3>4
  <2> QED  BY <1>4, <2>4, <2>5
<1> QED  BY <1>3, <1>4

\* Requests do not change the schema: they stutter.
LEMMA RequestRefines ==
    ASSUME SchemaAssumption, IInv, NEW r \in Requests, Accept(r) \/ RequestStep(r)
    PROVE  AStep
<1>1. TypeOK
  BY DEF IInv
<1>2. /\ db'.tables = db.tables /\ db'.store = db.store
      /\ UNCHANGED <<saved, txn, pc, target, live, mode>>
  BY <1>1 DEF Accept, RequestStep, Insert, InsertFails, Acknowledge, TypeOK, Databases
<1>3. Committed'.tables = Committed.tables /\ Committed'.store = Committed.store
  BY <1>2 DEF Committed
<1>4. aLive' = aLive /\ aJob' = aJob
  BY <1>2 DEF aLive, aJob, Up
<1> QED  BY <1>2, <1>3, <1>4, Stutter

\* A crash is the abstract crash.
LEMMA CrashRefines ==
    ASSUME SchemaAssumption, IInv, Crash
    PROVE  AStep
<1>1. TypeOK
  BY DEF IInv
<1>2. ~Up' /\ \A c \in Calls : pc'[c] \notin Landing
  BY <1>1 DEF Crash, Actors, Up, Landing
<1>3. Committed' = Committed /\ mode' = mode
  BY DEF Crash, Committed
<1>4. Abstract!Crash
  BY <1>2, <1>3 DEF Abstract!Crash
<1> QED  BY <1>4 DEF AStep, Abstract!Next

\* Boot, applySchema, the migrator, the store and the swap together behave
\* as the one schema of SchemaAuthority: whole migrations, stored before
\* they are served, one at a time.
THEOREM Refinement == ASSUME SchemaAssumption PROVE SafetySpec => Authority
<1>1. Init => Abstract!Init
  BY DEF Init, Abstract!Init, Committed, Up, Landing, Actors
<1>2. ASSUME IInv, IInv', [Next]_vars PROVE AStep
  <2>1. CASE Next
    <3>1. ASSUME NEW cfg \in Configs, BootCode(cfg) \/ BootManaged(cfg)
          PROVE  AStep
      BY <1>2, <3>1, BootRefines
    <3>2. ASSUME NEW cfg \in Configs, NEW c \in Calls, ApplySchema(c, cfg) \/ PostSchema(c, cfg)
          PROVE  AStep
      BY <1>2, <3>2, CallRefines
    <3>3. CASE BootStep
      BY <1>2, <3>3, BootRefines, MigratorRefines DEF BootStep, Actors
    <3>4. ASSUME NEW c \in Calls, CallStep(c)
          PROVE  AStep
      BY <1>2, <3>4, CallRefines, MigratorRefines DEF CallStep, Actors
    <3>5. ASSUME NEW r \in Requests, Accept(r) \/ RequestStep(r)
          PROVE  AStep
      BY <1>2, <3>5, RequestRefines
    <3>6. CASE Crash
      BY <1>2, <3>6, CrashRefines
    <3> QED  BY <2>1, <3>1, <3>2, <3>3, <3>4, <3>5, <3>6 DEF Next
  <2>2. CASE UNCHANGED vars
    BY <2>2, Stutter DEF vars, Committed, aLive, aJob, Up
  <2> QED  BY <1>2, <2>1, <2>2
<1> QED  BY <1>1, <1>2, Inductive, PTL DEF SafetySpec, Authority, Abstract!Spec, AStep

-----------------------------------------------------------------------------
(* Which call the live schema comes from.                                  *)

\* The calls of the chain are the only ones that can have left a mark, and the
\* live schema is that of the last one marked ok.
LastOk(i) ==
    /\ outcome[chain[i]] = "ok"
    /\ \A j \in (i + 1)..Len(chain) : outcome[chain[j]] # "ok"
FromChain ==
    Up => \/ live = target[Boot] /\ \A i \in 1..Len(chain) : outcome[chain[i]] # "ok"
          \/ \E i \in 1..Len(chain) : live = target[chain[i]] /\ LastOk(i)
Settled ==
    /\ ~Up => chain = <<>>
    /\ \A c \in Calls : outcome[c] # "none" => pc[c] = "done"
Latest == Settled /\ FromChain /\ TablesServeLive

\* What most steps leave alone: the marks of the calls made so far, what they
\* and the boot asked for, and the engine.
Marks == {"ok", "alarm"}
Unmarked ==
    /\ chain' = chain \/ \E c \in Calls : chain' = Append(chain, c) /\ outcome'[c] \notin Marks
    /\ \A i \in 1..Len(chain) :
         /\ target'[chain[i]] = target[chain[i]]
         /\ outcome[chain[i]] \in Marks \/ outcome'[chain[i]] \in Marks
              => outcome'[chain[i]] = outcome[chain[i]]
    /\ live' = live /\ target'[Boot] = target[Boot]
Quiet ==
    /\ Up /\ Unmarked
    /\ \/ \E c \in Calls : pc'[c] \in Landing
       \/ Committed'.tables = Committed.tables /\ \A c \in Calls : pc[c] \notin Landing
ComesUp ==
    /\ ~Up /\ chain' = chain
    /\ live' = target'[Boot] /\ Committed'.tables = Merge(live')

\* The marks of the chain are the same, and a call just made has none.
LEMMA SameMarks ==
    ASSUME TypeOK, Unmarked, NEW mark \in Marks
    PROVE  /\ Len(chain) \in Nat /\ Len(chain') \in Nat /\ Len(chain) <= Len(chain')
           /\ \A i \in 1..Len(chain) : chain'[i] = chain[i] /\ target'[chain'[i]] = target[chain[i]]
                 /\ (outcome'[chain'[i]] = mark <=> outcome[chain[i]] = mark)
           /\ \A i \in 1..Len(chain') : outcome'[chain'[i]] = mark => i <= Len(chain)
<1>1. CASE chain' = chain
  BY <1>1 DEF TypeOK, Unmarked
<1>2. ASSUME NEW c \in Calls, chain' = Append(chain, c), outcome'[c] \notin Marks
      PROVE  /\ Len(chain) \in Nat /\ Len(chain') = Len(chain) + 1
             /\ \A i \in 1..Len(chain) : chain'[i] = chain[i]
             /\ chain'[Len(chain) + 1] = c
  BY <1>2 DEF TypeOK
<1>3. ASSUME NEW c \in Calls, chain' = Append(chain, c), outcome'[c] \notin Marks
      PROVE  \A i \in 1..Len(chain') : outcome'[chain'[i]] = mark => i <= Len(chain)
  BY <1>2, <1>3
<1> QED BY <1>1, <1>2, <1>3 DEF Unmarked

\* A step that marks nobody keeps what Latest says of marks and tables.
LEMMA QuietKeeps ==
    ASSUME TypeOK, Latest, Quiet
    PROVE  FromChain' /\ TablesServeLive'
<1>1. /\ Len(chain) \in Nat /\ Len(chain') \in Nat /\ Len(chain) <= Len(chain')
      /\ \A i \in 1..Len(chain) : chain'[i] = chain[i] /\ target'[chain'[i]] = target[chain[i]]
      /\ live' = live /\ target'[Boot] = target[Boot]
  BY SameMarks DEF Quiet, Unmarked, Marks
<1>2. \A mark \in Marks :
        /\ \A i \in 1..Len(chain) : outcome'[chain'[i]] = mark <=> outcome[chain[i]] = mark
        /\ \A i \in 1..Len(chain') : outcome'[chain'[i]] = mark => i <= Len(chain)
  BY SameMarks DEF Quiet
<1>3. FromChain'
  <2>1. CASE live = target[Boot] /\ \A i \in 1..Len(chain) : outcome[chain[i]] # "ok"
    <3>1. \A i \in 1..Len(chain') : outcome'[chain'[i]] # "ok"
      BY <1>1, <1>2, <2>1 DEF Marks
    <3> QED BY <1>1, <2>1, <3>1 DEF FromChain
  <2>2. ASSUME NEW i \in 1..Len(chain), live = target[chain[i]], LastOk(i)
        PROVE  FromChain'
    <3>1. i \in 1..Len(chain') /\ live' = target'[chain'[i]] /\ outcome'[chain'[i]] = "ok"
      BY <1>1, <1>2, <2>2 DEF LastOk, Marks
    <3>2. \A j \in (i + 1)..Len(chain') : outcome'[chain'[j]] # "ok"
      BY <1>1, <1>2, <2>2 DEF LastOk, Marks
    <3> QED BY <3>1, <3>2 DEF FromChain, LastOk
  <2> QED BY <2>1, <2>2 DEF Latest, FromChain, Quiet
<1>4. ASSUME Behind
      PROVE  Behind'
  <2>1. PICK i \in 1..Len(chain) :
          /\ outcome[chain[i]] = "alarm"
          /\ \A j \in (i + 1)..Len(chain) : outcome[chain[j]] # "ok"
    BY <1>4 DEF Behind
  <2>2. i \in 1..Len(chain') /\ outcome'[chain'[i]] = "alarm"
    BY <1>1, <1>2, <2>1 DEF Marks
  <2>3. \A j \in (i + 1)..Len(chain') : outcome'[chain'[j]] # "ok"
    BY <1>1, <1>2, <2>1 DEF Marks
  <2> QED BY <2>2, <2>3 DEF Behind
<1>5. TablesServeLive'
  BY <1>1, <1>4 DEF Latest, TablesServeLive, Quiet
<1> QED BY <1>3, <1>5

\* A process that comes up has made no calls.
LEMMA ComesUpKeeps ==
    ASSUME TypeOK, Latest, ComesUp
    PROVE  FromChain' /\ TablesServeLive'
<1>1. chain' = <<>> /\ Len(chain') = 0
  BY DEF Latest, Settled, ComesUp
<1> QED BY <1>1 DEF ComesUp, FromChain, TablesServeLive

\* Behind a call that lands stand only calls without a mark.
LEMMA Landed ==
    ASSUME IInv, Settled, NEW c \in Calls, pc[c] \in Landing,
           \A d \in Calls \ {c} : outcome'[d] = outcome[d],
           UNCHANGED <<chain, target>>
    PROVE  \E k \in 1..Len(chain') :
             chain'[k] = c /\ \A j \in (k + 1)..Len(chain') : outcome'[chain'[j]] = "none"
<1>1. PICK k \in 1..Len(chain) : chain[k] = c
  BY DEF IInv, Chained, Busy
<1>2. Len(chain) \in Nat /\ \A i \in 1..Len(chain) : chain[i] \in Calls
  BY DEF IInv, TypeOK
<1>3. ASSUME NEW j \in (k + 1)..Len(chain)
      PROVE  outcome'[chain[j]] = "none"
  <2>1. j \in 1..Len(chain) /\ k < j /\ chain[j] # c
    BY <1>1, <1>2 DEF IInv, Chained
  <2>2. pc[chain[j]] # "done"
    BY <1>1, <1>2, <2>1 DEF IInv, Chained, Landing
  <2> QED BY <1>2, <2>1, <2>2 DEF Settled
<1> QED BY <1>1, <1>3

\* The swap makes its call the last one marked ok, serving its tables; a store
\* write that fails leaves the engine behind, and says so.
LEMMA LandingKeeps ==
    ASSUME SchemaAssumption, IInv, Latest, NEW c \in Calls, Swap(c) \/ StoreFails(c)
    PROVE  FromChain' /\ TablesServeLive'
<1> USE DEF Goto, requestVars
<1>1. /\ pc[c] \in Landing /\ UNCHANGED <<chain, target, db, saved, txn>>
      /\ \A d \in Calls \ {c} : outcome'[d] = outcome[d]
  BY DEF Swap, StoreFails, Landing, IInv, TypeOK
<1>2. PICK k \in 1..Len(chain') :
        chain'[k] = c /\ \A j \in (k + 1)..Len(chain') : outcome'[chain'[j]] = "none"
  BY <1>1, Landed DEF Latest
<1>3. CASE Swap(c)
  <2>1. live' = target'[c] /\ outcome'[c] = "ok"
    BY <1>3 DEF Swap, IInv, TypeOK
  <2>2. FromChain'
    BY <1>2, <2>1 DEF FromChain, LastOk
  <2>3. Committed'.tables = Merge(live')
    <3>1. ~txn
      BY <1>1, Alone DEF Landing, InTxn, Busy, Actors
    <3>2. db.tables = Merge(target[c])
      BY <1>1 DEF IInv, Progress, Actors
    <3> QED BY <1>1, <2>1, <3>1, <3>2 DEF Committed
  <2> QED BY <2>2, <2>3 DEF TablesServeLive
<1>4. CASE StoreFails(c)
  <2>1. live' = live /\ outcome'[c] = "alarm" /\ pc[Boot] = "up" /\ outcome[c] = "none"
    BY <1>1, <1>4 DEF StoreFails, IInv, TypeOK, Roles, Up, Busy, Latest, Settled
  <2>2. Behind'
    BY <1>2, <2>1 DEF Behind
  <2>3. \A d \in Calls : outcome'[d] = "ok" <=> outcome[d] = "ok"
    BY <1>1, <2>1
  <2>4. \A i \in 1..Len(chain) : chain[i] \in Calls
    BY DEF IInv, TypeOK
  <2>5. Up /\ UNCHANGED <<chain, target, live>>
    BY <1>1, <2>1 DEF Up
  <2>6. FromChain'
    BY <2>3, <2>4, <2>5 DEF Latest, FromChain, LastOk
  <2> QED BY <2>2, <2>6 DEF TablesServeLive
<1> QED BY <1>3, <1>4

-----------------------------------------------------------------------------
\* A boot in progress comes up with the tables it has just compared or
\* migrated to, or not at all.
LEMMA BootLatest ==
    ASSUME SchemaAssumption, IInv, Latest,
           \/ \E cfg \in Configs : BootCode(cfg) \/ BootManaged(cfg)
           \/ BootStep
    PROVE  Settled' /\ (~Up' \/ ComesUp)
<1> USE DEF Goto, Reject, requestVars
<1>1. TypeOK /\ TxnOpen /\ SchemaAtomic /\ Progress /\ Roles
  BY DEF IInv
<1>2. /\ ~Up /\ UNCHANGED <<chain, outcome>>
      /\ \A c \in Calls : pc'[c] = pc[c]
  BY <1>1 DEF BootCode, BootManaged, BootStep, LoadNothing, LoadStored, Seed, Migrator,
     ReadSnapshot, Begin, Statement, RecordSnapshot, Commit, FailInside, Rollback,
     FailOutside, Migrated, Up, TypeOK, Actors, SchemaAssumption
<1>3. Settled'
  BY <1>2 DEF Latest, Settled
<1>4. CASE Commit(Boot)
  <2>1. db.tables = Merge(target[Boot])
    BY <1>1, <1>4 DEF Commit, Progress, Actors
  <2> QED BY <1>2, <1>3, <1>4, <2>1 DEF Commit, Migrated, ComesUp, Committed
<1>5. CASE ReadSnapshot(Boot)
  <2>1. ~txn
    BY <1>5, Alone DEF ReadSnapshot, Busy, Migrating, InTxn, Actors
  <2>2. db.tables = db.snap
    BY <1>1, <2>1 DEF SchemaAtomic, Committed
  <2>3. pc'[Boot] # "up" \/ (db.snap = Merge(target[Boot]) /\ live' = target[Boot])
    BY <1>1, <1>5 DEF ReadSnapshot, Migrated, TypeOK, Actors
  <2> QED BY <1>2, <1>3, <1>5, <2>1, <2>2, <2>3 DEF ReadSnapshot, ComesUp, Committed, Up
<1>6. CASE ~Commit(Boot) /\ ~ReadSnapshot(Boot)
  <2>1. pc'[Boot] # "up"
    BY <1>1, <1>6 DEF BootCode, BootManaged, BootStep, LoadNothing, LoadStored, Seed, Migrator,
       Begin, Statement, RecordSnapshot, FailInside, Rollback, FailOutside, TypeOK, Actors
  <2> QED BY <1>3, <2>1 DEF Up
<1> QED BY <1>4, <1>5, <1>6

\* A call that is made, waits, migrates or has migrated marks nobody.
LEMMA CallLatest ==
    ASSUME SchemaAssumption, IInv, Latest, NEW c \in Calls,
           \/ \E cfg \in Configs : ApplySchema(c, cfg) \/ PostSchema(c, cfg)
           \/ Start(c) \/ WriteStore(c)
    PROVE  Settled' /\ Quiet
<1> USE DEF Goto, Reject, requestVars
<1>1. TypeOK /\ Chained /\ Roles /\ Settled
  BY DEF IInv, Latest
<1>2. Up /\ Up' /\ c # Boot
  BY <1>1 DEF ApplySchema, PostSchema, Enqueue, Refuse, Start, WriteStore, Up, TypeOK, Actors,
     Roles, Busy, Landing, SchemaAssumption
<1>3. /\ pc[c] \in {"idle", "wait", "store"}
      /\ \A d \in Calls \ {c} : pc'[d] = pc[d] /\ outcome'[d] = outcome[d]
      /\ outcome'[c] \in {outcome[c], "failed", "malformed", "not_managed"}
      /\ outcome'[c] # outcome[c] => pc'[c] = "done"
      /\ UNCHANGED live
  BY <1>1 DEF ApplySchema, PostSchema, Enqueue, Refuse, Start, WriteStore, TypeOK, Actors,
     SchemaAssumption
<1>4. outcome[c] = "none"
  BY <1>1, <1>3 DEF Settled
<1>5. Settled'
  BY <1>1, <1>2, <1>3, <1>4 DEF Settled
<1>6. /\ chain' = chain \/ chain' = Append(chain, c)
      /\ target' = target \/ (pc[c] = "idle" /\ \A a \in Actors \ {c} : target'[a] = target[a])
  BY <1>1 DEF ApplySchema, PostSchema, Enqueue, Refuse, Start, WriteStore, TypeOK
<1>7. Unmarked
  <2>1. \A i \in 1..Len(chain) : chain[i] \in Calls /\ pc[chain[i]] # "idle"
    BY <1>1 DEF TypeOK, Chained
  <2>2. outcome'[c] \notin Marks
    BY <1>3, <1>4 DEF Marks
  <2>3. target'[Boot] = target[Boot]
    BY <1>2, <1>6 DEF Actors
  <2>4. \A i \in 1..Len(chain) : target'[chain[i]] = target[chain[i]]
    BY <1>6, <2>1 DEF Actors
  <2>5. \A d \in Calls : outcome[d] \in Marks \/ outcome'[d] \in Marks => outcome'[d] = outcome[d]
    BY <1>3, <1>4, <2>2 DEF Marks
  <2> QED BY <1>3, <1>6, <2>1, <2>2, <2>3, <2>4, <2>5 DEF Unmarked
<1>8. CASE WriteStore(c)
  <2>1. pc'[c] = "swap"
    BY <1>1, <1>8 DEF WriteStore, TypeOK, Actors
  <2> QED BY <1>2, <1>5, <1>7, <2>1 DEF Quiet, Landing
<1>9. CASE ~WriteStore(c)
  <2>1. UNCHANGED <<db, saved, txn>> /\ pc[c] \in {"idle", "wait"}
    BY <1>9 DEF ApplySchema, PostSchema, Enqueue, Refuse, Start
  <2>2. (\E d \in Calls : pc[d] \in Landing) => \E d \in Calls : pc'[d] \in Landing
    BY <1>3, <2>1 DEF Landing
  <2> QED BY <1>2, <1>5, <1>7, <2>1, <2>2 DEF Quiet, Committed
<1> QED BY <1>8, <1>9

\* A call's migration changes the committed tables only by its commit, which
\* it follows by landing.
LEMMA MigratorLatest ==
    ASSUME SchemaAssumption, IInv, Latest, NEW c \in Calls, Migrator(c)
    PROVE  Settled' /\ Quiet
<1> USE DEF Goto, Reject, requestVars
<1>1. TypeOK /\ TxnOpen /\ Roles /\ Settled
  BY DEF IInv, Latest
<1>2. c # Boot /\ c \in Actors /\ pc[c] \in Migrating
  <2>1. pc[c] \in {"load", "seed"} \cup Migrating
    BY DEF Migrator, ReadSnapshot, Begin, Statement, RecordSnapshot, Commit, FailInside,
       Rollback, FailOutside, Migrating, InTxn
  <2> QED BY <1>1, <2>1 DEF Roles, Actors, SchemaAssumption, Busy, Landing, Migrating, InTxn
<1>3. /\ Up /\ (txn <=> pc[c] \in InTxn)
      /\ \A d \in Calls \ {c} : pc[d] \notin Busy
  BY <1>2, Alone DEF Busy, Actors
<1>4. /\ \A a \in Actors \ {c} : pc'[a] = pc[a]
      /\ \A d \in Calls \ {c} : outcome'[d] = outcome[d]
      /\ outcome'[c] \in {outcome[c], "failed"}
      /\ outcome'[c] # outcome[c] => pc'[c] = "done"
      /\ UNCHANGED <<chain, target, live>>
  <2>1. CASE ReadSnapshot(c)
    BY <1>1, <1>2, <2>1 DEF ReadSnapshot, Migrated, TypeOK
  <2>2. CASE Begin(c) \/ Statement(c) \/ RecordSnapshot(c) \/ Commit(c)
    BY <1>1, <1>2, <2>2 DEF Begin, Statement, RecordSnapshot, Commit, Migrated, TypeOK
  <2>3. CASE FailInside(c) \/ Rollback(c) \/ FailOutside(c)
    BY <1>1, <1>2, <2>3 DEF FailInside, Rollback, FailOutside, TypeOK
  <2> QED BY <2>1, <2>2, <2>3 DEF Migrator
<1>5. outcome[c] = "none" /\ Up'
  BY <1>1, <1>2, <1>3, <1>4 DEF Settled, Migrating, InTxn, Up, Actors
<1>6. Settled'
  BY <1>1, <1>2, <1>3, <1>4, <1>5 DEF Settled, Actors
<1>7. Unmarked
  BY <1>1, <1>4, <1>5 DEF Unmarked, Marks, TypeOK
<1>8. \A d \in Calls : pc[d] \notin Landing
  BY <1>2, <1>3 DEF Busy, Landing, Migrating, InTxn
<1>9. pc'[c] \in Landing \/ Committed'.tables = Committed.tables
  <2>1. CASE Commit(c)
    BY <1>1, <1>2, <2>1 DEF Commit, Migrated, TypeOK, Landing
  <2>2. CASE ReadSnapshot(c) \/ FailInside(c) \/ FailOutside(c)
    BY <2>2 DEF ReadSnapshot, FailInside, FailOutside, Committed
  <2>3. CASE Begin(c)
    BY <2>3 DEF Begin, Committed
  <2>4. CASE Statement(c) \/ RecordSnapshot(c)
    BY <1>3, <2>4 DEF Statement, RecordSnapshot, Committed, InTxn
  <2>5. CASE Rollback(c)
    BY <2>5 DEF Rollback, Committed
  <2> QED BY <2>1, <2>2, <2>3, <2>4, <2>5 DEF Migrator
<1> QED BY <1>3, <1>6, <1>7, <1>8, <1>9 DEF Quiet

\* Requests, whose rows are no tables.
LEMMA RequestLatest ==
    ASSUME IInv, Latest, NEW r \in Requests, Accept(r) \/ RequestStep(r)
    PROVE  Latest'
<1>1. /\ db'.tables = db.tables
      /\ UNCHANGED <<saved, txn, pc, target, live, chain, outcome>>
  BY DEF IInv, Accept, RequestStep, Insert, InsertFails, Acknowledge, TypeOK, Databases
<1> QED BY <1>1 DEF Latest, Settled, FromChain, LastOk, TablesServeLive, Behind, Committed, Up

\* Every step keeps Latest.
LEMMA LatestStep ==
    ASSUME SchemaAssumption, IInv, Latest, [Next]_vars
    PROVE  Latest'
<1>1. ASSUME Settled', ~Up' \/ ComesUp \/ Quiet
      PROVE  Latest'
  BY <1>1, QuietKeeps, ComesUpKeeps DEF IInv, Latest, FromChain, TablesServeLive
<1>2. CASE BootStep \/ \E cfg \in Configs : BootCode(cfg) \/ BootManaged(cfg)
  BY <1>1, <1>2, BootLatest
<1>3. ASSUME NEW c \in Calls,
             \/ \E cfg \in Configs : ApplySchema(c, cfg) \/ PostSchema(c, cfg)
             \/ Start(c) \/ WriteStore(c) \/ Migrator(c)
      PROVE  Latest'
  BY <1>1, <1>3, CallLatest, MigratorLatest
<1>4. ASSUME NEW c \in Calls, Swap(c) \/ StoreFails(c)
      PROVE  Latest'
  <2>1. Settled'
    BY <1>4 DEF Swap, StoreFails, Goto, Latest, Settled, IInv, TypeOK, Actors, Up, SchemaAssumption
  <2> QED BY <1>4, <2>1, LandingKeeps DEF Latest
<1>5. CASE \E r \in Requests : Accept(r) \/ RequestStep(r)
  BY <1>5, RequestLatest
<1>6. CASE Crash
  <2>1. Settled' /\ ~Up'
    <3>1. "idle" \notin {"wait"} \cup Busy
      BY DEF Busy, Migrating, InTxn, Landing
    <3>2. \A c \in Calls : pc[c] = "idle" => outcome[c] = "none" /\ outcome'[c] = "none"
      BY <1>6, <3>1 DEF Crash, Latest, Settled
    <3>3. \A c \in Calls : pc[c] # "idle" => pc'[c] = "done"
      BY <1>6 DEF Crash, Actors, SchemaAssumption
    <3>4. ~Up' /\ chain' = <<>>
      BY <1>6 DEF Crash, Up, Actors
    <3> QED BY <3>2, <3>3, <3>4 DEF Settled
  <2> QED BY <1>1, <2>1
<1>7. CASE UNCHANGED vars
  BY <1>7 DEF vars, Latest, Settled, FromChain, LastOk, TablesServeLive, Behind, Committed, Up
<1> QED BY <1>2, <1>3, <1>4, <1>5, <1>6, <1>7 DEF Next, CallStep

\* So it holds throughout.
LEMMA LatestHolds == ASSUME SchemaAssumption PROVE SafetySpec => []Latest
<1>1. Init => Latest
  <2> SUFFICES ASSUME Init PROVE Latest
    OBVIOUS
  <2>1. ~Up
    BY DEF Init, Up, Actors
  <2> QED BY <2>1 DEF Init, Latest, Settled, FromChain, TablesServeLive
<1>2. IInv /\ Latest /\ [Next]_vars => Latest'
  BY LatestStep
<1> QED BY <1>1, <1>2, Inductive, PTL DEF SafetySpec

\* Backend.applySchema: calls take effect in the order they were made, so a
\* serving engine has the schema of the last that succeeded, for any number of
\* calls, failures and restarts.
THEOREM LastCallWins == ASSUME SchemaAssumption PROVE SafetySpec => []LastOkWins
<1>1. ASSUME IInv, Latest
      PROVE  LastOkWins
  <2> DEFINE oks == {i \in 1..Len(chain) : outcome[chain[i]] = "ok"}
             last == CHOOSE i \in oks : \A j \in oks : j <= i
  <2>1. ASSUME Up, \A i \in 1..Len(chain) : outcome[chain[i]] # "ok"
        PROVE  oks = {} /\ (live = target[Boot] \/ \E i \in oks : TRUE)
    BY <1>1, <2>1 DEF Latest, FromChain, LastOk
  <2>2. ASSUME NEW i \in 1..Len(chain), LastOk(i)
        PROVE  i \in oks /\ last = i
    <3>1. Len(chain) \in Nat
      BY <1>1 DEF IInv, TypeOK
    <3>2. i \in oks /\ \A j \in oks : j <= i
      BY <2>2, <3>1 DEF LastOk
    <3>3. \A j \in oks : (\A k \in oks : k <= j) => j = i
      BY <3>1, <3>2
    <3> HIDE DEF oks
    <3> QED BY <3>2, <3>3
  <2>3. Up => live = IF oks = {} THEN target[Boot] ELSE target[chain[last]]
    BY <1>1, <2>1, <2>2 DEF Latest, FromChain
  <2> QED BY <2>3 DEF LastOkWins
<1> QED BY <1>1, Inductive, LatestHolds, PTL

\* migrateToConfig and the swap: between migrations the database has exactly
\* the tables of the schema the engine serves, but after a store write that
\* failed and was reported.
THEOREM TablesAreServed == ASSUME SchemaAssumption PROVE SafetySpec => []TablesServeLive
<1>1. Latest => TablesServeLive
  BY DEF Latest
<1> QED BY <1>1, LatestHolds, PTL
=============================================================================
