----------------------------- MODULE Fleet_proofs -----------------------------
(***************************************************************************)
(* Proofs about Fleet for any number of isolates, requests, tables and     *)
(* failures: an isolate has one build at a time and it is the one that is  *)
(* cached, a failure is told only once it is forgotten, and, while every   *)
(* isolate is deployed with the same config, the recorded snapshot is true *)
(* and what is served was built whole.                                     *)
(*                                                                         *)
(* The invariant has three parts.  Memo is the cache of promises.  Locked  *)
(* ties the write lock to the attempt inside a transaction, and Opened an  *)
(* attempt past its connection to what it could open.  Migrating is what   *)
(* is left to do of each migration, and needs the isolates to agree.       *)
(***************************************************************************)
EXTENDS Fleet, FiniteSetTheorems, TLAPS

Databases == [tables : SUBSET Tables, snap : SUBSET Tables]
Maybe     == Attempts \cup {None}
Phases    == {"free", "rejected", "up"} \cup InFlight

TypeOK ==
    /\ host \in AllHosts /\ adapter \in {"file", "d1"}
    /\ kit \in BOOLEAN /\ explicit \in BOOLEAN
    /\ version \in [Isolates -> Versions]
    /\ db \in Databases /\ draft \in Databases /\ writer \in Maybe
    /\ slot \in [Isolates -> Maybe]
    /\ phase \in [Attempts -> Phases]
    /\ home \in [Attempts -> Isolates]
    /\ edge \in [Attempts -> BOOLEAN]
    /\ todo \in [Attempts -> SUBSET Tables]
    /\ req \in [Requests -> {"idle", "waiting", "ok", "failed", "lost"}]
    /\ joined \in [Requests -> Maybe]
    /\ faults \in Nat

\* What an attempt's isolate caches is that attempt, until it is evicted, and
\* what a slot holds lives there.
Cached == \A a \in Attempts : phase[a] # "free" => slot[home[a]] = a
Slots  == \A i \in Isolates : slot[i] # None =>
              home[slot[i]] = i /\ phase[slot[i]] # "free"
Asked  == \A r \in Requests :
              /\ req[r] = "idle" => joined[r] = None
              /\ req[r] = "waiting" => joined[r] # None
Memo   == Cached /\ Slots /\ Asked /\ FailureForgotten

\* The lock is held by the one attempt that is inside a transaction.
Locked ==
    /\ adapter = "file" => \A a \in Attempts : phase[a] \in InTxn <=> writer = a
    /\ adapter = "d1" => writer = None

\* An attempt past its connection could open one.
Opened ==
    \A a \in Attempts :
        phase[a] \in {"snapshot", "begin", "boot", "up"} \cup InTxn => Opens(a)

Shape == TypeOK /\ Memo /\ Locked /\ Opened

\* All isolates are deployed with one config.
OneVersion == \A v, w \in Versions : v = w

\* What is left of the migration of the attempt a to the config goal, outside
\* its transaction and inside: the very difference, or what another attempt
\* has made of it meanwhile.
MigratingTo(a, goal) ==
    /\ phase[a] = "begin" =>
         todo[a] # {} /\ (todo[a] = Diff(db.snap, goal) \/ db.snap = goal)
    /\ phase[a] = "ddl" =>
         todo[a] # {} /\ (todo[a] = Diff(draft.tables, goal) \/ draft.tables = goal)
    /\ phase[a] = "record" => draft.tables = goal
    /\ phase[a] = "commit" => draft.tables = goal /\ draft.snap = goal
    /\ phase[a] \in {"boot", "up"} /\ Migrates(a) => db.tables = goal
Migrating == \A a \in Attempts : MigratingTo(a, version[home[a]])

Data == SnapshotTrue /\ (adapter = "file" => Migrating)
IInv == Shape /\ Data

-----------------------------------------------------------------------------
(* There is always a name for the attempt of a new build.                  *)

\* A set of values of a function at the elements of a finite set has no more
\* elements than that set.
LEMMA ImageBound ==
    ASSUME NEW S, IsFiniteSet(S), NEW f, NEW R, \A y \in R : \E s \in S : f[s] = y
    PROVE  IsFiniteSet(R) /\ Cardinality(R) \in Nat /\ Cardinality(R) <= Cardinality(S)
<1> DEFINE U == {s \in S : f[s] \in R}
           g == [s \in U |-> f[s]]
<1>1. g \in Surjection(U, R)
  BY DEF Surjection
<1>2. IsFiniteSet(U) /\ Cardinality(U) <= Cardinality(S)
  <2>1. U \in SUBSET S
    OBVIOUS
  <2> QED BY <2>1, FS_Subset
<1>3. IsFiniteSet(R) /\ Cardinality(R) <= Cardinality(U)
  <2> HIDE DEF U, g
  <2> QED BY <1>1, <1>2, FS_Surjection
<1>4. Cardinality(R) \in Nat /\ Cardinality(U) \in Nat /\ Cardinality(S) \in Nat
  BY <1>2, <1>3, FS_CardinalityType
<1> QED BY <1>2, <1>3, <1>4

\* An isolate that caches nothing and a request that asks leave a name free:
\* the others hold one each at most.
LEMMA FreshIsFree ==
    ASSUME FleetAssumption, TypeOK, Cached, Asked,
           NEW i \in Isolates, slot[i] = None, NEW r \in Requests, req[r] = "idle"
    PROVE  Fresh \in Free
<1> DEFINE I == Isolates \ {i}
           R == Requests \ {r}
           Serving == {slot[j] : j \in I}
           Awaited == {joined[q] : q \in R}
<1>1. /\ IsFiniteSet(I) /\ Cardinality(I) = Cardinality(Isolates) - 1
      /\ IsFiniteSet(R) /\ Cardinality(R) = Cardinality(Requests) - 1
      /\ Cardinality(Isolates) \in Nat /\ Cardinality(Requests) \in Nat
  BY FS_RemoveElement, FS_CardinalityType DEF FleetAssumption
<1>2. IsFiniteSet(Serving) /\ Cardinality(Serving) \in Nat /\ Cardinality(Serving) <= Cardinality(I)
  <2>1. \A y \in Serving : \E j \in I : slot[j] = y
    OBVIOUS
  <2> HIDE DEF I, Serving
  <2> QED BY <1>1, <2>1, ImageBound
<1>3. IsFiniteSet(Awaited) /\ Cardinality(Awaited) \in Nat /\ Cardinality(Awaited) <= Cardinality(R)
  <2>1. \A y \in Awaited : \E q \in R : joined[q] = y
    OBVIOUS
  <2> HIDE DEF R, Awaited
  <2> QED BY <1>1, <2>1, ImageBound
<1>4. /\ IsFiniteSet(Serving \cup Awaited)
      /\ Cardinality(Serving \cup Awaited) < Cardinality(Isolates) + Cardinality(Requests)
  <2> HIDE DEF Serving, Awaited, I, R
  <2>1. Cardinality(Serving \cup Awaited)
          = Cardinality(Serving) + Cardinality(Awaited) - Cardinality(Serving \cap Awaited)
    BY <1>2, <1>3, FS_Union
  <2>2. Cardinality(Serving \cap Awaited) \in Nat
    BY <1>2, FS_Intersection, FS_CardinalityType
  <2>3. IsFiniteSet(Serving \cup Awaited)
    BY <1>2, <1>3, FS_Union
  <2> QED BY <1>1, <1>2, <1>3, <2>1, <2>2, <2>3
<1>5. PICK a \in Attempts : a \notin Serving \cup Awaited
  <2> HIDE DEF Serving, Awaited
  <2>1. Cardinality(Attempts) = Cardinality(Isolates) + Cardinality(Requests)
    BY <1>1, FS_Interval DEF Attempts
  <2>2. Attempts \notin SUBSET (Serving \cup Awaited)
    BY <1>1, <1>4, <2>1, FS_Subset, FS_CardinalityType
  <2> QED BY <2>2
<1>6. phase[a] = "free"
  BY <1>5 DEF Cached, TypeOK, FleetAssumption
<1>7. \A q \in Requests : joined[q] # a
  BY <1>5 DEF Asked, FleetAssumption
<1> QED BY <1>6, <1>7 DEF Fresh, Free

-----------------------------------------------------------------------------
(* Types, and what the steps of an attempt leave alone.                    *)

\* The steps of an attempt that neither starts nor is evicted.
Working(a) ==
    \/ Resolve(a) \/ Connect(a) \/ ReadSnapshot(a) \/ Begin(a) \/ Statement(a)
    \/ RecordSnapshot(a) \/ Commit(a) \/ Rollback(a) \/ Boot(a) \/ Fail(a) \/ FailInside(a)

LEMMA InitType ==
    ASSUME FleetAssumption, Init
    PROVE  TypeOK
BY DEF FleetAssumption, Init, TypeOK, Databases, Maybe, Phases, InFlight

\* A build in progress goes on, settles or fails; its isolate and the promises
\* cached stay.
LEMMA WorkingFrame ==
    ASSUME TypeOK, NEW a \in Attempts, Working(a)
    PROVE  /\ UNCHANGED <<deployVars, slot, home, reqVars>>
           /\ \A b \in Attempts \ {a} :
                phase'[b] = phase[b] /\ edge'[b] = edge[b] /\ todo'[b] = todo[b]
           /\ phase[a] \notin {"free", "up", "rejected"}
           /\ phase' \in [Attempts -> Phases] /\ phase'[a] # "free"
           /\ edge' \in [Attempts -> BOOLEAN]
<1> USE DEF TypeOK, Goto, Reject, Phases, InFlight, InTxn
<1>1. CASE Resolve(a) BY <1>1 DEF Resolve, Fault
<1>2. CASE Connect(a) BY <1>2 DEF Connect, deployVars, reqVars
<1>3. CASE ReadSnapshot(a) BY <1>3 DEF ReadSnapshot
<1>4. CASE Begin(a) BY <1>4 DEF Begin
<1>5. CASE Statement(a) BY <1>5 DEF Statement
<1>6. CASE RecordSnapshot(a) BY <1>6 DEF RecordSnapshot
<1>7. CASE Commit(a) BY <1>7 DEF Commit
<1>8. CASE Rollback(a) BY <1>8 DEF Rollback
<1>9. CASE Boot(a) BY <1>9 DEF Boot
<1>10. CASE Fail(a) BY <1>10 DEF Fail
<1>11. CASE FailInside(a) BY <1>11 DEF FailInside
<1> QED BY <1>1, <1>2, <1>3, <1>4, <1>5, <1>6, <1>7, <1>8, <1>9, <1>10, <1>11 DEF Working

\* The database, the draft, the lock and the statements keep their types.
LEMMA WorkingTypes ==
    ASSUME FleetAssumption, TypeOK, NEW a \in Attempts, Working(a)
    PROVE  TypeOK'
<1>1. /\ db' \in Databases /\ draft' \in Databases /\ writer' \in Maybe
      /\ todo' \in [Attempts -> SUBSET Tables] /\ faults' \in Nat
  <2> USE DEF TypeOK, Databases, Maybe, dbVars
  <2>1. version[home[a]] \in SUBSET Tables
    BY DEF FleetAssumption
  <2>2. Seen(a) \in Databases
    BY DEF Seen
  <2>3. CASE Resolve(a) BY <2>3 DEF Resolve, Fault
  <2>4. CASE Connect(a) BY <2>4 DEF Connect
  <2>5. CASE ReadSnapshot(a) BY <2>1, <2>5 DEF ReadSnapshot, Diff
  <2>6. CASE Begin(a) BY <2>6 DEF Begin
  <2>7. CASE Statement(a)
    BY <2>1, <2>2, <2>7 DEF Statement, Put
  <2>8. CASE RecordSnapshot(a) BY <2>1, <2>2, <2>8 DEF RecordSnapshot, Put
  <2>9. CASE Commit(a) BY <2>2, <2>9 DEF Commit
  <2>10. CASE Rollback(a) BY <2>10 DEF Rollback, Reject
  <2>11. CASE Boot(a) BY <2>11 DEF Boot
  <2>12. CASE Fail(a) BY <2>12 DEF Fail, Reject, Fault
  <2>13. CASE FailInside(a) BY <2>13 DEF FailInside, Fault
  <2> QED BY <2>3, <2>4, <2>5, <2>6, <2>7, <2>8, <2>9, <2>10, <2>11, <2>12, <2>13 DEF Working
<1> QED BY <1>1, WorkingFrame DEF TypeOK, deployVars, reqVars

\* Every step keeps the types.
LEMMA NextType ==
    ASSUME FleetAssumption, TypeOK, Cached, Asked, [Next]_vars
    PROVE  TypeOK'
<1> USE DEF TypeOK, Maybe, Phases, InFlight, InTxn
<1>1. ASSUME NEW r \in Requests, NEW i \in Isolates, Fetch(r, i)
      PROVE  TypeOK'
  <2>1. CASE Build(r, i)
    <3>1. Fresh \in Attempts
      BY <1>1, <2>1, FreshIsFree DEF Fetch, Build, Free
    <3> QED BY <1>1, <2>1, <3>1 DEF Fetch, Build, Join, deployVars, dbVars
  <2>2. CASE Share(r, i)
    BY <1>1, <2>2 DEF Fetch, Share, Join, deployVars, dbVars, buildVars
  <2> QED BY <1>1, <2>1, <2>2 DEF Fetch
<1>2. ASSUME NEW r \in Requests, NEW i \in Isolates, ResolveThrows(r, i)
      PROVE  TypeOK'
  BY <1>2 DEF ResolveThrows, Fault, deployVars, dbVars, buildVars
<1>3. ASSUME NEW r \in Requests, Answer(r) \/ Again(r)
      PROVE  TypeOK'
  BY <1>3 DEF Answer, Again, deployVars, dbVars, buildVars
<1>4. ASSUME NEW a \in Attempts, Working(a)
      PROVE  TypeOK'
  BY <1>4, WorkingTypes
<1>5. ASSUME NEW a \in Attempts, Evict(a)
      PROVE  TypeOK'
  BY <1>5 DEF Evict, Goto, deployVars, dbVars, reqVars
<1>6. ASSUME NEW i \in Isolates, Crash(i)
      PROVE  TypeOK'
  BY <1>6 DEF Crash, Fault, deployVars
<1>7. CASE UNCHANGED vars
  BY <1>7 DEF vars, deployVars, dbVars, buildVars, reqVars
<1> QED BY <1>1, <1>2, <1>3, <1>4, <1>5, <1>6, <1>7 DEF Next, Step, Working

-----------------------------------------------------------------------------
(* The cache of promises.                                                  *)

LEMMA InitMemo ==
    ASSUME Init
    PROVE  Memo
BY DEF Init, Memo, Cached, Slots, Asked, FailureForgotten

\* What each step does to slots, to who is told and to who is building keeps
\* an isolate's builds and its slot in step.
LEMMA NextMemo ==
    ASSUME FleetAssumption, TypeOK, Memo, [Next]_vars
    PROVE  Memo'
<1> USE DEF Memo, Cached, Slots, Asked, FailureForgotten, TypeOK, Maybe, FleetAssumption
<1>1. ASSUME NEW r \in Requests, NEW i \in Isolates, Fetch(r, i)
      PROVE  Memo'
  <2>1. CASE Build(r, i)
    <3>1. Fresh \in Attempts /\ phase[Fresh] = "free" /\ \A q \in Requests : joined[q] # Fresh
      BY <1>1, <2>1, FreshIsFree DEF Fetch, Build, Free
    <3>2. \A j \in Isolates : slot[j] # Fresh
      BY <3>1
    <3> HIDE DEF Fresh
    <3> QED BY <1>1, <2>1, <3>1, <3>2 DEF Fetch, Build, Join
  <2>2. CASE Share(r, i)
    BY <1>1, <2>2 DEF Fetch, Share, Join, buildVars
  <2> QED BY <1>1, <2>1, <2>2 DEF Fetch
<1>2. ASSUME NEW r \in Requests, NEW i \in Isolates, ResolveThrows(r, i)
      PROVE  Memo'
  BY <1>2 DEF ResolveThrows, buildVars
<1>3. ASSUME NEW r \in Requests, Answer(r)
      PROVE  Memo'
  BY <1>3 DEF Answer, buildVars, Phases, InFlight, InTxn
<1>4. ASSUME NEW r \in Requests, Again(r)
      PROVE  Memo'
  BY <1>4 DEF Again, buildVars
<1>5. ASSUME NEW a \in Attempts, Working(a)
      PROVE  Memo'
  BY <1>5, WorkingFrame DEF reqVars
<1>6. ASSUME NEW a \in Attempts, Evict(a)
      PROVE  Memo'
  BY <1>6 DEF Evict, Goto, reqVars
<1>7. ASSUME NEW i \in Isolates, Crash(i)
      PROVE  Memo'
  BY <1>7 DEF Crash
<1>8. CASE UNCHANGED vars
  BY <1>8 DEF vars, buildVars, reqVars
<1> QED BY <1>1, <1>2, <1>3, <1>4, <1>5, <1>6, <1>7, <1>8 DEF Next, Step, Working

-----------------------------------------------------------------------------
(* The lock, and what could be opened.                                     *)

LEMMA InitLocked ==
    ASSUME FleetAssumption, Init
    PROVE  Locked /\ Opened
BY DEF FleetAssumption, Init, Locked, Opened, InTxn

\* The write lock and the phases inside a transaction come and go together.
LEMMA NextLocked ==
    ASSUME FleetAssumption, TypeOK, Memo, Locked, [Next]_vars
    PROVE  Locked'
<1> USE DEF Locked, TypeOK, Maybe, FleetAssumption, InTxn
<1>1. ASSUME NEW r \in Requests, NEW i \in Isolates, Fetch(r, i)
      PROVE  Locked'
  <2>1. CASE Build(r, i)
    <3>1. Fresh \in Attempts /\ phase[Fresh] = "free"
      BY <1>1, <2>1, FreshIsFree DEF Fetch, Build, Free, Memo
    <3> HIDE DEF Fresh
    <3> QED BY <1>1, <2>1, <3>1 DEF Fetch, Build, Join, deployVars, dbVars
  <2>2. CASE Share(r, i)
    BY <1>1, <2>2 DEF Fetch, Share, deployVars, dbVars, buildVars
  <2> QED BY <1>1, <2>1, <2>2 DEF Fetch
<1>2. ASSUME NEW r \in Requests, \/ Answer(r) \/ Again(r)
                                 \/ \E i \in Isolates : ResolveThrows(r, i)
      PROVE  Locked'
  BY <1>2 DEF Answer, Again, ResolveThrows, deployVars, dbVars, buildVars
<1>3. ASSUME NEW a \in Attempts, Working(a)
      PROVE  Locked'
  <2> USE DEF Goto, Reject, dbVars, deployVars
  <2>1. CASE Resolve(a) BY <2>1 DEF Resolve
  <2>2. CASE Connect(a) BY <2>2 DEF Connect
  <2>3. CASE ReadSnapshot(a) BY <2>3 DEF ReadSnapshot
  <2>4. CASE Begin(a) BY <2>4 DEF Begin
  <2>5. CASE Statement(a) BY <2>5 DEF Statement, Put
  <2>6. CASE RecordSnapshot(a) BY <2>6 DEF RecordSnapshot, Put
  <2>7. CASE Commit(a) BY <2>7 DEF Commit
  <2>8. CASE Rollback(a) BY <2>8 DEF Rollback
  <2>9. CASE Boot(a) BY <2>9 DEF Boot
  <2>10. CASE Fail(a) BY <2>10 DEF Fail
  <2>11. CASE FailInside(a) BY <2>11 DEF FailInside
  <2> QED BY <1>3, <2>1, <2>2, <2>3, <2>4, <2>5, <2>6, <2>7, <2>8, <2>9, <2>10, <2>11 DEF Working
<1>4. ASSUME NEW a \in Attempts, Evict(a)
      PROVE  Locked'
  BY <1>4 DEF Evict, Goto, deployVars, dbVars
<1>5. ASSUME NEW i \in Isolates, Crash(i)
      PROVE  Locked'
  BY <1>5 DEF Crash, deployVars
<1>6. CASE UNCHANGED vars
  BY <1>6 DEF vars, deployVars, dbVars, buildVars
<1> QED BY <1>1, <1>2, <1>3, <1>4, <1>5, <1>6 DEF Next, Step, Working

\* What an attempt's context says is settled before it connects.
LEMMA NextOpened ==
    ASSUME FleetAssumption, TypeOK, Memo, Opened, [Next]_vars
    PROVE  Opened'
<1> USE DEF Opened, Opens, TypeOK, InTxn
<1>1. ASSUME NEW r \in Requests, NEW i \in Isolates, Fetch(r, i)
      PROVE  Opened'
  <2>1. CASE Build(r, i)
    <3>1. Fresh \in Attempts /\ phase[Fresh] = "free"
      BY <1>1, <2>1, FreshIsFree DEF Fetch, Build, Free, Memo
    <3> HIDE DEF Fresh
    <3> QED BY <1>1, <2>1, <3>1 DEF Fetch, Build, Join, deployVars
  <2>2. CASE Share(r, i)
    BY <1>1, <2>2 DEF Fetch, Share, deployVars, buildVars
  <2> QED BY <1>1, <2>1, <2>2 DEF Fetch
<1>2. ASSUME NEW r \in Requests, \/ Answer(r) \/ Again(r)
                                 \/ \E i \in Isolates : ResolveThrows(r, i)
      PROVE  Opened'
  BY <1>2 DEF Answer, Again, ResolveThrows, deployVars, buildVars
<1>3. ASSUME NEW a \in Attempts, Working(a)
      PROVE  Opened'
  <2> USE DEF Goto, Reject, deployVars
  <2>1. CASE Resolve(a) BY <2>1 DEF Resolve
  <2>2. CASE Connect(a) BY <2>2 DEF Connect
  <2>3. CASE ReadSnapshot(a) BY <2>3 DEF ReadSnapshot
  <2>4. CASE Begin(a) BY <2>4 DEF Begin
  <2>5. CASE Statement(a) BY <2>5 DEF Statement
  <2>6. CASE RecordSnapshot(a) BY <2>6 DEF RecordSnapshot
  <2>7. CASE Commit(a) BY <2>7 DEF Commit
  <2>8. CASE Rollback(a) BY <2>8 DEF Rollback
  <2>9. CASE Boot(a) BY <2>9 DEF Boot
  <2>10. CASE Fail(a) BY <2>10 DEF Fail
  <2>11. CASE FailInside(a) BY <2>11 DEF FailInside
  <2> QED BY <1>3, <2>1, <2>2, <2>3, <2>4, <2>5, <2>6, <2>7, <2>8, <2>9, <2>10, <2>11 DEF Working
<1>4. ASSUME NEW a \in Attempts, Evict(a)
      PROVE  Opened'
  BY <1>4 DEF Evict, Goto, deployVars
<1>5. ASSUME NEW i \in Isolates, Crash(i)
      PROVE  Opened'
  BY <1>5 DEF Crash, deployVars
<1>6. CASE UNCHANGED vars
  BY <1>6 DEF vars, deployVars, buildVars
<1> QED BY <1>1, <1>2, <1>3, <1>4, <1>5, <1>6 DEF Next, Step, Working

-----------------------------------------------------------------------------
(* The migrations of isolates that agree, on a database with transactions. *)

\* The config is one.
LEMMA Agreed ==
    ASSUME FleetAssumption, OneVersion, TypeOK
    PROVE  \E goal \in SUBSET Tables : \A i \in Isolates : version[i] = goal
<1>1. PICK i \in Isolates : TRUE
  BY DEF FleetAssumption
<1>2. version[i] \in SUBSET Tables /\ \A j \in Isolates : version[j] = version[i]
  BY DEF FleetAssumption, OneVersion, TypeOK
<1> QED BY <1>2

LEMMA InitData ==
    ASSUME Init
    PROVE  Data
BY DEF Init, Data, SnapshotTrue, Migrating, MigratingTo

\* A statement is run on the difference that is left, or finds nothing to do
\* and throws; what is committed is the config and its snapshot.
LEMMA WorkingData ==
    ASSUME FleetAssumption, TypeOK, Locked, db.tables = db.snap, adapter = "file",
           NEW goal \in SUBSET Tables, \A i \in Isolates : version[i] = goal,
           \A b \in Attempts : MigratingTo(b, goal),
           NEW a \in Attempts, Working(a)
    PROVE  /\ db'.tables = db'.snap
           /\ \A b \in Attempts : MigratingTo(b, goal)'
<1> USE DEF TypeOK, Databases, MigratingTo, Migrates, Locked, InTxn, Goto, Reject, deployVars, dbVars
<1>0. version[home[a]] = goal
  OBVIOUS
<1>1. CASE Resolve(a) BY <1>1 DEF Resolve
<1>2. CASE Connect(a) BY <1>2 DEF Connect
<1>3. CASE ReadSnapshot(a)
  <2>1. Diff(db.snap, goal) = {} => db.snap = goal
    BY DEF Diff
  <2> QED BY <1>0, <1>3, <2>1 DEF ReadSnapshot
<1>4. CASE Begin(a)
  <2>1. CASE writer = None
    <3>1. db' = db /\ draft' = db /\ UNCHANGED <<edge, home, host, todo>>
      BY <1>4, <2>1 DEF Begin
    <3>2. phase' = [phase EXCEPT ![a] = "ddl"] /\ phase[a] = "begin"
      BY <1>4, <2>1 DEF Begin
    <3>3. \A b \in Attempts : phase[b] \notin InTxn
      BY <2>1 DEF FleetAssumption
    <3> QED BY <3>1, <3>2, <3>3
  <2>2. CASE writer # None
    BY <1>4, <2>2 DEF Begin
  <2> QED BY <2>1, <2>2
<1>5. CASE Statement(a)
  <2>1. writer = a /\ Seen(a) = draft /\ phase[a] = "ddl"
    BY <1>5 DEF Statement, Seen
  <2>2. PICK t \in todo[a] :
          \/ /\ (t \in goal) # (t \in draft.tables)
             /\ Put(a, [draft EXCEPT !.tables = IF t \in goal THEN @ \cup {t} ELSE @ \ {t}])
             /\ todo' = [todo EXCEPT ![a] = @ \ {t}]
             /\ Goto(a, IF todo[a] = {t} THEN "record" ELSE "ddl")
          \/ /\ (t \in goal) = (t \in draft.tables)
             /\ Goto(a, "rollback")
             /\ UNCHANGED <<dbVars, todo>>
    <3>1. Seen(a) = draft /\ version[home[a]] = goal
      BY <1>0, <2>1
    <3> HIDE DEF Put, Seen, MigratingTo, Migrates, Locked, TypeOK, dbVars, Goto
    <3> QED BY <1>5, <3>1, Zenon DEF Statement
  <2>3. UNCHANGED <<edge, home, host, db>>
    BY <1>5, <2>1, <2>2 DEF Statement, Put
  <2>4. ASSUME NEW b \in Attempts \ {a}
        PROVE  MigratingTo(b, goal)'
    <3>1. phase[b] \notin InTxn
      BY <2>1
    <3> QED BY <2>2, <2>3, <3>1
  <2>5. CASE (t \in goal) = (t \in draft.tables)
    BY <2>2, <2>3, <2>4, <2>5
  <2>6. CASE (t \in goal) # (t \in draft.tables)
    <3>1. todo[a] = Diff(draft.tables, goal)
      BY <2>1, <2>6
    <3>2. Diff(draft'.tables, goal) = todo'[a]
      BY <2>1, <2>2, <2>6, <3>1 DEF Diff, Put
    <3>3. CASE todo[a] = {t}
      <4>1. Diff(draft'.tables, goal) = {}
        BY <2>1, <2>2, <2>6, <3>2, <3>3
      <4>2. draft'.tables = goal
        BY <4>1 DEF Diff
      <4> QED BY <2>2, <2>3, <2>4, <2>6, <3>3, <4>2
    <3>4. CASE todo[a] # {t}
      BY <2>2, <2>3, <2>4, <2>6, <3>2, <3>4
    <3> QED BY <3>3, <3>4
  <2> QED BY <2>5, <2>6
<1>6. CASE RecordSnapshot(a) BY <1>0, <1>6 DEF RecordSnapshot, Put, Seen
<1>7. CASE Commit(a) BY <1>7 DEF Commit, Seen
<1>8. CASE Rollback(a) BY <1>8 DEF Rollback
<1>9. CASE Boot(a) BY <1>9 DEF Boot
<1>10. CASE Fail(a) BY <1>10 DEF Fail
<1>11. CASE FailInside(a) BY <1>11 DEF FailInside
<1> QED BY <1>1, <1>2, <1>3, <1>4, <1>5, <1>6, <1>7, <1>8, <1>9, <1>10, <1>11 DEF Working

LEMMA NextData ==
    ASSUME FleetAssumption, OneVersion, Shape, Data, [Next]_vars, TypeOK'
    PROVE  Data'
<1>1. PICK goal \in SUBSET Tables : \A i \in Isolates : version[i] = goal
  BY Agreed DEF Shape
<1>2. UNCHANGED deployVars
  BY DEF Next, Step, Fetch, ResolveThrows, Answer, Again, Resolve, Connect, ReadSnapshot, Begin,
     Statement, RecordSnapshot, Commit, Rollback, Boot, Evict, Fail, FailInside, Crash, vars
<1>3. CASE adapter = "d1"
  BY <1>2, <1>3 DEF Data, SnapshotTrue, deployVars
<1>4. CASE adapter = "file"
  <2>1. db.tables = db.snap /\ \A a \in Attempts : MigratingTo(a, goal)
    BY <1>1, <1>4 DEF Data, SnapshotTrue, Migrating, Shape, TypeOK
  <2>2. SUFFICES /\ db'.tables = db'.snap
                 /\ \A a \in Attempts : MigratingTo(a, goal)'
    BY <1>1, <1>2, <1>4 DEF Data, SnapshotTrue, Migrating, TypeOK, deployVars
  <2> USE DEF Shape, TypeOK, MigratingTo, Migrates
  <2>3. ASSUME NEW r \in Requests, NEW i \in Isolates, Fetch(r, i)
        PROVE  \A a \in Attempts : MigratingTo(a, goal)'
    <3>1. CASE Build(r, i)
      <4>1. Fresh \in Attempts /\ phase[Fresh] = "free"
        BY <2>3, <3>1, FreshIsFree DEF Fetch, Build, Free, Memo
      <4> HIDE DEF Fresh
      <4> QED BY <2>1, <2>3, <3>1, <4>1 DEF Fetch, Build, deployVars, dbVars
    <3>2. CASE Share(r, i)
      BY <2>1, <2>3, <3>2 DEF Fetch, Share, deployVars, dbVars, buildVars
    <3> QED BY <2>3, <3>1, <3>2 DEF Fetch
  <2>4. ASSUME NEW r \in Requests, \/ Answer(r) \/ Again(r)
                                   \/ \E i \in Isolates : ResolveThrows(r, i)
        PROVE  \A a \in Attempts : MigratingTo(a, goal)'
    BY <2>1, <2>4 DEF Answer, Again, ResolveThrows, deployVars, dbVars, buildVars
  <2>5. ASSUME NEW a \in Attempts, Working(a)
        PROVE  db'.tables = db'.snap /\ \A b \in Attempts : MigratingTo(b, goal)'
    <3> HIDE DEF MigratingTo
    <3> QED BY <1>1, <1>4, <2>1, <2>5, WorkingData DEF Locked
  <2>6. ASSUME NEW a \in Attempts, Evict(a)
        PROVE  \A b \in Attempts : MigratingTo(b, goal)'
    BY <2>1, <2>6 DEF Evict, Goto, deployVars, dbVars
  <2>7. ASSUME NEW i \in Isolates, Crash(i)
        PROVE  \A b \in Attempts : MigratingTo(b, goal)'
    BY <2>1, <2>7 DEF Crash, deployVars
  <2>8. CASE UNCHANGED vars
    BY <2>1, <2>8 DEF vars, deployVars, dbVars, buildVars
  <2>9. (\A a \in Attempts : ~Working(a)) => UNCHANGED db
    BY DEF Next, Step, Working, Fetch, ResolveThrows, Answer, Again, Evict, Crash, vars, dbVars
  <2> QED BY <2>1, <2>3, <2>4, <2>5, <2>6, <2>7, <2>8, <2>9 DEF Next, Step, Working
<1> QED BY <1>3, <1>4 DEF Shape, TypeOK

-----------------------------------------------------------------------------
(* Theorems.                                                               *)

LEMMA ShapeInductive == ASSUME FleetAssumption PROVE SafetySpec => []Shape
<1>1. Init => Shape
  BY InitType, InitMemo, InitLocked DEF Shape
<1>2. Shape /\ [Next]_vars => Shape'
  BY NextType, NextMemo, NextLocked, NextOpened DEF Shape, Memo
<1> QED BY <1>1, <1>2, PTL DEF SafetySpec

LEMMA DataInductive == ASSUME FleetAssumption, OneVersion PROVE SafetySpec => []IInv
<1>1. Init => IInv
  BY InitType, InitMemo, InitLocked, InitData DEF Shape, IInv
<1>2. IInv /\ [Next]_vars => IInv'
  BY NextType, NextMemo, NextLocked, NextOpened, NextData DEF IInv, Shape, Memo
<1> QED BY <1>1, <1>2, PTL DEF SafetySpec

\* Slots, promises, requests and the database keep their types.
THEOREM TypeCorrect == ASSUME FleetAssumption PROVE SafetySpec => []TypeOK
<1>1. Shape => TypeOK
  BY DEF Shape
<1> QED BY <1>1, ShapeInductive, PTL

\* Whatever is being built, or serves, in an isolate is what its cache holds
\* (serve.ts, worker.ts: the memo of the build's promise).
THEOREM BuildIsCached == ASSUME FleetAssumption PROVE SafetySpec => []OneBuild
<1>1. Shape => OneBuild
  BY DEF Shape, Memo, Cached, OneBuild, TypeOK, InFlight, InTxn
<1> QED BY <1>1, ShapeInductive, PTL

\* No isolate has two builds in progress or in service at once: callers of a
\* cold start share one.
OnePerIsolate ==
    \A a, b \in Attempts :
        /\ phase[a] \in InFlight \cup {"up"} /\ phase[b] \in InFlight \cup {"up"}
        /\ home[a] = home[b]
        => a = b
THEOREM NeverTwoBuilds == ASSUME FleetAssumption PROVE SafetySpec => []OnePerIsolate
<1>1. Shape => OnePerIsolate
  BY DEF Shape, Memo, Cached, OnePerIsolate, TypeOK, InFlight, InTxn
<1> QED BY <1>1, ShapeInductive, PTL

\* A failed build is forgotten before its callers hear of it (the catch that
\* clears the cached promise is registered first).
THEOREM ForgottenFirst == ASSUME FleetAssumption PROVE SafetySpec => []FailureForgotten
<1>1. Shape => FailureForgotten
  BY DEF Shape, Memo
<1> QED BY <1>1, ShapeInductive, PTL

\* When the isolates agree on the config, the recorded snapshot is that of the
\* tables however many of them migrate, fail or die (migrate/sqlite.ts: one
\* transaction around the statements and the snapshot).
THEOREM SnapshotStaysTrue ==
    ASSUME FleetAssumption, OneVersion PROVE SafetySpec => []SnapshotTrue
<1>1. IInv => SnapshotTrue
  BY DEF IInv, Data
<1> QED BY <1>1, DataInductive, PTL

\* When the isolates agree on the config, a backend that is up and migrates
\* finds its tables, though the snapshot it compared with may have been read
\* before another isolate's transaction; and none is up on a connection its
\* host cannot open.
THEOREM ServesWhole ==
    ASSUME FleetAssumption, OneVersion PROVE SafetySpec => []UpIsWhole
<1>1. IInv => UpIsWhole
  BY DEF IInv, Shape, Data, TypeOK, Opened, Opens, Migrating, MigratingTo, UpIsWhole
<1> QED BY <1>1, DataInductive, PTL

=============================================================================
