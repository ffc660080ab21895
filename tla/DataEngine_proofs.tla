--------------------------- MODULE DataEngine_proofs ---------------------------
(***************************************************************************)
(* Proofs about DataEngine for any number of requests, users, fields,      *)
(* rules and inputs: what a row's server-managed fields may hold, which    *)
(* rows exist, and who may learn that they do.                             *)
(*                                                                         *)
(* What makes the invariants inductive is Shape: what a request between    *)
(* two awaits has established and nothing can undo - the deletion it is    *)
(* about to make is of a row that was created, the patch it is about to    *)
(* write repeats values that were legitimate when it fetched them, and     *)
(* legitimacy never lapses (Did and Legitimate are stable).                *)
(***************************************************************************)
EXTENDS DataEngine, TLAPS

Step(r) == Receive(r) \/ Insert(r) \/ Fetch(r) \/ Write(r) \/ Remove(r) \/ Fail(r) \/ Emit(r)

\* A request past its fetch was admitted by its rule on the copy it holds.
Admitted(r) == seen[r] # NoRow /\ CheckRow(call[r].op, call[r].who, seen[r])

Shape ==
    \A r \in Requests :
        /\ pc[r] = "idle" => call[r] = NoCall /\ rows[r] = NoRow
        /\ pc[r] # "idle" => call[r] \in Calls
        /\ answer[r] # "none" <=> pc[r] = "done"
        /\ pc[r] = "insert" =>
             /\ call[r].op = "create" /\ call[r].id = r
             /\ call[r].input \in Inputs /\ rows[r] = NoRow
        /\ pc[r] = "fetch" =>
             /\ call[r].op \in {"update", "delete"}
             /\ call[r].op = "delete" => call[r].input = Empty
        /\ pc[r] = "update" =>
             call[r].op = "update" /\ call[r].input \in Inputs \cup {Empty} /\ Admitted(r)
        /\ pc[r] = "delete" =>
             call[r].op = "delete" /\ Admitted(r) /\ Did(call[r].id, "create")
        /\ Did(r, "update") => Admitted(r)
        /\ Did(r, "delete") => Admitted(r) /\ Did(call[r].id, "create")

\* A patch about to be written by a non-admin holds legitimate values only.
Checked ==
    \A r \in Requests : pc[r] = "update" /\ ~Admin(call[r].who) =>
        \A f \in Managed \cap DOMAIN call[r].input :
            Legitimate(call[r].id, f, call[r].input[f])

\* A request emits exactly when it is answered ok, and its payload is a row.
Payload(r) == IF call[r].op = "delete" THEN seen[r] ELSE result[r]
Told ==
    \A r \in Requests :
        /\ event[r] # NoRow <=> answer[r] = "ok"
        /\ pc[r] = "emit" => Payload(r) # NoRow

IInv == TypeOK /\ Shape /\ Checked /\ ServerManaged /\ AnswersTellRows /\ NoOracle /\ Told

-----------------------------------------------------------------------------
(* Frames.                                                                 *)

\* A step of one request leaves every other request's own state alone, and no
\* request forgets what it asked.
LEMMA Frame ==
    ASSUME TypeOK, NEW r \in Requests, Step(r)
    PROVE  /\ \A q \in Requests \ {r} :
                /\ pc'[q] = pc[q] /\ call'[q] = call[q] /\ answer'[q] = answer[q]
                /\ seen'[q] = seen[q]
           /\ pc[r] # "idle" => call'[r] = call[r]
           /\ pc[r] # "done"
           /\ pc'[r] # "idle"
<1> USE DEF TypeOK
<1>1. CASE Receive(r)
  BY <1>1 DEF Receive, Create, Update, Delete, Modify, Goto, Reply
<1>2. CASE Insert(r)
  BY <1>2 DEF Insert, Goto, Reply
<1>3. CASE Fetch(r)
  BY <1>3 DEF Fetch, Goto, Reply
<1>4. CASE Write(r)
  BY <1>4 DEF Write, Goto, Reply
<1>5. CASE Remove(r)
  BY <1>5 DEF Remove, Goto, Reply
<1>6. CASE Fail(r)
  BY <1>6 DEF Fail, Reply
<1>7. CASE Emit(r)
  BY <1>7 DEF Emit, Reply
<1> QED BY <1>1, <1>2, <1>3, <1>4, <1>5, <1>6, <1>7 DEF Step

\* What is done stays done, by the same call.
LEMMA DidStable ==
    ASSUME TypeOK, Shape, NEW r \in Requests, Step(r),
           NEW q \in Requests, NEW op \in Ops, Did(q, op)
    PROVE  Did(q, op)' /\ call'[q] = call[q]
<1>1. CASE q # r
  BY <1>1, Frame DEF Did
<1>2. CASE q = r
  <2>1. pc[r] = "emit"
    BY <1>2, Frame DEF Did, Shape
  <2>2. Emit(r)
    BY <2>1 DEF Step, Receive, Create, Update, Delete, Modify, Insert, Fetch, Write, Remove, Fail
  <2> QED BY <1>2, <2>1, <2>2, Frame DEF Did, Emit, Reply, TypeOK
<1> QED BY <1>1, <1>2

\* What was legitimate stays legitimate.
LEMMA LegitimateStable ==
    ASSUME TypeOK, Shape, NEW r \in Requests, Step(r),
           NEW id \in Requests, NEW f \in Fields, NEW v, Legitimate(id, f, v)
    PROVE  Legitimate(id, f, v)'
<1>1. CASE v = Null
  BY <1>1 DEF Legitimate
<1>2. CASE f \in OwnerFields /\ Did(id, "create") /\ v = call[id].who /\ v # Guest
  BY <1>2, DidStable DEF Legitimate, Ops
<1>3. ASSUME NEW q \in Requests,
             Did(q, "create") \/ Did(q, "update"),
             Admin(call[q].who), call[q].id = id,
             f \in DOMAIN call[q].input, call[q].input[f] = v
      PROVE  Legitimate(id, f, v)'
  <2>1. (Did(q, "create") \/ Did(q, "update"))' /\ call'[q] = call[q]
    BY <1>3, DidStable DEF Ops
  <2> QED BY <1>3, <2>1 DEF Legitimate, Admin
<1> QED BY <1>1, <1>2, <1>3 DEF Legitimate

-----------------------------------------------------------------------------
(* Types.                                                                  *)

\* What a request inserts or patches is a row.
LEMMA RowTypes ==
    ASSUME EngineAssumption, NEW input \in Inputs \cup {Empty}
    PROVE  /\ \A who \in Callers : Prepared(who, input) \in Rows
           /\ \A row \in Rows : Patched(row, input) \in Rows
<1>1. \A f \in DOMAIN input : input[f] \in Values
  BY DEF EngineAssumption, Partial, Empty
<1>2. \A f \in Fields : Given(input, f) \in Values \cup {Null}
  BY <1>1 DEF Given
<1>3. ASSUME NEW who \in Callers PROVE Prepared(who, input) \in Rows
  BY <1>2 DEF EngineAssumption, Callers, Prepared, Rows, Admin
<1>4. ASSUME NEW row \in Rows PROVE Patched(row, input) \in Rows
  BY <1>1 DEF Patched, Rows
<1> QED BY <1>3, <1>4

\* Every step keeps the types: inserted and patched rows are rows.
LEMMA TypeStep ==
    ASSUME EngineAssumption, TypeOK, Shape, NEW r \in Requests, Step(r)
    PROVE  TypeOK'
<1>1. CASE Receive(r)
  <2>1. PICK c \in Calls : call' = [call EXCEPT ![r] = c]
    BY <1>1 DEF Receive, Create, Update, Delete, Modify, Calls, Ops
  <2> QED BY <1>1, <2>1 DEF TypeOK, Receive, Create, Update, Delete, Modify, Goto, Reply
<1>2. CASE Insert(r)
  <2>1. Prepared(call[r].who, call[r].input) \in Rows
    BY <1>2, RowTypes DEF Insert, Shape, Calls
  <2> QED BY <1>2, <2>1 DEF TypeOK, Insert, Goto, Reply
<1>3. CASE Fetch(r)
  <2>1. call[r].id \in Requests
    BY <1>3 DEF Fetch, Shape, Calls
  <2> QED BY <1>3, <2>1 DEF TypeOK, Fetch, Goto, Reply
<1>4. CASE Write(r)
  <2>1. call[r].id \in Requests /\ call[r].input \in Inputs \cup {Empty}
    BY <1>4 DEF Write, Shape, Calls
  <2>2. rows[call[r].id] # NoRow => Patched(rows[call[r].id], call[r].input) \in Rows
    BY <2>1, RowTypes DEF TypeOK
  <2> QED BY <1>4, <2>1, <2>2 DEF TypeOK, Write, Goto, Reply
<1>5. CASE Remove(r)
  BY <1>5 DEF TypeOK, Remove, Goto, Reply
<1>6. CASE Fail(r)
  BY <1>6 DEF TypeOK, Fail, Reply
<1>7. CASE Emit(r)
  <2>1. (IF call[r].op = "delete" THEN seen[r] ELSE result[r]) \in Rows \cup {NoRow}
    BY DEF TypeOK
  <2> QED BY <1>7, <2>1 DEF TypeOK, Emit, Reply
<1> QED BY <1>1, <1>2, <1>3, <1>4, <1>5, <1>6, <1>7 DEF Step

-----------------------------------------------------------------------------
(* The table changes only by a request's own write.                        *)

\* Whatever the step, a row is inserted, patched or removed by the request
\* that goes on to announce it, or nothing is.
LEMMA RowsChange ==
    ASSUME TypeOK, Shape, NEW r \in Requests, Step(r)
    PROVE  \/ rows' = rows /\ pc'[r] # "emit"
           \/ /\ pc[r] = "insert" /\ pc'[r] = "emit"
              /\ rows' = [rows EXCEPT ![r] = Prepared(call[r].who, call[r].input)]
           \/ /\ pc[r] = "update" /\ pc'[r] = "emit" /\ rows[call[r].id] # NoRow
              /\ rows' = [rows EXCEPT ![call[r].id] =
                            Patched(rows[call[r].id], call[r].input)]
           \/ /\ pc[r] = "delete" /\ pc'[r] = "emit"
              /\ rows' = [rows EXCEPT ![call[r].id] = NoRow]
<1> USE DEF TypeOK
<1>1. CASE Receive(r)
  BY <1>1 DEF Receive, Create, Update, Delete, Modify, Goto, Reply
<1>2. CASE Insert(r)
  BY <1>2 DEF Insert, Goto, Reply
<1>3. CASE Fetch(r)
  BY <1>3 DEF Fetch, Goto, Reply
<1>4. CASE Write(r)
  BY <1>4 DEF Write, Goto, Reply
<1>5. CASE Remove(r)
  BY <1>5 DEF Remove, Goto, Reply
<1>6. CASE Fail(r)
  BY <1>6 DEF Fail, Reply
<1>7. CASE Emit(r)
  BY <1>7 DEF Emit, Reply
<1> QED BY <1>1, <1>2, <1>3, <1>4, <1>5, <1>6, <1>7 DEF Step

-----------------------------------------------------------------------------
(* Shape.                                                                  *)

\* Rows appear only where they were, or under the request inserting them.
LEMMA NoRowStays ==
    ASSUME EngineAssumption, TypeOK, Shape, NEW r \in Requests, Step(r),
           NEW q \in Requests \ {r}, rows[q] = NoRow
    PROVE  rows'[q] = NoRow
BY RowsChange DEF TypeOK

\* The row a request is about stays created.
LEMMA TargetStable ==
    ASSUME TypeOK, Shape, NEW r \in Requests, Step(r),
           NEW q \in Requests, call[q] \in Calls, call'[q] = call[q],
           Did(call[q].id, "create")
    PROVE  Did(call[q].id, "create")'
<1>1. PICK id \in Requests : id = call[q].id
  BY DEF Calls
<1>2. Did(id, "create")'
  BY <1>1, DidStable DEF Ops
<1> QED BY <1>1, <1>2

\* What is known of a request at each of its awaits stays known.
LEMMA ShapeStep ==
    ASSUME EngineAssumption, TypeOK, Shape, AnswersTellRows, NEW r \in Requests, Step(r)
    PROVE  Shape'
<1> DEFINE ShapeOf(q) ==
        /\ pc[q] = "idle" => call[q] = NoCall /\ rows[q] = NoRow
        /\ pc[q] # "idle" => call[q] \in Calls
        /\ answer[q] # "none" <=> pc[q] = "done"
        /\ pc[q] = "insert" =>
             /\ call[q].op = "create" /\ call[q].id = q
             /\ call[q].input \in Inputs /\ rows[q] = NoRow
        /\ pc[q] = "fetch" =>
             /\ call[q].op \in {"update", "delete"}
             /\ call[q].op = "delete" => call[q].input = Empty
        /\ pc[q] = "update" =>
             call[q].op = "update" /\ call[q].input \in Inputs \cup {Empty} /\ Admitted(q)
        /\ pc[q] = "delete" =>
             call[q].op = "delete" /\ Admitted(q) /\ Did(call[q].id, "create")
        /\ Did(q, "update") => Admitted(q)
        /\ Did(q, "delete") => Admitted(q) /\ Did(call[q].id, "create")
<1>1. ASSUME NEW q \in Requests \ {r} PROVE ShapeOf(q)'
  <2>1. /\ pc'[q] = pc[q] /\ call'[q] = call[q] /\ answer'[q] = answer[q]
        /\ seen'[q] = seen[q]
    BY Frame
  <2>2. \A op \in Ops : Did(q, op)' => Did(q, op)
    BY <2>1 DEF Did
  <2>3. Admitted(q) => Admitted(q)'
    BY <2>1 DEF Admitted, CheckRow, Admin
  <2>4. ASSUME call[q] \in Calls, Did(call[q].id, "create")
        PROVE  Did(call[q].id, "create")'
    BY <2>1, <2>4, TargetStable
  <2>5. call[q] # NoCall => call[q] \in Calls
    BY DEF TypeOK
  <2>6. pc[q] \in {"idle", "insert"} => rows'[q] = NoRow
    BY NoRowStays DEF Shape
  <2>7. pc[q] # "idle" => call[q] # NoCall
    BY DEF Shape, EngineAssumption
  <2>8. ShapeOf(q)
    BY DEF Shape
  <2>9. (Did(q, "update"))' => Admitted(q)'
    BY <2>2, <2>3, <2>8 DEF Ops
  <2>10. (Did(q, "delete"))' => Admitted(q)' /\ Did(call[q].id, "create")'
    BY <2>2, <2>3, <2>4, <2>5, <2>8 DEF Ops, Did
  <2>11. pc[q] = "delete" => Did(call[q].id, "create")'
    BY <2>4, <2>5, <2>7, <2>8
  <2> HIDE DEF Did, Admitted
  <2> QED BY <2>1, <2>3, <2>6, <2>8, <2>9, <2>10, <2>11
<1>2. ShapeOf(r)'
  <2>1. CASE Receive(r)
    <3>1. PICK c \in Calls : call' = [call EXCEPT ![r] = c]
      BY <2>1 DEF Receive, Create, Update, Delete, Modify, Calls, Ops
    <3>2. pc[r] = "idle" /\ answer[r] = "none"
      BY <2>1 DEF Receive, Create, Update, Delete, Modify, Shape
    <3>3. ~Did(r, "update")' /\ ~Did(r, "delete")'
      BY <2>1, <3>2 DEF Receive, Create, Update, Delete, Modify, Goto, Reply, Did, TypeOK
    <3>4. /\ call'[r] \in Calls /\ rows' = rows /\ rows[r] = NoRow
          /\ pc'[r] \in {"insert", "fetch", "done"}
          /\ answer'[r] # "none" <=> pc'[r] = "done"
      <4>1. call'[r] \in Calls
        BY <3>1 DEF TypeOK
      <4>2. rows' = rows /\ rows[r] = NoRow
        BY <2>1, <3>2 DEF Receive, Create, Update, Delete, Modify, Shape
      <4>3. /\ pc'[r] \in {"insert", "fetch", "done"}
            /\ answer'[r] # "none" <=> pc'[r] = "done"
        BY <2>1, <3>2
           DEF Receive, Create, Update, Delete, Modify, Goto, Reply, TypeOK
      <4> QED BY <4>1, <4>2, <4>3
    <3>5. CASE \E who \in Callers, input \in Inputs \cup {Malformed} : Create(r, who, input)
      <4>1. pc'[r] = "insert" => /\ call'[r].op = "create" /\ call'[r].id = r
                                 /\ call'[r].input \in Inputs
        BY <3>5 DEF Create, Goto, Reply, TypeOK
      <4>2. pc'[r] # "fetch"
        BY <3>5 DEF Create, Goto, Reply, TypeOK
      <4> HIDE DEF Did, Admitted
      <4> QED BY <3>3, <3>4, <4>1, <4>2
    <3>6. CASE \E who \in Callers, input \in Inputs \cup {Malformed},
                 id \in Requests \ {r} : Update(r, who, id, input) \/ Delete(r, who, id)
      <4>1. pc'[r] = "fetch" => /\ call'[r].op \in {"update", "delete"}
                                /\ call'[r].op = "delete" => call'[r].input = Empty
        BY <3>6 DEF Update, Delete, Modify, Goto, Reply, TypeOK
      <4>2. pc'[r] # "insert"
        BY <3>6 DEF Update, Delete, Modify, Goto, Reply, TypeOK
      <4> HIDE DEF Did, Admitted
      <4> QED BY <3>3, <3>4, <4>1, <4>2
    <3> QED BY <2>1, <3>5, <3>6 DEF Receive
  <2>2. CASE Insert(r)
    BY <2>2 DEF Insert, Goto, Reply, TypeOK, Shape, Did
  <2>3. CASE Fetch(r)
    <3>1. /\ pc[r] = "fetch" /\ call' = call /\ rows' = rows
          /\ seen' = [seen EXCEPT ![r] = rows[call[r].id]]
          /\ call[r] \in Calls
      BY <2>3 DEF Fetch, Shape
    <3>2. pc'[r] \in {"update", "delete", "done"}
      BY <2>3 DEF Fetch, Goto, Reply, TypeOK
    <3>3. pc'[r] \in {"update", "delete"} => Admitted(r)' /\ Allowed(r)
      BY <2>3, <3>1 DEF Fetch, Goto, Reply, TypeOK, Allowed, Admitted, CheckRow, Admin
    <3>4. ASSUME Allowed(r) PROVE Did(call[r].id, "create")'
      <4>1. rows[call[r].id] # NoRow /\ call[r].id \in Requests
        BY <3>1, <3>4 DEF Allowed, Calls
      <4>2. Did(call[r].id, "create")
        BY <4>1 DEF AnswersTellRows
      <4> QED BY <3>1, <4>2, TargetStable
    <3>5. ~Did(r, "update")' /\ ~Did(r, "delete")'
      BY <2>3, <3>1 DEF Fetch, Goto, Reply, Did, TypeOK, Shape
    <3> HIDE DEF Admitted, Allowed, Did
    <3> QED BY <2>3, <3>1, <3>2, <3>3, <3>4, <3>5
         DEF Fetch, Goto, Reply, TypeOK, Shape, Calls, EngineAssumption
  <2>4. CASE Write(r)
    <3>1. call[r].op = "update" /\ Admitted(r) /\ call[r] \in Calls
      BY <2>4 DEF Write, Shape
    <3>2. call' = call /\ seen' = seen
      BY <2>4 DEF Write
    <3>3. Admitted(r)'
      BY <3>1, <3>2 DEF Admitted, CheckRow, Admin
    <3> QED BY <2>4, <3>1, <3>2, <3>3 DEF Write, Goto, Reply, TypeOK, Shape, Did
  <2>5. CASE Remove(r)
    <3>1. /\ call[r].op = "delete" /\ Admitted(r) /\ call[r] \in Calls
          /\ Did(call[r].id, "create")
      BY <2>5 DEF Remove, Shape
    <3>2. call' = call /\ seen' = seen
      BY <2>5 DEF Remove
    <3>3. Admitted(r)'
      BY <3>1, <3>2 DEF Admitted, CheckRow, Admin
    <3>4. Did(call[r].id, "create")'
      BY <3>1, <3>2, TargetStable
    <3> HIDE DEF Admitted
    <3> QED BY <2>5, <3>1, <3>2, <3>3, <3>4 DEF Remove, Goto, Reply, TypeOK, Shape, Did
  <2>6. CASE Fail(r)
    BY <2>6 DEF Fail, Reply, TypeOK, Shape, Did
  <2>7. CASE Emit(r)
    <3>1. call' = call /\ seen' = seen
      BY <2>7 DEF Emit
    <3>2. Did(r, "update") \/ Did(r, "delete") => Admitted(r)'
      BY <3>1 DEF Shape, Admitted, CheckRow, Admin
    <3>3. Did(r, "delete") => Did(call[r].id, "create")'
      BY <3>1, TargetStable DEF Shape, TypeOK, Did
    <3> QED BY <2>7, <3>1, <3>2, <3>3 DEF Emit, Reply, TypeOK, Shape, Did
  <2> QED BY <2>1, <2>2, <2>3, <2>4, <2>5, <2>6, <2>7 DEF Step
<1> QED
  <2>1. \A q \in Requests : ShapeOf(q)'
    BY <1>1, <1>2
  <2> QED BY <2>1 DEF Shape

-----------------------------------------------------------------------------
(* The invariants.                                                         *)

\* What a fetch let through stays legitimate until it is written: writes only
\* add to what the server or an admin gave a row.
LEMMA CheckedStep ==
    ASSUME EngineAssumption, TypeOK, Shape, Checked, ServerManaged,
           NEW r \in Requests, Step(r)
    PROVE  Checked'
<1> SUFFICES ASSUME NEW q \in Requests, pc'[q] = "update", ~Admin(call[q].who)',
                    NEW f \in Managed, f \in DOMAIN call'[q].input
             PROVE  Legitimate(call[q].id, f, call[q].input[f])'
  BY DEF Checked, Managed, OwnerFields
<1>1. f \in Fields
  BY DEF Managed, OwnerFields, EngineAssumption
<1>2. ASSUME pc[q] = "update", call'[q] = call[q]
      PROVE  Legitimate(call[q].id, f, call[q].input[f])'
  <2>1. PICK id \in Requests : id = call[q].id
    BY <1>2 DEF Shape, Calls
  <2>2. PICK v : v = call[q].input[f]
    OBVIOUS
  <2>3. Legitimate(id, f, v)
    BY <1>2, <2>1, <2>2 DEF Checked, Admin
  <2>4. Legitimate(id, f, v)'
    BY <1>1, <2>3, LegitimateStable
  <2> QED BY <1>2, <2>1, <2>2, <2>4
<1>3. CASE q # r
  BY <1>2, <1>3, Frame
<1>4. CASE q = r /\ pc[r] = "update"
  BY <1>2, <1>4, Frame
<1>5. CASE q = r /\ pc[r] # "update"
  <2>1. Fetch(r)
    BY <1>5 DEF Step, Receive, Create, Update, Delete, Modify, Insert, Write,
                Remove, Fail, Emit, Goto, Reply, TypeOK
  <2>2. ~Tampers(r) /\ Allowed(r) /\ call' = call
    BY <1>5, <2>1 DEF Fetch, Goto, Reply, TypeOK
  <2>3. PICK id \in Requests : id = call[r].id
    BY <2>1 DEF Fetch, Shape, Calls
  <2>4. PICK v : v = call[r].input[f]
    OBVIOUS
  <2>5. v = rows[id][f] /\ rows[id] # NoRow
    BY <1>5, <2>2, <2>3, <2>4 DEF Tampers, Allowed, Admin
  <2>6. Legitimate(id, f, v)
    BY <2>5 DEF ServerManaged
  <2>7. Legitimate(id, f, v)'
    BY <1>1, <2>6, LegitimateStable
  <2> QED BY <1>5, <2>2, <2>3, <2>4, <2>7
<1> QED BY <1>3, <1>4, <1>5

\* Every write puts legitimate values into the managed fields of a row.
LEMMA ManagedStep ==
    ASSUME EngineAssumption, TypeOK, Shape, Checked, ServerManaged,
           NEW r \in Requests, Step(r)
    PROVE  ServerManaged'
<1> SUFFICES ASSUME NEW id \in Requests, rows'[id] # NoRow, NEW f \in Managed
             PROVE  Legitimate(id, f, rows[id][f])'
  BY DEF ServerManaged, Managed, OwnerFields
<1>0. f \in Fields
  BY DEF Managed, OwnerFields, EngineAssumption
<1>1. PICK v : v = rows'[id][f]
  OBVIOUS
<1>2. SUFFICES Legitimate(id, f, v)'
  BY <1>1
<1>3. ASSUME Legitimate(id, f, v) PROVE Legitimate(id, f, v)'
  BY <1>0, <1>3, LegitimateStable
<1>4. CASE rows[id] # NoRow /\ rows'[id][f] = rows[id][f]
  BY <1>1, <1>3, <1>4 DEF ServerManaged
<1>5. CASE id = r /\ pc[r] = "insert" /\ pc'[r] = "emit"
           /\ rows' = [rows EXCEPT ![r] = Prepared(call[r].who, call[r].input)]
  <2>1. /\ v = Prepared(call[r].who, call[r].input)[f]
        /\ call[r].op = "create" /\ call[r].id = r /\ call'[r] = call[r]
        /\ call[r].who \in Callers /\ call[r].input \in Inputs
        /\ call[r] # NoCall
    BY <1>1, <1>5, Frame DEF TypeOK, Shape, Calls, EngineAssumption
  <2>2. Did(r, "create")'
    BY <1>5, <2>1 DEF Did
  <2>3. v # Null => \/ f \in OwnerFields /\ v = call[r].who /\ v # Guest
                    \/ Admin(call[r].who) /\ f \in DOMAIN call[r].input /\ v = call[r].input[f]
    BY <1>0, <2>1 DEF Prepared, Given, Admin, EngineAssumption, Managed, Callers
  <2> QED BY <1>5, <2>1, <2>2, <2>3 DEF Legitimate, Admin
<1>6. CASE id = call[r].id /\ pc[r] = "update" /\ pc'[r] = "emit" /\ rows[id] # NoRow
           /\ rows' = [rows EXCEPT ![id] = Patched(rows[id], call[r].input)]
  <2>1. /\ v = Patched(rows[id], call[r].input)[f]
        /\ call[r].op = "update" /\ call'[r] = call[r] /\ call[r] # NoCall
    BY <1>1, <1>6, Frame DEF TypeOK, Shape, EngineAssumption
  <2>2. CASE f \notin DOMAIN call[r].input
    BY <1>0, <1>4, <1>6, <2>1, <2>2 DEF Patched, TypeOK
  <2>3. CASE f \in DOMAIN call[r].input /\ Admin(call[r].who)
    <3>1. Did(r, "update")'
      BY <1>6, <2>1 DEF Did
    <3>2. v = call[r].input[f]
      BY <1>0, <2>1, <2>3 DEF Patched
    <3> QED BY <1>6, <2>1, <2>3, <3>1, <3>2 DEF Legitimate, Admin
  <2>4. CASE f \in DOMAIN call[r].input /\ ~Admin(call[r].who)
    <3>1. v = call[r].input[f]
      BY <1>0, <2>1, <2>4 DEF Patched
    <3> QED BY <1>3, <1>6, <2>4, <3>1 DEF Checked
  <2> QED BY <2>2, <2>3, <2>4
<1> QED BY <1>4, <1>5, <1>6, RowsChange DEF TypeOK

\* A row appears and disappears with the answer that says so.
LEMMA RowsStep ==
    ASSUME EngineAssumption, TypeOK, Shape, AnswersTellRows, NEW r \in Requests, Step(r)
    PROVE  AnswersTellRows'
<1> SUFFICES ASSUME NEW id \in Requests
             PROVE  (rows[id] # NoRow <=>
                        /\ Did(id, "create")
                        /\ \A d \in Requests : Did(d, "delete") => call[d].id # id)'
  BY DEF AnswersTellRows
<1>1. rows[id] # NoRow <=>
        Did(id, "create") /\ \A d \in Requests : Did(d, "delete") => call[d].id # id
  BY DEF AnswersTellRows
<1>2. \A q \in Requests \ {r} : \A op \in Ops : Did(q, op)' <=> Did(q, op)
  BY Frame DEF Did
<1>3. \A q \in Requests, op \in Ops : Did(q, op) => Did(q, op)' /\ call'[q] = call[q]
  BY DidStable
<1>4. ASSUME pc'[r] # "emit", NEW op \in Ops, Did(r, op)' PROVE Did(r, op)
  <2>1. answer'[r] = "ok" /\ answer[r] = "none"
    BY <1>4, Frame DEF Did, Shape
  <2>2. Emit(r)
    BY <2>1 DEF Step, Receive, Create, Update, Delete, Modify, Insert, Fetch, Write,
                Remove, Fail, Goto, Reply, TypeOK
  <2> QED BY <1>4, <2>2 DEF Emit, Did
<1>5. CASE rows' = rows /\ pc'[r] # "emit"
  BY <1>1, <1>2, <1>3, <1>4, <1>5 DEF Ops
<1>6. CASE pc[r] = "insert" /\ pc'[r] = "emit"
           /\ rows' = [rows EXCEPT ![r] = Prepared(call[r].who, call[r].input)]
  <2>1. /\ call[r].op = "create" /\ call'[r] = call[r] /\ call[r] # NoCall
        /\ ~Did(r, "create") /\ Did(r, "create")' /\ ~Did(r, "delete")'
    BY <1>6, Frame DEF Shape, Did, EngineAssumption
  <2>2. rows'[r] # NoRow
    BY <1>6, RowTypes DEF TypeOK, Shape, Calls, EngineAssumption
  <2>3. \A d \in Requests : Did(d, "delete") => call[d].id # r
    BY <2>1 DEF Shape
  <2>4. id # r => rows'[id] = rows[id]
    BY <1>6 DEF TypeOK
  <2> QED BY <1>1, <1>2, <1>3, <2>1, <2>2, <2>3, <2>4 DEF Ops
<1>7. CASE pc[r] = "update" /\ pc'[r] = "emit" /\ rows[call[r].id] # NoRow
           /\ rows' = [rows EXCEPT ![call[r].id] =
                         Patched(rows[call[r].id], call[r].input)]
  <2>1. /\ call[r].op = "update" /\ call[r] \in Calls /\ call[r].input \in Inputs \cup {Empty}
        /\ call'[r] = call[r]
        /\ ~Did(r, "create")' /\ ~Did(r, "delete")'
    BY <1>7, Frame DEF Shape, Did
  <2>2. rows'[id] # NoRow <=> rows[id] # NoRow
    <3>1. rows[call[r].id] \in Rows
      BY <1>7, <2>1 DEF TypeOK, Calls
    <3>2. Patched(rows[call[r].id], call[r].input) \in Rows
      BY <2>1, <3>1, RowTypes
    <3>3. Patched(rows[call[r].id], call[r].input) # NoRow
      BY <3>2 DEF EngineAssumption
    <3> QED BY <1>7, <3>3 DEF TypeOK
  <2> QED BY <1>1, <1>2, <1>3, <2>1, <2>2 DEF Ops
<1>8. CASE pc[r] = "delete" /\ pc'[r] = "emit"
           /\ rows' = [rows EXCEPT ![call[r].id] = NoRow]
  <2>1. /\ call[r].op = "delete" /\ call[r] \in Calls /\ call'[r] = call[r]
        /\ ~Did(r, "create")' /\ Did(r, "delete")'
    BY <1>8, Frame DEF Shape, Did, EngineAssumption
  <2>2. rows'[id] = IF id = call[r].id THEN NoRow ELSE rows[id]
    BY <1>8 DEF TypeOK
  <2> QED BY <1>1, <1>2, <1>3, <2>1, <2>2 DEF Ops
<1> QED BY <1>5, <1>6, <1>7, <1>8, RowsChange

\* Only a fetch that admitted its caller leads to an answer other than 404.
LEMMA OracleStep ==
    ASSUME EngineAssumption, TypeOK, Shape, NoOracle, NEW r \in Requests, Step(r)
    PROVE  NoOracle'
<1> SUFFICES ASSUME NEW q \in Requests,
                    answer'[q] \in {"ok", "unchanged", "409", "422"}, call'[q].op # "create"
             PROVE  Admitted(q)'
  BY DEF NoOracle, Admitted
<1>1. CASE q # r
  BY <1>1, Frame DEF NoOracle, Admitted, CheckRow, Admin
<1>2. CASE q = r
  <2>1. CASE Receive(r)
    BY <1>2, <2>1 DEF Receive, Create, Update, Delete, Modify, Goto, Reply, TypeOK, Shape
  <2>2. CASE Insert(r)
    BY <1>2, <2>2 DEF Insert, Shape
  <2>3. CASE Fetch(r)
    BY <1>2, <2>3 DEF Fetch, Reply, Goto, Allowed, Admitted, CheckRow, Admin, TypeOK, Shape
  <2>4. CASE Write(r)
    BY <1>2, <2>4 DEF Write, Shape, Admitted, CheckRow, Admin
  <2>5. CASE Remove(r)
    BY <1>2, <2>5 DEF Remove, Shape, Admitted, CheckRow, Admin
  <2>6. CASE Fail(r)
    BY <1>2, <2>6 DEF Fail, Reply, TypeOK
  <2>7. CASE Emit(r)
    <3>1. call' = call /\ seen' = seen /\ pc[r] = "emit" /\ call[r] \in Calls
      BY <2>7 DEF Emit, Shape
    <3>2. Did(r, "update") \/ Did(r, "delete")
      BY <1>2, <3>1 DEF Did, Calls, Ops, EngineAssumption
    <3> QED BY <1>2, <3>1, <3>2 DEF Shape, Admitted, CheckRow, Admin
  <2> QED BY <2>1, <2>2, <2>3, <2>4, <2>5, <2>6, <2>7 DEF Step
<1> QED BY <1>1, <1>2

\* What a write returned or a deletion had fetched is a row, and its event is
\* emitted with the answer.
LEMMA ToldStep ==
    ASSUME EngineAssumption, TypeOK, Shape, Told, NEW r \in Requests, Step(r)
    PROVE  Told'
<1> SUFFICES ASSUME NEW q \in Requests
             PROVE  (event[q] # NoRow <=> answer[q] = "ok")' /\ (pc'[q] = "emit" => Payload(q)' # NoRow)
  BY DEF Told
<1>0. (event[q] # NoRow <=> answer[q] = "ok") /\ (pc[q] = "emit" => Payload(q) # NoRow)
  BY DEF Told
<1> USE DEF TypeOK
<1>1. CASE Receive(r)
  BY <1>0, <1>1 DEF Receive, Create, Update, Delete, Modify, Goto, Reply, Payload, Shape
<1>2. CASE Insert(r)
  <2>1. call[r].op = "create" /\ answer[r] # "ok"
    BY <1>2 DEF Insert, Shape
  <2>2. Prepared(call[r].who, call[r].input) # NoRow
    BY <1>2, RowTypes DEF Insert, Shape, Calls, EngineAssumption
  <2> QED BY <1>0, <1>2, <2>1, <2>2 DEF Insert, Goto, Reply, Payload
<1>3. CASE Fetch(r)
  BY <1>0, <1>3 DEF Fetch, Goto, Reply, Payload, Shape
<1>4. CASE Write(r)
  <2>1. call[r].op = "update" /\ answer[r] # "ok" /\ call[r] \in Calls
    BY <1>4 DEF Write, Shape
  <2>2. rows[call[r].id] # NoRow => Patched(rows[call[r].id], call[r].input) # NoRow
    <3>1. rows[call[r].id] \in Rows \cup {NoRow} /\ call[r].input \in Inputs \cup {Empty}
      BY <1>4, <2>1 DEF Write, Shape, Calls
    <3>2. \A row \in Rows : Patched(row, call[r].input) \in Rows
      BY <3>1, RowTypes
    <3> QED BY <3>1, <3>2 DEF EngineAssumption
  <2> QED BY <1>0, <1>4, <2>1, <2>2 DEF Write, Goto, Reply, Payload
<1>5. CASE Remove(r)
  <2>1. call[r].op = "delete" /\ answer[r] # "ok" /\ seen[r] # NoRow
    BY <1>5 DEF Remove, Shape, Admitted
  <2> QED BY <1>0, <1>5, <2>1 DEF Remove, Goto, Reply, Payload
<1>6. CASE Fail(r)
  BY <1>0, <1>6 DEF Fail, Reply, Payload, Shape
<1>7. CASE Emit(r)
  <2>1. event' = [event EXCEPT ![r] = Payload(r)] /\ Payload(r) # NoRow
    BY <1>7 DEF Emit, Payload, Told
  <2> QED BY <1>0, <1>7, <2>1 DEF Emit, Reply, Payload
<1> QED BY <1>1, <1>2, <1>3, <1>4, <1>5, <1>6, <1>7 DEF Step

-----------------------------------------------------------------------------
\* The empty table and the idle requests satisfy the invariant.
LEMMA InitIInv == ASSUME EngineAssumption, Init PROVE IInv
<1>1. \A r \in Requests, op \in Ops : ~Did(r, op)
  BY DEF Init, Did
<1> QED BY <1>1
     DEF Init, IInv, TypeOK, Shape, Checked, ServerManaged, AnswersTellRows, NoOracle, Told, Ops

\* Every step, and stuttering, keeps the invariant.
LEMMA NextIInv == ASSUME EngineAssumption, IInv, [Next]_vars PROVE IInv'
<1>1. CASE Next
  <2>1. PICK r \in Requests : Step(r)
    BY <1>1 DEF Next, Step
  <2> QED BY <2>1, TypeStep, ShapeStep, CheckedStep, ManagedStep, RowsStep, OracleStep,
             ToldStep DEF IInv
<1>2. CASE UNCHANGED vars
  BY <1>2 DEF vars, IInv, TypeOK, Shape, Admitted, CheckRow, Admin, Checked, ServerManaged,
              Legitimate, Did, AnswersTellRows, NoOracle, Told, Payload
<1> QED BY <1>1, <1>2

\* The inductive invariant holds of every behaviour.
LEMMA Inductive == ASSUME EngineAssumption PROVE Spec => []IInv
<1>1. Init => IInv
  BY InitIInv
<1>2. IInv /\ [Next]_vars => IInv'
  BY NextIInv
<1> QED BY <1>1, <1>2, PTL DEF Spec

\* Every reachable state is well typed: a guest's id or an unvalidated body
\* never reaches the table.
THEOREM TypeCorrect == ASSUME EngineAssumption PROVE Spec => []TypeOK
<1>1. IInv => TypeOK
  BY DEF IInv
<1> QED BY <1>1, Inductive, PTL

\* Whatever the rules, the callers and the interleaving, a server-managed
\* field holds its default, its creator's identity or a value an admin sent
\* for that row.
THEOREM ManagedByServer == ASSUME EngineAssumption PROVE Spec => []ServerManaged
<1>1. IInv => ServerManaged
  BY DEF IInv
<1> QED BY <1>1, Inductive, PTL

\* The rows that exist are exactly those the answers say were created and not
\* deleted.
THEOREM AnswersAreTrue == ASSUME EngineAssumption PROVE Spec => []AnswersTellRows
<1>1. IInv => AnswersTellRows
  BY DEF IInv
<1> QED BY <1>1, Inductive, PTL

\* Only a caller the rule admitted can tell a row that exists from one that
\* does not.
THEOREM NoExistenceOracle == ASSUME EngineAssumption PROVE Spec => []NoOracle
<1>1. IInv => NoOracle
  BY DEF IInv
<1> QED BY <1>1, Inductive, PTL

\* Once nothing is under way, a subscriber who saw every event knows the same:
\* no write that took place stayed unannounced and none that failed was
\* announced (the emit of create, update and delete in engine.ts).
THEOREM EventsAreTrue == ASSUME EngineAssumption PROVE Spec => []EventsTellRows
<1>1. ASSUME IInv, \A r \in Requests : pc[r] \in {"idle", "done"}
      PROVE  \A q \in Requests, op \in Ops :
                Did(q, op) <=> call[q] # NoCall /\ call[q].op = op /\ event[q] # NoRow
  BY <1>1 DEF IInv, Told, Did
<1>2. IInv => EventsTellRows
  <2> SUFFICES ASSUME IInv, \A r \in Requests : pc[r] \in {"idle", "done"}, NEW id \in Requests
               PROVE  rows[id] # NoRow <=>
                        /\ call[id] # NoCall /\ call[id].op = "create" /\ event[id] # NoRow
                        /\ \A d \in Requests :
                             call[d] # NoCall /\ call[d].op = "delete" /\ event[d] # NoRow
                                => call[d].id # id
    BY DEF EventsTellRows
  <2>1. rows[id] # NoRow <=>
          Did(id, "create") /\ \A d \in Requests : Did(d, "delete") => call[d].id # id
    BY DEF IInv, AnswersTellRows
  <2>2. \A q \in Requests : \A op \in {"create", "delete"} :
           Did(q, op) <=> call[q] # NoCall /\ call[q].op = op /\ event[q] # NoRow
    BY <1>1 DEF Ops
  <2> HIDE DEF Did
  <2> QED BY <2>1, <2>2
<1> QED BY <1>2, Inductive, PTL
=============================================================================
