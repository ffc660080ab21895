----------------------------- MODULE Permissions -----------------------------
(***************************************************************************)
(* Permission rules and their two evaluators.  An author builds a rule     *)
(* with role(), rule.owner(), .or() and .and(); reads merge the condition  *)
(* evalSql makes of it into their query; writes apply evalRow to the row   *)
(* they fetched (src/packages/frogcp/src/permissions/rules.ts and          *)
(* permissions/engine.ts).                                                 *)
(*                                                                         *)
(* A caller (Ctx) is Guest or a user.  A row maps fields to values, Null   *)
(* included, so a condition has SQL's three truth values.                  *)
(*                                                                         *)
(* A rule is a tree of "or" and "and" over atoms, and the condition made of*)
(* it one over comparisons.  The parts of a combinator are a set: neither  *)
(* evaluator, nor the database, tells their order or a repetition.         *)
(***************************************************************************)
EXTENDS Naturals

CONSTANTS
    Users,      \* identities; an owner field holds one
    Guest,      \* the unauthenticated caller (ctx === null)
    RoleOf,     \* RoleOf[u]: the role of user u, perhaps "admin"
    Fields,     \* the fields owner() may name
    Vals,       \* what a field may hold, users among them
    Null,       \* an absent value, NULL in the database
    MaxCalls    \* how many combinator calls an author chains

ASSUME PermissionsAssumption ==
    /\ Guest \notin Users
    /\ Null \notin Users
    /\ MaxCalls \in Nat

Callers == Users \cup {Guest}
Roles   == {RoleOf[u] : u \in Users}
Rows    == [Fields -> Vals \cup {Null}]
Cases   == Callers \X Rows

Admin(who) == who # Guest /\ RoleOf[who] = "admin"

\* The trees of at most `depth` combinators above each leaf.
Trees(leaves, depth) ==
    LET level[n \in Nat] ==
          IF n = 0 THEN leaves
          ELSE level[n - 1] \cup [kind : {"or", "and"}, parts : SUBSET level[n - 1]]
    IN level[depth]

\* The expressions role(), rule.owner(), rule.authenticated(), rule.public().
Atoms == [kind : {"role"}, role : Roles] \cup [kind : {"owner"}, field : Fields]
         \cup [kind : {"authenticated", "public"}]

\* RuleExpr, as deep as an author's calls can make one.
Exprs == Trees(Atoms, MaxCalls + 1)

\* eq(column, userId), and the two static answers.
Leaves == [kind : {"eq"}, field : Fields, value : Users] \cup [kind : {"true", "false"}]

\* SqlTriState: what evalSql makes of a rule.
Conds == Trees(Leaves, MaxCalls + 1)

NoRule == [kind |-> "none"]   \* the entity has no rule for the action

VARIABLES
    rule,     \* the RuleExpr built so far, or NoRule
    meaning,  \* the callers and rows it was meant to admit
    calls     \* builder calls so far

vars == <<rule, meaning, calls>>

-----------------------------------------------------------------------------
(* evalRow and checkRow.                                                   *)

\* An atom admits a caller to a row.
Admits(atom, ctx, row) ==
    CASE atom.kind = "role" -> ctx # Guest /\ RoleOf[ctx] = atom.role
      [] atom.kind = "authenticated" -> ctx # Guest
      [] atom.kind = "public" -> TRUE
      [] atom.kind = "owner" -> ctx # Guest /\ row[atom.field] = ctx

evalRow(expr, ctx, row) ==
    LET value[e \in Exprs] ==
          IF e.kind = "or" THEN \E p \in e.parts : value[p]
          ELSE IF e.kind = "and" THEN \A p \in e.parts : value[p]
          ELSE Admits(e, ctx, row)
    IN value[expr]

checkRow(expr, ctx, row) ==
    \/ Admin(ctx)
    \/ expr # NoRule /\ evalRow(expr, ctx, row)

-----------------------------------------------------------------------------
(* evalSql and decide.                                                     *)

Static(b) == [kind |-> IF b THEN "true" ELSE "false"]
True  == Static(TRUE)
False == Static(FALSE)

\* Mutant: with nothing left to ask, "or" answers as "and" does.
CombineVacuous(op, absorbing, neutral, parts) ==
    LET open == parts \ {neutral} IN
    IF absorbing \in parts THEN absorbing
    ELSE IF open = {} THEN True
    ELSE [kind |-> op, parts |-> open]

\* A combinator over evaluated sub-rules: settled by an absorbing part, else
\* what is left to ask the database once the neutral parts are dropped.
Combine(op, absorbing, neutral, parts) ==
    LET open == parts \ {neutral} IN
    IF absorbing \in parts THEN absorbing
    ELSE IF open = {} THEN neutral
    ELSE IF \E only \in open : open = {only} THEN CHOOSE only \in open : TRUE
    ELSE [kind |-> op, parts |-> open]

\* What an atom asks of the database.
Asks(atom, ctx) ==
    CASE atom.kind = "role" -> Static(ctx # Guest /\ RoleOf[ctx] = atom.role)
      [] atom.kind = "authenticated" -> Static(ctx # Guest)
      [] atom.kind = "public" -> True
      [] atom.kind = "owner" ->
           IF ctx = Guest THEN False
           ELSE [kind |-> "eq", field |-> atom.field, value |-> ctx]

evalSql(expr, ctx) ==
    LET sql[e \in Exprs] ==
          IF e.kind = "or" THEN Combine("or", True, False, {sql[p] : p \in e.parts})
          ELSE IF e.kind = "and" THEN Combine("and", False, True, {sql[p] : p \in e.parts})
          ELSE Asks(e, ctx)
    IN sql[expr]

\* The static answer, or the condition to merge into the query.
decide(expr, ctx) ==
    IF Admin(ctx) THEN True
    ELSE IF expr = NoRule THEN False
    ELSE evalSql(expr, ctx)

\* What the database makes of a condition on a row: of a comparison, and of
\* an "or" or an "and" once it has the values of the parts.
Compared(leaf, row) ==
    IF leaf.kind # "eq" THEN leaf.kind
    ELSE IF row[leaf.field] = Null THEN "unknown"
    ELSE IF row[leaf.field] = leaf.value THEN "true" ELSE "false"

Connected(absorbing, neutral, values) ==
    IF absorbing \in values THEN absorbing
    ELSE IF "unknown" \in values THEN "unknown" ELSE neutral

SqlValue(cond, row) ==
    LET value[c \in Conds] ==
          IF c.kind = "or" THEN Connected("true", "false", {value[p] : p \in c.parts})
          ELSE IF c.kind = "and" THEN Connected("false", "true", {value[p] : p \in c.parts})
          ELSE Compared(c, row)
    IN value[cond]

\* WHERE keeps a row only if its condition is true of it.
Selected(cond, row) == SqlValue(cond, row) = "true"

-----------------------------------------------------------------------------
(* The builder.                                                            *)

Meant(expr) == {c \in Cases : evalRow(expr, c[1], c[2])}

\* Mutant: a nested list is flattened whatever its kind.
OperandsOfAny(kind, expr) ==
    IF expr.kind \in {"or", "and"} THEN expr.parts ELSE {expr}

\* A list of the same kind is flattened into the new one.
Operands(kind, expr) == IF expr.kind = kind THEN expr.parts ELSE {expr}

\* a.or(b) and a.and(b).
Join(kind, a, b) ==
    [kind |-> kind, parts |-> Operands(kind, a) \cup Operands(kind, b)]

\* What an author passes to a combinator: an atom, or a pair already joined.
Arguments == Atoms \cup {Join(k, a, b) : k \in {"or", "and"}, a \in Atoms, b \in Atoms}

Init ==
    /\ rule = NoRule
    /\ meaning = {}
    /\ calls = 0

Start(atom) ==
    /\ rule = NoRule
    /\ rule' = atom
    /\ meaning' = Meant(atom)
    /\ UNCHANGED calls

Or(other) ==
    /\ rule # NoRule /\ calls < MaxCalls
    /\ rule' = Join("or", rule, other)
    /\ meaning' = meaning \cup Meant(other)
    /\ calls' = calls + 1

And(other) ==
    /\ rule # NoRule /\ calls < MaxCalls
    /\ rule' = Join("and", rule, other)
    /\ meaning' = meaning \cap Meant(other)
    /\ calls' = calls + 1

Next ==
    \/ \E atom \in Atoms : Start(atom)
    \/ \E other \in Arguments : Or(other) \/ And(other)

Spec == Init /\ [][Next]_vars

-----------------------------------------------------------------------------
(* Properties.                                                             *)

\* The two evaluators agree: the rows a caller's reads select are the rows
\* the caller's row check passes, NULLs, admins and missing rules included;
\* and no statically denied caller could have passed a row check.
FilterIsRowCheck ==
    \A c \in Cases :
        Selected(decide(rule, c[1]), c[2]) <=> checkRow(rule, c[1], c[2])

\* Chaining and flattening .or() and .and() keeps what the author meant.
MeansWhatItSays == rule # NoRule => Meant(rule) = meaning
=============================================================================
