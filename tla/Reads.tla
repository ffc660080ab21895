-------------------------------- MODULE Reads --------------------------------
(***************************************************************************)
(* Reading: what a client asks for, on its way through encodeListQuery, the*)
(* URL and parseListQuery to DataEngine.list, which asks for a page, then  *)
(* for its count, then for the target of every ref it embeds, while others *)
(* write and the schema is swapped (src/packages/frogcp/src/client/,       *)
(* api/query.ts, api/routes.ts and data/engine.ts).                        *)
(*                                                                         *)
(* The list and read rules are the one an author builds in Permissions.    *)
(* A row of posts has an author, a title, the numbers n and secret, and the*)
(* refs topic and origin to rows of topics; any of its fields may be       *)
(* hidden().  A text is the sequence of what its commas part, a numeral a  *)
(* text of one part.                                                       *)
(***************************************************************************)
EXTENDS Permissions, Integers, Sequences, FiniteSets

CONSTANTS
    Posts,         \* ids of posts
    Topics,        \* ids of topics; TopicOwner[t] may read t
    TopicOwner,
    PostRows,      \* what a row of posts may hold
    Tables,        \* the posts there may be at first
    Queries,       \* ListQueryInputs of a client
    Numeral,       \* Numeral[n]: String(n), for the numbers there are
    Hidden,        \* the fields declared hidden()
    Less,          \* Less[f]: the pairs of values of field f, the lesser first
    Callees,       \* the callers who read
    MaxRule,       \* bound: combinator calls in the rules that are read under
    MaxWrites,     \* bound: writes while a list is under way
    DefaultLimit, MaxLimit,
    Missing        \* no row, no limit, no answer yet, an undefined filter

Numbers == DOMAIN Numeral

NumberFields == {"n", "secret"}
Refs         == {"topic", "origin"}
Declared     == {"author", "title"} \cup NumberFields \cup Refs

VARIABLES
    posts,     \* the table: a row or Missing for each id
    topics,    \* the ids in the table of topics
    known,     \* the live schema has the entity topics
    pc,        \* "author", then where the one list is between two awaits
    who,       \* its caller
    asked,     \* what the client asked for
    query,     \* the ListQuery made of it
    page,      \* the rows the first query returned, then those answered
    total,     \* what the second one counted
    expand,    \* what was embedded so far, row by row and ref by ref
    moved,     \* somebody wrote to posts between the two
    writes, answer

readVars == <<posts, topics, known, pc, who, asked, query, page, total, expand,
              moved, writes, answer>>

\* A query of a typed client names no operator of a field twice, and gives a
\* number field numbers.  Rows here have no id, so no query names it.
List(s) == s \in Seq({s[i] : i \in DOMAIN s})

TypedClause(clause) ==
    /\ clause.field # "id"
    /\ clause.field \in NumberFields =>
         IF clause.op = "in" THEN \A i \in DOMAIN clause.value : clause.value[i] \in Numbers
         ELSE clause.value \in Numbers
    /\ clause.op = "in" => List(clause.value)

TypedQuery(q) ==
    /\ \A clause \in q.filter :
         /\ TypedClause(clause)
         /\ \A other \in q.filter :
              other.field = clause.field /\ other.op = clause.op => other = clause
    /\ List(q.sort) /\ \A i \in DOMAIN q.sort : q.sort[i].field # "id"
    /\ q.limit = Missing \/ q.limit \in Int
    /\ q.offset = Missing \/ q.offset \in Int

ASSUME ReadsAssumption ==
    /\ Fields \subseteq Declared /\ Hidden \subseteq Declared
    /\ IsFiniteSet(Posts)
    /\ \A row \in PostRows : DOMAIN row = Declared
    /\ Tables \subseteq [Posts -> PostRows \cup {Missing}]
    /\ \A q \in Queries : TypedQuery(q)
    /\ \A m, n \in Numbers : Numeral[m] = Numeral[n] => m = n
    /\ Callees \subseteq Callers
    /\ DefaultLimit \in Nat /\ MaxLimit \in Nat \ {0}

Max2(a, b) == IF a > b THEN a ELSE b
Min2(a, b) == IF a < b THEN a ELSE b

-----------------------------------------------------------------------------
(* The client.  A query has a filter (a set of clauses, for it is an object *)
(* keyed by field and operator), the fields and directions to sort by, a    *)
(* limit, an offset, and the refs to embed.                                 *)

Text(field, value) == IF field \in NumberFields THEN <<Numeral[value]>> ELSE value

\* Mutant: every item of an `in` is sent once.
ItemsOnce(items) == items

\* An `in` is sent as one parameter per item, a lone item twice, so that the
\* server never takes the comma within an item for a separator.
Items(items) == IF Len(items) = 1 THEN items \o items ELSE items

\* The parameters of a clause share its key; nth tells them apart.
Params(clause) ==
    LET items == IF clause.op = "in" THEN Items(clause.value) ELSE <<clause.value>> IN
    {[field |-> clause.field, op |-> clause.op, nth |-> i, raw |-> Text(clause.field, items[i])] :
        i \in DOMAIN items}

Encode(clauses) == UNION {Params(clause) : clause \in clauses}

-----------------------------------------------------------------------------
(* parseListQuery.                                                         *)

Known(field) == field \in (Declared \ Hidden) \cup {"id"}

\* A scalar as the field's type has it, or Missing: it is rejected.
Coerce(field, raw) ==
    IF field \notin NumberFields THEN raw
    ELSE IF \E n \in Numbers : raw = <<Numeral[n]>> THEN CHOOSE n \in Numbers : raw = <<Numeral[n]>>
    ELSE Missing

SameKey(params, p) == {other \in params : other.field = p.field /\ other.op = p.op}

\* The raw items of an `in`: repeated parameters as they are, a single one
\* split at its commas.
Fold(params, p) ==
    IF SameKey(params, p) # {p} THEN {other.raw : other \in SameKey(params, p)}
    ELSE {<<p.raw[i]>> : i \in DOMAIN p.raw}

Condition(params, p) ==
    [field |-> p.field, op |-> p.op,
     values |-> {Coerce(p.field, raw) :
                    raw \in IF p.op = "in" THEN Fold(params, p) ELSE {p.raw}}]

\* Every parameter becomes a condition, an `in` at its first sighting.
Conditions(params) == {Condition(params, p) : p \in params}

Unparsable(q, params) ==
    \/ \E p \in params : ~Known(p.field)
    \/ \E c \in Conditions(params) : Missing \in c.values
    \/ \E i \in DOMAIN q.sort : ~Known(q.sort[i].field)

\* Numbers that are no integers never leave a typed client.
Parse(q) ==
    [conds |-> Conditions(Encode(q.filter)), sort |-> q.sort, limit |-> q.limit,
     offset |-> q.offset, with |-> q.with]

-----------------------------------------------------------------------------
(* DataEngine.list.                                                        *)

\* resolveRelationFields, for which a hidden ref is one like any other, and the
\* guards of filters and sort: hidden fields are unknown here too, and only a
\* text is like another.
Unanswerable(q) ==
    \/ \E i \in DOMAIN q.with : q.with[i] \notin Refs
    \/ \E c \in q.conds : c.field \in Hidden \/ (c.op = "like" /\ c.field \in NumberFields)
    \/ \E i \in DOMAIN q.sort : q.sort[i].field \in Hidden

\* buildFilterCondition; a comparison with NULL is never true.  A pattern
\* without wildcards is like itself.
Compares(field, op, x, y) ==
    CASE op \in {"eq", "in", "like"} -> x = y
      [] op = "ne"  -> x # y
      [] op = "gt"  -> <<y, x>> \in Less[field]
      [] op = "gte" -> x = y \/ <<y, x>> \in Less[field]
      [] op = "lt"  -> <<x, y>> \in Less[field]
      [] op = "lte" -> x = y \/ <<x, y>> \in Less[field]

Meets(cond, row) ==
    /\ row[cond.field] # Null
    /\ \E value \in cond.values : Compares(cond.field, cond.op, row[cond.field], value)

\* Mutant: the second query forgets the filters of the first.
CountedAll(table, q) ==
    {p \in Posts : table[p] # Missing /\ Selected(decide(rule, who), table[p])}

\* The rows of a table under the where clause of a list.
Chosen(table, q) ==
    {p \in Posts : /\ table[p] # Missing
                   /\ Selected(decide(rule, who), table[p])
                   /\ \A c \in q.conds : Meets(c, table[p])}

Counted(table, q) == Chosen(table, q)

Limit(q) == Min2(Max2(IF q.limit = Missing THEN DefaultLimit ELSE q.limit, 1), MaxLimit)
Offset(q) == Max2(IF q.offset = Missing THEN 0 ELSE q.offset, 0)

\* ORDER BY one field; to SQLite NULL is less than everything (low), to Postgres
\* it is greater.
Ahead(field, x, y, low) ==
    IF x = Null \/ y = Null THEN x # y /\ (IF low THEN x = Null ELSE y = Null)
    ELSE <<x, y>> \in Less[field]

\* The first field by which two rows differ decides.
Before(x, y, sort, low) ==
    \E i \in DOMAIN sort :
        LET f == sort[i].field IN
        /\ \A j \in DOMAIN sort : j < i => x[sort[j].field] = y[sort[j].field]
        /\ IF sort[i].dir = "desc" THEN Ahead(f, y[f], x[f], low) ELSE Ahead(f, x[f], y[f], low)

Sorted(table, order, sort, low) ==
    \A i, j \in DOMAIN order : i < j => ~Before(table[order[j]], table[order[i]], sort, low)

Orders(set) == {o \in [1..Cardinality(set) -> set] :
                  \A i, j \in DOMAIN o : o[i] = o[j] => i = j}

\* The pages a database of either kind may answer with: ties are in any order.
Pages(table, q) ==
    {SubSeq(o, Offset(q) + 1, Min2(Offset(q) + Limit(q), Len(o))) :
        o \in {x \in Orders(Chosen(table, q)) :
                 \E low \in BOOLEAN : Sorted(table, x, q.sort, low)}}

\* Mutant: a ref keeps its raw id when hidden fields are stripped.
ShownWithRefs(row) == [f \in DOMAIN row \ (Hidden \ Refs) |-> row[f]]

\* stripHidden: what of a row is answered.
Shown(row) == [f \in DOMAIN row \ Hidden |-> row[f]]

-----------------------------------------------------------------------------
ReadInit ==
    /\ Init
    /\ posts \in Tables
    /\ topics = Topics
    /\ known = TRUE
    /\ pc = "author"
    /\ who = Guest
    /\ asked = Missing /\ query = Missing
    /\ page = <<>> /\ total = 0 /\ expand = <<>>
    /\ moved = FALSE /\ writes = 0
    /\ answer = Missing

Author ==
    /\ pc = "author"
    /\ Next
    /\ UNCHANGED readVars

Reply(what) == pc' = "done" /\ answer' = what

\* The rows are stripped last, when all has been embedded.
Return(rows) ==
    /\ page' = [i \in DOMAIN rows |-> Shown(rows[i])]
    /\ Reply("ok")

\* GET /api/entity/posts: parsed, permitted, related, all before an await.
Ask(ctx, q) ==
    /\ pc = "author" /\ calls <= MaxRule
    /\ who' = ctx /\ asked' = q
    /\ query' = Parse(q)
    /\ IF Unparsable(q, Encode(q.filter)) THEN Reply("422")
       ELSE IF decide(rule, ctx) = False THEN Reply("403")
       ELSE IF Unanswerable(Parse(q)) THEN Reply("422")
       ELSE pc' = "rows" /\ UNCHANGED answer
    /\ UNCHANGED <<vars, posts, topics, known, page, total, expand, moved, writes>>

FetchRows ==
    /\ pc = "rows"
    /\ \E ids \in Pages(posts, query) : page' = [i \in DOMAIN ids |-> posts[ids[i]]]
    /\ pc' = "count"
    /\ UNCHANGED <<vars, posts, topics, known, who, asked, query, total, expand, moved,
                   writes, answer>>

CountRows ==
    /\ pc = "count"
    /\ total' = Cardinality(Counted(posts, query))
    /\ IF query.with = <<>> THEN Return(page) ELSE pc' = "embed" /\ UNCHANGED <<page, answer>>
    /\ UNCHANGED <<vars, posts, topics, known, who, asked, query, expand, moved, writes>>

Embeds(topic) ==
    topic \in topics /\ (Admin(who) \/ (who # Guest /\ TopicOwner[topic] = who))

\* The k-th embedding: of which row of the page, by which of its refs.
RowOf(k) == ((k - 1) \div Len(query.with)) + 1
RefOf(k) == query.with[((k - 1) % Len(query.with)) + 1]

\* embedRelations of the rows as they were fetched, a row and a ref at a time;
\* the target's entity is looked up in the schema of this moment.
Embed ==
    /\ pc = "embed"
    /\ LET next   == Len(expand) + 1
           target == page[RowOf(next)][RefOf(next)]
       IN \/ RowOf(next) > Len(page) /\ Return(page) /\ UNCHANGED expand
          \/ /\ RowOf(next) <= Len(page) /\ target # Null /\ ~known
             /\ Reply("404") /\ UNCHANGED <<page, expand>>
          \/ /\ RowOf(next) <= Len(page) /\ (target = Null \/ known)
             /\ expand' = Append(expand,
                  IF target # Null /\ Embeds(target) THEN target ELSE Null)
             /\ UNCHANGED <<pc, page, answer>>
    /\ UNCHANGED <<vars, posts, topics, known, who, asked, query, total, moved, writes>>

\* GET /api/entity/posts/:id asks for one row, and embeds as a list does.
Read(ctx, id, with) ==
    /\ pc = "author" /\ calls <= MaxRule
    /\ who' = ctx /\ query' = [with |-> with]
    /\ LET found == posts[id] # Missing /\ Selected(decide(rule, ctx), posts[id]) IN
       IF decide(rule, ctx) = False THEN Reply("403") /\ UNCHANGED page
       ELSE IF \E i \in DOMAIN with : with[i] \notin Refs THEN Reply("422") /\ UNCHANGED page
       ELSE IF ~found THEN Reply("404") /\ UNCHANGED page
       ELSE IF with = <<>> THEN Return(<<posts[id]>>)
       ELSE page' = <<posts[id]>> /\ pc' = "embed" /\ UNCHANGED answer
    /\ UNCHANGED <<vars, posts, topics, known, asked, total, expand, moved, writes>>

UnderWay == pc \in {"rows", "count", "embed"} /\ writes < MaxWrites

Write(id) ==
    /\ UnderWay
    /\ \E row \in PostRows \cup {Missing} : posts' = [posts EXCEPT ![id] = row]
    /\ moved' = (moved \/ pc = "count")
    /\ writes' = writes + 1
    /\ UNCHANGED <<vars, topics, known, pc, who, asked, query, page, total, expand, answer>>

DeleteTopic(t) ==
    /\ UnderWay
    /\ topics' = topics \ {t}
    /\ writes' = writes + 1
    /\ UNCHANGED <<vars, posts, known, pc, who, asked, query, page, total, expand, moved, answer>>

\* replaceSchema: topics is gone from the live schema.
Swap ==
    /\ UnderWay /\ known
    /\ known' = FALSE
    /\ writes' = writes + 1
    /\ UNCHANGED <<vars, posts, topics, pc, who, asked, query, page, total, expand, moved, answer>>

ReadNext ==
    \/ Author
    \/ \E ctx \in Callees, q \in Queries : Ask(ctx, q)
    \/ \E ctx \in Callees, id \in Posts, q \in Queries : Read(ctx, id, q.with)
    \/ FetchRows \/ CountRows \/ Embed
    \/ \E id \in Posts : Write(id)
    \/ \E t \in Topics : DeleteTopic(t)
    \/ Swap

ReadSpec == ReadInit /\ [][ReadNext]_<<vars, readVars>>

-----------------------------------------------------------------------------
(* Properties.                                                             *)

\* What a clause means to the client who wrote it.
ClientMeets(clause, row) ==
    /\ row[clause.field] # Null
    /\ IF clause.op = "in"
       THEN \E i \in DOMAIN clause.value : row[clause.field] = clause.value[i]
       ELSE Compares(clause.field, clause.op, row[clause.field], clause.value)

\* The filter that reaches the database is the one the client wrote, whatever
\* commas its values hold and however many items an `in` has; an empty `in`
\* is the exception: it leaves no parameter.
FilterSurvivesTheWire ==
    asked # Missing /\ answer # "422" =>
        \A row \in PostRows :
            (\A c \in query.conds : Meets(c, row))
              <=> \A clause \in asked.filter :
                    \/ clause.op = "in" /\ clause.value = <<>>
                    \/ ClientMeets(clause, row)

\* The total counts the rows the pages are made of, under the caller's rule
\* and filter: unless somebody writes between the two queries, paging by the
\* total ends exactly where the rows do.
PageFitsTotal ==
    asked # Missing /\ pc \in {"embed", "done"} /\ answer \notin {"422", "403"} /\ ~moved
        => Len(page) = Min2(Limit(query), Max2(total - Offset(query), 0))

\* Rows of which a caller may not tell one from the other.
Alike(x, y) ==
    \/ x = y
    \/ x # Missing /\ y # Missing /\ \A f \in Declared \ Hidden : x[f] = y[f]

\* Tables that differ in hidden fields only have the same pages and the same
\* totals, whatever a caller filters and sorts by, and no row is answered with
\* a hidden field, however many awaits there were before it was stripped.  What
\* is embedded is another matter: see HiddenNeverLeaks.
HiddenInvisible ==
    /\ pc \in {"rows", "count"} =>
         \A other \in [Posts -> PostRows \cup {Missing}] :
            (\A p \in Posts : Alike(posts[p], other[p])) =>
                /\ Pages(other, query) = Pages(posts, query)
                /\ Counted(other, query) = Counted(posts, query)
    /\ pc = "done" /\ answer = "ok" =>
         \A i \in DOMAIN page : DOMAIN page[i] \cap Hidden = {}

\* "So a hidden field can never leak" (data/engine.ts:182-188): an answer embeds
\* no row that a hidden ref names.  The code embeds from the rows as fetched,
\* and resolves a hidden ref in ?with= like any other.
HiddenNeverLeaks ==
    pc = "done" /\ answer = "ok" =>
        \A k \in DOMAIN expand :
            RefOf(k) \in Hidden => expand[k] = Null
==============================================================================
