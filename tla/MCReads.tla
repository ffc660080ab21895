------------------------------- MODULE MCReads -------------------------------
(* Reads for TLC: an admin, an editor who owns one of two topics, and guests *)
(* read three posts by way of queries that try every clause of the grammar.  *)
EXTENDS Reads

CONSTANTS ann, bob, cal, p1, p2, p3, t1, t2

MCUsers  == {ann, bob}
MCRoleOf == [u \in MCUsers |-> IF u = ann THEN "admin" ELSE "editor"]
MCNumeral == <<"1", "2">>
MCVals   == {ann, bob, cal}

MCPosts  == {p1, p2, p3}
MCTopics == {t1, t2}
MCTopicOwner == [t \in MCTopics |-> IF t = t1 THEN bob ELSE ann]

Row(author, title, n, topic) ==
    [author |-> author, title |-> title, n |-> n, topic |-> topic, secret |-> 1, origin |-> t1]

\* Titles "a" and "a,b"; an owner, somebody else, and nobody; NULLs; a row that
\* differs from another in what is hidden only; a row with the title of another.
RowA == Row(bob, <<"a">>, 1, t1)
RowB == Row(ann, <<"a", "b">>, 2, t2)
RowC == Row(Null, <<"b">>, Null, Null)
Twin == [RowA EXCEPT !.secret = 2, !.origin = t2]
RowD == [RowB EXCEPT !.title = <<"b">>, !.secret = 2]
MCPostRows == {RowA, RowB, RowC, RowD, Twin}

Titles == <<<<"a">>, <<"a", "b">>, <<"b">>>>
Upward(up) == {<<up[i], up[j]>> : <<i, j>> \in {<<k, l>> \in (DOMAIN up) \X (DOMAIN up) : k < l}}
MCLess == [title |-> Upward(Titles), n |-> Upward(<<1, 2>>), secret |-> Upward(<<1, 2>>)]

Table(a, b, c) == [p \in MCPosts |-> IF p = p1 THEN a ELSE IF p = p2 THEN b ELSE c]
MCTables == {Table(RowA, RowB, RowC), Table(RowA, RowB, Twin), Table(RowB, Missing, RowA),
             Table(RowC, RowD, RowA)}

Ask0 == [filter |-> {}, sort |-> <<>>, limit |-> Missing, offset |-> Missing, with |-> <<>>]
Clause(field, op, value) == [field |-> field, op |-> op, value |-> value]
By(field, dir) == <<[field |-> field, dir |-> dir]>>

MCQueries == {
    Ask0,
    [Ask0 EXCEPT !.filter = {Clause("title", "in", <<<<"a", "b">>>>)}],
    [Ask0 EXCEPT !.filter = {Clause("title", "in", <<<<"a">>, <<"a", "b">>>>)}, !.limit = 3],
    [Ask0 EXCEPT !.filter = {Clause("title", "in", <<>>)}],
    [Ask0 EXCEPT !.filter = {Clause("n", "in", <<2>>), Clause("title", "like", <<"a", "b">>)}],
    [Ask0 EXCEPT !.filter = {Clause("n", "gte", 1), Clause("n", "lt", 2)}, !.limit = 2],
    [Ask0 EXCEPT !.filter = {Clause("n", "ne", 1)}, !.offset = 0 - 1],
    [Ask0 EXCEPT !.filter = {Clause("n", "like", 1)}],
    [Ask0 EXCEPT !.filter = {Clause("secret", "eq", 1)}, !.limit = 2],
    [Ask0 EXCEPT !.filter = {Clause("n", "lte", 2), Clause("n", "gt", 1)}],
    [Ask0 EXCEPT !.sort = By("n", "desc"), !.limit = 2, !.with = <<"topic">>],
    [Ask0 EXCEPT !.sort = By("n", "asc"), !.limit = 0 - 1, !.offset = 1, !.with = <<"topic">>],
    [Ask0 EXCEPT !.sort = By("secret", "asc"), !.limit = 2],
    [Ask0 EXCEPT !.sort = By("title", "desc") \o By("n", "asc"), !.limit = 2,
                 !.with = <<"origin", "topic">>],
    [Ask0 EXCEPT !.with = <<"title">>]}
==============================================================================
