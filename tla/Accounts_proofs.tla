---------------------------- MODULE Accounts_proofs ----------------------------
(***************************************************************************)
(* Proofs about Accounts for any number of requests, users, emails and     *)
(* deletions: a reset takes effect once and by the last token, a user is   *)
(* announced once by the request that created it, and a session is for the *)
(* account its request earned.                                             *)
(*                                                                         *)
(* The invariant has three parts.  Shape is what a request between two     *)
(* awaits asks and holds.  Identity ties emails to accounts: an account    *)
(* keeps the email it was created with, and a link was vouched for.        *)
(* Credentials reads the history backwards: the token on a row is the last *)
(* entry of its user's history, and a request writes one entry at most.    *)
(***************************************************************************)
EXTENDS Accounts, TLAPS

\* What a request asks for and holds at each of its awaits.
ShapeOf(r) ==
    /\ pc[r] = "idle" => call[r] = None
    /\ pc[r] # "idle" => call[r] \in Calls
    /\ pc[r] # "done" => answer[r] = None
    /\ pc[r] \in {"count", "insert", "announce"} => call[r].op \in {"register", "callback"}
    /\ pc[r] \in {"find", "recover", "link"} => call[r].op = "callback"
    /\ pc[r] \in {"verify", "change"} => call[r].op = "change"
    /\ pc[r] \in {"look", "mint"} => call[r].op \in {"request", "issue"}
    /\ pc[r] \in {"check", "reset"} => call[r].op = "confirm"
    /\ pc[r] = "insert" => counted[r] \in {"admin", "member"}
    /\ pc[r] = "announce" => found[r] = r
    /\ pc[r] \in {"link", "verify", "change", "mint", "reset"} \/ LoggedIn(r)
         => found[r] \in Ids
Shape == \A r \in Requests : ShapeOf(r)

\* An id that some row of the table has or had.
Known(id) == id \in DOMAIN Existing \/ (id \in Requests /\ pc[id] # "idle")
Vouched(subject, id) ==
    \E s \in Requests :
        /\ call[s] # None /\ call[s].op = "callback"
        /\ call[s].subject = subject /\ call[s].verified
        /\ EmailOf(id) = call[s].email

\* Rows keep their emails, and what requests and links refer to is theirs.
RowsKnown ==
    \A id \in Ids :
        /\ users[id] # None \/ id \in Deleted => Known(id)
        /\ users[id] # None => users[id].email = EmailOf(id)
LinksVouched == \A l \in links : Known(l.user) /\ Vouched(l.subject, l.user)
HoldersKnown ==
    \A r \in Requests :
        /\ /\ pc[r] \in {"find", "count", "insert", "recover", "announce", "link"}
           /\ call[r].op = "callback"
           => call[r].verified
        /\ pc[r] \in {"announce", "link"} =>
             Known(found[r]) /\ EmailOf(found[r]) = call[r].email
        /\ LoggedIn(r) => Known(found[r])
        /\ pc[r] = "recover" =>
             \E id \in Ids : /\ users[id] # None \/ id \in Deleted
                             /\ EmailOf(id) = call[r].email
Identity == RowsKnown /\ LinksVouched /\ HoldersKnown

\* The entries of the history, their authors and the tokens on the rows.
Author(what) ==
    CASE what = "mint" -> {"request", "issue"} [] what = "change" -> {"change"}
      [] what = "confirm" -> {"confirm"} [] OTHER -> {}
Written ==
    \A id \in Ids : \A i \in DOMAIN history[id] :
        LET e == history[id][i] IN
          /\ e.what = "delete" => e.by = None
          /\ e.what # "delete" =>
               /\ e.by \in Requests /\ pc[e.by] = "done"
               /\ call[e.by] \in Calls /\ call[e.by].op \in Author(e.what)
Once ==
    \A id, other \in Ids : \A i \in DOMAIN history[id], j \in DOMAIN history[other] :
        history[id][i].by = history[other][j].by /\ history[id][i].by \in Requests
            => id = other /\ i = j
Tokened ==
    \A id \in Ids : users[id] # None /\ users[id].reset # None =>
            /\ Len(history[id]) > 0
            /\ history[id][Len(history[id])] = [what |-> "mint", by |-> users[id].reset]
Credited ==
    \A r \in Requests : call[r] # None /\ call[r].op = "confirm" /\ answer[r] = "ok" =>
        \E id \in Ids : \E i \in DOMAIN history[id] :
            history[id][i] = [what |-> "confirm", by |-> r]
Credentials == Written /\ Once /\ Tokened /\ Credited /\ ResetsByLastToken

IInv ==
    /\ TypeOK /\ Shape /\ Identity /\ Credentials
    /\ SessionsAreEarned /\ RacesAreRecovered /\ CreatedOnce

\* A step of the request r; time and deletions are steps of no request.
Step(r) ==
    \/ Receive(r) \/ Count(r) \/ InsertUser(r) \/ Recover(r) \/ Announce(r)
    \/ Find(r) \/ Link(r) \/ VerifyCurrent(r) \/ SetPassword(r)
    \/ Look(r) \/ Mint(r) \/ CheckToken(r) \/ Reset(r) \/ Fail(r)

-----------------------------------------------------------------------------
(* Frames.                                                                 *)

\* Every call has the fields of its route.
LEMMA CallFields ==
    ASSUME NEW c \in Calls
    PROVE  /\ c.op \in {"register", "login"} => c.email \in Emails /\ c.password \in Passwords
           /\ c.op = "callback" => /\ c.subject \in Subjects /\ c.email \in Emails
                                   /\ c.verified \in BOOLEAN
           /\ c.op = "change" => /\ c.who \in Ids /\ c.current \in Passwords
                                 /\ c.password \in Passwords
           /\ c.op = "request" => c.email \in Emails
           /\ c.op = "issue" => c.who \in Ids /\ c.email \in Emails
           /\ c.op = "confirm" => c.token \in Requests /\ c.password \in Passwords
           /\ c.op \in {"register", "login", "callback", "change", "request",
                        "issue", "confirm"}
BY DEF Calls

\* Whoever holds a session is a user, so what a request asks is a call.
LEMMA Received ==
    ASSUME TypeOK, Shape, NEW r \in Requests, Receive(r)
    PROVE  \E c \in Calls : call' = [call EXCEPT ![r] = c]
<1>1. Sessions \subseteq Ids
  BY DEF Sessions, Shape, ShapeOf, Ids
<1>2. CASE \E email \in Emails, password \in Passwords :
             Register(r, email, password) \/ Login(r, email, password)
  BY <1>2 DEF Register, Login, Asks, Calls
<1>3. CASE \E subject \in Subjects, email \in Emails, verified \in BOOLEAN :
             Callback(r, subject, email, verified)
  BY <1>3 DEF Callback, Asks, Calls
<1>4. CASE \E who \in Sessions, current, password \in Passwords :
             ChangePassword(r, who, current, password)
  BY <1>1, <1>4 DEF ChangePassword, Asks, Calls
<1>5. CASE \/ \E email \in Emails : RequestReset(r, email)
           \/ \E who \in Sessions, email \in Emails : IssueReset(r, who, email)
  BY <1>1, <1>5 DEF RequestReset, IssueReset, Asks, Calls
<1>6. CASE \E token \in Requests, password \in Passwords : Confirm(r, token, password)
  BY <1>6 DEF Confirm, Asks, Calls
<1> QED BY <1>2, <1>3, <1>4, <1>5, <1>6 DEF Receive

\* What Receive leaves alone, and where a request can be after its first await.
LEMMA ReceiveFrame ==
    ASSUME TypeOK, NEW r \in Requests, Receive(r)
    PROVE  /\ pc[r] = "idle" /\ UNCHANGED <<counted, tables>>
           /\ \A q \in Requests \ {r} :
                /\ pc'[q] = pc[q] /\ call'[q] = call[q] /\ answer'[q] = answer[q]
                /\ found'[q] = found[q]
           /\ pc'[r] \in {"count", "find", "verify", "look", "check", "done"}
<1> USE DEF TypeOK, Asks, Goto, Reply, About
<1>1. CASE \E email \in Emails, password \in Passwords :
             Register(r, email, password) \/ Login(r, email, password)
  BY <1>1 DEF Register, Login
<1>2. CASE \E subject \in Subjects, email \in Emails, verified \in BOOLEAN :
             Callback(r, subject, email, verified)
  BY <1>2 DEF Callback
<1>3. CASE \E who \in Sessions, current, password \in Passwords :
             ChangePassword(r, who, current, password)
  BY <1>3 DEF ChangePassword
<1>4. CASE \/ \E email \in Emails : RequestReset(r, email)
           \/ \E who \in Sessions, email \in Emails : IssueReset(r, who, email)
  BY <1>4 DEF RequestReset, IssueReset
<1>5. CASE \E token \in Requests, password \in Passwords : Confirm(r, token, password)
  BY <1>5 DEF Confirm
<1> QED BY <1>1, <1>2, <1>3, <1>4, <1>5 DEF Receive

\* A step of one request leaves every other request's own state alone; none
\* forgets what it asked, and one that is done takes no more steps.
LEMMA Frame ==
    ASSUME TypeOK, NEW r \in Requests, Step(r)
    PROVE  /\ \A q \in Requests \ {r} :
                /\ pc'[q] = pc[q] /\ call'[q] = call[q] /\ answer'[q] = answer[q]
                /\ found'[q] = found[q] /\ counted'[q] = counted[q]
           /\ pc[r] # "idle" => call'[r] = call[r]
           /\ pc[r] # "done" /\ pc'[r] # "idle"
<1> USE DEF TypeOK, Goto, Reply, About
<1>1. CASE Receive(r)
  BY <1>1, ReceiveFrame
<1>2. CASE Count(r) \/ InsertUser(r) \/ Recover(r) \/ Announce(r)
  BY <1>2 DEF Count, InsertUser, Recover, Announce, tables
<1>3. CASE Find(r) \/ Link(r) \/ VerifyCurrent(r) \/ SetPassword(r)
  BY <1>3 DEF Find, Link, VerifyCurrent, SetPassword, tables
<1>4. CASE Look(r) \/ Mint(r) \/ CheckToken(r) \/ Reset(r) \/ Fail(r)
  BY <1>4 DEF Look, Mint, CheckToken, Reset, Fail, tables
<1> QED BY <1>1, <1>2, <1>3, <1>4 DEF Step

-----------------------------------------------------------------------------
(* Types and shapes.                                                       *)

\* None is none of the values it stands in for.
LEMMA Absent ==
    ASSUME AccountsAssumption
    PROVE  /\ None \notin Requests /\ None \notin Ids /\ None \notin Emails
           /\ None \notin Passwords /\ None \notin Rows /\ None \notin Calls
           /\ None # "ok"
           /\ Requests \cap DOMAIN Existing = {}
BY DEF AccountsAssumption, Ids, Answers

\* A row stays its user's whatever password or token is set on it.
LEMMA Columns ==
    ASSUME NEW row \in Rows
    PROVE  /\ \A password \in Passwords :
                /\ Renewed(row, password) \in Rows
                /\ Renewed(row, password).email = row.email
                /\ Renewed(row, password).role = row.role
                /\ Renewed(row, password).reset = None
           /\ \A r \in Requests :
                /\ [row EXCEPT !.reset = r] \in Rows
                /\ [row EXCEPT !.reset = r].email = row.email
                /\ [row EXCEPT !.reset = r].role = row.role
                /\ [row EXCEPT !.reset = r].reset = r
BY DEF Rows, Renewed

\* The history of id grows by one entry at the end, the others' do not.
Grown(id, entry) ==
    /\ \A other \in Ids \ {id} : history'[other] = history[other]
    /\ Len(history[id]) \in Nat /\ Len(history'[id]) = Len(history[id]) + 1
    /\ DOMAIN history[id] = 1..Len(history[id])
    /\ DOMAIN history'[id] = (1..Len(history[id])) \cup {Len(history[id]) + 1}
    /\ \A i \in 1..Len(history[id]) : history'[id][i] = history[id][i]
    /\ history'[id][Len(history[id]) + 1] = entry

\* That is what logging does.
LEMMA Logged ==
    ASSUME TypeOK, NEW id \in Ids, NEW by \in Requests \cup {None},
           NEW what \in {"mint", "change", "confirm", "delete"}, Log(id, what, by)
    PROVE  /\ history' \in [Ids -> Seq([what : {"mint", "change", "confirm", "delete"},
                                        by : Requests \cup {None}])]
           /\ Grown(id, [what |-> what, by |-> by])
<1> DEFINE E == [what : {"mint", "change", "confirm", "delete"}, by : Requests \cup {None}]
           entry == [what |-> what, by |-> by]
           n == Len(history[id])
<1>1. history[id] \in Seq(E) /\ entry \in E
  BY DEF TypeOK
<1>2. history'[id] = Append(history[id], entry)
  BY DEF Log, TypeOK
<1>3. \A other \in Ids \ {id} : history'[other] = history[other]
  BY DEF Log, TypeOK
<1>4. history' = [history EXCEPT ![id] = history'[id]] /\ history \in [Ids -> Seq(E)]
  BY DEF Log, TypeOK
<1> HIDE DEF E, entry
<1>5. /\ history'[id] \in Seq(E) /\ n \in Nat /\ Len(history'[id]) = n + 1
      /\ DOMAIN history[id] = 1..n /\ DOMAIN history'[id] = 1..n + 1
      /\ \A i \in 1..n : history'[id][i] = history[id][i]
      /\ history'[id][n + 1] = entry
  BY <1>1, <1>2
<1>6. DOMAIN history'[id] = (1..n) \cup {n + 1}
  <2> HIDE DEF n
  <2> QED BY <1>5
<1>7. history' \in [Ids -> Seq(E)]
  BY <1>4, <1>5
<1>8. Grown(id, entry)
  BY <1>3, <1>5, <1>6 DEF Grown
<1> QED BY <1>7, <1>8 DEF E, entry

\* What one step of a request may do to the table and the history: create the
\* row of the request itself, set a password, mint a token, or nothing.
Creates(r) ==
    /\ pc[r] = "insert" /\ pc'[r] = "announce" /\ found'[r] = r
    /\ ByEmail(call[r].email) = {}
    /\ users' = [users EXCEPT ![r] =
         [email |-> call[r].email, role |-> counted[r], reset |-> None,
          password |-> IF call[r].op = "register" THEN call[r].password ELSE None]]
    /\ UNCHANGED <<links, history, events>>
Sets(r, what) ==
    /\ users[found[r]] # None
    /\ users' = [users EXCEPT ![found[r]] = Renewed(@, call[r].password)]
    /\ Log(found[r], what, r)
    /\ pc'[r] = "done" /\ answer'[r] = "ok"
    /\ UNCHANGED <<links, events>>
Changes(r) == pc[r] = "change" /\ Sets(r, "change")
Resets(r) == pc[r] = "reset" /\ found[r] \in ByToken(call[r].token) /\ Sets(r, "confirm")
Mints(r) ==
    /\ pc[r] = "mint" /\ pc'[r] = "done"
    /\ users[found[r]] # None
    /\ users' = [users EXCEPT ![found[r]].reset = r]
    /\ Log(found[r], "mint", r)
    /\ UNCHANGED <<links, events>>

\* A step creates, changes, resets, mints, or touches neither.
LEMMA TableChange ==
    ASSUME TypeOK, NEW r \in Requests, Step(r)
    PROVE  \/ UNCHANGED <<users, history>>
           \/ Creates(r) \/ Changes(r) \/ Resets(r) \/ Mints(r)
<1> USE DEF TypeOK, Goto, Reply, About
<1>1. CASE Receive(r)
  BY <1>1, ReceiveFrame DEF tables
<1>2. CASE InsertUser(r)
  BY <1>2 DEF InsertUser, Creates
<1>3. CASE SetPassword(r)
  BY <1>3 DEF SetPassword, Changes, Sets
<1>4. CASE Mint(r)
  BY <1>4 DEF Mint, Mints
<1>5. CASE Reset(r)
  BY <1>5 DEF Reset, Resets, Sets, ByToken
<1>6. CASE Count(r) \/ Recover(r) \/ Announce(r) \/ Find(r) \/ Link(r)
           \/ VerifyCurrent(r) \/ Look(r) \/ CheckToken(r) \/ Fail(r)
  BY <1>6 DEF Count, Recover, Announce, Find, Link, VerifyCurrent, Look,
              CheckToken, Fail, tables
<1> QED BY <1>1, <1>2, <1>3, <1>4, <1>5, <1>6 DEF Step

\* Every step of a request keeps the types.
LEMMA TypeStep ==
    ASSUME AccountsAssumption, TypeOK, Shape, NEW r \in Requests, Step(r)
    PROVE  TypeOK'
<1> USE DEF Goto, Reply, About, ShapeOf, Shape
<1>1. /\ users' \in [Ids -> Rows \cup {None}]
      /\ history' \in [Ids -> Seq([what : {"mint", "change", "confirm", "delete"},
                                   by : Requests \cup {None}])]
  <2>1. CASE UNCHANGED <<users, history>>
    BY <2>1 DEF TypeOK
  <2>2. CASE Creates(r)
    <3>1. call[r] \in Calls /\ call[r].op \in {"register", "callback"}
      BY <2>2 DEF Creates
    <3>2. [email |-> call[r].email, role |-> counted[r], reset |-> None,
           password |-> IF call[r].op = "register" THEN call[r].password ELSE None] \in Rows
      BY <2>2, <3>1, CallFields DEF Creates, Rows
    <3> QED BY <2>2, <3>2 DEF Creates, TypeOK
  <2>3. CASE Changes(r) \/ Resets(r)
    <3>1. /\ found[r] \in Ids /\ call[r].password \in Passwords
          /\ users[found[r]] # None
      BY <2>3, CallFields DEF Changes, Resets, Sets
    <3>2. users' \in [Ids -> Rows \cup {None}]
      BY <2>3, <3>1, Columns DEF Changes, Resets, Sets, TypeOK
    <3>3. Log(found[r], "change", r) \/ Log(found[r], "confirm", r)
      BY <2>3 DEF Changes, Resets, Sets
    <3> QED BY <3>1, <3>2, <3>3, Logged
  <2>4. CASE Mints(r)
    <3>1. found[r] \in Ids
      BY <2>4 DEF Mints
    <3>2. users' \in [Ids -> Rows \cup {None}]
      BY <2>4, <3>1, Columns DEF Mints, TypeOK
    <3>3. Log(found[r], "mint", r)
      BY <2>4 DEF Mints
    <3> QED BY <3>1, <3>2, <3>3, Logged
  <2> QED BY <2>1, <2>2, <2>3, <2>4, TableChange
<1>2. call' \in [Requests -> Calls \cup {None}]
  <2>1. CASE Receive(r)
    <3>1. PICK c \in Calls : call' = [call EXCEPT ![r] = c]
      BY <2>1, Received
    <3> QED BY <3>1 DEF TypeOK
  <2>2. CASE ~Receive(r)
    BY <2>2 DEF Step, TypeOK, Count, InsertUser, Recover, Announce, Find, Link,
                VerifyCurrent, SetPassword, Look, Mint, CheckToken, Reset, Fail
  <2> QED BY <2>1, <2>2
<1> DEFINE Rest == /\ pc \in [Requests -> Steps]
                   /\ counted \in [Requests -> {"admin", "member", None}]
                   /\ found \in [Requests -> Ids \cup {None}]
                   /\ answer \in [Requests -> Answers \cup {None}]
                   /\ expired \subseteq Requests
<1>3. Rest
  BY DEF TypeOK
<1>4. r \in Ids /\ \A email : ByEmail(email) \subseteq Ids /\ ByToken(email) \subseteq Ids
  BY DEF Ids, ByEmail, ByToken
<1>5. Rest'
  <2> USE DEF Steps, Answers
  <2>1. CASE \E email \in Emails, password \in Passwords :
               Register(r, email, password) \/ Login(r, email, password)
    BY <2>1, <1>3, <1>4 DEF Register, Login, Asks, tables
  <2>2. CASE \E subject \in Subjects, email \in Emails, verified \in BOOLEAN :
               Callback(r, subject, email, verified)
    <3>1. \A l \in links : l.user \in Ids
      BY DEF TypeOK, Links
    <3> QED BY <2>2, <3>1, <1>3, <1>4 DEF Callback, Asks, tables, LinksOf
  <2>3. CASE \E who \in Sessions, current, password \in Passwords :
               ChangePassword(r, who, current, password)
    <3>1. Sessions \subseteq Ids
      BY DEF Sessions, Ids
    <3> QED BY <2>3, <3>1, <1>3 DEF ChangePassword, Asks, tables
  <2>4. CASE \/ \E email \in Emails : RequestReset(r, email)
             \/ \E who \in Sessions, email \in Emails : IssueReset(r, who, email)
             \/ \E token \in Requests, password \in Passwords : Confirm(r, token, password)
    BY <2>4, <1>3 DEF RequestReset, IssueReset, Confirm, Asks, tables
  <2>5. CASE Count(r) \/ InsertUser(r) \/ Recover(r) \/ Announce(r)
    BY <2>5, <1>3, <1>4 DEF Count, InsertUser, Recover, Announce, tables
  <2>6. CASE Find(r) \/ Link(r) \/ VerifyCurrent(r) \/ SetPassword(r)
    BY <2>6, <1>3, <1>4 DEF Find, Link, VerifyCurrent, SetPassword, tables
  <2>7. CASE Look(r) \/ Mint(r) \/ CheckToken(r) \/ Reset(r) \/ Fail(r)
    BY <2>7, <1>3, <1>4 DEF Look, Mint, CheckToken, Reset, Fail, tables
  <2> QED BY <2>1, <2>2, <2>3, <2>4, <2>5, <2>6, <2>7 DEF Step, Receive
<1>6. events' \subseteq Events
  <2>1. CASE Announce(r)
    <3>1. [user |-> found[r], by |-> r] \in Events
      BY <2>1, <1>4 DEF Announce, Events
    <3> QED BY <2>1, <3>1 DEF Announce, TypeOK
  <2>2. CASE ~Announce(r)
    BY <2>2 DEF Step, TypeOK, Receive, Register, Login, Callback, ChangePassword,
                RequestReset, IssueReset, Confirm, Count, InsertUser, Recover, Find,
                Link, VerifyCurrent, SetPassword, Look, Mint, CheckToken, Reset,
                Fail, tables
  <2> QED BY <2>1, <2>2
<1>7. links' \subseteq Links
  <2>1. CASE Link(r)
    <3>1. [subject |-> call[r].subject, user |-> found[r], by |-> r] \in Links
      BY <2>1, CallFields DEF Link, Links
    <3> QED BY <2>1, <3>1 DEF Link, TypeOK
  <2>2. CASE ~Link(r)
    BY <2>2 DEF Step, TypeOK, Receive, Register, Login, Callback, ChangePassword,
                RequestReset, IssueReset, Confirm, Count, InsertUser, Recover, Find,
                Announce, VerifyCurrent, SetPassword, Look, Mint, CheckToken, Reset,
                Fail, tables
  <2> QED BY <2>1, <2>2
<1> HIDE DEF Shape, Goto, Reply
<1> QED BY <1>1, <1>2, <1>5, <1>6, <1>7 DEF TypeOK

\* Every step of a request keeps what is known of every request.
LEMMA ShapeStep ==
    ASSUME AccountsAssumption, TypeOK, Shape, NEW r \in Requests, Step(r)
    PROVE  Shape'
<1>1. ASSUME NEW q \in Requests \ {r} PROVE ShapeOf(q)'
  <2>1. /\ pc'[q] = pc[q] /\ call'[q] = call[q] /\ answer'[q] = answer[q]
        /\ found'[q] = found[q] /\ counted'[q] = counted[q]
    BY Frame
  <2>2. ShapeOf(q)
    BY DEF Shape
  <2> QED BY <2>1, <2>2 DEF ShapeOf, LoggedIn
<1>2. ShapeOf(r)'
  <2> USE DEF Goto, Reply, About, LoggedIn
  <2>1. ShapeOf(r) /\ TypeOK /\ r \in Ids /\ None # "ok"
    BY Absent DEF Shape, Ids
  <2>2. \A x : ByEmail(x) \subseteq Ids /\ ByToken(x) \subseteq Ids
    BY DEF ByEmail, ByToken
  <2>3. CASE Receive(r)
    <3>1. PICK c \in Calls : call' = [call EXCEPT ![r] = c]
      BY <2>3, Received
    <3>2. /\ pc[r] = "idle" /\ answer[r] = None
          /\ pc'[r] \in {"count", "find", "verify", "look", "check", "done"}
      BY <2>1, <2>3, ReceiveFrame DEF ShapeOf
    <3>3. call'[r] = c /\ call'[r] \in Calls
      BY <2>1, <3>1 DEF TypeOK
    <3> DEFINE Rest ==
          /\ pc'[r] # "done" => answer'[r] = None
          /\ pc'[r] = "count" => call'[r].op = "register"
          /\ pc'[r] = "find" => call'[r].op = "callback"
          /\ pc'[r] = "verify" => call'[r].op = "change" /\ found'[r] \in Ids
          /\ pc'[r] = "look" => call'[r].op \in {"request", "issue"}
          /\ pc'[r] = "check" => call'[r].op = "confirm"
          /\ LoggedIn(r)' => found'[r] \in Ids
    <3>4. Rest
      <4> USE DEF TypeOK, Asks
      <4>1. CASE \E email \in Emails, password \in Passwords :
                   Register(r, email, password)
        <5>1. PICK email \in Emails, password \in Passwords : Register(r, email, password)
          BY <4>1
        <5>2. pc'[r] = "count" /\ answer'[r] = None
          BY <2>1, <3>2, <5>1 DEF Register
        <5>3. call'[r].op = "register"
          BY <2>1, <5>1 DEF Register
        <5> QED BY <5>2, <5>3, Absent
      <4>2. CASE \E email \in Emails, password \in Passwords :
                   Login(r, email, password)
        <5>1. PICK email \in Emails, password \in Passwords : Login(r, email, password)
          BY <4>2
        <5>2. pc'[r] = "done"
          BY <5>1 DEF Login
        <5>3. answer'[r] = "ok" => found'[r] \in Ids
          BY <2>1, <2>2, <5>1 DEF Login
        <5> QED BY <5>2, <5>3
      <4>3. CASE \E subject \in Subjects, email \in Emails, verified \in BOOLEAN :
                   Callback(r, subject, email, verified)
        <5>1. \A l \in links : l.user \in Ids
          BY DEF Links
        <5>2. PICK subject \in Subjects, email \in Emails, verified \in BOOLEAN :
                Callback(r, subject, email, verified)
          BY <4>3
        <5>3. call'[r].op = "callback"
          BY <5>2 DEF Callback
        <5>4. pc'[r] \in {"find", "done"} /\ (pc'[r] # "done" => answer'[r] = None)
          BY <2>1, <3>2, <5>2 DEF Callback
        <5>5. answer'[r] = "ok" => found'[r] \in Ids
          BY <2>1, <3>2, <5>1, <5>2, Absent DEF Callback, LinksOf
        <5> QED BY <5>3, <5>4, <5>5
      <4>4. CASE \E who \in Sessions, current, password \in Passwords :
                   ChangePassword(r, who, current, password)
        <5>1. Sessions \subseteq Ids
          BY DEF Sessions, Shape, ShapeOf, Ids
        <5> QED BY <2>1, <3>2, <4>4, <5>1 DEF ChangePassword
      <4>5. CASE \E email \in Emails : RequestReset(r, email)
        BY <2>1, <3>2, <4>5 DEF RequestReset
      <4>6. CASE \E who \in Sessions, email \in Emails : IssueReset(r, who, email)
        BY <2>1, <3>2, <4>6 DEF IssueReset
      <4>7. CASE \E token \in Requests, password \in Passwords : Confirm(r, token, password)
        BY <2>1, <3>2, <4>7 DEF Confirm
      <4> QED BY <2>3, <4>1, <4>2, <4>3, <4>4, <4>5, <4>6, <4>7 DEF Receive
    <3> HIDE DEF Goto, Reply, About, LoggedIn
    <3> QED BY <3>2, <3>3, <3>4 DEF ShapeOf
  <2>4. CASE Count(r)
    BY <2>1, <2>4 DEF Count, ShapeOf, TypeOK, tables
  <2>5. CASE InsertUser(r)
    BY <2>1, <2>5 DEF InsertUser, ShapeOf, TypeOK
  <2>6. CASE Recover(r) \/ Find(r) \/ Look(r) \/ CheckToken(r)
    BY <2>1, <2>2, <2>6 DEF Recover, Find, Look, CheckToken, ShapeOf, TypeOK, tables
  <2>7. CASE Announce(r)
    BY <2>1, <2>7 DEF Announce, ShapeOf, TypeOK
  <2>8. CASE Link(r) \/ VerifyCurrent(r) \/ SetPassword(r)
    BY <2>1, <2>8 DEF Link, VerifyCurrent, SetPassword, ShapeOf, TypeOK, tables
  <2>9. CASE Mint(r) \/ Reset(r) \/ Fail(r)
    BY <2>1, <2>9 DEF Mint, Reset, Fail, ShapeOf, TypeOK, tables
  <2> QED BY <2>3, <2>4, <2>5, <2>6, <2>7, <2>8, <2>9 DEF Step
<1> QED BY <1>1, <1>2 DEF Shape

-----------------------------------------------------------------------------
(* Identity: emails, links and the holders of sessions.                    *)

\* Whoever is known stays known, with the same email.
LEMMA EmailStable ==
    ASSUME AccountsAssumption, TypeOK, Shape, NEW r \in Requests, Step(r),
           NEW id \in Ids, Known(id)
    PROVE  Known(id)' /\ EmailOf(id)' = EmailOf(id)
<1>1. CASE id \in DOMAIN Existing
  BY <1>1 DEF Known, EmailOf
<1>2. CASE id \notin DOMAIN Existing
  <2>1. id \in Requests /\ pc[id] # "idle"
    BY <1>2 DEF Known
  <2>2. pc'[id] # "idle" /\ call'[id] = call[id]
    BY <2>1, Frame
  <2> QED BY <1>2, <2>1, <2>2 DEF Known, EmailOf
<1> QED BY <1>1, <1>2

\* A provider's word is not forgotten.
LEMMA VouchedStable ==
    ASSUME AccountsAssumption, TypeOK, Shape, NEW r \in Requests, Step(r),
           NEW id \in Ids, Known(id), NEW subject, Vouched(subject, id)
    PROVE  Vouched(subject, id)'
<1>1. PICK s \in Requests :
        /\ call[s] # None /\ call[s].op = "callback"
        /\ call[s].subject = subject /\ call[s].verified
        /\ EmailOf(id) = call[s].email
  BY DEF Vouched
<1>2. call'[s] = call[s]
  BY <1>1, Frame DEF Shape, ShapeOf
<1>3. EmailOf(id)' = EmailOf(id)
  BY EmailStable
<1> QED BY <1>1, <1>2, <1>3 DEF Vouched

\* Rows stay, with their emails and roles; the only new one is the step's own.
LEMMA RowsKeep ==
    ASSUME AccountsAssumption, TypeOK, Shape, RowsKnown,
           NEW r \in Requests, Step(r), NEW id \in Ids
    PROVE  /\ users[id] # None => /\ users'[id] # None /\ users'[id].email = users[id].email
                                  /\ users'[id].role = users[id].role
           /\ users[id] = None /\ users'[id] # None =>
                /\ Creates(r) /\ id = r /\ users'[id].role = counted[r]
                /\ users'[id].email = call[r].email /\ users'[id].reset = None
<1> USE DEF TypeOK
<1>1. CASE UNCHANGED <<users, history>>
  BY <1>1
<1>2. CASE Creates(r)
  <2>1. users[r] = None
    <3>1. r \in Ids /\ r \notin DOMAIN Existing
      BY Absent DEF Ids
    <3>2. users[r] # None => users[r].email = call[r].email
      BY <3>1 DEF RowsKnown, EmailOf
    <3> QED BY <1>2, <3>1, <3>2 DEF Creates, ByEmail
  <2>2. \A other \in Ids \ {r} : users'[other] = users[other]
    BY <1>2 DEF Creates
  <2> DEFINE row == [email |-> call[r].email, role |-> counted[r], reset |-> None,
                     password |-> IF call[r].op = "register" THEN call[r].password ELSE None]
  <2>3. users'[r] = row /\ row.email = call[r].email /\ row.reset = None /\ row.role = counted[r]
    BY <1>2 DEF Creates, Ids
  <2>4. row \in Rows
    <3>1. call[r] \in Calls /\ call[r].op \in {"register", "callback"}
      BY <1>2 DEF Creates, Shape, ShapeOf
    <3> QED BY <1>2, <3>1, CallFields DEF Creates, Rows, Shape, ShapeOf
  <2> HIDE DEF row
  <2> QED BY <1>2, <2>1, <2>2, <2>3, <2>4, Absent
<1>3. CASE Changes(r) \/ Resets(r)
  <2>1. /\ found[r] \in Ids /\ call[r].password \in Passwords
        /\ users[found[r]] \in Rows
    BY <1>3, CallFields DEF Changes, Resets, Sets, Shape, ShapeOf
  <2>2. /\ users'[found[r]] = Renewed(users[found[r]], call[r].password)
        /\ \A other \in Ids \ {found[r]} : users'[other] = users[other]
    BY <1>3, <2>1 DEF Changes, Resets, Sets
  <2>3. /\ users'[found[r]] \in Rows
        /\ users'[found[r]].email = users[found[r]].email
        /\ users'[found[r]].role = users[found[r]].role
    BY <2>1, <2>2, Columns
  <2> QED BY <2>1, <2>2, <2>3, Absent
<1>4. CASE Mints(r)
  <2>1. found[r] \in Ids /\ users[found[r]] \in Rows
    BY <1>4 DEF Mints, Shape, ShapeOf
  <2>2. /\ users'[found[r]] = [users[found[r]] EXCEPT !.reset = r]
        /\ \A other \in Ids \ {found[r]} : users'[other] = users[other]
    BY <1>4, <2>1 DEF Mints
  <2>3. /\ users'[found[r]] \in Rows
        /\ users'[found[r]].email = users[found[r]].email
        /\ users'[found[r]].role = users[found[r]].role
    BY <2>1, <2>2, Columns
  <2>4. CASE id = found[r]
    <3> HIDE <2>2
    <3> QED BY <2>1, <2>3, <2>4, Absent
  <2>5. CASE id # found[r]
    BY <2>2, <2>5
  <2> QED BY <2>4, <2>5
<1> QED BY <1>1, <1>2, <1>3, <1>4, TableChange

\* A request's step grows the history of at most one user, by at most one
\* entry, which is the request's own and no deletion.
LEMMA HistoryKeep ==
    ASSUME AccountsAssumption, TypeOK, Shape, NEW r \in Requests, Step(r)
    PROVE  \/ history' = history
           \/ /\ found[r] \in Ids /\ pc'[r] = "done"
              /\ \/ Changes(r) /\ Log(found[r], "change", r)
                 \/ Resets(r) /\ Log(found[r], "confirm", r)
                 \/ Mints(r) /\ Log(found[r], "mint", r)
<1>1. CASE UNCHANGED <<users, history>> \/ Creates(r)
  BY <1>1 DEF Creates
<1>2. CASE Changes(r) \/ Resets(r)
  BY <1>2 DEF Changes, Resets, Sets, Shape, ShapeOf
<1>3. CASE Mints(r)
  BY <1>3 DEF Mints, Shape, ShapeOf
<1> QED BY <1>1, <1>2, <1>3, TableChange

\* So no request deletes.
LEMMA DeletedKeep ==
    ASSUME AccountsAssumption, TypeOK, Shape, NEW r \in Requests, Step(r)
    PROVE  Deleted' = Deleted
<1>1. CASE history' = history
  BY <1>1 DEF Deleted
<1>2. ASSUME NEW what \in {"mint", "change", "confirm"},
             found[r] \in Ids, Log(found[r], what, r)
      PROVE  Deleted' = Deleted
  <2>1. Grown(found[r], [what |-> what, by |-> r])
    BY <1>2, Logged
  <2>2. [what |-> what, by |-> r].what # "delete"
    OBVIOUS
  <2>3. ASSUME NEW id \in Ids
        PROVE  (\E i \in DOMAIN history'[id] : history'[id][i].what = "delete")
               <=> (\E i \in DOMAIN history[id] : history[id][i].what = "delete")
    <3>1. CASE id = found[r]
      BY <3>1, <2>1, <2>2 DEF Grown
    <3>2. CASE id # found[r]
      BY <3>2, <2>1 DEF Grown
    <3> QED BY <3>1, <3>2
  <2> QED BY <2>3 DEF Deleted
<1> QED BY <1>1, <1>2, HistoryKeep

\* Rows keep their emails.
LEMMA RowsKnownStep ==
    ASSUME AccountsAssumption, TypeOK, Shape, RowsKnown, NEW r \in Requests, Step(r)
    PROVE  RowsKnown'
<1> SUFFICES ASSUME NEW id \in Ids
             PROVE  /\ users'[id] # None \/ id \in Deleted' => Known(id)'
                    /\ users'[id] # None => users'[id].email = EmailOf(id)'
  BY DEF RowsKnown
<1>1. ASSUME Known(id) PROVE Known(id)' /\ EmailOf(id)' = EmailOf(id)
  BY <1>1, EmailStable
<1>2. CASE users[id] # None
  <2>1. Known(id) /\ users[id].email = EmailOf(id)
    BY <1>2 DEF RowsKnown
  <2> QED BY <1>1, <1>2, <2>1, RowsKeep
<1>3. CASE users[id] = None /\ users'[id] = None
  <2>1. id \in Deleted => Known(id)
    BY DEF RowsKnown
  <2> QED BY <1>1, <1>3, <2>1, DeletedKeep
<1>4. CASE users[id] = None /\ users'[id] # None
  <2>1. Creates(r) /\ id = r /\ users'[id].email = call[r].email
    BY <1>4, RowsKeep
  <2>2. id \in Requests /\ id \notin DOMAIN Existing /\ pc[r] # "idle"
    BY <2>1, Absent DEF Creates
  <2>3. pc'[r] # "idle" /\ call'[r] = call[r]
    BY <2>2, Frame
  <2> QED BY <1>4, <2>1, <2>2, <2>3 DEF Known, EmailOf
<1> QED BY <1>2, <1>3, <1>4

\* An account found by email is known and of that email.
LEMMA FoundByEmail ==
    ASSUME RowsKnown, NEW email, NEW id \in ByEmail(email)
    PROVE  id \in Ids /\ users[id] # None /\ Known(id) /\ EmailOf(id) = email
BY DEF RowsKnown, ByEmail

\* Links change only by a callback's own insert.
LEMMA LinksChange ==
    ASSUME NEW r \in Requests, Step(r), ~Link(r)
    PROVE  links' = links
<1>1. CASE Receive(r)
  BY <1>1 DEF Receive, Register, Login, Callback, ChangePassword, RequestReset,
              IssueReset, Confirm, tables
<1>2. CASE ~Receive(r)
  BY <1>2 DEF Step, Count, InsertUser, Recover, Find, Announce, VerifyCurrent,
              SetPassword, Look, Mint, CheckToken, Reset, Fail, tables
<1> QED BY <1>1, <1>2

\* A request that is about to link, or has just linked, vouches for the link.
LEMMA LinkVouches ==
    ASSUME AccountsAssumption, TypeOK, Shape, HoldersKnown, NEW r \in Requests, Link(r)
    PROVE  /\ found[r] \in Ids /\ Known(found[r])
           /\ call[r].op = "callback" /\ Vouched(call[r].subject, found[r])
<1>1. pc[r] = "link" /\ ShapeOf(r)
  BY DEF Link, Shape
<1>2. /\ call[r].op = "callback" /\ call[r] \in Calls /\ found[r] \in Ids
      /\ call[r].verified
      /\ Known(found[r]) /\ EmailOf(found[r]) = call[r].email
  BY <1>1 DEF ShapeOf, HoldersKnown
<1> QED BY <1>2, Absent DEF Vouched

\* Links stay vouched for.
LEMMA LinksVouchedStep ==
    ASSUME AccountsAssumption, TypeOK, Shape, LinksVouched, HoldersKnown,
           NEW r \in Requests, Step(r)
    PROVE  LinksVouched'
<1> SUFFICES ASSUME NEW l \in links' PROVE Known(l.user)' /\ Vouched(l.subject, l.user)'
  BY DEF LinksVouched
<1>1. l.user \in Ids /\ Known(l.user) /\ Vouched(l.subject, l.user)
  <2>1. CASE l \in links
    BY <2>1 DEF LinksVouched, TypeOK, Links
  <2>2. CASE l \notin links
    <3>1. Link(r)
      BY <2>2, LinksChange
    <3>2. l = [subject |-> call[r].subject, user |-> found[r], by |-> r]
      BY <2>2, <3>1 DEF Link
    <3>3. l.subject = call[r].subject /\ l.user = found[r]
      BY <3>2
    <3> QED BY <3>1, <3>3, LinkVouches
  <2> QED BY <2>1, <2>2
<1> QED BY <1>1, EmailStable, VouchedStable

\* Whom a step logs in: someone known, and by right.
Earned(r) ==
    /\ found[r] \in Ids /\ Known(found[r])
    /\ call[r].op = "callback" => Vouched(call[r].subject, found[r])
    /\ call[r].op # "callback" => EmailOf(found[r]) = call[r].email

\* Whatever step answers a request with a session, the session is earned.
LEMMA LoginStep ==
    ASSUME AccountsAssumption, TypeOK, Shape, RowsKnown, LinksVouched, HoldersKnown,
           NEW r \in Requests, Step(r), LoggedIn(r)'
    PROVE  Earned(r)'
<1>1. answer[r] = None /\ answer'[r] = "ok" /\ answer'[r] # answer[r]
  BY Frame, Absent DEF LoggedIn, Shape, ShapeOf
<1>2. pc'[r] # "idle"
  BY Frame
<1>3. CASE \E email \in Emails, password \in Passwords : Login(r, email, password)
  <2>1. PICK email \in Emails, password \in Passwords : Login(r, email, password)
    BY <1>3
  <2>2. PICK id \in ByEmail(email) : found' = [found EXCEPT ![r] = id]
    BY <1>1, <2>1 DEF Login, Reply, About, TypeOK
  <2>3. call'[r].op = "login" /\ call'[r].email = email /\ found'[r] = id
    BY <2>1, <2>2 DEF Login, Asks, TypeOK
  <2>4. id \in Ids /\ Known(id)' /\ EmailOf(id)' = email
    BY <2>2, FoundByEmail, EmailStable
  <2> QED BY <2>3, <2>4 DEF Earned, EmailOf, Known
<1>4. CASE \E subject \in Subjects, email \in Emails, verified \in BOOLEAN :
             Callback(r, subject, email, verified)
  <2>1. PICK subject \in Subjects, email \in Emails, verified \in BOOLEAN :
          Callback(r, subject, email, verified)
    BY <1>4
  <2>2. PICK l \in links : l.subject = subject /\ found' = [found EXCEPT ![r] = l.user]
    BY <1>1, <2>1 DEF Callback, Reply, Goto, About, TypeOK, LinksOf
  <2>3. call'[r].op = "callback" /\ call'[r].subject = subject /\ found'[r] = l.user
    BY <2>1, <2>2 DEF Callback, Asks, TypeOK
  <2>4. l.user \in Ids /\ Known(l.user)' /\ Vouched(subject, l.user)'
    BY <2>2, EmailStable, VouchedStable DEF LinksVouched, TypeOK, Links
  <2> QED BY <2>3, <2>4 DEF Earned, Vouched, Known, EmailOf
<1>5. CASE Announce(r)
  <2>1. /\ found' = found /\ call' = call /\ call[r].op = "register"
        /\ Known(found[r]) /\ EmailOf(found[r]) = call[r].email /\ found[r] \in Ids
    BY <1>1, <1>5 DEF Announce, Reply, Goto, HoldersKnown, Shape, ShapeOf, Ids
  <2>2. Known(found[r])' /\ EmailOf(found[r])' = call[r].email
    BY <2>1, EmailStable DEF Known, EmailOf
  <2> QED BY <2>1, <2>2 DEF Earned
<1>6. CASE Link(r)
  <2>1. found' = found /\ call' = call
    BY <1>6 DEF Link
  <2>2. Known(found[r])' /\ Vouched(call[r].subject, found[r])'
    BY <1>6, <2>1, LinkVouches, EmailStable, VouchedStable DEF Known, Vouched, EmailOf
  <2> QED BY <1>6, <2>1, <2>2, LinkVouches DEF Earned
<1>7. CASE \/ \E who \in Sessions, current, password \in Passwords :
                ChangePassword(r, who, current, password)
           \/ \E email \in Emails : RequestReset(r, email)
           \/ \E who \in Sessions, email \in Emails : IssueReset(r, who, email)
           \/ \E token \in Requests, password \in Passwords : Confirm(r, token, password)
           \/ \E email \in Emails, password \in Passwords : Register(r, email, password)
  BY <1>1, <1>7 DEF ChangePassword, RequestReset, IssueReset, Confirm, Register,
                    Reply, Goto, TypeOK
<1>8. CASE Count(r) \/ InsertUser(r) \/ Recover(r) \/ Find(r) \/ VerifyCurrent(r)
           \/ Look(r) \/ CheckToken(r) \/ Fail(r)
  BY <1>1, <1>8 DEF Count, InsertUser, Recover, Find, VerifyCurrent, Look, CheckToken,
                    Fail, Reply, Goto, TypeOK
<1>9. CASE SetPassword(r) \/ Mint(r) \/ Reset(r)
  BY <1>9 DEF SetPassword, Mint, Reset, Shape, ShapeOf, LoggedIn
<1> QED BY <1>3, <1>4, <1>5, <1>6, <1>7, <1>8, <1>9 DEF Step, Receive

\* What is earned stays earned.
LEMMA EarnedStable ==
    ASSUME AccountsAssumption, TypeOK, Shape, NEW r \in Requests, Step(r),
           NEW q \in Requests, LoggedIn(q), Earned(q), call'[q] = call[q], found'[q] = found[q]
    PROVE  Earned(q)'
<1>1. PICK id \in Ids : id = found[q] /\ Known(id)
  BY DEF Earned
<1>2. PICK c \in Calls : c = call[q]
  <2>1. pc[q] = "done"
    BY Absent DEF LoggedIn, Shape, ShapeOf
  <2> QED BY <2>1 DEF Shape, ShapeOf
<1>3. Known(id)' /\ EmailOf(id)' = EmailOf(id)
  BY <1>1, EmailStable
<1>4. Vouched(c.subject, id) => Vouched(c.subject, id)'
  BY <1>1, VouchedStable
<1>5. call'[q] = c /\ found'[q] = id
  BY <1>1, <1>2
<1>6. /\ c.op = "callback" => Vouched(c.subject, id)
      /\ c.op # "callback" => EmailOf(id) = c.email
  BY <1>1, <1>2 DEF Earned
<1> QED BY <1>1, <1>3, <1>4, <1>5, <1>6 DEF Earned, Known, Vouched, EmailOf

\* A session is earned, in the words of the invariant.
LEMMA SessionsAreEarnedIs ==
    ASSUME TypeOK, Shape, HoldersKnown
    PROVE  SessionsAreEarned <=> \A r \in Requests : LoggedIn(r) => Earned(r)
<1>1. ASSUME NEW r \in Requests, LoggedIn(r)
      PROVE  found[r] \in Ids /\ Known(found[r])
  BY <1>1 DEF Shape, ShapeOf, HoldersKnown
<1> QED BY <1>1 DEF SessionsAreEarned, Earned, Vouched

\* Where a request about an email can be, and that it holds the account.
LEMMA HolderStep ==
    ASSUME AccountsAssumption, TypeOK, Shape, Shape', Identity, NEW r \in Requests, Step(r)
    PROVE  /\ /\ pc'[r] \in {"find", "count", "insert", "recover", "announce", "link"}
              /\ call'[r].op = "callback"
              => call'[r].verified
           /\ pc'[r] \in {"announce", "link"} =>
                Known(found[r])' /\ EmailOf(found[r])' = call'[r].email
           /\ pc'[r] = "recover" =>
                \E id \in Ids : users'[id] # None /\ EmailOf(id)' = call'[r].email
<1> USE DEF Identity
<1>1. CASE Receive(r)
  <2>1. pc'[r] \in {"count", "find", "verify", "look", "check", "done"}
    BY <1>1, ReceiveFrame
  <2>2. pc'[r] = "count" => call'[r].op = "register"
    <3>1. CASE \E email \in Emails, password \in Passwords : Register(r, email, password)
      BY <3>1 DEF Register, Asks, TypeOK
    <3>2. CASE ~\E email \in Emails, password \in Passwords : Register(r, email, password)
      BY <1>1, <3>2 DEF Receive, Login, Callback, ChangePassword, RequestReset,
                        IssueReset, Confirm, Reply, Goto, TypeOK
    <3> QED BY <3>1, <3>2
  <2>3. pc'[r] = "find" => call'[r].verified
    <3>1. CASE \E subject \in Subjects, email \in Emails, verified \in BOOLEAN :
                 Callback(r, subject, email, verified)
      <4>1. PICK subject \in Subjects, email \in Emails, verified \in BOOLEAN :
              Callback(r, subject, email, verified)
        BY <3>1
      <4>2. call'[r].verified = verified
        BY <4>1 DEF Callback, Asks, TypeOK
      <4>3. pc'[r] = "find" => verified
        BY <4>1 DEF Callback, Reply, Goto, TypeOK
      <4> QED BY <4>2, <4>3
    <3>2. CASE ~\E subject \in Subjects, email \in Emails, verified \in BOOLEAN :
                 Callback(r, subject, email, verified)
      BY <1>1, <3>2 DEF Receive, Login, Register, ChangePassword, RequestReset,
                        IssueReset, Confirm, Reply, Goto, TypeOK
    <3> QED BY <3>1, <3>2
  <2> QED BY <2>1, <2>2, <2>3
<1>2. CASE Count(r)
  BY <1>2 DEF Count, Goto, TypeOK, HoldersKnown
<1>3. CASE InsertUser(r)
  <2>1. CASE ByEmail(call[r].email) # {}
    <3>1. PICK id \in ByEmail(call[r].email) : TRUE
      BY <2>1
    <3>2. id \in Ids /\ users[id] # None /\ EmailOf(id)' = call[r].email
      BY <3>1, FoundByEmail, EmailStable
    <3>3. users' = users /\ call' = call
      BY <1>3, <2>1 DEF InsertUser
    <3>4. pc'[r] \in {"recover", "done"} /\ pc[r] = "insert"
      BY <1>3, <2>1 DEF InsertUser, Goto, Reply, TypeOK
    <3> QED BY <3>2, <3>3, <3>4 DEF HoldersKnown
  <2>2. CASE ByEmail(call[r].email) = {}
    <3>1. pc'[r] = "announce" /\ pc[r] = "insert" /\ found'[r] = r /\ call' = call
      BY <1>3, <2>2 DEF InsertUser, Goto, About, TypeOK
    <3>2. r \in Ids /\ r \notin DOMAIN Existing
      BY Absent DEF Ids
    <3>3. Known(r)' /\ EmailOf(r)' = call[r].email
      BY <3>1, <3>2 DEF Known, EmailOf
    <3> QED BY <3>1, <3>3 DEF HoldersKnown, Known, EmailOf
  <2> QED BY <2>1, <2>2
<1>4. CASE Find(r) \/ Recover(r)
  <2>1. call' = call /\ pc[r] \in {"find", "recover"} /\ call[r].op = "callback"
    BY <1>4 DEF Find, Recover, Shape, ShapeOf
  <2>2. pc'[r] \in {"link", "count", "done"}
    BY <1>4 DEF Find, Recover, Goto, Reply, TypeOK
  <2>3. pc'[r] = "link" => found'[r] \in ByEmail(call[r].email)
    BY <1>4 DEF Find, Recover, Goto, Reply, About, TypeOK
  <2>4. ASSUME NEW id \in ByEmail(call[r].email)
        PROVE  Known(id)' /\ EmailOf(id)' = call[r].email
    BY FoundByEmail, EmailStable
  <2>5. pc'[r] = "link" => Known(found[r])' /\ EmailOf(found[r])' = call[r].email
    BY <2>3, <2>4 DEF Known, EmailOf
  <2> QED BY <2>1, <2>2, <2>5 DEF HoldersKnown
<1>5. CASE Announce(r)
  <2>1. /\ call' = call /\ found' = found /\ pc[r] = "announce" /\ found[r] \in Ids
        /\ pc'[r] \in {"link", "done"}
        /\ Known(found[r]) /\ EmailOf(found[r]) = call[r].email
    BY <1>5 DEF Announce, Goto, Reply, TypeOK, HoldersKnown, Shape, ShapeOf, Ids
  <2>2. Known(found[r])' /\ EmailOf(found[r])' = call[r].email
    BY <2>1, EmailStable DEF Known, EmailOf
  <2> QED BY <2>1, <2>2 DEF HoldersKnown
<1>6. CASE Link(r) \/ VerifyCurrent(r) \/ SetPassword(r) \/ Look(r) \/ Mint(r)
           \/ CheckToken(r) \/ Reset(r) \/ Fail(r)
  BY <1>6 DEF Link, VerifyCurrent, SetPassword, Look, Mint, CheckToken, Reset, Fail,
              Goto, Reply, TypeOK
<1> QED BY <1>1, <1>2, <1>3, <1>4, <1>5, <1>6 DEF Step

\* Every step of a request keeps the identities, and every session earned.
LEMMA IdentityStep ==
    ASSUME AccountsAssumption, TypeOK, Shape, Identity, SessionsAreEarned,
           TypeOK', Shape', NEW r \in Requests, Step(r)
    PROVE  Identity' /\ SessionsAreEarned'
<1> USE DEF Identity
<1>1. RowsKnown' /\ LinksVouched'
  BY RowsKnownStep, LinksVouchedStep
<1>2. \A q \in Requests : LoggedIn(q)' => Earned(q)'
  <2> SUFFICES ASSUME NEW q \in Requests, LoggedIn(q)' PROVE Earned(q)'
    OBVIOUS
  <2>1. CASE q = r
    BY <2>1, LoginStep
  <2>2. CASE q # r
    <3>1. call'[q] = call[q] /\ found'[q] = found[q] /\ LoggedIn(q)
      BY <2>2, Frame DEF LoggedIn
    <3> QED BY <3>1, SessionsAreEarnedIs, EarnedStable
  <2> QED BY <2>1, <2>2
<1>3. HoldersKnown'
  <2> SUFFICES ASSUME NEW q \in Requests
        PROVE  /\ /\ pc'[q] \in {"find", "count", "insert", "recover", "announce", "link"}
                  /\ call'[q].op = "callback"
                  => call'[q].verified
               /\ pc'[q] \in {"announce", "link"} =>
                    Known(found[q])' /\ EmailOf(found[q])' = call'[q].email
               /\ LoggedIn(q)' => Known(found[q])'
               /\ pc'[q] = "recover" =>
                    \E id \in Ids : /\ users'[id] # None \/ id \in Deleted'
                                    /\ EmailOf(id)' = call'[q].email
    BY DEF HoldersKnown
  <2>1. LoggedIn(q)' => Known(found[q])'
    BY <1>2 DEF Earned
  <2>2. CASE q = r
    BY <2>1, <2>2, HolderStep
  <2>3. CASE q # r
    <3>1. pc'[q] = pc[q] /\ call'[q] = call[q] /\ found'[q] = found[q]
      BY <2>3, Frame
    <3>2. pc[q] \in {"announce", "link"} =>
            Known(found[q])' /\ EmailOf(found[q])' = call[q].email
      <4>1. SUFFICES ASSUME pc[q] \in {"announce", "link"}
                     PROVE  Known(found[q])' /\ EmailOf(found[q])' = call[q].email
        OBVIOUS
      <4>2. PICK id \in Ids : id = found[q] /\ Known(id) /\ EmailOf(id) = call[q].email
        BY <4>1 DEF HoldersKnown, Shape, ShapeOf, Ids
      <4>3. Known(id)' /\ EmailOf(id)' = call[q].email
        BY <4>2, EmailStable
      <4> QED BY <3>1, <4>2, <4>3 DEF Known, EmailOf
    <3>3. pc[q] = "recover" =>
            \E id \in Ids : /\ users'[id] # None \/ id \in Deleted'
                            /\ EmailOf(id)' = call[q].email
      <4>1. SUFFICES ASSUME pc[q] = "recover"
                     PROVE  \E id \in Ids : /\ users'[id] # None \/ id \in Deleted'
                                            /\ EmailOf(id)' = call[q].email
        OBVIOUS
      <4>2. PICK id \in Ids : /\ users[id] # None \/ id \in Deleted
                              /\ EmailOf(id) = call[q].email
        BY <4>1 DEF HoldersKnown
      <4>3. Known(id)
        BY <4>2 DEF RowsKnown
      <4> QED BY <4>2, <4>3, EmailStable, RowsKeep, DeletedKeep
    <3> QED BY <2>1, <3>1, <3>2, <3>3 DEF HoldersKnown, Known, EmailOf
  <2> QED BY <2>2, <2>3
<1>4. SessionsAreEarned'
  <2>1. ASSUME NEW q \in Requests, LoggedIn(q)' PROVE Earned(q)'
    BY <1>2, <2>1
  <2> QED BY <2>1 DEF SessionsAreEarned, Earned, Vouched
<1> QED BY <1>1, <1>3, <1>4

\* A callback that is refused for a conflict has lost its winner.
LEMMA RacesStep ==
    ASSUME AccountsAssumption, TypeOK, Shape, Identity, RacesAreRecovered,
           NEW r \in Requests, Step(r)
    PROVE  RacesAreRecovered'
<1> SUFFICES ASSUME NEW q \in Requests, answer'[q] = "409", call'[q].op = "callback"
             PROVE  \E id \in Deleted' : EmailOf(id)' = call'[q].email
  BY DEF RacesAreRecovered
<1>1. ASSUME NEW id \in Deleted, EmailOf(id) = call'[q].email
      PROVE  \E lost \in Deleted' : EmailOf(lost)' = call'[q].email
  <2>1. id \in Ids /\ Known(id)
    BY <1>1 DEF Identity, RowsKnown, Deleted
  <2>2. EmailOf(id)' = EmailOf(id) /\ id \in Deleted'
    BY <2>1, EmailStable, DeletedKeep
  <2> QED BY <1>1, <2>2
<1>2. CASE answer[q] = "409"
  <2>1. pc[q] = "done"
    BY <1>2 DEF Shape, ShapeOf, AccountsAssumption, Answers
  <2>2. call'[q] = call[q]
    BY <2>1, Frame
  <2>3. PICK id \in Deleted : EmailOf(id) = call[q].email
    BY <1>2, <2>2 DEF RacesAreRecovered
  <2> QED BY <1>1, <2>2, <2>3
<1>3. CASE answer[q] # "409"
  <2>1. q = r
    BY <1>3, Frame
  <2>2. Recover(r)
    <3>1. CASE Receive(r)
      BY <1>3, <2>1, <3>1 DEF Receive, Register, Login, Callback, ChangePassword,
           RequestReset, IssueReset, Confirm, Reply, Goto, TypeOK
    <3>2. CASE InsertUser(r)
      BY <1>3, <2>1, <3>2 DEF InsertUser, Reply, Goto, TypeOK
    <3>3. CASE VerifyCurrent(r)
      BY <2>1, <3>3 DEF VerifyCurrent, Shape, ShapeOf
    <3>4. CASE Count(r) \/ Announce(r) \/ Find(r) \/ Link(r) \/ SetPassword(r)
               \/ Look(r) \/ Mint(r) \/ CheckToken(r) \/ Reset(r) \/ Fail(r)
      BY <1>3, <2>1, <3>4 DEF Count, Announce, Find, Link, SetPassword, Look, Mint,
           CheckToken, Reset, Fail, Reply, Goto, TypeOK
    <3> QED BY <3>1, <3>2, <3>3, <3>4 DEF Step
  <2>3. pc[r] = "recover" /\ call' = call /\ ByEmail(call[r].email) = {}
    BY <1>3, <2>1, <2>2 DEF Recover, Reply, Goto, TypeOK
  <2>4. PICK id \in Ids : /\ users[id] # None \/ id \in Deleted
                          /\ EmailOf(id) = call[r].email
    BY <2>3 DEF Identity, HoldersKnown
  <2>5. users[id] = None
    BY <2>3, <2>4 DEF Identity, RowsKnown, ByEmail
  <2> QED BY <1>1, <2>1, <2>3, <2>4, <2>5
<1> QED BY <1>2, <1>3

\* A user is announced by the request that created it, once.
LEMMA CreatedOnceStep ==
    ASSUME AccountsAssumption, TypeOK, Shape, Identity, CreatedOnce,
           NEW r \in Requests, Step(r)
    PROVE  CreatedOnce'
<1>1. CASE Announce(r)
  <2>1. found[r] = r /\ pc[r] = "announce" /\ pc'[r] # "announce"
    BY <1>1 DEF Announce, Shape, ShapeOf, Reply, Goto, TypeOK
  <2>2. events' = events \cup {[user |-> r, by |-> r]} /\ users' = users
    BY <1>1, <2>1 DEF Announce
  <2>3. \A q \in Requests \ {r} : pc'[q] = pc[q]
    BY Frame
  <2> QED BY <2>1, <2>2, <2>3 DEF CreatedOnce
<1>2. CASE ~Announce(r)
  <2>1. events' = events /\ pc[r] # "announce"
    BY <1>2 DEF Step, Receive, Register, Login, Callback, ChangePassword, RequestReset,
         IssueReset, Confirm, Asks, Count, InsertUser, Recover, Find, Link,
         VerifyCurrent, SetPassword, Look, Mint, CheckToken, Reset, Fail, tables
  <2>2. ASSUME NEW q \in Requests, users'[q] # None, pc'[q] # "announce"
        PROVE  users[q] # None /\ pc[q] # "announce"
    <3>1. q \in Ids
      BY DEF Ids
    <3>2. users[q] # None
      BY <2>2, <3>1, RowsKeep DEF Creates, Identity
    <3>3. q # r => pc'[q] = pc[q]
      BY Frame
    <3> QED BY <2>1, <2>2, <3>2, <3>3
  <2> QED BY <2>1, <2>2 DEF CreatedOnce
<1> QED BY <1>1, <1>2

-----------------------------------------------------------------------------
(* Credentials: the history, its authors and the tokens on the rows.       *)

\* A step leaves the history as it is, or logs one entry of its own.
LEMMA Grows ==
    ASSUME AccountsAssumption, TypeOK, Shape, NEW r \in Requests, Step(r)
    PROVE  \/ history' = history
           \/ /\ found[r] \in Ids /\ pc'[r] = "done"
              /\ \/ Changes(r) /\ Grown(found[r], [what |-> "change", by |-> r])
                 \/ Resets(r) /\ Grown(found[r], [what |-> "confirm", by |-> r])
                 \/ Mints(r) /\ Grown(found[r], [what |-> "mint", by |-> r])
BY HistoryKeep, Logged

\* So an entry that was there stays,
LEMMA EntryKept ==
    ASSUME AccountsAssumption, TypeOK, Shape, NEW r \in Requests, Step(r),
           NEW id \in Ids, NEW i \in DOMAIN history[id]
    PROVE  i \in DOMAIN history'[id] /\ history'[id][i] = history[id][i]
BY Grows DEF Grown

\* and one that was not is the step's own.
LEMMA EntryAdded ==
    ASSUME AccountsAssumption, TypeOK, Shape, NEW r \in Requests, Step(r),
           NEW id \in Ids, NEW i \in DOMAIN history'[id], i \notin DOMAIN history[id]
    PROVE  /\ id = found[r] /\ i = Len(history[id]) + 1 /\ pc'[r] = "done"
           /\ \/ Changes(r) /\ history'[id][i] = [what |-> "change", by |-> r]
              \/ Resets(r) /\ history'[id][i] = [what |-> "confirm", by |-> r]
              \/ Mints(r) /\ history'[id][i] = [what |-> "mint", by |-> r]
<1>1. ASSUME NEW entry, Grown(found[r], entry)
      PROVE  id = found[r] /\ i = Len(history[id]) + 1 /\ history'[id][i] = entry
  BY <1>1 DEF Grown
<1>2. history' # history
  OBVIOUS
<1> QED BY <1>1, <1>2, Grows

\* The author of an entry is done, so it is another request than the one
\* taking a step, and it keeps its call.
LEMMA AuthorsKeep ==
    ASSUME AccountsAssumption, TypeOK, Shape, Written, NEW r \in Requests, Step(r),
           NEW id \in Ids, NEW i \in DOMAIN history[id]
    PROVE  LET e == history[id][i] IN
             /\ e.by # r
             /\ e.what # "delete" => call'[e.by] = call[e.by] /\ pc'[e.by] = pc[e.by]
<1> DEFINE e == history[id][i]
<1>1. CASE e.what # "delete"
  <2>1. e.by \in Requests /\ pc[e.by] = "done"
    BY <1>1 DEF Written
  <2> QED BY <2>1, Frame
<1>2. CASE e.what = "delete"
  BY <1>2, Absent DEF Written
<1> QED BY <1>1, <1>2

\* Entries are written by requests that are done, of the right route.
LEMMA WrittenStep ==
    ASSUME AccountsAssumption, TypeOK, Shape, Written, NEW r \in Requests, Step(r)
    PROVE  Written'
<1> DEFINE Fine(e) ==
        /\ e.what = "delete" => e.by = None
        /\ e.what # "delete" =>
             /\ e.by \in Requests /\ pc[e.by] = "done"
             /\ call[e.by] \in Calls /\ call[e.by].op \in Author(e.what)
<1> SUFFICES ASSUME NEW id \in Ids, NEW i \in DOMAIN history'[id]
             PROVE  Fine(history[id][i])'
  BY DEF Written
<1>1. CASE i \in DOMAIN history[id]
  <2>1. history'[id][i] = history[id][i] /\ Fine(history[id][i])
    BY <1>1, EntryKept DEF Written
  <2>2. LET e == history[id][i] IN
          e.what # "delete" => call'[e.by] = call[e.by] /\ pc'[e.by] = pc[e.by]
    BY <1>1, AuthorsKeep
  <2> QED BY <2>1, <2>2
<1>2. CASE i \notin DOMAIN history[id]
  <2>1. /\ pc'[r] = "done"
        /\ \/ Changes(r) /\ history'[id][i] = [what |-> "change", by |-> r]
           \/ Resets(r) /\ history'[id][i] = [what |-> "confirm", by |-> r]
           \/ Mints(r) /\ history'[id][i] = [what |-> "mint", by |-> r]
    BY <1>2, EntryAdded
  <2>2. /\ Changes(r) => pc[r] = "change"
        /\ Resets(r) => pc[r] = "reset"
        /\ Mints(r) => pc[r] = "mint"
    BY DEF Changes, Resets, Mints
  <2>3. pc[r] # "idle" => call'[r] = call[r]
    BY Frame
  <2>4. /\ Changes(r) => call'[r] \in Calls /\ call'[r].op = "change"
        /\ Resets(r) => call'[r] \in Calls /\ call'[r].op = "confirm"
        /\ Mints(r) => call'[r] \in Calls /\ call'[r].op \in {"request", "issue"}
    BY <2>2, <2>3 DEF Shape, ShapeOf
  <2> HIDE DEF Shape
  <2> QED BY <2>1, <2>4 DEF Author
<1> QED BY <1>1, <1>2

\* A request writes one entry at most.
LEMMA OnceStep ==
    ASSUME AccountsAssumption, TypeOK, Shape, Written, Once, NEW r \in Requests, Step(r)
    PROVE  Once'
<1> SUFFICES ASSUME NEW id \in Ids, NEW other \in Ids,
                    NEW i \in DOMAIN history'[id], NEW j \in DOMAIN history'[other],
                    history'[id][i].by = history'[other][j].by,
                    history'[id][i].by \in Requests
             PROVE  id = other /\ i = j
  BY DEF Once
<1>1. ASSUME NEW x \in Ids, NEW k \in DOMAIN history'[x]
      PROVE  IF k \in DOMAIN history[x]
             THEN history'[x][k] = history[x][k] /\ history'[x][k].by # r
             ELSE x = found[r] /\ k = Len(history[x]) + 1 /\ history'[x][k].by = r
  <2>1. CASE k \in DOMAIN history[x]
    <3>1. history'[x][k] = history[x][k]
      BY <2>1, EntryKept
    <3>2. history[x][k].by # r
      BY <2>1, AuthorsKeep
    <3> QED BY <2>1, <3>1, <3>2
  <2>2. CASE k \notin DOMAIN history[x]
    <3>1. /\ x = found[r] /\ k = Len(history[x]) + 1
          /\ \/ history'[x][k] = [what |-> "change", by |-> r]
             \/ history'[x][k] = [what |-> "confirm", by |-> r]
             \/ history'[x][k] = [what |-> "mint", by |-> r]
      BY <2>2, EntryAdded
    <3> QED BY <2>2, <3>1
  <2> QED BY <2>1, <2>2
<1>2. CASE i \in DOMAIN history[id] /\ j \in DOMAIN history[other]
  BY <1>1, <1>2 DEF Once
<1>3. CASE i \notin DOMAIN history[id] \/ j \notin DOMAIN history[other]
  BY <1>1, <1>3
<1> QED BY <1>2, <1>3

\* The token on a row is the last entry of its user's history.
LEMMA TokenedStep ==
    ASSUME AccountsAssumption, TypeOK, Shape, RowsKnown, Tokened, NEW r \in Requests, Step(r)
    PROVE  Tokened'
<1> DEFINE Fine(id) ==
        users[id] # None /\ users[id].reset # None =>
            /\ Len(history[id]) > 0
            /\ history[id][Len(history[id])] = [what |-> "mint", by |-> users[id].reset]
<1> SUFFICES ASSUME NEW id \in Ids PROVE Fine(id)'
  BY DEF Tokened
<1>0. Fine(id)
  BY DEF Tokened
<1>1. CASE UNCHANGED <<users, history>>
  BY <1>0, <1>1
<1>2. CASE Creates(r)
  <2>1. CASE id = r
    <3>1. users[r] = None
      <4>1. r \in Ids /\ r \notin DOMAIN Existing
        BY Absent DEF Ids
      <4>2. users[r] # None => users[r].email = call[r].email
        BY <4>1 DEF RowsKnown, EmailOf
      <4> QED BY <1>2, <4>1, <4>2 DEF Creates, ByEmail
    <3> QED BY <2>1, <3>1, RowsKeep
  <2>2. CASE id # r
    BY <1>0, <1>2, <2>2 DEF Creates, TypeOK
  <2> QED BY <2>1, <2>2
<1>3. CASE Changes(r) \/ Resets(r)
  <2>1. /\ found[r] \in Ids /\ call[r].password \in Passwords
        /\ users[found[r]] \in Rows
        /\ Log(found[r], "change", r) \/ Log(found[r], "confirm", r)
    BY <1>3, CallFields DEF Changes, Resets, Sets, Shape, ShapeOf, TypeOK
  <2>2. /\ users'[found[r]] = Renewed(users[found[r]], call[r].password)
        /\ \A other \in Ids \ {found[r]} : users'[other] = users[other]
    BY <1>3, <2>1 DEF Changes, Resets, Sets, TypeOK
  <2>3. users'[found[r]].reset = None
    BY <2>1, <2>2, Columns
  <2>4. \A other \in Ids \ {found[r]} : history'[other] = history[other]
    BY <2>1, Logged DEF Grown
  <2> QED BY <1>0, <2>2, <2>3, <2>4
<1>4. CASE Mints(r)
  <2>1. found[r] \in Ids /\ users[found[r]] \in Rows /\ Log(found[r], "mint", r)
    BY <1>4 DEF Mints, Shape, ShapeOf, TypeOK
  <2>2. /\ users'[found[r]] = [users[found[r]] EXCEPT !.reset = r]
        /\ \A other \in Ids \ {found[r]} : users'[other] = users[other]
    BY <1>4, <2>1 DEF Mints, TypeOK
  <2>3. users'[found[r]].reset = r
    BY <2>1, <2>2, Columns
  <2>4. Grown(found[r], [what |-> "mint", by |-> r])
    BY <2>1, Logged
  <2>5. CASE id = found[r]
    <3>1. /\ Len(history'[id]) = Len(history[id]) + 1 /\ Len(history[id]) \in Nat
          /\ history'[id][Len(history[id]) + 1] = [what |-> "mint", by |-> r]
      BY <2>4, <2>5 DEF Grown
    <3> QED BY <2>3, <2>5, <3>1
  <2>6. CASE id # found[r]
    BY <1>0, <2>2, <2>4, <2>6 DEF Grown
  <2> QED BY <2>5, <2>6
<1> QED BY <1>1, <1>2, <1>3, <1>4, TableChange

\* A reset follows the token it was made with.
LEMMA LastTokenStep ==
    ASSUME AccountsAssumption, TypeOK, Shape, Written, Tokened, ResetsByLastToken,
           NEW r \in Requests, Step(r)
    PROVE  ResetsByLastToken'
<1> SUFFICES ASSUME NEW id \in Ids, NEW i \in DOMAIN history'[id],
                    history'[id][i].what = "confirm"
             PROVE  /\ i > 1
                    /\ history'[id][i-1] =
                         [what |-> "mint", by |-> call'[history'[id][i].by].token]
  BY DEF ResetsByLastToken
<1>1. history[id] \in Seq([what : {"mint", "change", "confirm", "delete"},
                           by : Requests \cup {None}])
  BY DEF TypeOK
<1>2. DOMAIN history[id] = 1..Len(history[id]) /\ Len(history[id]) \in Nat
  BY <1>1
<1>3. CASE i \in DOMAIN history[id]
  <2>1. history'[id][i] = history[id][i]
    BY <1>3, EntryKept
  <2>2. i > 1 /\ history[id][i-1] = [what |-> "mint", by |-> call[history[id][i].by].token]
    BY <1>3, <2>1 DEF ResetsByLastToken
  <2>3. i - 1 \in DOMAIN history[id]
    BY <1>2, <1>3, <2>2
  <2>4. history'[id][i-1] = history[id][i-1]
    BY <2>3, EntryKept
  <2>5. call'[history[id][i].by] = call[history[id][i].by]
    BY <1>3, <2>1, AuthorsKeep
  <2> QED BY <2>1, <2>2, <2>4, <2>5
<1>4. CASE i \notin DOMAIN history[id]
  <2>1. /\ id = found[r] /\ i = Len(history[id]) + 1
        /\ \/ history'[id][i] = [what |-> "change", by |-> r]
           \/ Resets(r) /\ history'[id][i] = [what |-> "confirm", by |-> r]
           \/ history'[id][i] = [what |-> "mint", by |-> r]
    BY <1>4, EntryAdded
  <2>2. Resets(r) /\ history'[id][i].by = r
    BY <2>1
  <2>3. /\ pc[r] = "reset" /\ users[id] # None /\ users[id].reset = call[r].token
        /\ call[r].token \in Requests
    BY <2>1, <2>2, CallFields DEF Resets, ByToken, Shape, ShapeOf
  <2>4. /\ Len(history[id]) > 0
        /\ history[id][Len(history[id])] = [what |-> "mint", by |-> call[r].token]
    BY <2>3, Absent DEF Tokened
  <2>5. Len(history[id]) \in DOMAIN history[id] /\ i - 1 = Len(history[id]) /\ i > 1
    BY <1>2, <2>1, <2>4
  <2>6. history'[id][i-1] = history[id][i-1]
    BY <2>5, EntryKept
  <2>7. call'[r] = call[r]
    BY <2>3, Frame
  <2> QED BY <2>2, <2>4, <2>5, <2>6, <2>7
<1> QED BY <1>3, <1>4

\* A confirm that was answered ok has its entry.
LEMMA CreditedStep ==
    ASSUME AccountsAssumption, TypeOK, Shape, Credited, NEW r \in Requests, Step(r)
    PROVE  Credited'
<1> SUFFICES ASSUME NEW q \in Requests, call'[q] # None, call'[q].op = "confirm",
                    answer'[q] = "ok"
             PROVE  \E id \in Ids : \E i \in DOMAIN history'[id] :
                        history'[id][i] = [what |-> "confirm", by |-> q]
  BY DEF Credited
<1>1. CASE answer[q] = "ok"
  <2>1. call'[q] = call[q]
    BY <1>1, Frame, Absent DEF Shape, ShapeOf
  <2>2. PICK id \in Ids : \E i \in DOMAIN history[id] :
                 history[id][i] = [what |-> "confirm", by |-> q]
    BY <1>1, <2>1 DEF Credited
  <2> QED BY <2>2, EntryKept
<1>2. CASE answer[q] # "ok"
  <2>1. q = r
    BY <1>2, Frame
  <2>2. Reset(r)
    <3>1. CASE Receive(r)
      <4>1. pc[r] = "idle"
        BY <3>1, ReceiveFrame
      <4>2. CASE \E token \in Requests, password \in Passwords : Confirm(r, token, password)
        BY <1>2, <2>1, <4>2 DEF Confirm, Goto
      <4>3. CASE ~\E token \in Requests, password \in Passwords : Confirm(r, token, password)
        BY <2>1, <3>1, <4>3 DEF Receive, Register, Login, Callback, ChangePassword,
             RequestReset, IssueReset, Asks, TypeOK
      <4> QED BY <4>2, <4>3
    <3>2. CASE Announce(r) \/ Link(r) \/ SetPassword(r) \/ Mint(r)
      BY <2>1, <3>2 DEF Announce, Link, SetPassword, Mint, Shape, ShapeOf
    <3>3. CASE Count(r) \/ InsertUser(r) \/ Recover(r) \/ Find(r) \/ VerifyCurrent(r)
               \/ Look(r) \/ CheckToken(r) \/ Fail(r)
      BY <1>2, <2>1, <3>3 DEF Count, InsertUser, Recover, Find, VerifyCurrent, Look,
           CheckToken, Fail, Reply, Goto, TypeOK
    <3> QED BY <3>1, <3>2, <3>3 DEF Step
  <2>3. found[r] \in Ids /\ Log(found[r], "confirm", r)
    BY <1>2, <2>1, <2>2 DEF Reset, Reply, TypeOK, Shape, ShapeOf
  <2>4. Grown(found[r], [what |-> "confirm", by |-> r])
    BY <2>3, Logged
  <2> QED BY <2>1, <2>3, <2>4 DEF Grown
<1> QED BY <1>1, <1>2

-----------------------------------------------------------------------------
(* Time and deletions.                                                     *)

\* A token that expires changes no table, no request and no history.
LEMMA ExpireStep ==
    ASSUME IInv, NEW token \in Requests, Expire(token)
    PROVE  IInv'
<1>1. UNCHANGED <<users, links, call, pc, counted, found, answer, events, history>>
  BY DEF Expire
<1>2. TypeOK'
  BY <1>1 DEF IInv, TypeOK, Expire
<1>3. Shape'
  BY <1>1 DEF IInv, Shape, ShapeOf, LoggedIn
<1>4. Identity'
  BY <1>1 DEF IInv, Identity, RowsKnown, LinksVouched, HoldersKnown, Known, Vouched,
              EmailOf, Deleted, LoggedIn
<1>5. Credentials'
  BY <1>1 DEF IInv, Credentials, Written, Once, Tokened, Credited, ResetsByLastToken
<1>6. SessionsAreEarned' /\ RacesAreRecovered' /\ CreatedOnce'
  BY <1>1 DEF IInv, SessionsAreEarned, RacesAreRecovered, CreatedOnce, LoggedIn,
              EmailOf, Deleted
<1> QED BY <1>2, <1>3, <1>4, <1>5, <1>6 DEF IInv

\* Deleting a user, known by its history from then on, keeps the invariant.
LEMMA DeleteStep ==
    ASSUME AccountsAssumption, IInv, NEW id \in Ids, DeleteUser(id)
    PROVE  IInv'
<1>1. /\ users' = [users EXCEPT ![id] = None] /\ users[id] # None
      /\ links' \subseteq links /\ Log(id, "delete", None)
      /\ UNCHANGED <<call, pc, counted, found, answer, expired, events>>
  BY DEF DeleteUser
<1>2. /\ history' \in [Ids -> Seq([what : {"mint", "change", "confirm", "delete"},
                                   by : Requests \cup {None}])]
      /\ Grown(id, [what |-> "delete", by |-> None])
  BY <1>1, Logged DEF IInv
<1>3. TypeOK'
  BY <1>1, <1>2 DEF IInv, TypeOK
<1>4. Shape'
  BY <1>1 DEF IInv, Shape, ShapeOf, LoggedIn
<1>5. /\ id \in Deleted' /\ Deleted \subseteq Deleted'
      /\ \A other \in Ids : other \in Deleted' => other \in Deleted \/ other = id
  <2>1. [what |-> "delete", by |-> None].what = "delete"
    OBVIOUS
  <2> QED BY <1>2, <2>1 DEF Grown, Deleted
<1>6. /\ users'[id] = None
      /\ \A other \in Ids \ {id} : users'[other] = users[other]
  BY <1>1 DEF IInv, TypeOK
<1>7. \A x : EmailOf(x)' = EmailOf(x) /\ Known(x)' = Known(x)
  BY <1>1 DEF EmailOf, Known
<1>8. Identity'
  <2>1. RowsKnown'
    <3> SUFFICES ASSUME NEW x \in Ids
                 PROVE  /\ users'[x] # None \/ x \in Deleted' => Known(x)'
                        /\ users'[x] # None => users'[x].email = EmailOf(x)'
      BY DEF RowsKnown
    <3>1. /\ users[x] # None \/ x \in Deleted => Known(x)
          /\ users[x] # None => users[x].email = EmailOf(x)
      BY DEF IInv, Identity, RowsKnown
    <3>2. CASE x = id
      BY <1>1, <1>6, <1>7, <3>1, <3>2
    <3>3. CASE x # id
      BY <1>5, <1>6, <1>7, <3>1, <3>3
    <3> QED BY <3>2, <3>3
  <2>2. LinksVouched'
    BY <1>1, <1>7 DEF IInv, Identity, LinksVouched, Vouched
  <2>3. HoldersKnown'
    <3>1. ASSUME NEW r \in Requests, pc[r] = "recover"
          PROVE  \E x \in Ids : /\ users'[x] # None \/ x \in Deleted'
                                /\ EmailOf(x)' = call[r].email
      <4>1. PICK x \in Ids : (users[x] # None \/ x \in Deleted) /\ EmailOf(x) = call[r].email
        BY <3>1 DEF IInv, Identity, HoldersKnown
      <4> QED BY <4>1, <1>5, <1>6, <1>7
    <3> QED BY <1>1, <1>7, <3>1
         DEF IInv, Identity, HoldersKnown, Known, EmailOf, LoggedIn
  <2> QED BY <2>1, <2>2, <2>3 DEF Identity
<1>9. Credentials'
  <2>1. ASSUME NEW x \in Ids, NEW i \in DOMAIN history[x]
        PROVE  i \in DOMAIN history'[x] /\ history'[x][i] = history[x][i]
    BY <1>2, <2>1 DEF Grown
  <2>2. ASSUME NEW x \in Ids, NEW i \in DOMAIN history'[x], i \notin DOMAIN history[x]
        PROVE  history'[x][i] = [what |-> "delete", by |-> None]
    BY <1>2, <2>2 DEF Grown
  <2>3. [what |-> "delete", by |-> None].what = "delete"
        /\ [what |-> "delete", by |-> None].by = None
    OBVIOUS
  <2>4. Written'
    BY <1>1, <2>1, <2>2, <2>3 DEF IInv, Credentials, Written
  <2>5. Once'
    BY <2>1, <2>2, <2>3, Absent DEF IInv, Credentials, Once
  <2>6. Tokened'
    BY <1>2, <1>6 DEF IInv, Credentials, Tokened, Grown
  <2>7. Credited'
    BY <1>1, <2>1 DEF IInv, Credentials, Credited
  <2>8. ResetsByLastToken'
    <3> SUFFICES ASSUME NEW x \in Ids, NEW i \in DOMAIN history'[x],
                        history'[x][i].what = "confirm"
                 PROVE  /\ i > 1
                        /\ history'[x][i-1] =
                             [what |-> "mint", by |-> call'[history'[x][i].by].token]
      BY DEF ResetsByLastToken
    <3>1. i \in DOMAIN history[x]
      BY <2>2, <2>3
    <3>2. history'[x][i] = history[x][i]
      BY <2>1, <3>1
    <3>3. i > 1 /\ history[x][i-1] = [what |-> "mint", by |-> call[history[x][i].by].token]
      BY <3>1, <3>2 DEF IInv, Credentials, ResetsByLastToken
    <3>4. DOMAIN history[x] = 1..Len(history[x]) /\ Len(history[x]) \in Nat
      BY DEF IInv, TypeOK
    <3>5. i - 1 \in DOMAIN history[x]
      BY <3>1, <3>3, <3>4
    <3>6. history'[x][i-1] = history[x][i-1]
      BY <2>1, <3>5
    <3> QED BY <1>1, <3>2, <3>3, <3>6
  <2> QED BY <2>4, <2>5, <2>6, <2>7, <2>8 DEF Credentials
<1>10. SessionsAreEarned'
  BY <1>1, <1>7 DEF IInv, SessionsAreEarned, LoggedIn
<1>11. RacesAreRecovered'
  BY <1>1, <1>5, <1>7 DEF IInv, RacesAreRecovered
<1>12. CreatedOnce'
  <2>1. Requests \subseteq Ids
    BY DEF Ids
  <2> QED BY <1>1, <1>6, <2>1 DEF IInv, CreatedOnce
<1> QED BY <1>3, <1>4, <1>8, <1>9, <1>10, <1>11, <1>12 DEF IInv

-----------------------------------------------------------------------------
(* The invariant and what follows from it.                                 *)

\* Backends start with known users, no requests and an empty history.
LEMMA Initially ==
    ASSUME AccountsAssumption, Init
    PROVE  IInv
<1>1. PICK present \in Backends :
        users = [id \in Ids |-> IF id \in present THEN Existing[id] ELSE None]
  BY DEF Init
<1>2. present \subseteq DOMAIN Existing
  BY <1>1 DEF AccountsAssumption
<1>3. \A id \in DOMAIN Existing : Existing[id] \in Rows /\ Existing[id].reset = None
  BY DEF AccountsAssumption
<1>4. Deleted = {} /\ \A id \in Ids : history[id] = << >> /\ DOMAIN history[id] = {}
  BY DEF Init, Deleted
<1>5. TypeOK
  <2>1. users \in [Ids -> Rows \cup {None}]
    BY <1>1, <1>2, <1>3
  <2>2. history \in [Ids -> Seq([what : {"mint", "change", "confirm", "delete"},
                                 by : Requests \cup {None}])]
    BY DEF Init
  <2> QED BY <2>1, <2>2 DEF Init, TypeOK, Steps
<1>6. Shape
  BY Absent DEF Init, Shape, ShapeOf, LoggedIn
<1>7. Identity
  <2>1. RowsKnown
    BY <1>1, <1>2, <1>4 DEF RowsKnown, Known, EmailOf
  <2> QED BY <2>1, Absent DEF Init, Identity, LinksVouched, HoldersKnown, LoggedIn
<1>8. Credentials
  <2>1. Tokened
    BY <1>1, <1>2, <1>3 DEF Tokened
  <2> QED BY <1>4, <2>1 DEF Init, Credentials, Written, Once, Credited, ResetsByLastToken
<1>9. SessionsAreEarned /\ RacesAreRecovered
  BY Absent DEF Init, SessionsAreEarned, RacesAreRecovered, LoggedIn, AccountsAssumption,
                Answers
<1>10. CreatedOnce
  BY <1>1, <1>2, Absent DEF Init, CreatedOnce, Ids
<1> QED BY <1>5, <1>6, <1>7, <1>8, <1>9, <1>10 DEF IInv

\* Every step keeps the invariant.
LEMMA Inductive ==
    ASSUME AccountsAssumption, IInv, [Next]_vars
    PROVE  IInv'
<1>1. ASSUME NEW r \in Requests, Step(r) PROVE IInv'
  <2> USE <1>1 DEF IInv
  <2>1. TypeOK' /\ Shape'
    BY TypeStep, ShapeStep
  <2>2. Identity' /\ SessionsAreEarned'
    BY <2>1, IdentityStep
  <2>3. RacesAreRecovered' /\ CreatedOnce'
    BY RacesStep, CreatedOnceStep
  <2>4. Credentials'
    BY WrittenStep, OnceStep, TokenedStep, CreditedStep, LastTokenStep
       DEF Credentials, Identity
  <2> QED BY <2>1, <2>2, <2>3, <2>4
<1>2. CASE UNCHANGED vars
  <2> USE <1>2 DEF IInv, vars
  <2>1. TypeOK' /\ Shape'
    BY DEF TypeOK, Shape, ShapeOf, LoggedIn
  <2>2. Identity'
    BY DEF Identity, RowsKnown, LinksVouched, HoldersKnown, Known, Vouched, EmailOf,
           Deleted, LoggedIn
  <2>3. Credentials'
    BY DEF Credentials, Written, Once, Tokened, Credited, ResetsByLastToken
  <2>4. SessionsAreEarned' /\ RacesAreRecovered' /\ CreatedOnce'
    BY DEF SessionsAreEarned, RacesAreRecovered, CreatedOnce, LoggedIn, EmailOf, Deleted
  <2> QED BY <2>1, <2>2, <2>3, <2>4
<1> QED BY <1>1, <1>2, ExpireStep, DeleteStep DEF Next, Step

\* The invariant holds throughout.
LEMMA Invariant == Spec => []IInv
<1>1. Init => IInv
  BY Initially, AccountsAssumption
<1>2. IInv /\ [Next]_vars => IInv'
  BY Inductive, AccountsAssumption
<1> QED BY <1>1, <1>2, PTL DEF Spec

\* Exactly one confirm of a token wins: two winners would have written the
\* entry after one and the same mint.
LEMMA Winners ==
    ASSUME AccountsAssumption, IInv
    PROVE  OneWinner
<1> SUFFICES ASSUME NEW r \in Requests, call[r] # None, call[r].op = "confirm",
                    answer[r] = "ok"
             PROVE  /\ \A s \in Requests \ {r} :
                         call[s] # None /\ call[s].op = "confirm"
                           /\ call[s].token = call[r].token => answer[s] # "ok"
                    /\ \E id \in Ids : \E i \in DOMAIN history[id] :
                         history[id][i] = [what |-> "confirm", by |-> r]
  BY DEF OneWinner
<1>1. ASSUME NEW q \in Requests, call[q] # None, call[q].op = "confirm", answer[q] = "ok"
      PROVE  \E id \in Ids : \E i \in DOMAIN history[id] :
               /\ history[id][i] = [what |-> "confirm", by |-> q]
               /\ i > 1 /\ i - 1 \in DOMAIN history[id]
               /\ history[id][i-1] = [what |-> "mint", by |-> call[q].token]
  <2>1. PICK id \in Ids : \E i \in DOMAIN history[id] :
          history[id][i] = [what |-> "confirm", by |-> q]
    BY <1>1 DEF IInv, Credentials, Credited
  <2>2. PICK i \in DOMAIN history[id] : history[id][i] = [what |-> "confirm", by |-> q]
    BY <2>1
  <2>3. history[id][i].what = "confirm" /\ history[id][i].by = q
    BY <2>2
  <2>4. i > 1 /\ history[id][i-1] = [what |-> "mint", by |-> call[q].token]
    BY <2>3 DEF IInv, Credentials, ResetsByLastToken
  <2>5. DOMAIN history[id] = 1..Len(history[id]) /\ Len(history[id]) \in Nat
    BY DEF IInv, TypeOK
  <2>6. i - 1 \in DOMAIN history[id]
    BY <2>4, <2>5
  <2> QED BY <2>2, <2>4, <2>6
<1>2. ASSUME NEW s \in Requests \ {r}, call[s] # None, call[s].op = "confirm",
             call[s].token = call[r].token, answer[s] = "ok"
      PROVE  FALSE
  <2>1a. PICK id \in Ids : \E i \in DOMAIN history[id] :
            /\ history[id][i] = [what |-> "confirm", by |-> r]
            /\ i > 1 /\ i - 1 \in DOMAIN history[id]
            /\ history[id][i-1] = [what |-> "mint", by |-> call[r].token]
    BY <1>1
  <2>1. PICK i \in DOMAIN history[id] :
          /\ history[id][i] = [what |-> "confirm", by |-> r]
          /\ i > 1 /\ i - 1 \in DOMAIN history[id]
          /\ history[id][i-1] = [what |-> "mint", by |-> call[r].token]
    BY <2>1a
  <2>2a. PICK other \in Ids : \E j \in DOMAIN history[other] :
            /\ history[other][j] = [what |-> "confirm", by |-> s]
            /\ j > 1 /\ j - 1 \in DOMAIN history[other]
            /\ history[other][j-1] = [what |-> "mint", by |-> call[s].token]
    BY <1>1, <1>2
  <2>2. PICK j \in DOMAIN history[other] :
          /\ history[other][j] = [what |-> "confirm", by |-> s]
          /\ j > 1 /\ j - 1 \in DOMAIN history[other]
          /\ history[other][j-1] = [what |-> "mint", by |-> call[s].token]
    BY <2>2a
  <2>3. /\ history[id][i-1].by = call[r].token
        /\ history[other][j-1].by = call[r].token
        /\ call[r].token \in Requests
    <3>1. call[r] \in Calls
      BY DEF IInv, TypeOK
    <3> QED BY <1>2, <2>1, <2>2, <3>1, CallFields
  <2>4. id = other /\ i - 1 = j - 1
    BY <2>1, <2>2, <2>3 DEF IInv, Credentials, Once
  <2>5. i \in Nat /\ j \in Nat
    BY DEF IInv, TypeOK
  <2>6. i = j
    BY <2>4, <2>5
  <2>7. [what |-> "confirm", by |-> r].by = [what |-> "confirm", by |-> s].by
    BY <2>1, <2>2, <2>4, <2>6
  <2> QED BY <2>7
<1>3. \E id \in Ids : \E i \in DOMAIN history[id] :
        history[id][i] = [what |-> "confirm", by |-> r]
  BY DEF IInv, Credentials, Credited
<1> QED BY <1>2, <1>3

-----------------------------------------------------------------------------
(* The first user.                                                         *)

\* A backend that has users starts with an admin among them: what this very
\* theorem says of the run that made them, if none was deleted.
AdminsAtFirst ==
    \A present \in Backends : present # {} => \E id \in present : Existing[id].role = "admin"

\* Who counted a user may insert a member: that user is there still.
Bootstrap ==
    Deleted = {} =>
        /\ FirstIsAdmin
        /\ \A r \in Requests : pc[r] = "insert" /\ counted[r] = "member"
              => \E id \in Ids : users[id] # None

\* Only a count leads to an insert.
LEMMA Counts ==
    ASSUME TypeOK, NEW r \in Requests, Step(r), pc'[r] = "insert"
    PROVE  Count(r)
<1> USE DEF TypeOK, Goto, Reply
<1>1. ~Receive(r)
  BY ReceiveFrame
<1>2. ~InsertUser(r) /\ ~Recover(r) /\ ~Announce(r) /\ ~Find(r) /\ ~Link(r)
  BY DEF InsertUser, Recover, Announce, Find, Link
<1>3. ~VerifyCurrent(r) /\ ~SetPassword(r) /\ ~Look(r) /\ ~Mint(r)
  BY DEF VerifyCurrent, SetPassword, Look, Mint
<1>4. ~CheckToken(r) /\ ~Reset(r) /\ ~Fail(r)
  BY DEF CheckToken, Reset, Fail
<1> QED BY <1>1, <1>2, <1>3, <1>4 DEF Step

\* No request takes the table's admin away, or its last user.
LEMMA BootstrapStep ==
    ASSUME AccountsAssumption, IInv, Bootstrap, NEW r \in Requests, Step(r)
    PROVE  Bootstrap'
<1> SUFFICES ASSUME Deleted' = {}
             PROVE  /\ FirstIsAdmin'
                    /\ \A q \in Requests : pc'[q] = "insert" /\ counted'[q] = "member"
                          => \E id \in Ids : users'[id] # None
  BY DEF Bootstrap
<1> USE DEF IInv
<1>1. Deleted = {}
  BY DeletedKeep
<1>2. \A id \in Ids : users[id] # None => users'[id] # None /\ users'[id].role = users[id].role
  BY RowsKeep DEF Identity
<1>3. \A id \in Ids : users[id] = None /\ users'[id] # None
                       => Creates(r) /\ id = r /\ users'[id].role = counted[r]
  BY RowsKeep DEF Identity
<1>4. ASSUME NEW id \in Ids, users[id] # None
      PROVE  \E admin \in Ids : users'[admin] # None /\ users'[admin].role = "admin"
  BY <1>1, <1>2, <1>4 DEF Bootstrap, FirstIsAdmin
<1>5. FirstIsAdmin'
  <2> SUFFICES ASSUME NEW id \in Ids, users'[id] # None
               PROVE  \E admin \in Ids : users'[admin] # None /\ users'[admin].role = "admin"
    BY DEF FirstIsAdmin
  <2>1. CASE users[id] # None
    BY <1>4, <2>1
  <2>2. CASE users[id] = None
    <3>1. Creates(r) /\ users'[id].role = counted[r]
      BY <1>3, <2>2
    <3>2. counted[r] \in {"admin", "member"} /\ pc[r] = "insert"
      BY <3>1 DEF Creates, Shape, ShapeOf
    <3>3. CASE counted[r] = "admin"
      BY <3>1, <3>3
    <3>4. CASE counted[r] = "member"
      BY <1>1, <1>4, <3>2, <3>4 DEF Bootstrap
    <3> QED BY <3>2, <3>3, <3>4
  <2> QED BY <2>1, <2>2
<1>6. ASSUME NEW q \in Requests, pc'[q] = "insert", counted'[q] = "member"
      PROVE  \E id \in Ids : users'[id] # None
  <2>1. CASE q # r
    BY <1>1, <1>2, <1>6, <2>1, Frame DEF Bootstrap
  <2>2. CASE q = r
    <3>1. Count(r)
      BY <1>6, <2>2, Counts
    <3>2. \E id \in Ids : users[id] # None
      BY <1>6, <2>2, <3>1 DEF Count, TypeOK
    <3> QED BY <1>2, <3>2
  <2> QED BY <2>1, <2>2
<1> QED BY <1>5, <1>6

\* A deletion is on record from then on.
LEMMA DeletionRecorded ==
    ASSUME IInv, NEW id \in Ids, DeleteUser(id)
    PROVE  Deleted' # {}
<1> DEFINE entry == [what |-> "delete", by |-> None]
<1>1. Grown(id, entry)
  BY Logged DEF DeleteUser, IInv
<1>2. /\ Len(history[id]) + 1 \in DOMAIN history'[id]
      /\ history'[id][Len(history[id]) + 1].what = "delete"
  BY <1>1 DEF Grown
<1> QED BY <1>2 DEF Deleted

\* bootstrapRole: whatever registrations and callbacks race, the first user of
\* a backend is an admin, and one is left while nobody deletes users.
THEOREM AdminFirst == ASSUME AdminsAtFirst PROVE Spec => []FirstIsAdmin
<1>1. Init => Bootstrap
  <2> SUFFICES ASSUME Init PROVE Bootstrap
    OBVIOUS
  <2>1. PICK present \in Backends :
          users = [id \in Ids |-> IF id \in present THEN Existing[id] ELSE None]
    BY DEF Init
  <2>2. present \subseteq Ids
    BY AccountsAssumption DEF AccountsAssumption, Ids
  <2>3. \A id \in present : Existing[id] # None
    BY AccountsAssumption DEF AccountsAssumption
  <2>4. FirstIsAdmin
    BY <2>1, <2>2, <2>3 DEF AdminsAtFirst, FirstIsAdmin
  <2> QED BY <2>4 DEF Init, Bootstrap
<1>2. IInv /\ Bootstrap /\ [Next]_vars => Bootstrap'
  <2> SUFFICES ASSUME IInv, Bootstrap, [Next]_vars PROVE Bootstrap'
    OBVIOUS
  <2>1. ASSUME NEW token \in Requests, Expire(token) PROVE Bootstrap'
    BY <2>1 DEF Expire, Bootstrap, FirstIsAdmin, Deleted
  <2>2. ASSUME NEW id \in Ids, DeleteUser(id) PROVE Bootstrap'
    BY <2>2, DeletionRecorded DEF Bootstrap
  <2>3. CASE UNCHANGED vars
    BY <2>3 DEF vars, Bootstrap, FirstIsAdmin, Deleted
  <2> QED BY <2>1, <2>2, <2>3, BootstrapStep, AccountsAssumption DEF Next, Step
<1>3. IInv => (Bootstrap => FirstIsAdmin)
  BY DEF Bootstrap, FirstIsAdmin
<1> QED BY <1>1, <1>2, <1>3, Invariant, PTL DEF Spec

\* The state is always well typed: a created user has the role that
\* bootstrapRole gave, whichever route created it.
THEOREM TypeCorrect == Spec => []TypeOK
<1>1. IInv => TypeOK
  BY DEF IInv
<1> QED BY <1>1, Invariant, PTL

\* POST /password-reset/confirm: for any number of racing mints, changes and
\* confirms, a reset follows the mint of its own token immediately.
THEOREM LastToken == Spec => []ResetsByLastToken
<1>1. IInv => ResetsByLastToken
  BY DEF IInv, Credentials
<1> QED BY <1>1, Invariant, PTL

\* A token resets a password once, however many confirms of it race.
THEOREM SingleUse == Spec => []OneWinner
<1>1. IInv => OneWinner
  BY Winners, AccountsAssumption
<1> QED BY <1>1, Invariant, PTL

\* register, login and the OAuth callback: no race of callbacks, creations and
\* deletions issues a session for an account that its request has not earned.
THEOREM Earns == Spec => []SessionsAreEarned
<1>1. IInv => SessionsAreEarned
  BY DEF IInv
<1> QED BY <1>1, Invariant, PTL

\* createOAuthUser: a callback is refused for a conflict only if the account
\* that won the race has been deleted.
THEOREM Recovers == Spec => []RacesAreRecovered
<1>1. IInv => RacesAreRecovered
  BY DEF IInv
<1> QED BY <1>1, Invariant, PTL

\* record.created of users: announced once, by the request that created it.
THEOREM Announces == Spec => []CreatedOnce
<1>1. IInv => CreatedOnce
  BY DEF IInv
<1> QED BY <1>1, Invariant, PTL
=============================================================================
