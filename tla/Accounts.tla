------------------------------- MODULE Accounts -------------------------------
(***************************************************************************)
(* The users of the auth plugin (src/packages/frogcp/src/auth): register,  *)
(* login, the OAuth callback, the password change and the reset tokens.    *)
(* Every route reads the users table, awaits (scrypt, the provider, the    *)
(* mailer), and only then writes; the routes of many requests interleave,  *)
(* with an admin deleting users and time running out on tokens.            *)
(*                                                                         *)
(* A user's id and a reset token are known by the request that made them.  *)
(***************************************************************************)
EXTENDS Naturals, Sequences, FiniteSets

CONSTANTS
    Requests,
    Existing,       \* the users before: Existing[id] is a row
    Backends,       \* the sets of them that a backend may start with
    Emails, Passwords, Subjects,    \* Subjects: identities at a provider
    Routes,         \* the routes this deployment is sent requests for
    MaxDeletes,     \* bound: how many users are deleted
    None            \* an absent value, row or call

Ids   == Requests \cup DOMAIN Existing
Rows  == [email : Emails, password : Passwords \cup {None},
          role : {"admin", "member"}, reset : Requests \cup {None}]
Calls == [op : {"register", "login"}, email : Emails, password : Passwords]
    \cup [op : {"callback"}, subject : Subjects, email : Emails, verified : BOOLEAN]
    \cup [op : {"change"}, who : Ids, current : Passwords, password : Passwords]
    \cup [op : {"request"}, email : Emails]
    \cup [op : {"issue"}, who : Ids, email : Emails]
    \cup [op : {"confirm"}, token : Requests, password : Passwords]
Links  == [subject : Subjects, user : Ids, by : Requests]
Events == [user : Ids, by : Requests]
Steps  == {"idle", "count", "insert", "announce", "recover", "find", "link",
           "verify", "change", "look", "mint", "check", "reset", "done"}
Answers == {"ok", "accepted", "401", "403", "404", "409", "500"}

ASSUME AccountsAssumption ==
    /\ None \notin UNION {Requests, DOMAIN Existing, Emails, Passwords, Subjects}
    /\ None \notin Rows /\ None \notin Calls /\ None \notin Answers
    /\ Requests \cap DOMAIN Existing = {}
    /\ Existing \in [DOMAIN Existing -> {row \in Rows : row.reset = None}]
    /\ Backends \subseteq SUBSET DOMAIN Existing
    /\ MaxDeletes \in Nat

VARIABLES
    users,      \* the users table: users[id], or None
    links,      \* the oauthAccounts table
    call,       \* what each request asks
    pc,         \* where each request is between two awaits
    counted,    \* the role bootstrapRole gave
    found,      \* the user a request is about
    answer,     \* what each request was answered
    expired,    \* the tokens whose hour has passed
    events,     \* the record.created events of users
    history     \* what happened to each user's credentials, in order

vars == <<users, links, call, pc, counted, found, answer, expired, events, history>>

-----------------------------------------------------------------------------
ByEmail(email) == {id \in Ids : users[id] # None /\ users[id].email = email}
ByToken(token) == {id \in Ids : users[id] # None /\ users[id].reset = token}
LinksOf(subject) == {l \in links : l.subject = subject}

Init ==
    /\ \E present \in Backends :
         users = [id \in Ids |-> IF id \in present THEN Existing[id] ELSE None]
    /\ links = {}
    /\ call = [r \in Requests |-> None]
    /\ pc = [r \in Requests |-> "idle"]
    /\ counted = [r \in Requests |-> None]
    /\ found = [r \in Requests |-> None]
    /\ answer = [r \in Requests |-> None]
    /\ expired = {}
    /\ events = {}
    /\ history = [id \in Ids |-> <<>>]

Goto(r, where) == pc' = [pc EXCEPT ![r] = where] /\ UNCHANGED answer
Reply(r, what) ==
    /\ pc' = [pc EXCEPT ![r] = "done"]
    /\ answer' = [answer EXCEPT ![r] = what]
About(r, id) == found' = [found EXCEPT ![r] = id]
Asks(r, what) ==
    /\ pc[r] = "idle" /\ what.op \in Routes
    /\ call' = [call EXCEPT ![r] = what]
Log(id, what, r) ==
    history' = [history EXCEPT ![id] = Append(@, [what |-> what, by |-> r])]

\* The routes that issue a session, and the users who hold one; a session
\* outlives its user, but identify looks the user up on every request.
LoggedIn(r) ==
    /\ answer[r] = "ok"
    /\ call[r].op \in {"register", "login", "callback"}
Sessions == DOMAIN Existing \cup {found[r] : r \in {q \in Requests : LoggedIn(q)}}

tables == <<users, links, history, events, expired>>

-----------------------------------------------------------------------------
(* Creating an account: register, and createOAuthUser for a callback.      *)

Register(r, email, password) ==
    /\ Asks(r, [op |-> "register", email |-> email, password |-> password])
    /\ Goto(r, "count")
    /\ UNCHANGED <<counted, found, tables>>

\* Mutant: the count is taken to include the user about to be created.
CountIncluded(r) ==
    /\ pc[r] = "count"
    /\ counted' = [counted EXCEPT ![r] =
         IF \E id \in Ids : users[id] # None /\ \A other \in Ids \ {id} : users[other] = None
         THEN "admin" ELSE "member"]
    /\ Goto(r, "insert")
    /\ UNCHANGED <<call, found, tables>>

\* bootstrapRole: an await before the insert, with scrypt in between.
Count(r) ==
    /\ pc[r] = "count"
    /\ counted' = [counted EXCEPT ![r] =
         IF \A id \in Ids : users[id] = None THEN "admin" ELSE "member"]
    /\ Goto(r, "insert")
    /\ UNCHANGED <<call, found, tables>>

\* The INSERT is the duplicate check: email is unique.
InsertUser(r) ==
    /\ pc[r] = "insert"
    /\ \/ /\ ByEmail(call[r].email) # {}
          /\ \/ call[r].op = "register" /\ Reply(r, "409")
             \/ call[r].op = "callback" /\ Goto(r, "recover")
          /\ UNCHANGED <<users, found>>
       \/ /\ ByEmail(call[r].email) = {}
          /\ users' = [users EXCEPT ![r] =
               [email |-> call[r].email, role |-> counted[r], reset |-> None,
                password |-> IF call[r].op = "register" THEN call[r].password ELSE None]]
          /\ About(r, r)
          /\ Goto(r, "announce")
    /\ UNCHANGED <<links, call, counted, expired, events, history>>

\* Mutant: what is recovered is announced as created.
RecoverAnnounces(r) ==
    /\ pc[r] = "recover"
    /\ \E id \in ByEmail(call[r].email) : About(r, id) /\ Goto(r, "announce")
    /\ UNCHANGED <<call, counted, tables>>

\* Mutant: the loser of the race is not linked.
RecoverRefuses(r) ==
    /\ pc[r] = "recover"
    /\ Reply(r, "409")
    /\ UNCHANGED <<call, counted, found, tables>>

\* The loser of a race for an email takes the winner's account, if still there.
Recover(r) ==
    /\ pc[r] = "recover"
    /\ \/ \E id \in ByEmail(call[r].email) : About(r, id) /\ Goto(r, "link")
       \/ ByEmail(call[r].email) = {} /\ Reply(r, "409") /\ UNCHANGED found
    /\ UNCHANGED <<call, counted, tables>>

\* record.created; then register issues a session and a callback goes on.
Announce(r) ==
    /\ pc[r] = "announce"
    /\ events' = events \cup {[user |-> found[r], by |-> r]}
    /\ \/ call[r].op = "register" /\ Reply(r, "ok")
       \/ call[r].op = "callback" /\ Goto(r, "link")
    /\ UNCHANGED <<users, links, call, counted, found, expired, history>>

-----------------------------------------------------------------------------
(* resolveOAuthUser.                                                       *)

\* Mutant: an unverified email is looked up like a verified one.
CallbackTrusting(r, subject, email, verified) ==
    /\ Asks(r, [op |-> "callback", subject |-> subject, email |-> email,
                verified |-> verified])
    /\ \/ \E l \in LinksOf(subject) : About(r, l.user) /\ Reply(r, "ok")
       \/ LinksOf(subject) = {} /\ Goto(r, "find") /\ UNCHANGED found
    /\ UNCHANGED <<counted, tables>>

\* The provider's answer is in: a linked subject logs in, an unverified email
\* can do no more.
Callback(r, subject, email, verified) ==
    /\ Asks(r, [op |-> "callback", subject |-> subject, email |-> email,
                verified |-> verified])
    /\ \/ \E l \in LinksOf(subject) : About(r, l.user) /\ Reply(r, "ok")
       \/ LinksOf(subject) = {} /\ ~verified /\ Reply(r, "403") /\ UNCHANGED found
       \/ LinksOf(subject) = {} /\ verified /\ Goto(r, "find") /\ UNCHANGED found
    /\ UNCHANGED <<counted, tables>>

\* findUserIdByEmail; the await before it is where two callbacks can race.
Find(r) ==
    /\ pc[r] = "find"
    /\ \/ \E id \in ByEmail(call[r].email) : About(r, id) /\ Goto(r, "link")
       \/ ByEmail(call[r].email) = {} /\ Goto(r, "count") /\ UNCHANGED found
    /\ UNCHANGED <<call, counted, tables>>

\* The link's user is a foreign key.
Link(r) ==
    /\ pc[r] = "link"
    /\ \/ /\ users[found[r]] # None
          /\ links' = links \cup
               {[subject |-> call[r].subject, user |-> found[r], by |-> r]}
          /\ Reply(r, "ok")
       \/ /\ users[found[r]] = None
          /\ Reply(r, "500")
          /\ UNCHANGED links
    /\ UNCHANGED <<users, call, counted, found, expired, events, history>>

-----------------------------------------------------------------------------
(* Passwords.                                                              *)

\* What setting a password writes: no token outlives it.
Renewed(row, password) == [row EXCEPT !.password = password, !.reset = None]

\* verifyPassword: what is not a hash it can read, a null one included, is of
\* no password.
Verifies(row, password) == row.password # None /\ row.password = password

\* One SELECT; the outcome is that copy's.
Login(r, email, password) ==
    /\ Asks(r, [op |-> "login", email |-> email, password |-> password])
    /\ \/ \E id \in ByEmail(email) :
            Verifies(users[id], password) /\ About(r, id) /\ Reply(r, "ok")
       \/ /\ \A id \in ByEmail(email) : ~Verifies(users[id], password)
          /\ Reply(r, "401") /\ UNCHANGED found
    /\ UNCHANGED <<counted, tables>>

\* The caller's session is a live one if its user still exists (identify).
ChangePassword(r, who, current, password) ==
    /\ Asks(r, [op |-> "change", who |-> who, current |-> current,
                password |-> password])
    /\ \/ users[who] = None /\ Reply(r, "401") /\ UNCHANGED found
       \/ users[who] # None /\ Goto(r, "verify") /\ About(r, who)
    /\ UNCHANGED <<counted, tables>>

\* The SELECT and the check of the current password on the row it returned.
VerifyCurrent(r) ==
    /\ pc[r] = "verify"
    /\ LET user == users[found[r]] IN
         \/ user = None /\ Reply(r, "401")
         \/ user # None /\ user.password = None /\ Reply(r, "409")
         \/ /\ user # None /\ user.password # None
            /\ ~Verifies(user, call[r].current) /\ Reply(r, "401")
         \/ user # None /\ Verifies(user, call[r].current) /\ Goto(r, "change")
    /\ UNCHANGED <<call, counted, found, tables>>

\* UPDATE ... WHERE id = ...: whatever the password is by now.
SetPassword(r) ==
    /\ pc[r] = "change"
    /\ IF users[found[r]] = None THEN UNCHANGED <<users, history>>
       ELSE /\ users' = [users EXCEPT ![found[r]] = Renewed(@, call[r].password)]
            /\ Log(found[r], "change", r)
    /\ Reply(r, "ok")
    /\ UNCHANGED <<links, call, counted, found, expired, events>>

-----------------------------------------------------------------------------
(* Reset tokens.                                                           *)

\* A self-serve request, with a mailer configured; or an admin's issue.
RequestReset(r, email) ==
    /\ Asks(r, [op |-> "request", email |-> email])
    /\ Goto(r, "look")
    /\ UNCHANGED <<counted, found, tables>>

IssueReset(r, who, email) ==
    /\ Asks(r, [op |-> "issue", who |-> who, email |-> email])
    /\ \/ users[who] = None /\ Reply(r, "401")
       \/ users[who] # None /\ users[who].role # "admin" /\ Reply(r, "403")
       \/ users[who] # None /\ users[who].role = "admin" /\ Goto(r, "look")
    /\ UNCHANGED <<counted, found, tables>>

Look(r) ==
    /\ pc[r] = "look"
    /\ \/ \E id \in ByEmail(call[r].email) : About(r, id) /\ Goto(r, "mint")
       \/ /\ ByEmail(call[r].email) = {}
          /\ Reply(r, IF call[r].op = "request" THEN "accepted" ELSE "404")
          /\ UNCHANGED found
    /\ UNCHANGED <<call, counted, tables>>

\* The token replaces whatever token was there, then it is mailed or shown.
Mint(r) ==
    /\ pc[r] = "mint"
    /\ IF users[found[r]] = None THEN UNCHANGED <<users, history>>
       ELSE users' = [users EXCEPT ![found[r]].reset = r] /\ Log(found[r], "mint", r)
    /\ Reply(r, "ok")
    /\ UNCHANGED <<links, call, counted, found, expired, events>>

HandedOut(token) ==
    /\ call[token] # None /\ call[token].op \in {"request", "issue"}
    /\ answer[token] = "ok"

Expire(token) ==
    /\ HandedOut(token) /\ token \notin expired
    /\ expired' = expired \cup {token}
    /\ UNCHANGED <<users, links, call, pc, counted, found, answer, events, history>>

Confirm(r, token, password) ==
    /\ HandedOut(token)
    /\ Asks(r, [op |-> "confirm", token |-> token, password |-> password])
    /\ Goto(r, "check")
    /\ UNCHANGED <<counted, found, tables>>

\* The SELECT by token hash and the expiry check.
CheckToken(r) ==
    /\ pc[r] = "check"
    /\ \/ \E id \in ByToken(call[r].token) :
            call[r].token \notin expired /\ About(r, id) /\ Goto(r, "reset")
       \/ /\ ByToken(call[r].token) = {} \/ call[r].token \in expired
          /\ Reply(r, "404") /\ UNCHANGED found
    /\ UNCHANGED <<call, counted, tables>>

\* Mutant: the UPDATE is by id alone.
ResetById(r) ==
    /\ pc[r] = "reset"
    /\ \/ /\ users[found[r]] # None
          /\ users' = [users EXCEPT ![found[r]] = Renewed(@, call[r].password)]
          /\ Log(found[r], "confirm", r)
          /\ Reply(r, "ok")
       \/ users[found[r]] = None /\ Reply(r, "404") /\ UNCHANGED <<users, history>>
    /\ UNCHANGED <<links, call, counted, found, expired, events>>

\* UPDATE ... WHERE id = ... AND resetTokenHash = ..., and who lost it.
Reset(r) ==
    /\ pc[r] = "reset"
    /\ \/ /\ found[r] \in ByToken(call[r].token)
          /\ users' = [users EXCEPT ![found[r]] = Renewed(@, call[r].password)]
          /\ Log(found[r], "confirm", r)
          /\ Reply(r, "ok")
       \/ /\ found[r] \notin ByToken(call[r].token)
          /\ Reply(r, "404")
          /\ UNCHANGED <<users, history>>
    /\ UNCHANGED <<links, call, counted, found, expired, events>>

-----------------------------------------------------------------------------
\* An admin deletes a user through the entity routes; its links cascade.
Deleted == {id \in Ids : \E i \in DOMAIN history[id] : history[id][i].what = "delete"}

DeleteUser(id) ==
    /\ users[id] # None /\ Cardinality(Deleted) < MaxDeletes
    /\ users' = [users EXCEPT ![id] = None]
    /\ links' = {l \in links : l.user # id}
    /\ Log(id, "delete", None)
    /\ UNCHANGED <<call, pc, counted, found, answer, expired, events>>

\* The driver fails: the request is answered 500.
Fail(r) ==
    /\ pc[r] \notin {"idle", "announce", "done"}
    /\ Reply(r, "500")
    /\ UNCHANGED <<call, counted, found, tables>>

Receive(r) ==
    \/ \E email \in Emails, password \in Passwords :
         Register(r, email, password) \/ Login(r, email, password)
    \/ \E subject \in Subjects, email \in Emails, verified \in BOOLEAN :
         Callback(r, subject, email, verified)
    \/ \E who \in Sessions, current, password \in Passwords :
         ChangePassword(r, who, current, password)
    \/ \E email \in Emails : RequestReset(r, email)
    \/ \E who \in Sessions, email \in Emails : IssueReset(r, who, email)
    \/ \E token \in Requests, password \in Passwords : Confirm(r, token, password)

Next ==
    \/ \E r \in Requests :
         \/ Receive(r) \/ Count(r) \/ InsertUser(r) \/ Recover(r) \/ Announce(r)
         \/ Find(r) \/ Link(r) \/ VerifyCurrent(r) \/ SetPassword(r)
         \/ Look(r) \/ Mint(r) \/ CheckToken(r) \/ Reset(r) \/ Expire(r) \/ Fail(r)
    \/ \E id \in Ids : DeleteUser(id)

Spec == Init /\ [][Next]_vars

-----------------------------------------------------------------------------
(* Properties.                                                             *)

TypeOK ==
    /\ users \in [Ids -> Rows \cup {None}]
    /\ links \subseteq Links
    /\ call \in [Requests -> Calls \cup {None}]
    /\ pc \in [Requests -> Steps]
    /\ counted \in [Requests -> {"admin", "member", None}]
    /\ found \in [Requests -> Ids \cup {None}]
    /\ answer \in [Requests -> Answers \cup {None}]
    /\ expired \subseteq Requests
    /\ events \subseteq Events
    /\ history \in [Ids -> Seq([what : {"mint", "change", "confirm", "delete"},
                                by : Requests \cup {None}])]

\* A reset takes effect only by the token last minted for that user, with no
\* password set in between by the other route or by a racing confirm.
ResetsByLastToken ==
    \A id \in Ids : \A i \in DOMAIN history[id] :
        history[id][i].what = "confirm" =>
            /\ i > 1
            /\ history[id][i-1] = [what |-> "mint", by |-> call[history[id][i].by].token]

\* Of the confirms racing for a token exactly one wins: one is answered ok,
\* and it is the one whose password was set.
OneWinner ==
    \A r \in Requests : call[r] # None /\ call[r].op = "confirm" /\ answer[r] = "ok" =>
        /\ \A s \in Requests \ {r} :
             call[s] # None /\ call[s].op = "confirm" /\ call[s].token = call[r].token
                => answer[s] # "ok"
        /\ \E id \in Ids : \E i \in DOMAIN history[id] :
             history[id][i] = [what |-> "confirm", by |-> r]

EmailOf(id) == IF id \in DOMAIN Existing THEN Existing[id].email ELSE call[id].email

\* A session is earned: it is for the account of the email registered or
\* logged in with, or of an email that the provider has vouched to be the
\* subject's.  No race of callbacks, registrations and deletions hands out
\* another account.
SessionsAreEarned ==
    \A r \in Requests : LoggedIn(r) =>
        IF call[r].op = "callback"
        THEN \E s \in Requests :
               /\ call[s] # None /\ call[s].op = "callback"
               /\ call[s].subject = call[r].subject /\ call[s].verified
               /\ EmailOf(found[r]) = call[s].email
        ELSE EmailOf(found[r]) = call[r].email

\* A verified callback that loses the race to create its account logs in to
\* the winner's: a 409 means that someone deleted an account of that email.
RacesAreRecovered ==
    \A r \in Requests :
        answer[r] = "409" /\ call[r].op = "callback" =>
            \E id \in Deleted : EmailOf(id) = call[r].email

\* Every user is announced by the request that created it, and once.
CreatedOnce ==
    /\ \A e \in events : e.user = e.by
    /\ \A r \in Requests :
         users[r] # None /\ pc[r] # "announce" => [user |-> r, by |-> r] \in events

\* Whatever creations race, a backend that never lost a user has an admin.
FirstIsAdmin ==
    (Deleted = {} /\ \E id \in Ids : users[id] # None)
        => \E id \in Ids : users[id] # None /\ users[id].role = "admin"
=============================================================================
