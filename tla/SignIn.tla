--------------------------------- MODULE SignIn ---------------------------------
(***************************************************************************)
(* Signing in with a provider, from the redirect to the session cookie and *)
(* to the identity of the requests that carry it (src/packages/frogcp/src/ *)
(* auth/oauth.ts, session.ts, identify.ts and resolveCtx of kernel.ts).    *)
(*                                                                         *)
(* A browser has one state cookie and one session cookie, whatever number  *)
(* of tabs sign in; the address of a callback may be opened twice, or in   *)
(* another browser.  Which account an identity belongs to is Accounts'     *)
(* subject: here finding or creating it is one step.  A deployment may     *)
(* have the JWT plugin in place of auth: its identities are those of tokens*)
(* that another issuer signs (auth/jwt-verify.ts).                         *)
(***************************************************************************)
EXTENDS Naturals, FiniteSets

CONSTANTS
    Browsers,
    Flows,       \* GET /oauth/:provider; the state it draws is the flow
    Callbacks,   \* GET /oauth/:provider/callback
    Requests,    \* any request, as far as its identity goes
    Users,       \* the identities of the providers' users
    Unverified,  \* those whose email the provider does not vouch for
    Attempts,    \* discoveries
    Bearers,     \* Bearers[plugin]: the tokens in Authorization headers
    Life,        \* sessionTtlSeconds
    MaxNow, MaxFaults, MaxEdits,  \* bounds: clock, failures, edits of users
    None

\* What issueSession signs.
Sessions == [iss : {"frogcp"}, user : Users, gen : Nat, exp : Nat]

\* Nobody else has the app's secret: a token of its issuer is a session.
ASSUME SignInAssumption ==
    /\ Flows \cap Callbacks = {} /\ Flows \cap Requests = {} /\ Callbacks \cap Requests = {}
    /\ None \notin Flows \cup Attempts
    /\ \A t \in Bearers["auth"] : t.iss = "frogcp" => t \in Sessions
    /\ Life \in Nat

VARIABLES
    plugin,   \* the first plugin that provides identify: "auth" or "jwt"
    cache,    \* discoveryCache for the OIDC issuer: an attempt, or None
    disc,     \* disc[a]: "free", "pending", "ok" or "failed"
    flow,     \* flow[f]: its browser, its provider, the discovery it awaits
    call,     \* call[c]: the flow it answers, its browser, what it awaits
    pc,       \* of flows, callbacks and requests
    code,     \* code[f]: None, or who signed in at the provider, and if it was used
    out,      \* out[c]: the response under way to the browser
    jar,      \* jar[b]: its cookies
    account,  \* account[u]: its generation, and its role or None
    token,    \* token[r]: the session or bearer token a request carries, or None
    ctx,      \* ctx[r]: None is a guest
    seen,     \* seen[r]: what the accounts have been while r ran
    now, faults, edits

vars == <<plugin, cache, disc, flow, call, pc, code, out, jar, account, token, ctx, seen, now,
          faults, edits>>

Providers == {"oidc", "github"}
NoAccount(gen) == [gen |-> gen, role |-> None]

Init ==
    /\ plugin \in {"auth", "jwt"}
    /\ cache = None /\ disc = [a \in Attempts |-> "free"]
    /\ flow = [f \in Flows |-> None] /\ call = [c \in Callbacks |-> None]
    /\ pc = [p \in Flows \cup Callbacks \cup Requests |-> "idle"]
    /\ code = [f \in Flows |-> None]
    /\ out = [c \in Callbacks |-> None]
    /\ jar = [b \in Browsers |-> [state |-> None, session |-> None]]
    /\ account = [u \in Users |-> NoAccount(0)]
    /\ token = [r \in Requests |-> None] /\ ctx = [r \in Requests |-> None]
    /\ seen = [r \in Requests |-> {}]
    /\ now = 0 /\ faults = 0 /\ edits = 0

Go(p, where) == pc' = [pc EXCEPT ![p] = where]

Fault == faults < MaxFaults /\ faults' = faults + 1

-----------------------------------------------------------------------------
(* resolveEndpoints: a flow or a callback waits for the endpoints.         *)

\* The discovery that a request for endpoints ends up awaiting.
Awaits(provider) ==
    IF provider = "github" THEN None
    ELSE IF cache # None THEN cache
    ELSE CHOOSE a \in Attempts : disc[a] = "free"

Resolve(provider) ==
    IF provider = "github" \/ cache # None THEN UNCHANGED <<cache, disc>>
    ELSE /\ \E a \in Attempts : disc[a] = "free"
         /\ cache' = Awaits(provider)
         /\ disc' = [disc EXCEPT ![Awaits(provider)] = "pending"]

Endpoints(a) == IF a = None THEN TRUE ELSE disc[a] = "ok"

Discover(a) ==
    /\ disc[a] = "pending"
    /\ disc' = [disc EXCEPT ![a] = "ok"]
    /\ UNCHANGED <<plugin, cache, flow, call, pc, code, out, jar, account, token, ctx,
                   seen, now, faults, edits>>

\* Mutant: a failure stays cached.
DiscoverFailsCached(a) ==
    /\ disc[a] = "pending" /\ Fault
    /\ disc' = [disc EXCEPT ![a] = "failed"]
    /\ UNCHANGED <<plugin, cache, flow, call, pc, code, out, jar, account, token, ctx,
                   seen, now, edits>>

\* The catch that evicts comes before whoever awaits the promise it returns.
DiscoverFails(a) ==
    /\ disc[a] = "pending" /\ Fault
    /\ disc' = [disc EXCEPT ![a] = "failed"]
    /\ cache' = None
    /\ UNCHANGED <<plugin, flow, call, pc, code, out, jar, account, token, ctx, seen,
                   now, edits>>

-----------------------------------------------------------------------------
(* GET /oauth/:provider.                                                   *)

Authorize(f, b, provider) ==
    /\ plugin = "auth" /\ pc[f] = "idle"
    /\ Resolve(provider)
    /\ flow' = [flow EXCEPT ![f] =
                  [browser |-> b, provider |-> provider, awaits |-> Awaits(provider)]]
    /\ Go(f, "endpoints")
    /\ UNCHANGED <<plugin, call, code, out, jar, account, token, ctx, seen, now, faults,
                   edits>>

\* The redirect arrives with its cookie, which replaces that of another tab.
Redirect(f) ==
    /\ pc[f] = "endpoints" /\ Endpoints(flow[f].awaits)
    /\ jar' = [jar EXCEPT ![flow[f].browser].state = f]
    /\ Go(f, "provider")
    /\ UNCHANGED <<plugin, cache, disc, flow, call, code, out, account, token, ctx,
                   seen, now, faults, edits>>

AuthorizeFails(f) ==
    /\ pc[f] = "endpoints" /\ flow[f].awaits # None /\ disc[flow[f].awaits] = "failed"
    /\ Go(f, "done")
    /\ UNCHANGED <<plugin, cache, disc, flow, call, code, out, jar, account, token, ctx,
                   seen, now, faults, edits>>

\* At the provider, somebody signs in, or declines.
SignInAt(f, who) ==
    /\ pc[f] = "provider"
    /\ code' = [code EXCEPT ![f] = [who |-> who, used |-> FALSE]]
    /\ Go(f, "done")
    /\ UNCHANGED <<plugin, cache, disc, flow, call, out, jar, account, token, ctx, seen,
                   now, faults, edits>>

Decline(f) ==
    /\ pc[f] = "provider"
    /\ code' = [code EXCEPT ![f] = [who |-> None, used |-> FALSE]]
    /\ Go(f, "done")
    /\ UNCHANGED <<plugin, cache, disc, flow, call, out, jar, account, token, ctx, seen,
                   now, faults, edits>>

-----------------------------------------------------------------------------
(* GET /oauth/:provider/callback.                                          *)

\* What the browser will be told; an ApiError clears the state cookie, as
\* success does, and anything else that is thrown does not.
Response(c, status, session) ==
    /\ out' = [out EXCEPT ![c] = [status |-> status, session |-> session]]
    /\ Go(c, "respond")

\* Mutant: that there is a state cookie is enough.
TrustedPresent(f, b) == jar[b].state # None

\* Only the state this browser was last sent away with is taken back.
Trusted(f, b) == jar[b].state = f

Callback(c, f, b) ==
    /\ pc[c] = "idle" /\ code[f] # None
    /\ \/ /\ ~Trusted(f, b)
          /\ Response(c, "403", None)
          /\ call' = [call EXCEPT ![c] = [flow |-> f, browser |-> b, awaits |-> None]]
          /\ UNCHANGED <<cache, disc>>
       \/ /\ Trusted(f, b) /\ code[f].who = None
          /\ Response(c, "400", None)
          /\ call' = [call EXCEPT ![c] = [flow |-> f, browser |-> b, awaits |-> None]]
          /\ UNCHANGED <<cache, disc>>
       \/ /\ Trusted(f, b) /\ code[f].who # None
          /\ Resolve(flow[f].provider)
          /\ call' = [call EXCEPT ![c] = [flow |-> f, browser |-> b,
                                          awaits |-> Awaits(flow[f].provider)]]
          /\ Go(c, "endpoints") /\ UNCHANGED out
    /\ UNCHANGED <<plugin, flow, code, jar, account, token, ctx, seen, now, faults,
                   edits>>

\* A failed discovery ends the callback with its error.
CallbackFails(c) ==
    /\ pc[c] = "endpoints" /\ call[c].awaits # None /\ disc[call[c].awaits] = "failed"
    /\ \E status \in {"502", "500"} : Response(c, status, None)
    /\ UNCHANGED <<plugin, cache, disc, flow, call, code, jar, account, token, ctx,
                   seen, now, faults, edits>>

\* exchangeCode; the provider takes a code once.
Exchange(c) ==
    /\ pc[c] = "endpoints" /\ Endpoints(call[c].awaits)
    /\ LET f == call[c].flow IN
       IF code[f].used THEN Response(c, "502", None) /\ UNCHANGED code
       ELSE /\ code' = [code EXCEPT ![f].used = TRUE]
            /\ Go(c, "userinfo") /\ UNCHANGED out
    /\ UNCHANGED <<plugin, cache, disc, flow, call, jar, account, token, ctx, seen, now,
                   faults, edits>>

\* fetchUserInfo, the account found, linked or created by what it says, and
\* issueSession, whose token names that account.
UserInfo(c) ==
    /\ pc[c] = "userinfo"
    /\ LET u == code[call[c].flow].who IN
       IF account[u].role = None /\ u \in Unverified
       THEN Response(c, "403", None) /\ UNCHANGED <<account, seen>>
       ELSE /\ account' = [account EXCEPT ![u].role = IF @ = None THEN "member" ELSE @]
            /\ seen' = [r \in Requests |->
                          IF pc[r] \in {"verify", "lookup"} THEN seen[r] \cup {<<u, account'[u]>>}
                          ELSE seen[r]]
            /\ Response(c, "302", [iss |-> "frogcp", user |-> u, gen |-> account[u].gen,
                                   exp |-> now + Life])
    /\ UNCHANGED <<plugin, cache, disc, flow, call, code, jar, token, ctx, now, faults,
                   edits>>

\* A refusal or a malformed answer of the provider is a 502; a connection that
\* breaks, or a failing database, is a 500.
UpstreamFails(c) ==
    /\ pc[c] \in {"endpoints", "userinfo"} /\ Fault
    /\ pc[c] = "endpoints" => Endpoints(call[c].awaits)
    /\ \E status \in {"502", "500"} : Response(c, status, None)
    /\ UNCHANGED <<plugin, cache, disc, flow, call, code, jar, account, token, ctx,
                   seen, now, edits>>

\* The response reaches the browser.
Arrive(c) ==
    /\ pc[c] = "respond"
    /\ jar' = [jar EXCEPT ![call[c].browser] =
                 [state   |-> IF out[c].status = "500" THEN @.state ELSE None,
                  session |-> IF out[c].session = None THEN @.session ELSE out[c].session]]
    /\ Go(c, "done")
    /\ UNCHANGED <<plugin, cache, disc, flow, call, code, out, account, token, ctx,
                   seen, now, faults, edits>>

Logout(b) ==
    /\ jar[b].session # None
    /\ jar' = [jar EXCEPT ![b].session = None]
    /\ UNCHANGED <<plugin, cache, disc, flow, call, pc, code, out, account, token, ctx,
                   seen, now, faults, edits>>

-----------------------------------------------------------------------------
(* Identity: resolveCtx and makeIdentify.                                  *)

\* extractToken takes a bearer token before the cookie; the JWT plugin takes
\* no cookie.
Carried(b, bearer) ==
    IF bearer # None THEN bearer ELSE IF plugin = "auth" THEN jar[b].session ELSE None

\* Bound: with auth, bearer tokens come in requests whose cookie they hide.
Receive(r, b, bearer) ==
    /\ pc[r] = "idle"
    /\ plugin = "auth" /\ bearer # None => jar[b].session # None
    /\ token' = [token EXCEPT ![r] = Carried(b, bearer)]
    /\ seen' = [seen EXCEPT ![r] = {<<u, account[u]>> : u \in Users}]
    /\ Go(r, IF Carried(b, bearer) = None THEN "done" ELSE "verify")
    /\ UNCHANGED <<plugin, cache, disc, flow, call, code, out, jar, account, ctx, now,
                   faults, edits>>

\* jwtVerify with the issuer the plugin trusts: a token of another one, or
\* an expired one, is nobody's.
Vouched(t) == t.exp > now /\ t.iss = IF plugin = "auth" THEN "frogcp" ELSE "idp"

\* The identity a token claims: none without a user, a member without a role.
Claimed(t) ==
    IF t.user = None THEN None
    ELSE [user |-> t.user, role |-> IF t.role = None THEN "member" ELSE t.role]

\* verifySession, or the JWT plugin's identify; either is awaited.
Verify(r) ==
    /\ pc[r] = "verify"
    /\ Go(r, IF Vouched(token[r]) /\ plugin = "auth" THEN "lookup" ELSE "done")
    /\ ctx' = [ctx EXCEPT ![r] = IF Vouched(token[r]) /\ plugin = "jwt"
                                 THEN Claimed(token[r]) ELSE None]
    /\ UNCHANGED <<plugin, cache, disc, flow, call, code, out, jar, account, token,
                   seen, now, faults, edits>>

\* Mutant: the session is the identity, and says who is an admin.
LookupTrusting(r) ==
    /\ pc[r] = "lookup"
    /\ ctx' = [ctx EXCEPT ![r] = [user |-> token[r].user, gen |-> token[r].gen,
                                  role |-> "member"]]
    /\ Go(r, "done")
    /\ UNCHANGED <<plugin, cache, disc, flow, call, code, out, jar, account, token,
                   seen, now, faults, edits>>

\* The row of the user, as it is now.
Lookup(r) ==
    /\ pc[r] = "lookup"
    /\ LET u == token[r].user IN
       ctx' = [ctx EXCEPT ![r] =
                 IF account[u].gen # token[r].gen \/ account[u].role = None THEN None
                 ELSE [user |-> u, gen |-> account[u].gen, role |-> account[u].role]]
    /\ Go(r, "done")
    /\ UNCHANGED <<plugin, cache, disc, flow, call, code, out, jar, account, token,
                   seen, now, faults, edits>>

\* An identify that throws is a guest.
IdentifyFails(r) ==
    /\ pc[r] = "lookup" /\ Fault
    /\ Go(r, "done")
    /\ UNCHANGED <<plugin, cache, disc, flow, call, code, out, jar, account, token, ctx,
                   seen, now, edits>>

-----------------------------------------------------------------------------
\* An admin changes a role, or deletes an account for good.
Edit(u, to) ==
    /\ edits < MaxEdits /\ account[u].role # None
    /\ edits' = edits + 1
    /\ account' = [account EXCEPT ![u] = to]
    /\ seen' = [r \in Requests |->
                  IF pc[r] \in {"verify", "lookup"} THEN seen[r] \cup {<<u, to>>} ELSE seen[r]]
    /\ UNCHANGED <<plugin, cache, disc, flow, call, pc, code, out, jar, token, ctx, now,
                   faults>>

Promote(u) == Edit(u, [account[u] EXCEPT !.role = "admin"])
DeleteUser(u) == Edit(u, NoAccount(account[u].gen + 1))

\* The process ends and another takes over: the discoveries go, and what was
\* running.
Restart ==
    /\ Fault
    /\ cache' = None /\ disc' = [a \in Attempts |-> "free"]
    /\ pc' = [p \in DOMAIN pc |-> IF pc[p] \in {"idle", "provider"} THEN pc[p] ELSE "done"]
    /\ UNCHANGED <<plugin, flow, call, code, out, jar, account, token, ctx, seen, now,
                   edits>>

Tick ==
    /\ now < MaxNow /\ now' = now + 1
    /\ UNCHANGED <<plugin, cache, disc, flow, call, pc, code, out, jar, account, token,
                   ctx, seen, faults, edits>>

Next ==
    \/ \E a \in Attempts : Discover(a) \/ DiscoverFails(a)
    \/ \E f \in Flows :
          \/ \E b \in Browsers, provider \in Providers : Authorize(f, b, provider)
          \/ Redirect(f) \/ AuthorizeFails(f) \/ Decline(f)
          \/ \E u \in Users : SignInAt(f, u)
    \/ \E c \in Callbacks :
          \/ \E f \in Flows, b \in Browsers : Callback(c, f, b)
          \/ CallbackFails(c) \/ Exchange(c) \/ UserInfo(c) \/ UpstreamFails(c)
          \/ Arrive(c)
    \/ \E r \in Requests :
          \/ \E b \in Browsers, bearer \in Bearers[plugin] \cup {None} : Receive(r, b, bearer)
          \/ Verify(r) \/ Lookup(r) \/ IdentifyFails(r)
    \/ \E u \in Users : Promote(u) \/ DeleteUser(u)
    \/ \E b \in Browsers : Logout(b)
    \/ Restart \/ Tick

Spec == Init /\ [][Next]_vars

-----------------------------------------------------------------------------
(* Properties.                                                             *)

\* However tabs, copied addresses and replays interleave, a browser is only
\* ever signed in by a flow it began itself, as who signed in there, and one
\* sign-in at the provider makes one session.
SignedInByOwnFlow ==
    LET sessions == {c \in Callbacks : out[c] # None /\ out[c].session # None} IN
    /\ \A c \in sessions :
         /\ flow[call[c].flow].browser = call[c].browser
         /\ out[c].session.user = code[call[c].flow].who
    /\ \A c, d \in sessions : call[c].flow = call[d].flow => c = d

\* The issuer is asked once, and again only after a failure, which is never
\* handed to a request that comes after it.
DiscoveryHeals ==
    /\ Cardinality({a \in Attempts : disc[a] \in {"pending", "ok"}}) <= 1
    /\ cache # None => disc[cache] # "failed"

\* A deletion or a change of role takes effect on the next request: an
\* identity is what the account was at some time while the request ran, and
\* never that of an account of the same person created since.  With the JWT
\* plugin nothing but its issuer's word makes an identity, and an omitted
\* claim never makes an admin.
IdentityIsCurrent ==
    \A r \in Requests : ctx[r] # None =>
        IF plugin = "auth"
        THEN /\ <<ctx[r].user, [gen |-> ctx[r].gen, role |-> ctx[r].role]>> \in seen[r]
             /\ token[r].iss = "frogcp" /\ ctx[r].gen = token[r].gen
        ELSE /\ token[r].iss = "idp" /\ ctx[r].user = token[r].user
             /\ ctx[r].role = "admin" => token[r].role = "admin"
==============================================================================
