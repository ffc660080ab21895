----------------------------- MODULE SignIn_proofs -----------------------------
(***************************************************************************)
(* Proofs about SignIn for any number of browsers, tabs, callbacks,        *)
(* requests, edits, failures and restarts: a browser is signed in by its   *)
(* own flow and once, a failed discovery heals, and an identity is         *)
(* current.                                                                *)
(*                                                                         *)
(* The invariant has three parts.  Discovery is the cache of the issuer's  *)
(* endpoints.  Own follows a flow from the state cookie through the code   *)
(* to the one callback that spends it.  Identity is what a request has     *)
(* seen of the accounts, and whose token it carries.                       *)
(***************************************************************************)
EXTENDS SignIn, FiniteSetTheorems, TLAPS

Statuses  == {"302", "400", "403", "500", "502"}
Accounts  == [gen : Nat, role : {None, "member", "admin"}]
Begun     == [browser : Browsers, provider : Providers, awaits : Attempts \cup {None}]
Responses == [status : Statuses, session : Sessions \cup {None}]
Called    == [flow : Flows, browser : Browsers, awaits : Attempts \cup {None}]

TypeOK ==
    /\ plugin \in {"auth", "jwt"}
    /\ cache \in Attempts \cup {None}
    /\ disc \in [Attempts -> {"free", "pending", "ok", "failed"}]
    /\ flow \in [Flows -> Begun \cup {None}]
    /\ call \in [Callbacks -> Called \cup {None}]
    /\ pc \in [Flows \cup Callbacks \cup Requests ->
                 {"idle", "endpoints", "provider", "userinfo", "respond", "verify", "lookup",
                  "done"}]
    /\ code \in [Flows -> [who : Users \cup {None}, used : BOOLEAN] \cup {None}]
    /\ out \in [Callbacks -> Responses \cup {None}]
    /\ jar \in [Browsers -> [state : Flows \cup {None}, session : Sessions \cup {None}]]
    /\ account \in [Users -> Accounts]
    /\ now \in Nat /\ faults \in Nat /\ edits \in Nat
    /\ DOMAIN token = Requests /\ DOMAIN ctx = Requests /\ DOMAIN seen = Requests

\* The cache holds the one discovery that has not failed.
Discovery ==
    /\ cache # None => disc[cache] \in {"pending", "ok"}
    /\ \A a \in Attempts : disc[a] \in {"pending", "ok"} => cache = a

\* A flow begins once, and has no code before somebody comes back from the
\* provider; a state cookie is that of a flow of its browser.
FlowOf(f) ==
    /\ pc[f] \in {"idle", "endpoints", "provider"} => code[f] = None
    /\ pc[f] # "idle" => flow[f] \in Begun
    /\ pc[f] \in {"idle", "endpoints", "provider", "done"}
JarOf(b) == jar[b].state # None =>
    flow[jar[b].state].browser = b /\ pc[jar[b].state] # "idle"

\* A callback that got past its checks answers a flow of its own browser.
Earned(c) ==
    LET f == call[c].flow IN
      /\ call[c] \in Called
      /\ pc[f] = "done" /\ flow[f].browser = call[c].browser
      /\ code[f] \in [who : Users, used : BOOLEAN]
Signs(c) == out[c] # None /\ out[c].session # None
Spent(c) == pc[c] = "userinfo" \/ Signs(c)
CallOf(c) ==
    /\ pc[c] \in {"idle", "endpoints", "userinfo"} => out[c] = None
    /\ pc[c] = "respond" => call[c] \in Called /\ out[c] \in Responses
    /\ pc[c] \in {"endpoints", "userinfo"} \/ Signs(c) => Earned(c)
    /\ Spent(c) => code[call[c].flow].used
    /\ Signs(c) => out[c].session.user = code[call[c].flow].who
Own ==
    /\ \A f \in Flows : FlowOf(f)
    /\ \A b \in Browsers : JarOf(b)
    /\ \A c \in Callbacks : CallOf(c)
    /\ \A c, d \in Callbacks : Spent(c) /\ Spent(d) /\ call[c].flow = call[d].flow => c = d

\* A request under way has seen what the accounts are.
IdentityOf(r) ==
    /\ pc[r] \in {"idle", "verify", "lookup"} => ctx[r] = None
    /\ pc[r] \in {"verify", "lookup"} => \A u \in Users : <<u, account[u]>> \in seen[r]
    /\ pc[r] = "verify" /\ plugin = "auth" /\ token[r].iss = "frogcp" => token[r] \in Sessions
    /\ pc[r] = "lookup" => plugin = "auth" /\ token[r] \in Sessions
Identity == (\A r \in Requests : IdentityOf(r)) /\ IdentityIsCurrent

IInv == TypeOK /\ Discovery /\ Own /\ Identity
-----------------------------------------------------------------------------
(* Types and the discovery.                                                *)

LEMMA InitInv ==
    ASSUME SignInAssumption, Init
    PROVE  IInv
<1> USE DEF Init
<1>1. TypeOK
  BY DEF TypeOK, NoAccount, Accounts
<1>2. Discovery /\ Identity
  BY DEF Discovery, Identity, IdentityOf, IdentityIsCurrent
<1>3. Own
  BY DEF Own, FlowOf, JarOf, CallOf, Signs, Spent
<1> QED BY <1>1, <1>2, <1>3 DEF IInv

\* Whoever asks for endpoints awaits the cached discovery, or starts one.
LEMMA ResolveStep ==
    ASSUME SignInAssumption, TypeOK, Discovery, NEW provider, Resolve(provider)
    PROVE  /\ Awaits(provider) \in Attempts \cup {None}
           /\ cache' \in Attempts \cup {None}
           /\ disc' \in [Attempts -> {"free", "pending", "ok", "failed"}]
           /\ Discovery'
<1> USE DEF TypeOK, Discovery, SignInAssumption
<1>1. CASE provider = "github" \/ cache # None
  BY <1>1 DEF Resolve, Awaits
<1>2. CASE ~(provider = "github" \/ cache # None)
  <2>1. Awaits(provider) \in Attempts /\ disc[Awaits(provider)] = "free"
    BY <1>2 DEF Resolve, Awaits
  <2>2. /\ cache' = Awaits(provider)
        /\ disc' = [disc EXCEPT ![Awaits(provider)] = "pending"]
    BY <1>2 DEF Resolve
  <2> HIDE DEF Awaits
  <2> QED BY <1>2, <2>1, <2>2
<1> QED BY <1>1, <1>2

LEMMA NextDiscovery ==
    ASSUME SignInAssumption, TypeOK, Discovery, Next
    PROVE  Discovery'
<1> USE DEF TypeOK, Discovery, SignInAssumption
<1>1. ASSUME NEW a \in Attempts, Discover(a) \/ DiscoverFails(a)
      PROVE  Discovery'
  BY <1>1 DEF Discover, DiscoverFails
<1>2. ASSUME NEW f \in Flows, NEW b \in Browsers, NEW provider \in Providers,
             Authorize(f, b, provider)
      PROVE  Discovery'
  BY <1>2, ResolveStep DEF Authorize
<1>3. ASSUME NEW c \in Callbacks, NEW f \in Flows, NEW b \in Browsers, Callback(c, f, b)
      PROVE  Discovery'
  <2>1. Resolve(flow[f].provider) \/ UNCHANGED <<cache, disc>>
    BY <1>3 DEF Callback
  <2>2. CASE Resolve(flow[f].provider)
    BY <2>2, ResolveStep
  <2>3. CASE UNCHANGED <<cache, disc>>
    BY <2>3
  <2> QED BY <2>1, <2>2, <2>3
<1>4. CASE Restart
  BY <1>4 DEF Restart
<1>5. UNCHANGED <<cache, disc>> => Discovery'
  OBVIOUS
<1>6. \/ \E a \in Attempts : Discover(a) \/ DiscoverFails(a)
      \/ \E f \in Flows, b \in Browsers, provider \in Providers : Authorize(f, b, provider)
      \/ \E c \in Callbacks, f \in Flows, b \in Browsers : Callback(c, f, b)
      \/ Restart
      \/ UNCHANGED <<cache, disc>>
  BY DEF Next, Redirect, AuthorizeFails, Decline, SignInAt, CallbackFails, Exchange, UserInfo,
     UpstreamFails, Arrive, Receive, Verify, Lookup, IdentifyFails, Promote, DeleteUser, Edit,
     Logout, Tick
<1> QED BY <1>1, <1>2, <1>3, <1>4, <1>5, <1>6

\* The answer of a callback that has asked who it is.
LEMMA UserInfoAnswers ==
    ASSUME SignInAssumption, TypeOK, Own, NEW c \in Callbacks, UserInfo(c)
    PROVE  /\ pc' = [pc EXCEPT ![c] = "respond"]
           /\ \E resp \in Responses :
                /\ out' = [out EXCEPT ![c] = resp]
                /\ resp.session # None => resp.session.user = code[call[c].flow].who
<1> DEFINE u == code[call[c].flow].who
           s == [iss |-> "frogcp", user |-> u, gen |-> account[u].gen, exp |-> now + Life]
<1>1. u \in Users /\ Life \in Nat
  BY DEF UserInfo, Own, CallOf, Earned, SignInAssumption
<1>2. /\ [status |-> "403", session |-> None] \in Responses
      /\ [status |-> "302", session |-> s] \in Responses
  BY <1>1 DEF Responses, Statuses, Sessions, Accounts, TypeOK
<1>3. /\ pc' = [pc EXCEPT ![c] = "respond"]
      /\ \/ out' = [out EXCEPT ![c] = [status |-> "403", session |-> None]]
         \/ out' = [out EXCEPT ![c] = [status |-> "302", session |-> s]]
  BY DEF UserInfo, Response, Go
<1> QED BY <1>2, <1>3

\* Every step keeps the types.
LEMMA NextType ==
    ASSUME SignInAssumption, TypeOK, Discovery, Own, Next
    PROVE  TypeOK'
<1> USE DEF TypeOK, Go
<1>1. ASSUME NEW a \in Attempts, Discover(a) \/ DiscoverFails(a)
      PROVE  TypeOK'
  BY <1>1 DEF Discover, DiscoverFails, Fault
<1>2. ASSUME NEW f \in Flows, NEW b \in Browsers, NEW provider \in Providers,
             Authorize(f, b, provider)
      PROVE  TypeOK'
  BY <1>2, ResolveStep DEF Authorize, Begun
<1>3. ASSUME NEW f \in Flows, Redirect(f) \/ AuthorizeFails(f)
      PROVE  TypeOK'
  <2>1. flow[f].browser \in Browsers
    BY <1>3 DEF Redirect, AuthorizeFails, Own, FlowOf, Begun
  <2> QED BY <1>3, <2>1 DEF Redirect, AuthorizeFails
<1>4. ASSUME NEW f \in Flows, Decline(f) \/ \E u \in Users : SignInAt(f, u)
      PROVE  TypeOK'
  <2>1. \A who \in Users \cup {None} :
          [who |-> who, used |-> FALSE] \in [who : Users \cup {None}, used : BOOLEAN]
    OBVIOUS
  <2>2. PICK who \in Users \cup {None} : code' = [code EXCEPT ![f] = [who |-> who, used |-> FALSE]]
    BY <1>4 DEF Decline, SignInAt
  <2>3. code' \in [Flows -> [who : Users \cup {None}, used : BOOLEAN] \cup {None}]
    BY <2>1, <2>2
  <2> QED BY <1>4, <2>3 DEF Decline, SignInAt
<1>5. ASSUME NEW c \in Callbacks, NEW f \in Flows, NEW b \in Browsers, Callback(c, f, b)
      PROVE  TypeOK'
  <2>1. CASE Trusted(f, b) /\ code[f].who # None
    BY <1>5, <2>1, ResolveStep DEF Callback, Called
  <2>2. CASE ~(Trusted(f, b) /\ code[f].who # None)
    <3>1. [status |-> "403", session |-> None] \in Responses
          /\ [status |-> "400", session |-> None] \in Responses
          /\ [flow |-> f, browser |-> b, awaits |-> None] \in Called
      BY DEF Responses, Statuses, Called
    <3> QED BY <1>5, <2>2, <3>1 DEF Callback, Response
  <2> QED BY <2>1, <2>2
<1>6. ASSUME NEW c \in Callbacks, CallbackFails(c) \/ UpstreamFails(c)
      PROVE  TypeOK'
  BY <1>6 DEF CallbackFails, UpstreamFails, Response, Responses, Statuses, Fault
<1>7. ASSUME NEW c \in Callbacks, Exchange(c)
      PROVE  TypeOK'
  <2>1. call[c].flow \in Flows /\ code[call[c].flow] \in [who : Users, used : BOOLEAN]
    BY <1>7 DEF Exchange, Own, CallOf, Earned, Called
  <2>2. [status |-> "502", session |-> None] \in Responses
    BY DEF Responses, Statuses
  <2>3. [code[call[c].flow] EXCEPT !.used = TRUE] \in [who : Users \cup {None}, used : BOOLEAN]
    BY <2>1
  <2> QED BY <1>7, <2>1, <2>2, <2>3 DEF Exchange, Response
<1>8. ASSUME NEW c \in Callbacks, UserInfo(c)
      PROVE  TypeOK'
  <2>1. code[call[c].flow].who \in Users
    BY <1>8 DEF UserInfo, Own, CallOf, Earned
  <2>2. [account[code[call[c].flow].who] EXCEPT !.role = IF @ = None THEN "member" ELSE @] \in Accounts
    BY <2>1 DEF Accounts
  <2>3. account' \in [Users -> Accounts]
    BY <1>8, <2>1, <2>2 DEF UserInfo
  <2>4. out' \in [Callbacks -> Responses \cup {None}] /\ pc' = [pc EXCEPT ![c] = "respond"]
    BY <1>8, UserInfoAnswers
  <2>5. DOMAIN seen' = Requests
    BY <1>8 DEF UserInfo
  <2>6. UNCHANGED <<plugin, cache, disc, flow, call, code, jar, token, ctx, now, faults, edits>>
    BY <1>8 DEF UserInfo
  <2> QED BY <2>3, <2>4, <2>5, <2>6
<1>9. ASSUME NEW c \in Callbacks, Arrive(c)
      PROVE  TypeOK'
  <2>1. call[c].browser \in Browsers /\ out[c] \in Responses
    BY <1>9 DEF Arrive, Own, CallOf, Called
  <2> QED BY <1>9, <2>1 DEF Arrive, Responses
<1>10. ASSUME NEW r \in Requests, NEW b \in Browsers, NEW bearer \in Bearers[plugin] \cup {None},
              Receive(r, b, bearer)
       PROVE  TypeOK'
  BY <1>10 DEF Receive
<1>11. ASSUME NEW r \in Requests, Verify(r) \/ Lookup(r) \/ IdentifyFails(r)
       PROVE  TypeOK'
  BY <1>11 DEF Verify, Lookup, IdentifyFails, Fault
<1>12. ASSUME NEW u \in Users, Promote(u) \/ DeleteUser(u)
       PROVE  TypeOK'
  BY <1>12 DEF Promote, DeleteUser, Edit, NoAccount, Accounts
<1>13. ASSUME NEW b \in Browsers, Logout(b)
       PROVE  TypeOK'
  BY <1>13 DEF Logout
<1>14. CASE Restart \/ Tick
  BY <1>14 DEF Restart, Tick, Fault
<1> QED BY <1>1, <1>2, <1>3, <1>4, <1>5, <1>6, <1>7, <1>8, <1>9, <1>10, <1>11, <1>12, <1>13, <1>14
        DEF Next

-----------------------------------------------------------------------------
(* Flows, cookies, codes and the callbacks that spend them.                *)

\* What a step of no callback and no flow leaves as it is.
LEMMA OwnFrame ==
    ASSUME TypeOK, Own, UNCHANGED <<flow, call, code, out>>,
           \A p \in Flows \cup Callbacks : pc'[p] = pc[p],
           \A b \in Browsers : jar'[b].state \in {jar[b].state, None}
    PROVE  Own'
<1>1. \A f \in Flows : FlowOf(f)'
  BY DEF Own, FlowOf
<1>2. \A b \in Browsers : JarOf(b)'
  BY DEF Own, JarOf, TypeOK
<1>3. ASSUME NEW c \in Callbacks
      PROVE  Spent(c)' = Spent(c) /\ Signs(c)' = Signs(c) /\ (Earned(c) => Earned(c)')
  BY DEF Spent, Signs, Earned, Called
<1>4. \A c \in Callbacks : CallOf(c)'
  BY <1>3 DEF Own, CallOf
<1>5. \A c, d \in Callbacks : Spent(c)' /\ Spent(d)' /\ call'[c].flow = call'[d].flow => c = d
  BY <1>3 DEF Own
<1> QED BY <1>1, <1>2, <1>4, <1>5 DEF Own

\* A flow moves on: a code appears where there was none, and a state cookie is
\* that of a flow that has begun.
LEMMA FlowStep ==
    ASSUME SignInAssumption, TypeOK, Own, NEW f \in Flows,
           \A p \in Flows \cup Callbacks : p # f => pc'[p] = pc[p],
           \A g \in Flows \ {f} : flow'[g] = flow[g] /\ code'[g] = code[g],
           UNCHANGED <<call, out>>,
           pc[f] # "done", pc'[f] \in {"endpoints", "provider", "done"}, flow'[f] \in Begun,
           pc[f] = "idle" \/ flow'[f] = flow[f],
           pc'[f] = "done" \/ code'[f] = code[f],
           \A b \in Browsers : jar'[b].state \in {jar[b].state, None}
                                \/ (jar'[b].state = f /\ flow'[f].browser = b)
    PROVE  Own'
<1>1. \A g \in Flows : FlowOf(g)'
  BY DEF Own, FlowOf
<1>2. \A b \in Browsers : JarOf(b)'
  BY DEF Own, JarOf, TypeOK
<1>3. ASSUME NEW c \in Callbacks
      PROVE  /\ pc'[c] = pc[c] /\ Signs(c)' = Signs(c)
             /\ Earned(c) => Earned(c)' /\ code'[call[c].flow] = code[call[c].flow]
  BY DEF SignInAssumption, Earned, Signs, Called
<1>4. \A c \in Callbacks : CallOf(c)'
  BY <1>3 DEF Own, CallOf, Spent
<1>5. \A c, d \in Callbacks : Spent(c)' /\ Spent(d)' /\ call'[c].flow = call'[d].flow => c = d
  BY <1>3 DEF Own, Spent
<1> QED BY <1>1, <1>2, <1>4, <1>5 DEF Own

\* A callback moves on: it earns its session by its checks, and spends a code
\* that was not spent.
LEMMA CallStep ==
    ASSUME SignInAssumption, TypeOK, Own, NEW c \in Callbacks,
           \A p \in Flows \cup Callbacks : p # c => pc'[p] = pc[p],
           \A d \in Callbacks \ {c} : call'[d] = call[d] /\ out'[d] = out[d],
           UNCHANGED flow,
           \A g \in Flows :
             code'[g] = code[g]
             \/ (code[g].who = code'[g].who /\ code'[g].used /\ pc[g] = "done"
                  /\ (code[g] \in [who : Users, used : BOOLEAN]
                        => code'[g] \in [who : Users, used : BOOLEAN])),
           \A b \in Browsers : jar'[b].state \in {jar[b].state, None},
           CallOf(c)',
           Spent(c)' => \/ Spent(c) /\ call'[c] = call[c]
                        \/ \A d \in Callbacks \ {c} : ~(Spent(d) /\ call[d].flow = call'[c].flow)
    PROVE  Own'
<1>1. \A g \in Flows : FlowOf(g)' /\ pc'[g] = pc[g]
  BY DEF Own, FlowOf, SignInAssumption
<1>2. \A b \in Browsers : JarOf(b)'
  BY <1>1 DEF Own, JarOf, TypeOK
<1>3. ASSUME NEW d \in Callbacks \ {c}
      PROVE  pc'[d] = pc[d] /\ Signs(d)' = Signs(d) /\ Spent(d)' = Spent(d) /\ CallOf(d)'
  <2>1. pc'[d] = pc[d] /\ out'[d] = out[d] /\ call'[d] = call[d]
    OBVIOUS
  <2>2. Signs(d)' = Signs(d) /\ Spent(d)' = Spent(d)
    BY <2>1 DEF Signs, Spent
  <2>3. Earned(d) => /\ Earned(d)' /\ code'[call[d].flow].who = code[call[d].flow].who
                     /\ code[call[d].flow].used => code'[call[d].flow].used
    BY <1>1, <2>1 DEF Earned, Called
  <2>4. CallOf(d)
    BY DEF Own
  <2> QED BY <2>1, <2>2, <2>3, <2>4 DEF CallOf, Spent
<1>4. ASSUME NEW d \in Callbacks, NEW e \in Callbacks,
             Spent(d)', Spent(e)', call'[d].flow = call'[e].flow
      PROVE  d = e
  <2>1. \A x, y \in Callbacks : Spent(x) /\ Spent(y) /\ call[x].flow = call[y].flow => x = y
    BY DEF Own
  <2> QED BY <1>3, <1>4, <2>1
<1> QED BY <1>1, <1>2, <1>3, <1>4 DEF Own

\* Every step follows a flow, follows a callback, or does neither.
LEMMA NextOwn ==
    ASSUME SignInAssumption, TypeOK, Discovery, Own, Next
    PROVE  Own'
<1> USE DEF TypeOK, Go
<1>1. ASSUME NEW f \in Flows, NEW b \in Browsers, NEW provider \in Providers,
             Authorize(f, b, provider)
      PROVE  Own'
  <2>1. flow' = [flow EXCEPT ![f] = [browser |-> b, provider |-> provider, awaits |-> Awaits(provider)]]
        /\ pc[f] = "idle" /\ pc' = [pc EXCEPT ![f] = "endpoints"] /\ UNCHANGED <<call, code, out, jar>>
    BY <1>1 DEF Authorize
  <2>2. flow'[f] \in Begun
    BY <1>1, <2>1, ResolveStep DEF Authorize, Begun
  <2> QED BY <2>1, <2>2, FlowStep
<1>2. ASSUME NEW f \in Flows, Redirect(f)
      PROVE  Own'
  <2>1. /\ jar' = [jar EXCEPT ![flow[f].browser].state = f]
        /\ pc[f] = "endpoints" /\ pc' = [pc EXCEPT ![f] = "provider"]
        /\ UNCHANGED <<flow, call, code, out>>
    BY <1>2 DEF Redirect
  <2>2. flow[f] \in Begun
    BY <2>1 DEF Own, FlowOf
  <2> QED BY <2>1, <2>2, FlowStep
<1>3. ASSUME NEW f \in Flows,
             \/ AuthorizeFails(f) \/ Decline(f) \/ \E u \in Users : SignInAt(f, u)
      PROVE  Own'
  <2>1. /\ pc[f] \in {"endpoints", "provider"} /\ pc' = [pc EXCEPT ![f] = "done"]
        /\ \A g \in Flows \ {f} : code'[g] = code[g]
        /\ UNCHANGED <<flow, call, out, jar>>
    BY <1>3 DEF AuthorizeFails, Decline, SignInAt
  <2>2. flow[f] \in Begun
    BY <2>1 DEF Own, FlowOf
  <2> QED BY <2>1, <2>2, FlowStep
<1>4. ASSUME NEW c \in Callbacks, NEW f \in Flows, NEW b \in Browsers, Callback(c, f, b)
      PROVE  Own'
  <2>1. /\ pc[c] = "idle" /\ UNCHANGED <<flow, code, jar>> /\ code[f] # None
        /\ \A d \in Callbacks \ {c} : call'[d] = call[d] /\ out'[d] = out[d]
        /\ \A p \in Flows \cup Callbacks : p # c => pc'[p] = pc[p]
    BY <1>4 DEF Callback, Response
  <2>2. CallOf(c)' /\ ~Spent(c)'
    <3>1. CASE Trusted(f, b) /\ code[f].who # None
      <4>1. /\ call'[c].flow = f /\ call'[c].browser = b /\ call'[c] \in Called
            /\ pc'[c] = "endpoints" /\ out'[c] = out[c]
        BY <1>4, <3>1, ResolveStep DEF Callback, Called
      <4>2. pc[f] = "done" /\ flow[f].browser = b /\ code[f] \in [who : Users, used : BOOLEAN]
        <5>1. code[f] \in [who : Users \cup {None}, used : BOOLEAN] /\ code[f].who \in Users
          BY <2>1, <3>1
        <5>2. jar[b].state = f /\ f # None
          BY <3>1 DEF Trusted, SignInAssumption
        <5>3. flow[f].browser = b /\ pc[f] # "idle"
          BY <5>2 DEF Own, JarOf
        <5>4. pc[f] = "done"
          BY <2>1 DEF Own, FlowOf
        <5> QED BY <5>1, <5>3, <5>4
      <4>3. Earned(c)'
        BY <2>1, <4>1, <4>2 DEF Earned, SignInAssumption
      <4> QED BY <2>1, <4>1, <4>3 DEF Own, CallOf, Spent, Signs
    <3>2. CASE ~(Trusted(f, b) /\ code[f].who # None)
      <4>1. /\ call'[c] = [flow |-> f, browser |-> b, awaits |-> None] /\ pc'[c] = "respond"
            /\ \E status \in Statuses : out'[c] = [status |-> status, session |-> None]
        BY <1>4, <3>2 DEF Callback, Response, Statuses
      <4>2. call'[c] \in Called /\ out'[c] \in Responses /\ out'[c].session = None
        BY <4>1 DEF Called, Responses
      <4> QED BY <4>1, <4>2 DEF CallOf, Spent, Signs
    <3> QED BY <3>1, <3>2
  <2> QED BY <2>1, <2>2, CallStep
<1>5. ASSUME NEW c \in Callbacks, CallbackFails(c) \/ UpstreamFails(c)
      PROVE  Own'
  <2>1. /\ pc[c] \in {"endpoints", "userinfo"} /\ UNCHANGED <<flow, call, code, jar>>
        /\ pc' = [pc EXCEPT ![c] = "respond"]
        /\ \E status \in Statuses : out' = [out EXCEPT ![c] = [status |-> status, session |-> None]]
    BY <1>5 DEF CallbackFails, UpstreamFails, Response, Statuses
  <2>2. call[c] \in Called /\ out'[c] \in Responses /\ out'[c].session = None
    BY <2>1 DEF Own, CallOf, Earned, Responses
  <2>3. CallOf(c)' /\ ~Spent(c)'
    BY <2>1, <2>2 DEF CallOf, Spent, Signs
  <2> QED BY <2>1, <2>3, CallStep
<1>6. ASSUME NEW c \in Callbacks, Exchange(c)
      PROVE  Own'
  <2> DEFINE f == call[c].flow
  <2>1. /\ pc[c] = "endpoints" /\ Earned(c) /\ f \in Flows /\ out[c] = None
        /\ UNCHANGED <<flow, call, jar>>
    BY <1>6 DEF Exchange, Own, CallOf, Earned, Called
  <2>2. CASE code[f].used
    <3>1. /\ pc' = [pc EXCEPT ![c] = "respond"] /\ UNCHANGED code
          /\ out' = [out EXCEPT ![c] = [status |-> "502", session |-> None]]
      BY <1>6, <2>2 DEF Exchange, Response
    <3>2. call[c] \in Called /\ out'[c] \in Responses /\ out'[c].session = None
      BY <2>1, <3>1 DEF Earned, Responses, Statuses
    <3>3. CallOf(c)' /\ ~Spent(c)'
      BY <2>1, <3>1, <3>2 DEF CallOf, Spent, Signs
    <3> QED BY <2>1, <3>1, <3>3, CallStep
  <2>3. CASE ~code[f].used
    <3>1. /\ pc' = [pc EXCEPT ![c] = "userinfo"] /\ UNCHANGED out
          /\ code' = [code EXCEPT ![f].used = TRUE]
      BY <1>6, <2>3 DEF Exchange
    <3>2. /\ code[f] \in [who : Users, used : BOOLEAN] /\ code'[f].who = code[f].who
          /\ code'[f] \in [who : Users, used : BOOLEAN] /\ code'[f].used /\ pc[f] = "done"
      BY <2>1, <3>1 DEF Earned
    <3>3. Earned(c)'
      BY <2>1, <3>1, <3>2 DEF Earned, SignInAssumption
    <3>4. CallOf(c)'
      BY <2>1, <3>1, <3>2, <3>3 DEF CallOf, Spent, Signs
    <3>5. \A d \in Callbacks \ {c} : ~(Spent(d) /\ call[d].flow = f)
      BY <2>3 DEF Own, CallOf
    <3>6. \A g \in Flows \ {f} : code'[g] = code[g]
      BY <3>1
    <3> QED BY <2>1, <3>1, <3>2, <3>4, <3>5, <3>6, CallStep
  <2> QED BY <2>2, <2>3
<1>7. ASSUME NEW c \in Callbacks, UserInfo(c)
      PROVE  Own'
  <2>1. /\ pc[c] = "userinfo" /\ Earned(c) /\ Spent(c) /\ code[call[c].flow].used
        /\ UNCHANGED <<flow, call, code, jar>>
    BY <1>7 DEF UserInfo, Own, CallOf, Spent
  <2>2. /\ call[c] \in Called /\ out'[c] \in Responses /\ pc' = [pc EXCEPT ![c] = "respond"]
        /\ \A d \in Callbacks \ {c} : out'[d] = out[d]
        /\ out'[c].session # None => out'[c].session.user = code[call[c].flow].who
    BY <1>7, <2>1, UserInfoAnswers DEF Earned
  <2>3. Earned(c)'
    BY <2>1, <2>2 DEF Earned, Called, SignInAssumption
  <2>4. CallOf(c)'
    BY <2>1, <2>2, <2>3 DEF CallOf, Spent, Signs
  <2> QED BY <2>1, <2>2, <2>4, CallStep
<1>8. ASSUME NEW c \in Callbacks, Arrive(c)
      PROVE  Own'
  <2>1. /\ pc[c] = "respond" /\ UNCHANGED <<flow, call, code, out>>
        /\ pc' = [pc EXCEPT ![c] = "done"]
        /\ \A b \in Browsers : jar'[b].state \in {jar[b].state, None}
    BY <1>8 DEF Arrive
  <2>2. CallOf(c)' /\ Spent(c)' = Spent(c)
    <3>1. Signs(c)' = Signs(c)
      BY <2>1 DEF Signs
    <3>2. Earned(c) => Earned(c)'
      BY <2>1 DEF Earned, Called, SignInAssumption
    <3> QED BY <2>1, <3>1, <3>2 DEF Own, CallOf, Spent
  <2> QED BY <2>1, <2>2, CallStep
<1>9. CASE Restart
  <2>1. /\ UNCHANGED <<flow, call, code, out, jar>>
        /\ \A p \in Flows \cup Callbacks :
             pc'[p] = IF pc[p] \in {"idle", "provider"} THEN pc[p] ELSE "done"
    BY <1>9 DEF Restart
  <2>2. (\A f \in Flows : FlowOf(f)') /\ (\A b \in Browsers : JarOf(b)')
    BY <2>1 DEF Own, FlowOf, JarOf
  <2>3. ASSUME NEW c \in Callbacks
        PROVE  (Spent(c)' => Spent(c)) /\ Signs(c)' = Signs(c) /\ (Earned(c) => Earned(c)')
    BY <2>1 DEF Spent, Signs, Earned, Called
  <2>4. \A c \in Callbacks : CallOf(c)'
    BY <2>1, <2>3 DEF Own, CallOf
  <2> QED BY <2>1, <2>2, <2>3, <2>4 DEF Own
<1>10. ASSUME UNCHANGED <<flow, call, code, out, pc, jar>>
       PROVE  Own'
  BY <1>10, OwnFrame
<1>11. ASSUME NEW r \in Requests, \/ Verify(r) \/ Lookup(r) \/ IdentifyFails(r)
                                  \/ \E b \in Browsers, bearer \in Bearers[plugin] \cup {None} :
                                       Receive(r, b, bearer)
       PROVE  Own'
  <2>1. UNCHANGED <<flow, call, code, out, jar>>
    BY <1>11 DEF Verify, Lookup, IdentifyFails, Receive
  <2>2. \A p \in Flows \cup Callbacks : pc'[p] = pc[p]
    BY <1>11 DEF Verify, Lookup, IdentifyFails, Receive, SignInAssumption
  <2> QED BY <2>1, <2>2, OwnFrame
<1>12. ASSUME NEW b \in Browsers, Logout(b)
       PROVE  Own'
  BY <1>12, OwnFrame DEF Logout
<1>13. \/ \E a \in Attempts : Discover(a) \/ DiscoverFails(a)
       \/ Tick \/ \E u \in Users : Promote(u) \/ DeleteUser(u)
       => UNCHANGED <<flow, call, code, out, pc, jar>>
  BY DEF Discover, DiscoverFails, Tick, Promote, DeleteUser, Edit
<1> QED
  BY <1>1, <1>2, <1>3, <1>4, <1>5, <1>6, <1>7, <1>8, <1>9, <1>10, <1>11, <1>12, <1>13 DEF Next

-----------------------------------------------------------------------------
(* Identities.                                                             *)

\* IdentityIsCurrent, of one request.
CurrentOf(r) == ctx[r] # None =>
    IF plugin = "auth"
    THEN /\ <<ctx[r].user, [gen |-> ctx[r].gen, role |-> ctx[r].role]>> \in seen[r]
         /\ token[r].iss = "frogcp" /\ ctx[r].gen = token[r].gen
    ELSE /\ token[r].iss = "idp" /\ ctx[r].user = token[r].user
         /\ ctx[r].role = "admin" => token[r].role = "admin"

\* A request that does not move keeps its identity, if it sees every change.
LEMMA IdentityFrame ==
    ASSUME NEW r \in Requests, IdentityOf(r), CurrentOf(r),
           pc'[r] = pc[r], ctx'[r] = ctx[r], token'[r] = token[r], plugin' = plugin,
           seen[r] \subseteq seen'[r],
           pc[r] \in {"verify", "lookup"} =>
             \A u \in Users : account'[u] = account[u] \/ <<u, account'[u]>> \in seen'[r]
    PROVE  IdentityOf(r)' /\ CurrentOf(r)'
<1>1. IdentityOf(r)'
  BY DEF IdentityOf
<1>2. CurrentOf(r)'
  BY DEF CurrentOf
<1> QED BY <1>1, <1>2

\* The steps of a request: it sees all accounts when it begins, carries a
\* session of this app to the lookup, and finds the account of the moment.
LEMMA RequestSteps ==
    ASSUME SignInAssumption, TypeOK, NEW r \in Requests, IdentityOf(r), CurrentOf(r),
           \/ Verify(r) \/ Lookup(r) \/ IdentifyFails(r)
           \/ \E b \in Browsers, bearer \in Bearers[plugin] \cup {None} : Receive(r, b, bearer)
    PROVE  IdentityOf(r)' /\ CurrentOf(r)'
<1> USE DEF TypeOK, Go
<1>1. ASSUME NEW b \in Browsers, NEW bearer \in Bearers[plugin] \cup {None}, Receive(r, b, bearer)
      PROVE  IdentityOf(r)' /\ CurrentOf(r)'
  <2>1. /\ pc[r] = "idle" /\ pc'[r] \in {"done", "verify"} /\ ctx'[r] = None
        /\ token'[r] = Carried(b, bearer)
        /\ pc'[r] = "verify" => Carried(b, bearer) # None
        /\ seen'[r] = {<<u, account[u]>> : u \in Users} /\ UNCHANGED <<account, plugin>>
    BY <1>1 DEF Receive, IdentityOf
  <2>2. ASSUME plugin = "auth", Carried(b, bearer) # None, Carried(b, bearer).iss = "frogcp"
        PROVE  Carried(b, bearer) \in Sessions
    <3>1. CASE bearer # None
      BY <2>2, <3>1 DEF Carried, SignInAssumption
    <3>2. CASE bearer = None
      BY <2>2, <3>2 DEF Carried
    <3> QED BY <3>1, <3>2
  <2> QED BY <2>1, <2>2 DEF IdentityOf, CurrentOf
<1>2. CASE Verify(r)
  <2>1. /\ pc[r] = "verify" /\ UNCHANGED <<token, seen, plugin, account>>
        /\ pc'[r] = IF Vouched(token[r]) /\ plugin = "auth" THEN "lookup" ELSE "done"
        /\ ctx'[r] = IF Vouched(token[r]) /\ plugin = "jwt" THEN Claimed(token[r]) ELSE None
    BY <1>2 DEF Verify
  <2>2. IdentityOf(r)'
    BY <2>1 DEF IdentityOf, Vouched
  <2>3. CurrentOf(r)'
    BY <2>1 DEF CurrentOf, Vouched, Claimed
  <2> QED BY <2>2, <2>3
<1>3. CASE Lookup(r)
  <2> DEFINE u == token[r].user
  <2>1. /\ pc[r] = "lookup" /\ pc'[r] = "done" /\ UNCHANGED <<token, seen, plugin, account>>
        /\ ctx'[r] = IF account[u].gen # token[r].gen \/ account[u].role = None THEN None
                     ELSE [user |-> u, gen |-> account[u].gen, role |-> account[u].role]
    BY <1>3 DEF Lookup
  <2>2. /\ u \in Users /\ token[r].iss = "frogcp" /\ plugin = "auth"
        /\ <<u, account[u]>> \in seen[r]
    BY <2>1 DEF IdentityOf, Sessions
  <2>3. account[u] = [gen |-> account[u].gen, role |-> account[u].role]
    BY <2>2 DEF Accounts
  <2>4. CurrentOf(r)'
    BY <2>1, <2>2, <2>3 DEF CurrentOf
  <2>5. IdentityOf(r)'
    BY <2>1 DEF IdentityOf
  <2> QED BY <2>4, <2>5
<1>4. CASE IdentifyFails(r)
  <2>1. pc'[r] = "done" /\ UNCHANGED <<ctx, token, seen, plugin>>
    BY <1>4 DEF IdentifyFails
  <2> QED BY <2>1 DEF IdentityOf, CurrentOf
<1> QED BY <1>1, <1>2, <1>3, <1>4

LEMMA NextIdentity ==
    ASSUME SignInAssumption, TypeOK, Own, Identity, Next
    PROVE  Identity'
<1> SUFFICES ASSUME NEW q \in Requests
             PROVE  IdentityOf(q)' /\ CurrentOf(q)'
  BY DEF Identity, IdentityIsCurrent, CurrentOf
<1>0. IdentityOf(q) /\ CurrentOf(q)
  BY DEF Identity, IdentityIsCurrent, CurrentOf
<1> USE DEF TypeOK, Go
<1>1. ASSUME NEW f \in Flows,
             \/ \E b \in Browsers, provider \in Providers : Authorize(f, b, provider)
             \/ Redirect(f) \/ AuthorizeFails(f) \/ Decline(f) \/ \E u \in Users : SignInAt(f, u)
      PROVE  IdentityOf(q)' /\ CurrentOf(q)'
  <2>1. pc'[q] = pc[q] /\ UNCHANGED <<account, token, ctx, seen, plugin>>
    BY <1>1 DEF Authorize, Redirect, AuthorizeFails, Decline, SignInAt, SignInAssumption
  <2> QED BY <1>0, <2>1, IdentityFrame
<1>2. ASSUME NEW c \in Callbacks,
             \/ \E f \in Flows, b \in Browsers : Callback(c, f, b)
             \/ CallbackFails(c) \/ Exchange(c) \/ UpstreamFails(c) \/ Arrive(c)
      PROVE  IdentityOf(q)' /\ CurrentOf(q)'
  <2>1. pc'[q] = pc[q] /\ UNCHANGED <<account, token, ctx, seen, plugin>>
    BY <1>2 DEF Callback, CallbackFails, Exchange, UpstreamFails, Arrive, Response, SignInAssumption
  <2> QED BY <1>0, <2>1, IdentityFrame
<1>3. ASSUME NEW c \in Callbacks, UserInfo(c)
      PROVE  IdentityOf(q)' /\ CurrentOf(q)'
  <2>1. pc'[q] = pc[q] /\ UNCHANGED <<token, ctx, plugin>>
    <3>1. pc' = [pc EXCEPT ![c] = "respond"] /\ c # q
      BY <1>3, UserInfoAnswers DEF SignInAssumption
    <3> QED BY <1>3, <3>1 DEF UserInfo
  <2> DEFINE u == code[call[c].flow].who
  <2>2. /\ seen[q] \subseteq seen'[q]
        /\ \A v \in Users : v # u => account'[v] = account[v]
        /\ pc[q] \in {"verify", "lookup"} => account'[u] = account[u] \/ <<u, account'[u]>> \in seen'[q]
    BY <1>3 DEF UserInfo
  <2> QED BY <1>0, <2>1, <2>2, IdentityFrame
<1>4. ASSUME NEW u \in Users, NEW to, Edit(u, to)
      PROVE  IdentityOf(q)' /\ CurrentOf(q)'
  <2>1. /\ UNCHANGED <<pc, token, ctx, plugin>> /\ seen[q] \subseteq seen'[q]
        /\ \A v \in Users : v # u => account'[v] = account[v]
        /\ account'[u] = to
        /\ pc[q] \in {"verify", "lookup"} => <<u, to>> \in seen'[q]
    BY <1>4 DEF Edit
  <2> QED BY <1>0, <2>1, IdentityFrame
<1>5. ASSUME NEW r \in Requests, \/ Verify(r) \/ Lookup(r) \/ IdentifyFails(r)
                                 \/ \E b \in Browsers, bearer \in Bearers[plugin] \cup {None} :
                                      Receive(r, b, bearer)
      PROVE  IdentityOf(q)' /\ CurrentOf(q)'
  <2>1. CASE r = q
    BY <1>0, <1>5, <2>1, RequestSteps
  <2>2. CASE r # q
    <3>1. /\ pc'[q] = pc[q] /\ token'[q] = token[q] /\ ctx'[q] = ctx[q] /\ seen'[q] = seen[q]
          /\ UNCHANGED <<account, plugin>>
      BY <1>5, <2>2 DEF Verify, Lookup, IdentifyFails, Receive
    <3> QED BY <1>0, <3>1, IdentityFrame
  <2> QED BY <2>1, <2>2
<1>6. CASE Restart
  <2>1. /\ UNCHANGED <<account, token, ctx, seen, plugin>>
        /\ pc'[q] = IF pc[q] \in {"idle", "provider"} THEN pc[q] ELSE "done"
    BY <1>6 DEF Restart
  <2>2. CurrentOf(q)'
    BY <1>0, <2>1 DEF CurrentOf
  <2>3. IdentityOf(q)'
    BY <1>0, <2>1 DEF IdentityOf
  <2> QED BY <2>2, <2>3
<1>7. ASSUME \/ Tick \/ \E b \in Browsers : Logout(b)
             \/ \E a \in Attempts : Discover(a) \/ DiscoverFails(a)
      PROVE  IdentityOf(q)' /\ CurrentOf(q)'
  <2>1. UNCHANGED <<pc, account, token, ctx, seen, plugin>>
    BY <1>7 DEF Tick, Logout, Discover, DiscoverFails
  <2> QED BY <1>0, <2>1, IdentityFrame
<1> QED BY <1>1, <1>2, <1>3, <1>4, <1>5, <1>6, <1>7 DEF Next, Promote, DeleteUser

-----------------------------------------------------------------------------
(* Theorems.                                                               *)

LEMMA Inductive == ASSUME SignInAssumption PROVE Spec => []IInv
<1>1. Init => IInv
  BY InitInv
<1>2. ASSUME IInv, [Next]_vars
      PROVE  IInv'
  <2>1. CASE Next
    BY <1>2, <2>1, NextType, NextDiscovery, NextOwn, NextIdentity DEF IInv
  <2>2. CASE UNCHANGED vars
    <3>1. TypeOK' /\ Discovery'
      BY <1>2, <2>2 DEF vars, IInv, TypeOK, Discovery
    <3>2. Own'
      BY <1>2, <2>2, OwnFrame DEF vars, IInv
    <3>3. Identity'
      BY <1>2, <2>2 DEF vars, IInv, Identity, IdentityOf, IdentityIsCurrent
    <3> QED BY <3>1, <3>2, <3>3 DEF IInv
  <2> QED BY <1>2, <2>1, <2>2
<1> QED BY <1>1, <1>2, PTL DEF Spec

\* Flows, callbacks, cookies, accounts and requests keep their types.
THEOREM TypeCorrect == ASSUME SignInAssumption PROVE Spec => []TypeOK
<1>1. IInv => TypeOK
  BY DEF IInv
<1> QED BY <1>1, Inductive, PTL

\* A browser is signed in by its own flow, as who signed in there, and once
\* (oauth.ts: the state cookie, the provider's code), for any number of tabs,
\* copied addresses and replays.
THEOREM OwnFlowSignsIn == ASSUME SignInAssumption PROVE Spec => []SignedInByOwnFlow
<1>1. IInv => SignedInByOwnFlow
  BY DEF IInv, Own, CallOf, Earned, Spent, Signs, SignedInByOwnFlow
<1> QED BY <1>1, Inductive, PTL

\* At most one discovery has not failed, and a failed one is not cached
\* (oauth.ts: discoveryCache and the catch that deletes its entry).
THEOREM DiscoveryIsShared == ASSUME SignInAssumption PROVE Spec => []DiscoveryHeals
<1>1. IInv => DiscoveryHeals
  <2> SUFFICES ASSUME IInv PROVE DiscoveryHeals
    OBVIOUS
  <2> DEFINE D == {a \in Attempts : disc[a] \in {"pending", "ok"}}
  <2>1. D \in SUBSET {cache}
    BY DEF IInv, Discovery
  <2>2. Cardinality(D) <= 1
    <3> HIDE DEF D
    <3>1. IsFiniteSet({cache}) /\ Cardinality({cache}) = 1
      BY FS_Singleton
    <3>2. Cardinality(D) <= Cardinality({cache})
      BY <2>1, <3>1, FS_Subset
    <3> QED BY <3>1, <3>2
  <2> QED BY <2>2 DEF DiscoveryHeals, IInv, Discovery
<1> QED BY <1>1, Inductive, PTL

\* An identity is what its account was while the request ran, or what the
\* trusted issuer said (session.ts, identify.ts, jwt-verify.ts), whatever is
\* edited or deleted meanwhile.
THEOREM CurrentIdentity == ASSUME SignInAssumption PROVE Spec => []IdentityIsCurrent
<1>1. IInv => IdentityIsCurrent
  BY DEF IInv, Identity
<1> QED BY <1>1, Inductive, PTL

=============================================================================
