------------------------------- MODULE MCSignIn -------------------------------
(* SignIn for TLC. *)
EXTENDS SignIn, TLC

Alike == Permutations(Flows) \cup Permutations(Callbacks) \cup Permutations(Browsers)

Issued(iss, user, role, exp) == [iss |-> iss, user |-> user, role |-> role, exp |-> exp]
Strangers == {Issued("idp", CHOOSE u \in Users : TRUE, "admin", 1)}
MCBearers ==
    [auth |-> Strangers,
     jwt  |-> {Issued("idp", who, role, 1) : who \in Users \cup {None}, role \in {"admin", None}}
              \cup {Issued("idp", who, "admin", 0) : who \in Users}
              \cup {Issued("forger", who, "admin", 1) : who \in Users}]
==============================================================================
