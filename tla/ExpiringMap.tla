------------------------------ MODULE ExpiringMap ------------------------------
(***************************************************************************)
(* What KvStore and SessionStore promise (src/packages/frogcp/src/         *)
(* adapter.ts): a map whose entries expire by themselves, no sooner than   *)
(* asked and no later than a floor the backend may impose.                 *)
(***************************************************************************)
EXTENDS Integers, FiniteSets

CONSTANTS Keys, Values, Ttls, Json, Forever, Nothing,
          Families    \* Families[p]: the keys under a prefix p, and its look-alikes

VARIABLES
    held,    \* held[k] is [value, until], or Nothing
    clock,   \* seconds
    floor,   \* the shortest life the backend gives
    page,    \* the most keys it lists, or Nothing if it lists them all
    reply    \* what the last read said

absVars == <<held, clock, floor, page, reply>>

Live(entry, at) == entry # Nothing /\ (entry.until = Forever \/ entry.until > at)

Init ==
    /\ held = [k \in Keys |-> Nothing]
    /\ clock = 0
    /\ floor \in Nat /\ page \in Nat \cup {Nothing}
    /\ reply = Nothing

\* Time passes; what has run out is gone.
Tick ==
    /\ clock' = clock + 1
    /\ held' = [k \in Keys |-> IF Live(held[k], clock') THEN held[k] ELSE Nothing]
    /\ UNCHANGED <<floor, page, reply>>

Put(k, value, ttl) ==
    /\ \E until \in IF ttl = Forever THEN {Forever}
                    ELSE clock + ttl .. clock + (IF ttl < floor THEN floor ELSE ttl) :
          LET entry == [value |-> value, until |-> until] IN
          held' = [held EXCEPT ![k] = IF Live(entry, clock) THEN entry ELSE Nothing]
    /\ UNCHANGED <<clock, floor, page, reply>>

Delete(k) == held' = [held EXCEPT ![k] = Nothing] /\ UNCHANGED <<clock, floor, page, reply>>

Get(k) ==
    /\ reply' = [value |-> IF held[k] = Nothing THEN Nothing ELSE held[k].value]
    /\ UNCHANGED <<held, clock, floor, page>>

\* A value that is no JSON reads as absent, never as an error.
GetJSON(k) ==
    /\ reply' = [value |-> IF held[k] # Nothing /\ held[k].value \in Json
                            THEN held[k].value ELSE Nothing]
    /\ UNCHANGED <<held, clock, floor, page>>

\* The keys stored under a prefix, all of them unless they are more than a page;
\* none that has expired, and none from elsewhere but its look-alikes.
List(p) ==
    /\ \E keys \in SUBSET {k \in Families[p].exact \cup Families[p].alike : held[k] # Nothing} :
          /\ \/ \A k \in Families[p].exact : held[k] # Nothing => k \in keys
             \/ Cardinality(keys) = page
          /\ reply' = [keys |-> keys]
    /\ UNCHANGED <<held, clock, floor, page>>

Next ==
    \/ Tick
    \/ \E k \in Keys, value \in Values, ttl \in Ttls : Put(k, value, ttl)
    \/ \E k \in Keys : Delete(k) \/ Get(k) \/ GetJSON(k)
    \/ \E p \in DOMAIN Families : List(p)

Spec == Init /\ [][Next]_absVars
==============================================================================
