------------------------------ MODULE MCAccounts ------------------------------
(* Accounts with three requests, on a fresh backend and on one with two     *)
(* users.                                                                    *)
EXTENDS Accounts, TLC

CONSTANTS ann, bob, r1, r2, r3, e1, e2, p1, p2

Three == {r1, r2, r3}

\* ann the admin, and bob, who came by OAuth and has no password.
Users  == [id \in {ann, bob} |->
             IF id = ann
             THEN [email |-> e1, password |-> p1, role |-> "admin", reset |-> None]
             ELSE [email |-> e2, password |-> None, role |-> "member", reset |-> None]]

FreshOrNot == {{}, {ann, bob}}

RequestSymmetry == Permutations(Three)
==============================================================================
