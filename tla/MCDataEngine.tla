----------------------------- MODULE MCDataEngine -----------------------------
(* DataEngine on a small entity: an admin, two members and the guest.        *)
EXTENDS DataEngine, TLC

CONSTANTS ann, bob, cy, gold, r1, r2, r3

MCUsers    == {ann, bob, cy}
MCRequests == {r1, r2, r3}

Owner(f) == [kind |-> "owner", field |-> f]

\* Posts: anyone creates, the owner and the reviewers update, only
\* the owner deletes.  owner is an owner() field, badge a readonly unique one,
\* parent a ref to a post.
MCRules ==
    [op \in {"create", "update", "delete"} |->
        CASE op = "create" -> {[kind |-> "public"]}
          [] op = "update" -> {Owner("owner"), [kind |-> "role", users |-> {cy}]}
          [] op = "delete" -> {Owner("owner")}]
MCInputs == {[f \in {} |-> Null], [owner |-> cy], [owner |-> cy, badge |-> gold]}
             \cup {[parent |-> r] : r \in MCRequests}
MCValues == {ann, bob, cy, gold} \cup MCRequests

RequestSymmetry == Permutations(MCRequests)
==============================================================================
