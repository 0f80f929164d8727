--------------------------- MODULE MCTokenServer ---------------------------
(* Requests that name two codes; r1, r2 and v1 compete for the first. *)
EXTENDS TokenServer

CONSTANTS t1, t2, r1, r2, r3, v1, b1, b2, k1, k2

CodeOfMC == [q \in Redeem \cup Revoke |-> IF q = r3 THEN t2 ELSE t1]

\* Tokens and kicks share no state: explore the requests of one kind at a time.
OneKind ==
    \/ \A q \in Redeem \cup Revoke : pc[q] = "new"
    \/ \A q \in Beat \cup Kick : pc[q] = "new"
=============================================================================
