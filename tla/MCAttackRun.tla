---------------------------- MODULE MCAttackRun ----------------------------
(* An instance of AttackRun for TLC: two jobs of one application select the  *)
(* identities a and b.  Whoever asks is answered; b reads what belongs to a. *)
EXTENDS AttackRun

CONSTANTS j1, j2, a, b, q, p, v

Selected == [j \in Jobs |-> {a, b}]
MessageDeliveries == [j \in Jobs |-> IF j = j1 THEN 2 ELSE 1]
PathOfRequest == [r \in Requests |-> p]
TargetAnswers == [r \in Requests |-> [i \in Identities |-> {"success"}]]
TargetCompared == [r \in Requests |-> [i \in Identities |-> [k \in Identities |->
                     IF k = b THEN "confirmed" ELSE "needs_review"]]]
ValuesOf == [r \in Requests |-> {v}]
=============================================================================
