--------------------------- MODULE MCIntelligence ---------------------------
(* Instances of Intelligence for TLC. *)
EXTENDS Intelligence

CONSTANTS j1, j2, x, y, a1, a2, t, approve

\* One job is delivered twice.
Twice == [j \in Jobs |-> IF j = j1 THEN 2 ELSE 1]

\* Each job approves an order.
Owner == [z \in Responses |-> IF z = x THEN j1 ELSE j2]

Location == [z \in Responses |-> approve]

\* The first one's response says what the order was, and what it is now.
StateFields == [z \in Responses |-> IF z = x THEN <<"created", "approved">> ELSE << >>]

\* The other one's names two accounts, of the same score, and a tenant.
Names == [z \in Responses |-> IF z = x THEN {} ELSE Refs]

Hints ==
    [m \in Refs |-> IF m = t THEN {"identity", "ownership_key", "tenant"}
                    ELSE {"identity", "ownership_key"}]

Root == [p \in Paths |-> "orders"]

Crud == [p \in Paths |-> "approve"]

=============================================================================
