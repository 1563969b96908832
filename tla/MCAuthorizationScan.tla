------------------------- MODULE MCAuthorizationScan -------------------------
(* Instances of AuthorizationScan for TLC. *)
EXTENDS AuthorizationScan, TLC

CONSTANTS j1, j2, i1, i2, i3, w1, w2

\* The jobs share two identities, and j1 has one of its own.
TwoShared == [j \in Jobs |-> IF j = j1 THEN Identities ELSE {i2, i3}]

\* The jobs test with the same identities.
SharedIdentities == [j \in Jobs |-> Identities]

=============================================================================
