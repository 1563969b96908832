-------------------------- MODULE MCScanLifecycle --------------------------
(* Instances of ScanLifecycle for TLC. *)
EXTENDS ScanLifecycle, TLC

CONSTANTS s1, s2, s3, w1, w2, wsA, wsB

\* s3 alone belongs to the second workspace, if there is one.
Assignment == [s \in Scans |-> IF s = s3 /\ wsB \in Workspaces THEN wsB ELSE wsA]

Symmetry == Permutations(Workers)
=============================================================================
