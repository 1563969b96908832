---------------------------- MODULE ReportedFlaws ----------------------------
(***************************************************************************)
(* What a reader of the findings may rely on: the flaws a run found and    *)
(* its reports appear together, once, and the reports are about all the    *)
(* flaws of the run's job that the reader then sees, those of its earlier  *)
(* runs among them.                                                        *)
(***************************************************************************)
CONSTANT Runs       \* a run is a job and the number of a delivery

VARIABLES
    flaws,      \* the flaws a reader sees, each with the run that found it
    reports     \* the findings it sees: who reported which flaw

Init == flaws = {} /\ reports = {}

Publish(r) ==
    /\ \A x \in flaws : x.run # r
    /\ \A f \in reports : f[1] # r
    /\ flaws \subseteq flaws'
    /\ \A x \in flaws' \ flaws : x.run = r
    /\ reports' = reports \cup {<<r, x>> : x \in {y \in flaws' : y.run[1] = r[1]}}

Next == \E r \in Runs : Publish(r)

Spec == Init /\ [][Next]_<<flaws, reports>>

=============================================================================
