------------------------------ MODULE AtomicJob ------------------------------
(***************************************************************************)
(* What a reader of the database may rely on: a job is submitted, and all  *)
(* that one run of it writes appears at once, together with its status.    *)
(* Another run may repeat that.                                            *)
(***************************************************************************)
EXTENDS Naturals

CONSTANT Jobs

VARIABLES
    status,     \* what a reader sees of the job's row
    effects     \* how many runs' results it sees

jobVars == <<status, effects>>

Init ==
    /\ status = [j \in Jobs |-> "none"]
    /\ effects = [j \in Jobs |-> 0]

Submit(j) ==
    /\ status[j] = "none"
    /\ status' = [status EXCEPT ![j] = "queued"]
    /\ UNCHANGED effects

Complete(j) ==
    /\ status[j] # "none"
    /\ status' = [status EXCEPT ![j] = "completed"]
    /\ effects' = [effects EXCEPT ![j] = @ + 1]

Next == \E j \in Jobs : Submit(j) \/ Complete(j)

Spec == Init /\ [][Next]_jobVars

=============================================================================
