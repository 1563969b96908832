--------------------------- MODULE ScanLifecycle ---------------------------
(***************************************************************************)
(* The life of a classic scan: the API requests that start and cancel it   *)
(* (ScanService, ResourceGovernance), its row in the scans table, the one  *)
(* Celery message that carries it, and the worker processes that run       *)
(* run_zap_scan on it.                                                     *)
(*                                                                         *)
(* A step is one committed database transaction, one call on the broker,   *)
(* or the end of a task.  Everything a transaction does before its commit  *)
(* is part of the step that commits it: the only transactions another      *)
(* process can interleave with are the admission of a scan (a count, then  *)
(* an insert) and a cancellation (a locked row, a broadcast, a commit).    *)
(***************************************************************************)
EXTENDS Naturals, FiniteSets

CONSTANTS
    Scans,              \* the scans a client may ask for, one start request each
    Workers,            \* Celery worker processes
    Workspaces,
    WorkspaceOf,        \* the workspace a scan belongs to
    MaxActiveScans,     \* settings.max_active_scans
    ZapPollMaxErrors,   \* settings.zap_poll_max_errors
    MaxDeliveries,      \* bound: deliveries of one message
    Faults,             \* what the environment may do, see PossibleFaults
    NoWorker, NoScan

PossibleFaults ==
    { "concurrent_starts",  \* two start requests overlap
      "cancel",             \* clients cancel scans
      "api_lost",           \* an API request dies, or its broker call fails
      "auth_rejected",      \* a login's session is not verified, or no user is configured
      "task_error",         \* an exception is raised in the task body, by the soft time limit too
      "soft_limit",         \* the soft time limit ends a wait of the event loop
      "db_error",           \* the update that records a failure fails itself
      "time_limit",         \* the hard time limit kills the process
      "worker_lost",        \* the process dies and its message is requeued
      "redelivery" }        \* the broker hands out a message a live worker still holds

ASSUME ConstantsAssumption ==
    /\ WorkspaceOf \in [Scans -> Workspaces]
    /\ MaxActiveScans \in Nat
    /\ ZapPollMaxErrors \in Nat \ {0}
    /\ MaxDeliveries \in Nat \ {0}
    /\ Faults \subseteq PossibleFaults
    /\ NoWorker \notin Workers
    /\ NoScan \notin Scans

ASSUME FiniteAssumption == IsFiniteSet(Scans) /\ IsFiniteSet(Workers)

VARIABLES
    (* the scans table, as committed *)
    status,         \* Scan.status, "none" before the row exists
    taskRecorded,   \* Scan.celery_task_id is set
    cancelRequested, \* Scan.cancellation_requested_at is set
    findings,       \* batches of findings rows a run committed for the scan
    (* the API *)
    request,        \* how far the start request has come
    cancelTx,       \* a cancel transaction holds the row lock
    (* Celery *)
    broker,         \* the scan's message
    holder,         \* the worker whose delivery of it is not acknowledged
    deliveries,     \* how often it was handed to a worker
    revoked,        \* revoke(terminate=True) was broadcast
    result,         \* the state in the result backend
    (* the worker processes *)
    step,           \* where the task body is
    job,            \* the scan it runs
    errors,         \* consecutive_errors
    fate            \* the status the exception handler will write

rowVars == <<status, taskRecorded, cancelRequested, findings>>
apiVars == <<request, cancelTx>>
msgVars == <<broker, holder, deliveries, revoked>>
taskVars == <<step, job, errors, fate>>
vars == <<rowVars, apiVars, msgVars, result, taskVars>>

Status == {"none", "pending", "running", "cancelling", "cancelled", "completed", "failed"}
ActiveStatus == {"pending", "running"}
CancelStatus == {"cancelling", "cancelled"}
RequestStep == {"new", "checked", "inserted", "published", "answered", "rejected", "aborted"}
MessageState == {"none", "queued", "unacked", "acked"}
ResultState == {"PENDING", "PROGRESS", "SUCCESS", "FAILURE", "REVOKED"}
BeforeCommit == {"load", "auth", "zap", "record", "poll", "collect", "commit"}
RunStep == BeforeCommit \cup {"failing", "return", "raise"}
TaskStep == RunStep \cup {"idle"}
Fate == {"none", "failed", "cancelled"}

Init ==
    /\ status = [s \in Scans |-> "none"]
    /\ taskRecorded = [s \in Scans |-> FALSE]
    /\ cancelRequested = [s \in Scans |-> FALSE]
    /\ findings = [s \in Scans |-> 0]
    /\ request = [s \in Scans |-> "new"]
    /\ cancelTx = [s \in Scans |-> FALSE]
    /\ broker = [s \in Scans |-> "none"]
    /\ holder = [s \in Scans |-> NoWorker]
    /\ deliveries = [s \in Scans |-> 0]
    /\ revoked = [s \in Scans |-> FALSE]
    /\ result = [s \in Scans |-> "PENDING"]
    /\ step = [w \in Workers |-> "idle"]
    /\ job = [w \in Workers |-> NoScan]
    /\ errors = [w \in Workers |-> 0]
    /\ fate = [w \in Workers |-> "none"]

-----------------------------------------------------------------------------
(* Starting a scan: ScanService.start_scan. *)

ActiveScans(ws) == {s \in Scans : WorkspaceOf[s] = ws /\ status[s] \in ActiveStatus}

\* Mutant: the limit is tested one too late.
HasCapacity_OffByOne(ws) == Cardinality(ActiveScans(ws)) <= MaxActiveScans

HasCapacity(ws) == Cardinality(ActiveScans(ws)) < MaxActiveScans

Advance(s, from, to) ==
    /\ request[s] = from
    /\ request' = [request EXCEPT ![s] = to]

\* The count is taken in a transaction of its own snapshot: nothing stops a
\* second request from counting before the first one has committed its row.
StartCheck(s) ==
    /\ HasCapacity(WorkspaceOf[s])
    /\ "concurrent_starts" \in Faults \/ \A t \in Scans : request[t] # "checked"
    /\ Advance(s, "new", "checked")
    /\ UNCHANGED <<rowVars, cancelTx, msgVars, result, taskVars>>

StartReject(s) ==
    /\ ~HasCapacity(WorkspaceOf[s])
    /\ Advance(s, "new", "rejected")
    /\ UNCHANGED <<rowVars, cancelTx, msgVars, result, taskVars>>

InsertScan(s) ==
    /\ Advance(s, "checked", "inserted")
    /\ status' = [status EXCEPT ![s] = "pending"]
    /\ UNCHANGED <<taskRecorded, cancelRequested, findings, cancelTx, msgVars, result, taskVars>>

PublishTask(s) ==
    /\ Advance(s, "inserted", "published")
    /\ broker' = [broker EXCEPT ![s] = "queued"]
    /\ UNCHANGED <<rowVars, cancelTx, holder, deliveries, revoked, result, taskVars>>

\* Mutant: the task id is set but not committed.
RecordTaskId_Uncommitted(s) ==
    /\ ~cancelTx[s]
    /\ Advance(s, "published", "answered")
    /\ UNCHANGED <<rowVars, cancelTx, msgVars, result, taskVars>>

RecordTaskId(s) ==
    /\ ~cancelTx[s]
    /\ Advance(s, "published", "answered")
    /\ taskRecorded' = [taskRecorded EXCEPT ![s] = TRUE]
    /\ UNCHANGED <<status, cancelRequested, findings, cancelTx, msgVars, result, taskVars>>

\* The API process dies, or delay() cannot reach the broker; what was
\* committed stays.
StartLost(s) ==
    /\ "api_lost" \in Faults
    /\ request[s] \in {"checked", "inserted", "published"}
    /\ request' = [request EXCEPT ![s] = "aborted"]
    /\ UNCHANGED <<rowVars, cancelTx, msgVars, result, taskVars>>

-----------------------------------------------------------------------------
(* Cancelling a scan: ScanService.cancel_scan, ResourceGovernance.  The      *)
(* UPDATE locks the row; revoke is broadcast before the commit.              *)

BroadcastRevoke(s) == revoked' = [revoked EXCEPT ![s] = @ \/ taskRecorded[s]]

CancelMark(s) ==
    /\ "cancel" \in Faults
    /\ ~cancelTx[s]
    /\ status[s] \in ActiveStatus
    /\ cancelTx' = [cancelTx EXCEPT ![s] = TRUE]
    /\ BroadcastRevoke(s)
    /\ UNCHANGED <<rowVars, request, broker, holder, deliveries, result, taskVars>>

CancelCommit(s) ==
    /\ cancelTx[s]
    /\ cancelTx' = [cancelTx EXCEPT ![s] = FALSE]
    /\ status' = [status EXCEPT ![s] = "cancelling"]
    /\ cancelRequested' = [cancelRequested EXCEPT ![s] = TRUE]
    /\ UNCHANGED <<taskRecorded, findings, request, msgVars, result, taskVars>>

CancelRollback(s) ==
    /\ "api_lost" \in Faults
    /\ cancelTx[s]
    /\ cancelTx' = [cancelTx EXCEPT ![s] = FALSE]
    /\ UNCHANGED <<rowVars, request, msgVars, result, taskVars>>

\* No row matches the UPDATE: the scan is not active, or the caller's
\* workspace_id is not its own.  The task id is read without that filter.
CancelMiss(s, ws) ==
    /\ "cancel" \in Faults
    /\ ws # WorkspaceOf[s] \/ (status[s] \notin ActiveStatus /\ ~cancelTx[s])
    /\ taskRecorded[s]
    /\ BroadcastRevoke(s)
    /\ UNCHANGED <<rowVars, apiVars, broker, holder, deliveries, result, taskVars>>

-----------------------------------------------------------------------------
(* Celery with task_acks_late and task_reject_on_worker_lost.                *)

\* The key-value result backend never replaces SUCCESS.
StoreResult(s, r) == result' = [result EXCEPT ![s] = IF @ = "SUCCESS" THEN @ ELSE r]

Deliver(w, s) ==
    /\ step[w] = "idle"
    /\ broker[s] = "queued"
    /\ broker' = [broker EXCEPT ![s] = "unacked"]
    /\ holder' = [holder EXCEPT ![s] = w]
    /\ deliveries' = [deliveries EXCEPT ![s] = @ + 1]
    /\ step' = [step EXCEPT ![w] = "load"]
    /\ job' = [job EXCEPT ![w] = s]
    /\ UNCHANGED <<rowVars, apiVars, revoked, result, errors, fate>>

\* A worker that has seen the revoke drops the message when it arrives.
DiscardRevoked(s) ==
    /\ broker[s] = "queued"
    /\ revoked[s]
    /\ broker' = [broker EXCEPT ![s] = "acked"]
    /\ StoreResult(s, "REVOKED")
    /\ UNCHANGED <<rowVars, apiVars, holder, deliveries, revoked, taskVars>>

\* The visibility timeout expires or the worker's connection drops; the task
\* goes on running and its own acknowledgement will no longer count.
Redeliver(s) ==
    /\ "redelivery" \in Faults
    /\ broker[s] = "unacked"
    /\ deliveries[s] < MaxDeliveries
    /\ broker' = [broker EXCEPT ![s] = "queued"]
    /\ holder' = [holder EXCEPT ![s] = NoWorker]
    /\ UNCHANGED <<rowVars, apiVars, deliveries, revoked, result, taskVars>>

\* Mutant: the worker keeps the scan of its last task.
Idle_KeepsJob(w) ==
    /\ step' = [step EXCEPT ![w] = "idle"]
    /\ errors' = [errors EXCEPT ![w] = 0]
    /\ fate' = [fate EXCEPT ![w] = "none"]
    /\ UNCHANGED job

Idle(w) ==
    /\ step' = [step EXCEPT ![w] = "idle"]
    /\ job' = [job EXCEPT ![w] = NoScan]
    /\ errors' = [errors EXCEPT ![w] = 0]
    /\ fate' = [fate EXCEPT ![w] = "none"]

\* Mutant: task_reject_on_worker_lost and the acknowledgement are missing.
Release_Forgets(w, m) == Idle(w) /\ UNCHANGED <<broker, holder>>

\* The end of w's delivery of its message: m is what becomes of the message.
Release(w, m) ==
    LET s == job[w] IN
    /\ IF holder[s] = w
       THEN /\ broker' = [broker EXCEPT ![s] = m]
            /\ holder' = [holder EXCEPT ![s] = NoWorker]
       ELSE UNCHANGED <<broker, holder>>
    /\ Idle(w)

Kill(w, r) ==
    /\ step[w] # "idle"
    /\ StoreResult(job[w], r)
    /\ Release(w, "acked")
    /\ UNCHANGED <<rowVars, apiVars, deliveries, revoked>>

TerminateRevoked(w) == step[w] # "idle" /\ revoked[job[w]] /\ Kill(w, "REVOKED")

\* Mutant: task_time_limit is not set.
HardTimeLimit_Unset(w) == step[w] # "idle" /\ FALSE /\ Kill(w, "FAILURE")

HardTimeLimit(w) == "time_limit" \in Faults /\ Kill(w, "FAILURE")

WorkerLost(w) ==
    /\ "worker_lost" \in Faults
    /\ step[w] # "idle"
    /\ deliveries[job[w]] < MaxDeliveries
    /\ Release(w, "queued")
    /\ UNCHANGED <<rowVars, apiVars, deliveries, revoked, result>>

-----------------------------------------------------------------------------
(* The task: run_zap_scan.  At(w, st) is w being at a line, Goto its move.   *)

Goto(w, from, to) ==
    /\ step[w] = from
    /\ step' = [step EXCEPT ![w] = to]

Progress(w) == StoreResult(job[w], "PROGRESS")

\* UPDATE ... WHERE id = scan_id, with no condition on the status it replaces.
\* It waits for a cancel transaction that holds the row.
SetStatus(s, new) ==
    /\ ~cancelTx[s]
    /\ status' = [status EXCEPT ![s] = new]

Raise(w, f) ==
    /\ step' = [step EXCEPT ![w] = "failing"]
    /\ fate' = [fate EXCEPT ![w] = f]

LoadScan(w) ==
    /\ Goto(w, "load", "auth")
    /\ SetStatus(job[w], "running")
    /\ Progress(w)
    /\ UNCHANGED <<taskRecorded, cancelRequested, findings, apiVars, msgVars, job, errors, fate>>

\* No login configured, a stored context that still validates, or a fresh
\* login that does.
Authenticate(w) ==
    /\ Goto(w, "auth", "zap")
    /\ Progress(w)
    /\ UNCHANGED <<rowVars, apiVars, msgVars, job, errors, fate>>

\* status = 'auth_failed' or 'auth_unverified' is executed on a session that
\* get_db has already left, and never committed: the row keeps its status.
AuthRejected(w) ==
    /\ "auth_rejected" \in Faults
    /\ Goto(w, "auth", "return")
    /\ Progress(w)
    /\ UNCHANGED <<rowVars, apiVars, msgVars, job, errors, fate>>

StartZapScan(w) ==
    /\ Goto(w, "zap", "record")
    /\ UNCHANGED <<rowVars, apiVars, msgVars, result, job, errors, fate>>

RecordScannerId(w) ==
    /\ Goto(w, "record", "poll")
    /\ ~cancelTx[job[w]]
    /\ Progress(w)
    /\ UNCHANGED <<rowVars, apiVars, msgVars, job, errors, fate>>

(* One iteration of _wait_for_zap_scan each.                                *)

\* Mutant: only the final status stops the poll loop.
ScanCancelled_FinalOnly(s) == status[s] = "cancelled"

ScanCancelled(s) == status[s] \in CancelStatus

PollFailure(w, f) ==
    /\ errors' = [errors EXCEPT ![w] = @ + 1]
    /\ IF errors[w] + 1 >= ZapPollMaxErrors
       THEN Raise(w, f) /\ UNCHANGED result
       ELSE Progress(w) /\ UNCHANGED <<step, fate>>
    /\ UNCHANGED <<rowVars, apiVars, msgVars, job>>

\* The exception raised for a cancelled scan is caught with the polling
\* errors and only leaves the loop as the last of them.
PollCancelled(w) ==
    /\ step[w] = "poll"
    /\ ScanCancelled(job[w])
    /\ PollFailure(w, "cancelled")

\* Mutant: every polling failure carries the text of a cancellation.
PollError_SaysCancelled(w) ==
    /\ "task_error" \in Faults
    /\ step[w] = "poll"
    /\ PollFailure(w, "cancelled")

\* ZAP does not answer, or the status of the row cannot be read.
PollError(w) ==
    /\ "task_error" \in Faults
    /\ step[w] = "poll"
    /\ PollFailure(w, "failed")

PollProgress(w) ==
    /\ step[w] = "poll"
    /\ ~ScanCancelled(job[w])
    /\ errors' = [errors EXCEPT ![w] = 0]
    /\ Progress(w)
    /\ UNCHANGED <<rowVars, apiVars, msgVars, step, job, fate>>

PollDone(w) ==
    /\ Goto(w, "poll", "collect")
    /\ ~ScanCancelled(job[w])
    /\ errors' = [errors EXCEPT ![w] = 0]
    /\ Progress(w)
    /\ UNCHANGED <<rowVars, apiVars, msgVars, job, fate>>

PollTimeout(w) ==
    /\ step[w] = "poll"
    /\ Raise(w, "failed")
    /\ UNCHANGED <<rowVars, apiVars, msgVars, result, job, errors>>

CollectFindings(w) ==
    /\ Goto(w, "collect", "commit")
    /\ Progress(w)
    /\ UNCHANGED <<rowVars, apiVars, msgVars, job, errors, fate>>

\* The findings and the status are one transaction.
CommitFindings(w) ==
    /\ Goto(w, "commit", "return")
    /\ SetStatus(job[w], "completed")
    /\ findings' = [findings EXCEPT ![job[w]] = @ + 1]
    /\ UNCHANGED <<taskRecorded, cancelRequested, apiVars, msgVars, result, job, errors, fate>>

\* Mutant: the task is retried in place instead of failing.
TaskError_Retries(w) ==
    /\ "task_error" \in Faults
    /\ step[w] \in BeforeCommit \cup {"return"}
    /\ step' = [step EXCEPT ![w] = "load"]
    /\ UNCHANGED <<rowVars, apiVars, msgVars, result, job, errors, fate>>

\* An exception anywhere in the body, after the commit too: the soft time
\* limit is raised in the line that runs.  A login that raises is one: its
\* handler sets a column, error, that scans does not have, and raises itself.
TaskError(w) ==
    /\ "task_error" \in Faults
    /\ step[w] \in BeforeCommit \cup {"return"}
    /\ Raise(w, "failed")
    /\ UNCHANGED <<rowVars, apiVars, msgVars, result, job, errors>>

\* While the coroutine awaits, the soft time limit is raised in the event loop
\* and ends asyncio.run.  The coroutine is cancelled, which no handler of it
\* catches: what is not committed is lost, and the row keeps its status.
SoftLimitEndsWait(w) ==
    /\ "soft_limit" \in Faults
    /\ step[w] \in RunStep \ {"zap", "raise"}
    /\ step' = [step EXCEPT ![w] = "raise"]
    /\ UNCHANGED <<rowVars, apiVars, msgVars, result, job, errors, fate>>

\* Mutant: the failure is executed but not committed.
MarkFailed_Uncommitted(w) ==
    /\ Goto(w, "failing", "raise")
    /\ UNCHANGED <<rowVars, apiVars, msgVars, result, job, errors, fate>>

MarkFailed(w) ==
    /\ Goto(w, "failing", "raise")
    /\ SetStatus(job[w], fate[w])
    /\ UNCHANGED <<taskRecorded, cancelRequested, findings, apiVars, msgVars, result, job, errors, fate>>

MarkFailedError(w) ==
    /\ "db_error" \in Faults
    /\ Goto(w, "failing", "raise")
    /\ UNCHANGED <<rowVars, apiVars, msgVars, result, job, errors, fate>>

\* Mutant: the exception is not raised again.
Finish_Swallows(w) ==
    /\ step[w] \in {"return", "raise"}
    /\ StoreResult(job[w], "SUCCESS")
    /\ Release(w, "acked")
    /\ UNCHANGED <<rowVars, apiVars, deliveries, revoked>>

Finish(w) ==
    /\ step[w] \in {"return", "raise"}
    /\ StoreResult(job[w], IF step[w] = "return" THEN "SUCCESS" ELSE "FAILURE")
    /\ Release(w, "acked")
    /\ UNCHANGED <<rowVars, apiVars, deliveries, revoked>>

-----------------------------------------------------------------------------

StartScan(s) ==
    \/ StartCheck(s)
    \/ StartReject(s)
    \/ InsertScan(s)
    \/ PublishTask(s)
    \/ RecordTaskId(s)
    \/ StartLost(s)

CancelScan(s) ==
    \/ CancelMark(s)
    \/ CancelCommit(s)
    \/ CancelRollback(s)
    \/ \E ws \in Workspaces : CancelMiss(s, ws)

Poll(w) ==
    \/ PollCancelled(w)
    \/ PollError(w)
    \/ PollProgress(w)
    \/ PollDone(w)
    \/ PollTimeout(w)

RunTask(w) ==
    \/ LoadScan(w)
    \/ Authenticate(w)
    \/ AuthRejected(w)
    \/ StartZapScan(w)
    \/ RecordScannerId(w)
    \/ Poll(w)
    \/ CollectFindings(w)
    \/ CommitFindings(w)
    \/ TaskError(w)
    \/ SoftLimitEndsWait(w)
    \/ MarkFailed(w)
    \/ MarkFailedError(w)
    \/ Finish(w)

KillTask(w) == TerminateRevoked(w) \/ HardTimeLimit(w) \/ WorkerLost(w)

Next ==
    \/ \E s \in Scans : StartScan(s) \/ CancelScan(s) \/ DiscardRevoked(s) \/ Redeliver(s)
    \/ \E w \in Workers, s \in Scans : Deliver(w, s)
    \/ \E w \in Workers : RunTask(w) \/ KillTask(w)

Spec == Init /\ [][Next]_vars

-----------------------------------------------------------------------------
(* Fairness.  HardTimeLimit is Celery's own watchdog: with it, and a worker  *)
(* that takes messages, nothing has to be assumed of the task body.          *)

WatchdogSpec ==
    /\ Spec
    /\ \A s \in Scans : WF_vars(\E w \in Workers : Deliver(w, s))
    /\ \A w \in Workers : WF_vars(HardTimeLimit(w))

\* The next line of a task, the deadline of its poll loop, or the soft time
\* limit that ends a wait: one of them cannot be postponed for ever.
\* PollProgress is not among them, a scan may stay below 100 % until the
\* deadline.
TaskAdvances(w) ==
    \/ LoadScan(w)
    \/ Authenticate(w)
    \/ StartZapScan(w)
    \/ RecordScannerId(w)
    \/ PollTimeout(w)
    \/ CollectFindings(w)
    \/ CommitFindings(w)
    \/ TaskError(w)
    \/ SoftLimitEndsWait(w)
    \/ MarkFailed(w)
    \/ Finish(w)

LiveSpec ==
    /\ Spec
    /\ \A s \in Scans : WF_vars(PublishTask(s)) /\ WF_vars(RecordTaskId(s))
    /\ \A s \in Scans : WF_vars(\E w \in Workers : Deliver(w, s))
    /\ \A w \in Workers : WF_vars(TaskAdvances(w))

-----------------------------------------------------------------------------
(* Properties. *)

TypeOK ==
    /\ status \in [Scans -> Status]
    /\ taskRecorded \in [Scans -> BOOLEAN]
    /\ cancelRequested \in [Scans -> BOOLEAN]
    /\ findings \in [Scans -> Nat]
    /\ request \in [Scans -> RequestStep]
    /\ cancelTx \in [Scans -> BOOLEAN]
    /\ broker \in [Scans -> MessageState]
    /\ holder \in [Scans -> Workers \cup {NoWorker}]
    /\ deliveries \in [Scans -> Nat]
    /\ revoked \in [Scans -> BOOLEAN]
    /\ result \in [Scans -> ResultState]
    /\ step \in [Workers -> TaskStep]
    /\ job \in [Workers -> Scans \cup {NoScan}]
    /\ errors \in [Workers -> Nat]
    /\ fate \in [Workers -> Fate]
    /\ \A w \in Workers : step[w] = "idle" <=> job[w] = NoScan

Runs(s) == {w \in Workers : job[w] = s}

\* A message that left the queue and is not settled is in the hands of a
\* process that is running its scan: no crash, kill or redelivery strands it
\* (task_acks_late with task_reject_on_worker_lost).
MessageHeld ==
    \A s \in Scans :
        /\ broker[s] = "unacked" <=> holder[s] # NoWorker
        /\ holder[s] # NoWorker => job[holder[s]] = s

\* The runs of a scan that may still commit findings.
Unfinished(s) == {w \in Runs(s) : step[w] \in BeforeCommit}

\* The findings of a scan are duplicated at most once per delivery of its
\* message, whatever is killed and redelivered: what a run has not committed
\* dies with it.
FindingsWithinDeliveries ==
    \A s \in Scans : findings[s] + Cardinality(Unfinished(s)) <= deliveries[s]

\* A scan ends up "cancelled" only if a client's cancellation was committed,
\* although the status is derived from the text of an exception that the poll
\* loop catches, counts and wraps.
CancelledWasRequested ==
    \A s \in Scans : status[s] \in CancelStatus => cancelRequested[s]

Finished == {"completed", "failed", "cancelled"}

\* A finished scan becomes active again only when its message was delivered
\* more than once: no step of a single run reopens it.
OnlyRedeliveryReopens ==
    [][\A s \in Scans :
         status[s] \in Finished /\ status'[s] \in ActiveStatus => deliveries[s] > 1]_vars

OneRun(s) == \A v, w \in Runs(s) : v = w

\* The row says "cancelling" while the scan's only run is between the load of
\* the scan and the last poll, or over.
CancelledInTime(s) ==
    /\ status[s] = "cancelling"
    /\ OneRun(s)
    /\ \A w \in Runs(s) : step[w] \notin {"load", "collect", "commit"}

\* A cancellation committed in that window is honoured: the scan does not
\* complete, unless its message is delivered again.
CancellationHolds ==
    \A s \in Scans, d \in 0..MaxDeliveries :
        [](CancelledInTime(s) /\ deliveries[s] = d
             => [](deliveries[s] = d => status[s] # "completed"))

\* What GET /scan-status and /status-by-scan answer (ScanService.get_scan_status,
\* get_status_by_scan_id): the result backend before the row.
ReportedStatus(s) ==
    IF ~taskRecorded[s] THEN status[s]
    ELSE CASE result[s] = "PENDING" -> status[s]
           [] result[s] = "PROGRESS" -> "running"
           [] result[s] = "SUCCESS" -> "completed"
           [] OTHER -> "failed"

\* A client that is told "completed" finds the findings in the database,
\* whichever run, kill or redelivery the answer comes from.
CompletedIsBacked ==
    \A s \in Scans : ReportedStatus(s) = "completed" => findings[s] > 0

\* A workspace never has more active scans than the limit.
CapacityRespected ==
    \A ws \in Workspaces : Cardinality(ActiveScans(ws)) <= MaxActiveScans

\* Some process still has work to do for the scan.
Live(s) ==
    \/ request[s] \in {"inserted", "published"}
    \/ broker[s] \in {"queued", "unacked"}

\* The login of the scan was rejected: its clients are told that it completed,
\* but the status its task wrote was never committed.
KeepsPlace(s) == status[s] \in ActiveStatus /\ ReportedStatus(s) = "completed"

\* A client is turned away only when the limit's number of scans is at work or
\* keeps its place because the login was rejected.
RejectedOnlyAtLimit ==
    [][\A s \in Scans :
         request'[s] = "rejected" /\ request[s] # "rejected" =>
           Cardinality({t \in Scans :
             WorkspaceOf[t] = WorkspaceOf[s] /\ (Live(t) \/ KeepsPlace(t))})
               >= MaxActiveScans]_vars

\* Every message is eventually settled: no task keeps its worker for ever,
\* not even one that waits for ZAP's spider without a deadline.
MessageSettles == \A s \in Scans : broker[s] = "queued" ~> broker[s] = "acked"

\* The clients of every admitted scan are eventually told that it completed or
\* failed, when its login is rejected too and nothing ends its row.
ScanSettles ==
    \A s \in Scans : status[s] = "pending" ~> ReportedStatus(s) \in {"completed", "failed"}

-----------------------------------------------------------------------------
(* What strengthens the properties into inductive invariants, see            *)
(* ScanLifecycle_proof.                                                      *)

\* An exception handler that will write "cancelled" runs for a scan whose
\* cancellation is committed.
FateIsRequested ==
    \A w \in Workers :
        fate[w] = "cancelled" => job[w] \in Scans /\ cancelRequested[job[w]]

\* A scan has no row before its request inserts it, and no message before its
\* request publishes it.
RequestOrder ==
    \A s \in Scans :
        /\ request[s] \in {"new", "checked"} => status[s] = "none"
        /\ request[s] \in {"new", "checked", "inserted"} => broker[s] = "none"
        /\ broker[s] = "none" => deliveries[s] = 0

\* The row a cancel transaction has locked keeps the status that matched.
RowLocked == \A s \in Scans : cancelTx[s] => status[s] \in ActiveStatus

\* Until its message is delivered a scan is not run, and while it was
\* delivered once it has one run, which loads it before anything finishes it.
FirstDelivery ==
    \A s \in Scans :
        /\ deliveries[s] = 0 => Runs(s) = {} /\ status[s] \notin Finished
        /\ deliveries[s] <= 1 =>
             /\ OneRun(s)
             /\ \A w \in Runs(s) : step[w] = "load" => status[s] \notin Finished

IInv ==
    /\ TypeOK
    /\ MessageHeld
    /\ FindingsWithinDeliveries
    /\ CancelledWasRequested
    /\ FateIsRequested
    /\ RequestOrder
    /\ RowLocked
    /\ FirstDelivery

=============================================================================
