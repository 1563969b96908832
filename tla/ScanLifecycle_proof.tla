------------------------ MODULE ScanLifecycle_proof ------------------------
(* What ScanLifecycle guarantees for any number of scans, workers and        *)
(* workspaces, any limits, and any set of faults.                            *)
EXTENDS ScanLifecycle, TLAPS, FiniteSetTheorems

\* The variables have their types in the initial state.
LEMMA TypeInit == Init => TypeOK
BY ConstantsAssumption DEF Init, TypeOK, Status, RequestStep, MessageState, ResultState,
    TaskStep, RunStep, BeforeCommit, Fate

\* The start request keeps the types.
LEMMA TypeStart ==
    ASSUME TypeOK, NEW s \in Scans, StartScan(s)
    PROVE  TypeOK'
BY DEF TypeOK, StartScan, StartCheck, StartReject, InsertScan, PublishTask, RecordTaskId,
    StartLost, Advance, Status, RequestStep, MessageState, rowVars, apiVars, msgVars, taskVars

\* A cancellation keeps the types.
LEMMA TypeCancel ==
    ASSUME TypeOK, NEW s \in Scans, CancelScan(s)
    PROVE  TypeOK'
BY DEF TypeOK, CancelScan, CancelMark, CancelCommit, CancelRollback, CancelMiss, BroadcastRevoke,
    Status, rowVars, apiVars, msgVars, taskVars

\* Dropping or redelivering a message keeps the types.
LEMMA TypeBroker ==
    ASSUME TypeOK, NEW s \in Scans, DiscardRevoked(s) \/ Redeliver(s)
    PROVE  TypeOK'
BY ConstantsAssumption DEF TypeOK, DiscardRevoked, Redeliver, StoreResult, MessageState, ResultState,
    rowVars, apiVars, msgVars, taskVars

\* A delivery keeps the types.
LEMMA TypeDeliver ==
    ASSUME TypeOK, NEW w \in Workers, NEW s \in Scans, Deliver(w, s)
    PROVE  TypeOK'
BY ConstantsAssumption DEF TypeOK, Deliver, MessageState, TaskStep, RunStep, BeforeCommit,
    rowVars, apiVars, msgVars, taskVars

\* The job of a worker that is not idle is a scan.
LEMMA JobIsScan ==
    ASSUME TypeOK, NEW w \in Workers, step[w] # "idle"
    PROVE  job[w] \in Scans
BY DEF TypeOK

\* The lines of run_zap_scan keep the types.
LEMMA TypeRun ==
    ASSUME TypeOK, NEW w \in Workers, RunTask(w)
    PROVE  TypeOK'
<1>1. CASE Finish(w)
  BY <1>1, JobIsScan, ConstantsAssumption
     DEF TypeOK, Finish, StoreResult, Release, Idle, MessageState, ResultState, TaskStep, Fate,
         rowVars, apiVars
<1>2. CASE Poll(w)
  <2>1. CASE PollCancelled(w)
    BY <1>2, <2>1, JobIsScan
       DEF TypeOK, PollCancelled, PollFailure, Raise, Progress, StoreResult, ResultState, TaskStep,
           RunStep, Fate, rowVars, apiVars, msgVars
  <2>2. CASE PollError(w)
    BY <1>2, <2>2, JobIsScan
       DEF TypeOK, PollError, PollFailure, Raise, Progress, StoreResult, ResultState, TaskStep,
           RunStep, Fate, rowVars, apiVars, msgVars
  <2>3. CASE PollProgress(w) \/ PollDone(w) \/ PollTimeout(w)
    BY <1>2, <2>3, JobIsScan
       DEF TypeOK, PollProgress, PollDone, PollTimeout, Goto, Raise, Progress, StoreResult,
           ResultState, TaskStep, RunStep, BeforeCommit, Fate, rowVars, apiVars, msgVars
  <2>4. QED BY <1>2, <2>1, <2>2, <2>3 DEF Poll
<1>3. CASE LoadScan(w) \/ CommitFindings(w) \/ MarkFailed(w)
  BY <1>3, JobIsScan
     DEF TypeOK, LoadScan, CommitFindings, MarkFailed, Goto, SetStatus, Progress, StoreResult,
         Status, ResultState, TaskStep, RunStep, BeforeCommit, Fate, rowVars, apiVars, msgVars
<1>4. CASE \/ Authenticate(w) \/ AuthRejected(w) \/ StartZapScan(w) \/ RecordScannerId(w)
           \/ CollectFindings(w) \/ TaskError(w) \/ SoftLimitEndsWait(w) \/ MarkFailedError(w)
  BY <1>4, JobIsScan
     DEF TypeOK, Authenticate, AuthRejected, StartZapScan, RecordScannerId, CollectFindings,
         TaskError, SoftLimitEndsWait, MarkFailedError, Goto, Raise, Progress, StoreResult,
         ResultState, TaskStep, RunStep, BeforeCommit, Fate, rowVars, apiVars, msgVars
<1>5. QED BY <1>1, <1>2, <1>3, <1>4 DEF RunTask

\* The end of a worker process keeps the types.
LEMMA TypeKill ==
    ASSUME TypeOK, NEW w \in Workers, KillTask(w)
    PROVE  TypeOK'
BY JobIsScan, ConstantsAssumption
   DEF TypeOK, KillTask, TerminateRevoked, HardTimeLimit, WorkerLost, Kill, StoreResult, Release,
       Idle, MessageState, ResultState, TaskStep, Fate, rowVars, apiVars, msgVars

\* Every variable keeps its type in every step.
LEMMA TypeNext == TypeOK /\ [Next]_vars => TypeOK'
<1>1. ASSUME TypeOK, UNCHANGED vars PROVE TypeOK'
  BY <1>1 DEF TypeOK, vars, rowVars, apiVars, msgVars, taskVars
<1>2. ASSUME TypeOK, Next PROVE TypeOK'
  BY <1>2, TypeStart, TypeCancel, TypeBroker, TypeDeliver, TypeRun, TypeKill DEF Next
<1>3. QED BY <1>1, <1>2

\* Type correctness, for every value of the constants.
THEOREM TypeCorrect == Spec => []TypeOK
<1>1. QED BY TypeInit, TypeNext, PTL DEF Spec
-----------------------------------------------------------------------------
(* What the steps of a worker leave alone. *)

\* A step of the task body touches no scan but its own and no other worker,
\* never starts a run, and waits for a locked row.
LEMMA RunFrame ==
    ASSUME TypeOK, NEW w \in Workers, RunTask(w)
    PROVE  /\ job[w] \in Scans
           /\ step[w] # "idle"
           /\ UNCHANGED <<taskRecorded, cancelRequested, request, cancelTx, deliveries, revoked>>
           /\ \A s \in Scans : s # job[w] => status'[s] = status[s] /\ findings'[s] = findings[s]
           /\ \A v \in Workers : v # w => job'[v] = job[v] /\ step'[v] = step[v] /\ fate'[v] = fate[v]
           /\ step'[w] # "load"
           /\ job'[w] = IF step'[w] = "idle" THEN NoScan ELSE job[w]
           /\ status'[job[w]] # status[job[w]] => ~cancelTx[job[w]]
<1>1. job[w] \in Scans /\ step[w] # "idle"
  BY DEF TypeOK, RunTask, Poll, LoadScan, Authenticate, AuthRejected, StartZapScan, RecordScannerId,
     PollCancelled, PollError, PollProgress, PollDone, PollTimeout, CollectFindings, CommitFindings,
     TaskError, SoftLimitEndsWait, MarkFailed, MarkFailedError, Finish, Goto, RunStep, BeforeCommit
<1>2. CASE Finish(w)
  BY <1>1, <1>2 DEF TypeOK, Finish, Release, Idle, rowVars, apiVars
<1>3. CASE LoadScan(w) \/ CommitFindings(w) \/ MarkFailed(w)
  BY <1>1, <1>3 DEF TypeOK, LoadScan, CommitFindings, MarkFailed, Goto, SetStatus, apiVars, msgVars
<1>4. CASE Poll(w)
  BY <1>1, <1>4 DEF TypeOK, Poll, PollCancelled, PollError, PollFailure, PollProgress, PollDone,
     PollTimeout, Goto, Raise, rowVars, apiVars, msgVars
<1>5. CASE \/ Authenticate(w) \/ AuthRejected(w) \/ StartZapScan(w) \/ RecordScannerId(w)
           \/ CollectFindings(w) \/ TaskError(w) \/ SoftLimitEndsWait(w) \/ MarkFailedError(w)
  BY <1>1, <1>5 DEF TypeOK, Authenticate, AuthRejected, StartZapScan, RecordScannerId,
     CollectFindings, TaskError, SoftLimitEndsWait, MarkFailedError, Goto, Raise, rowVars, apiVars, msgVars
<1>6. QED BY <1>2, <1>3, <1>4, <1>5 DEF RunTask

\* Killing a worker changes no row.
LEMMA KillFrame ==
    ASSUME TypeOK, NEW w \in Workers, KillTask(w)
    PROVE  /\ job[w] \in Scans
           /\ UNCHANGED <<status, taskRecorded, cancelRequested, findings, request, cancelTx,
                          deliveries, revoked>>
           /\ \A v \in Workers : v # w => job'[v] = job[v] /\ step'[v] = step[v] /\ fate'[v] = fate[v]
           /\ job'[w] = NoScan /\ step'[w] = "idle" /\ fate'[w] = "none"
BY DEF TypeOK, KillTask, TerminateRevoked, HardTimeLimit, WorkerLost, Kill, Release, Idle,
   rowVars, apiVars

\* What the end of a run, or a kill, does to the message it held.
LEMMA MessageFrame ==
    ASSUME TypeOK, NEW w \in Workers, RunTask(w) \/ KillTask(w)
    PROVE  \/ UNCHANGED <<broker, holder>> /\ (job'[w] = job[w] \/ holder[job[w]] # w)
           \/ /\ job[w] \in Scans
              /\ holder[job[w]] = w
              /\ \E m \in {"acked", "queued"} : broker' = [broker EXCEPT ![job[w]] = m]
              /\ holder' = [holder EXCEPT ![job[w]] = NoWorker]
<1>1. CASE KillTask(w)
  BY <1>1, KillFrame DEF KillTask, TerminateRevoked, HardTimeLimit, WorkerLost, Kill, Release
<1>2. CASE Finish(w)
  BY <1>2, RunFrame DEF RunTask, Finish, Release
<1>3. CASE RunTask(w) /\ ~Finish(w)
  BY <1>3 DEF RunTask, Poll, LoadScan, Authenticate, AuthRejected, StartZapScan, RecordScannerId,
     PollCancelled, PollError, PollFailure, PollProgress, PollDone, PollTimeout, CollectFindings,
     CommitFindings, TaskError, SoftLimitEndsWait, MarkFailed, MarkFailedError, msgVars
<1>4. QED BY <1>1, <1>2, <1>3
-----------------------------------------------------------------------------
(* The invariants that need no counting, one lemma each. *)

\* A message is queued, settled, or held by a worker that runs its scan.
LEMMA HeldNext == TypeOK /\ RequestOrder /\ MessageHeld /\ [Next]_vars => MessageHeld'
<1> SUFFICES ASSUME TypeOK, RequestOrder, MessageHeld, [Next]_vars PROVE MessageHeld'
  OBVIOUS
<1>1. ASSUME NEW s \in Scans, StartScan(s) PROVE MessageHeld'
  BY <1>1, ConstantsAssumption DEF TypeOK, MessageHeld, RequestOrder, StartScan, StartCheck, StartReject, InsertScan, PublishTask, RecordTaskId,
     StartLost, Advance, rowVars, apiVars, msgVars, taskVars
<1>2. ASSUME NEW s \in Scans, CancelScan(s) PROVE MessageHeld'
  BY <1>2, ConstantsAssumption DEF TypeOK, MessageHeld, RequestOrder, CancelScan, CancelMark, CancelCommit, CancelRollback, CancelMiss, BroadcastRevoke, rowVars, apiVars, msgVars, taskVars
<1>3. ASSUME NEW s \in Scans, DiscardRevoked(s) \/ Redeliver(s) PROVE MessageHeld'
  BY <1>3, ConstantsAssumption DEF TypeOK, MessageHeld, RequestOrder, DiscardRevoked, Redeliver, rowVars, apiVars, msgVars, taskVars
<1>4. ASSUME NEW w \in Workers, NEW s \in Scans, Deliver(w, s) PROVE MessageHeld'
  BY <1>4, ConstantsAssumption DEF TypeOK, MessageHeld, RequestOrder, Deliver, rowVars, apiVars, msgVars, taskVars
<1>5. ASSUME NEW w \in Workers, RunTask(w) PROVE MessageHeld'
  BY <1>5, RunFrame, MessageFrame, ConstantsAssumption DEF TypeOK, MessageHeld, RequestOrder
<1>6. ASSUME NEW w \in Workers, KillTask(w) PROVE MessageHeld'
  BY <1>6, KillFrame, MessageFrame, ConstantsAssumption DEF TypeOK, MessageHeld, RequestOrder
<1>7. CASE UNCHANGED vars
  BY <1>7 DEF MessageHeld, RequestOrder, vars, rowVars, apiVars, msgVars, taskVars
<1>8. QED BY <1>1, <1>2, <1>3, <1>4, <1>5, <1>6, <1>7 DEF Next

\* Every writer of Scan.status waits for the row lock.
LEMMA LockedNext == TypeOK /\ RequestOrder /\ RowLocked /\ [Next]_vars => RowLocked'
<1> SUFFICES ASSUME TypeOK, RequestOrder, RowLocked, [Next]_vars PROVE RowLocked'
  OBVIOUS
<1>1. ASSUME NEW s \in Scans, StartScan(s) PROVE RowLocked'
  BY <1>1 DEF TypeOK, RowLocked, RequestOrder, ActiveStatus, StartScan, StartCheck, StartReject, InsertScan, PublishTask, RecordTaskId,
     StartLost, Advance, rowVars, apiVars, msgVars, taskVars
<1>2. ASSUME NEW s \in Scans, CancelScan(s) PROVE RowLocked'
  BY <1>2 DEF TypeOK, RowLocked, RequestOrder, ActiveStatus, CancelScan, CancelMark, CancelCommit, CancelRollback, CancelMiss, BroadcastRevoke, rowVars, apiVars, msgVars, taskVars
<1>3. ASSUME NEW s \in Scans, DiscardRevoked(s) \/ Redeliver(s) PROVE RowLocked'
  BY <1>3 DEF TypeOK, RowLocked, RequestOrder, ActiveStatus, DiscardRevoked, Redeliver, rowVars, apiVars, msgVars, taskVars
<1>4. ASSUME NEW w \in Workers, NEW s \in Scans, Deliver(w, s) PROVE RowLocked'
  BY <1>4 DEF TypeOK, RowLocked, RequestOrder, ActiveStatus, Deliver, rowVars, apiVars, msgVars, taskVars
<1>5. ASSUME NEW w \in Workers, RunTask(w) PROVE RowLocked'
  BY <1>5, RunFrame, MessageFrame DEF TypeOK, RowLocked, RequestOrder, ActiveStatus
<1>6. ASSUME NEW w \in Workers, KillTask(w) PROVE RowLocked'
  BY <1>6, KillFrame, MessageFrame DEF TypeOK, RowLocked, RequestOrder, ActiveStatus
<1>7. CASE UNCHANGED vars
  BY <1>7 DEF RowLocked, RequestOrder, ActiveStatus, vars, rowVars, apiVars, msgVars, taskVars
<1>8. QED BY <1>1, <1>2, <1>3, <1>4, <1>5, <1>6, <1>7 DEF Next

\* The request inserts, then publishes; nothing else creates a row or a message.
LEMMA OrderNext == TypeOK /\ RequestOrder /\ RowLocked /\ FirstDelivery /\ [Next]_vars => RequestOrder'
<1> SUFFICES ASSUME TypeOK, RequestOrder, RowLocked, FirstDelivery, [Next]_vars PROVE RequestOrder'
  OBVIOUS
<1>1. ASSUME NEW s \in Scans, StartScan(s) PROVE RequestOrder'
  BY <1>1 DEF TypeOK, RequestOrder, RowLocked, ActiveStatus, FirstDelivery, Runs, StartScan, StartCheck, StartReject, InsertScan, PublishTask, RecordTaskId,
     StartLost, Advance, rowVars, apiVars, msgVars, taskVars
<1>2. ASSUME NEW s \in Scans, CancelScan(s) PROVE RequestOrder'
  BY <1>2 DEF TypeOK, RequestOrder, RowLocked, ActiveStatus, FirstDelivery, Runs, CancelScan, CancelMark, CancelCommit, CancelRollback, CancelMiss, BroadcastRevoke, rowVars, apiVars, msgVars, taskVars
<1>3. ASSUME NEW s \in Scans, DiscardRevoked(s) \/ Redeliver(s) PROVE RequestOrder'
  BY <1>3 DEF TypeOK, RequestOrder, RowLocked, ActiveStatus, FirstDelivery, Runs, DiscardRevoked, Redeliver, rowVars, apiVars, msgVars, taskVars
<1>4. ASSUME NEW w \in Workers, NEW s \in Scans, Deliver(w, s) PROVE RequestOrder'
  BY <1>4 DEF TypeOK, RequestOrder, RowLocked, ActiveStatus, FirstDelivery, Runs, Deliver, rowVars, apiVars, msgVars, taskVars
<1>5. ASSUME NEW w \in Workers, RunTask(w) PROVE RequestOrder'
  BY <1>5, RunFrame, MessageFrame DEF TypeOK, RequestOrder, RowLocked, ActiveStatus, FirstDelivery, Runs
<1>6. ASSUME NEW w \in Workers, KillTask(w) PROVE RequestOrder'
  BY <1>6, KillFrame, MessageFrame DEF TypeOK, RequestOrder, RowLocked, ActiveStatus, FirstDelivery, Runs
<1>7. CASE UNCHANGED vars
  BY <1>7 DEF RequestOrder, RowLocked, ActiveStatus, FirstDelivery, Runs, vars, rowVars, apiVars, msgVars, taskVars
<1>8. QED BY <1>1, <1>2, <1>3, <1>4, <1>5, <1>6, <1>7 DEF Next

\* A scan delivered once has one run, and loads before it finishes.
LEMMA FirstNext == TypeOK /\ RequestOrder /\ RowLocked /\ FirstDelivery /\ [Next]_vars => FirstDelivery'
<1> SUFFICES ASSUME TypeOK, RequestOrder, RowLocked, FirstDelivery, [Next]_vars PROVE FirstDelivery'
  OBVIOUS
<1>1. ASSUME NEW s \in Scans, StartScan(s) PROVE FirstDelivery'
  BY <1>1 DEF TypeOK, RequestOrder, RowLocked, ActiveStatus, FirstDelivery, OneRun, Runs, Finished, StartScan, StartCheck, StartReject, InsertScan, PublishTask, RecordTaskId,
     StartLost, Advance, rowVars, apiVars, msgVars, taskVars
<1>2. ASSUME NEW s \in Scans, CancelScan(s) PROVE FirstDelivery'
  BY <1>2 DEF TypeOK, RequestOrder, RowLocked, ActiveStatus, FirstDelivery, OneRun, Runs, Finished, CancelScan, CancelMark, CancelCommit, CancelRollback, CancelMiss, BroadcastRevoke, rowVars, apiVars, msgVars, taskVars
<1>3. ASSUME NEW s \in Scans, DiscardRevoked(s) \/ Redeliver(s) PROVE FirstDelivery'
  BY <1>3 DEF TypeOK, RequestOrder, RowLocked, ActiveStatus, FirstDelivery, OneRun, Runs, Finished, DiscardRevoked, Redeliver, rowVars, apiVars, msgVars, taskVars
<1>4. ASSUME NEW w \in Workers, NEW s \in Scans, Deliver(w, s) PROVE FirstDelivery'
  <2>1. /\ step[w] = "idle" /\ job[w] = NoScan
        /\ status' = status
        /\ deliveries' = [deliveries EXCEPT ![s] = @ + 1]
        /\ job' = [job EXCEPT ![w] = s]
        /\ step' = [step EXCEPT ![w] = "load"]
    BY <1>4 DEF TypeOK, Deliver, rowVars
  <2>2. SUFFICES ASSUME NEW t \in Scans
                 PROVE  /\ deliveries'[t] = 0 => Runs(t)' = {} /\ status'[t] \notin Finished
                        /\ deliveries'[t] <= 1 =>
                             /\ OneRun(t)'
                             /\ \A v \in Runs(t)' : step'[v] = "load" => status'[t] \notin Finished
    BY <2>2 DEF FirstDelivery
  <2>3. CASE t # s
    <3>1. Runs(t)' = Runs(t) /\ \A v \in Runs(t) : step'[v] = step[v]
      BY <2>1, <2>3, ConstantsAssumption DEF TypeOK, Runs
    <3>2. QED BY <2>1, <2>3, <3>1 DEF FirstDelivery, OneRun, TypeOK
  <2>4. CASE t = s
    <3>1. deliveries'[s] # 0 /\ (deliveries'[s] <= 1 => deliveries[s] = 0)
      BY <2>1 DEF TypeOK
    <3>2. deliveries[s] = 0 => Runs(s)' = {w} /\ status'[s] \notin Finished
      BY <2>1 DEF TypeOK, Runs, FirstDelivery
    <3>3. QED BY <2>4, <3>1, <3>2 DEF OneRun
  <2>5. QED BY <2>3, <2>4
<1>5. ASSUME NEW w \in Workers, RunTask(w) \/ KillTask(w) PROVE FirstDelivery'
  <2>1. /\ job[w] \in Scans
        /\ deliveries' = deliveries
        /\ \A s \in Scans : s # job[w] => status'[s] = status[s]
        /\ \A v \in Workers : v # w => job'[v] = job[v] /\ step'[v] = step[v]
        /\ job'[w] \in {job[w], NoScan} /\ step'[w] # "load"
    BY <1>5, RunFrame, KillFrame
  <2>2. SUFFICES ASSUME NEW t \in Scans
                 PROVE  /\ deliveries[t] = 0 => Runs(t)' = {} /\ status'[t] \notin Finished
                        /\ deliveries[t] <= 1 =>
                             /\ OneRun(t)'
                             /\ \A v \in Runs(t)' : step'[v] = "load" => status'[t] \notin Finished
    BY <2>1, <2>2 DEF FirstDelivery
  <2>3. CASE t # job[w]
    <3>1. Runs(t)' = Runs(t) /\ \A v \in Runs(t) : step'[v] = step[v]
      BY <2>1, <2>3, ConstantsAssumption DEF TypeOK, Runs
    <3>2. QED BY <2>1, <2>3, <3>1 DEF FirstDelivery, OneRun
  <2>4. CASE t = job[w]
    <3>1. w \in Runs(t) /\ Runs(t)' \subseteq Runs(t)
      BY <2>1, <2>4, ConstantsAssumption DEF Runs
    <3>2. deliveries[t] # 0
      BY <3>1 DEF FirstDelivery
    <3>3. deliveries[t] <= 1 => Runs(t)' \subseteq {w}
      BY <3>1 DEF FirstDelivery, OneRun
    <3>4. QED BY <2>1, <3>2, <3>3 DEF OneRun
  <2>5. QED BY <2>3, <2>4
<1>7. CASE UNCHANGED vars
  BY <1>7 DEF RequestOrder, RowLocked, ActiveStatus, FirstDelivery, OneRun, Runs, Finished, vars, rowVars, apiVars, msgVars, taskVars
<1>8. QED BY <1>1, <1>2, <1>3, <1>4, <1>5, <1>7 DEF Next
\* Only a poll that read "cancelling" or "cancelled" makes the exception
\* handler write "cancelled".
LEMMA FateNext ==
    TypeOK /\ CancelledWasRequested /\ FateIsRequested /\ [Next]_vars => FateIsRequested'
<1> SUFFICES ASSUME TypeOK, CancelledWasRequested, FateIsRequested, [Next]_vars
             PROVE  FateIsRequested'
  OBVIOUS
<1>1. ASSUME NEW s \in Scans, StartScan(s) \/ CancelScan(s) \/ DiscardRevoked(s) \/ Redeliver(s)
      PROVE  FateIsRequested'
  <2>1. UNCHANGED taskVars /\ \A t \in Scans : cancelRequested[t] => cancelRequested'[t]
    BY <1>1 DEF TypeOK, StartScan, StartCheck, StartReject, InsertScan, PublishTask, RecordTaskId,
       StartLost, CancelScan, CancelMark, CancelCommit, CancelRollback, CancelMiss, DiscardRevoked,
       Redeliver, rowVars
  <2>2. QED BY <2>1 DEF FateIsRequested, taskVars
<1>2. ASSUME NEW w \in Workers, NEW s \in Scans, Deliver(w, s) PROVE FateIsRequested'
  <2>1. fate[w] # "cancelled"
    BY <1>2, ConstantsAssumption DEF TypeOK, Deliver, FateIsRequested
  <2>2. /\ fate' = fate /\ cancelRequested' = cancelRequested
        /\ \A v \in Workers : v # w => job'[v] = job[v]
    BY <1>2 DEF TypeOK, Deliver, rowVars
  <2>3. QED BY <2>1, <2>2 DEF FateIsRequested
<1>3. ASSUME NEW w \in Workers, RunTask(w) PROVE FateIsRequested'
  <2>1. fate'[w] = "cancelled" =>
          /\ job'[w] = job[w]
          /\ fate[w] = "cancelled" \/ status[job[w]] \in CancelStatus
    BY <1>3, RunFrame DEF TypeOK, RunTask, Poll, LoadScan, Authenticate, AuthRejected, StartZapScan,
       RecordScannerId, PollCancelled, PollError, PollFailure, PollProgress, PollDone, PollTimeout,
       CollectFindings, CommitFindings, TaskError, SoftLimitEndsWait, MarkFailed, MarkFailedError, Finish, Release,
       Idle, Raise, ScanCancelled
  <2>2. QED BY <1>3, <2>1, RunFrame DEF FateIsRequested, CancelledWasRequested
<1>4. ASSUME NEW w \in Workers, KillTask(w) PROVE FateIsRequested'
  BY <1>4, KillFrame DEF FateIsRequested
<1>5. CASE UNCHANGED vars
  BY <1>5 DEF FateIsRequested, vars, rowVars, taskVars
<1>6. QED BY <1>1, <1>2, <1>3, <1>4, <1>5 DEF Next

\* No step writes "cancelled" without a committed cancellation.
LEMMA CancelledNext ==
    TypeOK /\ CancelledWasRequested /\ FateIsRequested /\ [Next]_vars => CancelledWasRequested'
<1> SUFFICES ASSUME TypeOK, CancelledWasRequested, FateIsRequested, [Next]_vars
             PROVE  CancelledWasRequested'
  OBVIOUS
<1> USE DEF CancelledWasRequested, CancelStatus
<1>1. ASSUME NEW s \in Scans, StartScan(s) PROVE CancelledWasRequested'
  BY <1>1 DEF TypeOK, StartScan, StartCheck, StartReject, InsertScan, PublishTask, RecordTaskId,
     StartLost, rowVars
<1>2. ASSUME NEW s \in Scans, CancelScan(s) PROVE CancelledWasRequested'
  BY <1>2 DEF TypeOK, CancelScan, CancelMark, CancelCommit, CancelRollback, CancelMiss, rowVars
<1>3. ASSUME NEW s \in Scans, DiscardRevoked(s) \/ Redeliver(s) PROVE CancelledWasRequested'
  BY <1>3 DEF DiscardRevoked, Redeliver, rowVars
<1>4. ASSUME NEW w \in Workers, NEW s \in Scans, Deliver(w, s) PROVE CancelledWasRequested'
  BY <1>4 DEF Deliver, rowVars
<1>5. ASSUME NEW w \in Workers, RunTask(w) PROVE CancelledWasRequested'
  <2>1. status'[job[w]] \in CancelStatus =>
          status[job[w]] \in CancelStatus \/ fate[w] = "cancelled"
    BY <1>5, RunFrame DEF TypeOK, RunTask, Poll, LoadScan, Authenticate, AuthRejected, StartZapScan,
       RecordScannerId, PollCancelled, PollError, PollFailure, PollProgress, PollDone, PollTimeout,
       CollectFindings, CommitFindings, TaskError, SoftLimitEndsWait, MarkFailed, MarkFailedError, Finish, SetStatus,
       rowVars, Fate
  <2>2. QED BY <1>5, <2>1, RunFrame DEF FateIsRequested
<1>6. ASSUME NEW w \in Workers, KillTask(w) PROVE CancelledWasRequested'
  BY <1>6, KillFrame
<1>7. CASE UNCHANGED vars
  BY <1>7 DEF vars, rowVars
<1>8. QED BY <1>1, <1>2, <1>3, <1>4, <1>5, <1>6, <1>7 DEF Next
-----------------------------------------------------------------------------
(* Findings against deliveries: a run adds to the findings only by leaving   *)
(* the set of unfinished runs, and enters it only by a delivery.             *)

\* A scan has finitely many runs.
LEMMA UnfinishedFinite == \A s : IsFiniteSet(Unfinished(s)) /\ Cardinality(Unfinished(s)) \in Nat
<1> TAKE s
<1>1. Unfinished(s) \subseteq Workers
  BY DEF Unfinished, Runs
<1>2. QED BY <1>1, FiniteAssumption, FS_Subset, FS_CardinalityType

\* The run that commits leaves the unfinished runs, and no step of a run adds one.
LEMMA RunUnfinished ==
    ASSUME TypeOK, NEW w \in Workers, RunTask(w) \/ KillTask(w), NEW s \in Scans
    PROVE  \/ findings'[s] = findings[s] /\ Unfinished(s)' \subseteq Unfinished(s)
           \/ /\ findings'[s] = findings[s] + 1
              /\ w \in Unfinished(s)
              /\ Unfinished(s)' = Unfinished(s) \ {w}
<1>1. \A v \in Workers : v # w => job'[v] = job[v] /\ step'[v] = step[v]
  BY RunFrame, KillFrame
<1>2. CASE KillTask(w)
  BY <1>1, <1>2, KillFrame, ConstantsAssumption DEF Unfinished, Runs
<1>3. CASE CommitFindings(w)
  <2>1. /\ step[w] = "commit" /\ step'[w] = "return" /\ job'[w] = job[w] /\ job[w] \in Scans
        /\ findings' = [findings EXCEPT ![job[w]] = @ + 1]
    BY <1>3 DEF TypeOK, CommitFindings, Goto
  <2>2. CASE s = job[w]
    <3>1. w \in Unfinished(s) /\ w \notin Unfinished(s)'
      BY <2>1, <2>2 DEF Unfinished, Runs, BeforeCommit
    <3>2. \A v \in Workers : v # w => (v \in Unfinished(s)' <=> v \in Unfinished(s))
      BY <1>1 DEF Unfinished, Runs
    <3>3. Unfinished(s) \subseteq Workers /\ Unfinished(s)' \subseteq Workers
      BY DEF Unfinished, Runs
    <3>4. Unfinished(s)' = Unfinished(s) \ {w}
      BY <3>1, <3>2, <3>3
    <3>5. QED BY <2>1, <2>2, <3>1, <3>4 DEF TypeOK
  <2>3. CASE s # job[w]
    BY <1>1, <2>1, <2>3 DEF TypeOK, Unfinished, Runs
  <2>4. QED BY <2>2, <2>3
<1>4. CASE RunTask(w) /\ ~CommitFindings(w)
  <2>1. findings' = findings
    BY <1>4 DEF RunTask, Poll, LoadScan, Authenticate, AuthRejected, StartZapScan, RecordScannerId,
       PollCancelled, PollError, PollFailure, PollProgress, PollDone, PollTimeout, CollectFindings,
       TaskError, SoftLimitEndsWait, MarkFailed, MarkFailedError, Finish, rowVars
  <2>2. step'[w] \in BeforeCommit => step[w] \in BeforeCommit
    BY <1>4 DEF TypeOK, RunTask, Poll, LoadScan, Authenticate, AuthRejected, StartZapScan,
       RecordScannerId, PollCancelled, PollError, PollFailure, PollProgress, PollDone, PollTimeout,
       CollectFindings, TaskError, SoftLimitEndsWait, MarkFailed, MarkFailedError, Finish, Release, Idle, Raise, Goto,
       BeforeCommit
  <2>3. job'[w] \in {job[w], NoScan}
    BY <1>4, RunFrame
  <2>4. QED BY <1>1, <2>1, <2>2, <2>3, ConstantsAssumption DEF Unfinished, Runs
<1>5. QED BY <1>2, <1>3, <1>4

\* What a delivery lets a run commit is accounted for from the delivery on.
LEMMA FindingsNext ==
    TypeOK /\ FindingsWithinDeliveries /\ [Next]_vars => FindingsWithinDeliveries'
<1> SUFFICES ASSUME TypeOK, FindingsWithinDeliveries, [Next]_vars, NEW t \in Scans
             PROVE  findings'[t] + Cardinality(Unfinished(t)') <= deliveries'[t]
  BY DEF FindingsWithinDeliveries
<1>0. /\ findings[t] + Cardinality(Unfinished(t)) <= deliveries[t]
      /\ findings[t] \in Nat /\ deliveries[t] \in Nat /\ Cardinality(Unfinished(t)) \in Nat
  BY UnfinishedFinite DEF FindingsWithinDeliveries, TypeOK
<1>1. CASE UNCHANGED <<findings, deliveries, step, job>>
  <2>1. Unfinished(t)' = Unfinished(t)
    BY <1>1 DEF Unfinished, Runs
  <2>2. QED BY <1>0, <1>1, <2>1
<1>2. ASSUME NEW w \in Workers, NEW s \in Scans, Deliver(w, s)
      PROVE  findings'[t] + Cardinality(Unfinished(t)') <= deliveries'[t]
  <2>1. /\ findings' = findings
        /\ deliveries' = [deliveries EXCEPT ![s] = @ + 1]
        /\ step[w] = "idle"
        /\ \A v \in Workers : v # w => job'[v] = job[v] /\ step'[v] = step[v]
        /\ job'[w] = s
    BY <1>2 DEF TypeOK, Deliver, rowVars
  <2>2. CASE t = s
    <3>1. Unfinished(t)' \subseteq Unfinished(t) \cup {w}
      BY <2>1 DEF Unfinished, Runs
    <3>a. IsFiniteSet(Unfinished(t))
      BY UnfinishedFinite
    <3>b. /\ IsFiniteSet(Unfinished(t) \cup {w})
          /\ Cardinality(Unfinished(t) \cup {w})
               = IF w \in Unfinished(t) THEN Cardinality(Unfinished(t))
                 ELSE Cardinality(Unfinished(t)) + 1
      BY <3>a, FS_AddElement, Zenon
    <3>2. Cardinality(Unfinished(t) \cup {w}) <= Cardinality(Unfinished(t)) + 1
          /\ IsFiniteSet(Unfinished(t) \cup {w})
      BY <1>0, <3>b
    <3>3. Cardinality(Unfinished(t)') \in Nat /\ Cardinality(Unfinished(t) \cup {w}) \in Nat
          /\ Cardinality(Unfinished(t)') <= Cardinality(Unfinished(t) \cup {w})
      BY <3>1, <3>2, FS_Subset, FS_CardinalityType
    <3>4. deliveries'[t] = deliveries[t] + 1
      BY <2>1, <2>2 DEF TypeOK
    <3>5. QED BY <1>0, <2>1, <3>2, <3>3, <3>4
  <2>3. CASE t # s
    <3>1. Unfinished(t)' = Unfinished(t)
      BY <2>1, <2>3 DEF TypeOK, Unfinished, Runs, BeforeCommit
    <3>2. QED BY <1>0, <2>1, <2>3, <3>1 DEF TypeOK
  <2>4. QED BY <2>2, <2>3
<1>3. ASSUME NEW w \in Workers, RunTask(w) \/ KillTask(w)
      PROVE  findings'[t] + Cardinality(Unfinished(t)') <= deliveries'[t]
  <2>1. deliveries' = deliveries
    BY <1>3, RunFrame, KillFrame
  <2>2. CASE findings'[t] = findings[t] /\ Unfinished(t)' \subseteq Unfinished(t)
    <3>1. Cardinality(Unfinished(t)') \in Nat
          /\ Cardinality(Unfinished(t)') <= Cardinality(Unfinished(t))
      BY <2>2, UnfinishedFinite, FS_Subset, FS_CardinalityType
    <3>2. QED BY <1>0, <2>1, <2>2, <3>1
  <2>3. CASE /\ findings'[t] = findings[t] + 1
             /\ w \in Unfinished(t)
             /\ Unfinished(t)' = Unfinished(t) \ {w}
    <3>1. Cardinality(Unfinished(t)') = Cardinality(Unfinished(t)) - 1
      BY <2>3, UnfinishedFinite, FS_RemoveElement
    <3>2. QED BY <1>0, <2>1, <2>3, <3>1
  <2>4. QED BY <1>3, <2>2, <2>3, RunUnfinished
<1>4. ASSUME NEW s \in Scans, StartScan(s) \/ CancelScan(s) \/ DiscardRevoked(s) \/ Redeliver(s)
      PROVE  UNCHANGED <<findings, deliveries, step, job>>
  BY <1>4 DEF StartScan, StartCheck, StartReject, InsertScan, PublishTask, RecordTaskId, StartLost,
     CancelScan, CancelMark, CancelCommit, CancelRollback, CancelMiss, DiscardRevoked, Redeliver,
     rowVars, msgVars, taskVars
<1>5. CASE UNCHANGED vars
  BY <1>1, <1>5 DEF vars, rowVars, msgVars, taskVars
<1>6. QED BY <1>1, <1>2, <1>3, <1>4, <1>5 DEF Next

-----------------------------------------------------------------------------
(* The inductive invariant and what follows from it. *)

\* The inductive invariant holds initially.
LEMMA InitIInv == Init => IInv
<1> SUFFICES ASSUME Init PROVE IInv
  OBVIOUS
<1>1. TypeOK
  BY TypeInit
<1>2. \A s \in Scans : Runs(s) = {} /\ Unfinished(s) = {}
  BY ConstantsAssumption DEF Init, Runs, Unfinished
<1>3. FindingsWithinDeliveries
  <2>1. \A s \in Scans : Cardinality(Unfinished(s)) = 0
    BY <1>2, FS_EmptySet, Zenon
  <2>2. QED BY <2>1 DEF Init, FindingsWithinDeliveries
<1>4. FirstDelivery
  BY <1>2 DEF Init, FirstDelivery, OneRun, Finished
<1>5. MessageHeld /\ CancelledWasRequested /\ FateIsRequested /\ RequestOrder /\ RowLocked
  BY DEF Init, MessageHeld, CancelledWasRequested, CancelStatus, FateIsRequested, RequestOrder,
     RowLocked
<1>6. QED BY <1>1, <1>3, <1>4, <1>5 DEF IInv

\* Every step preserves the inductive invariant.
LEMMA NextIInv == IInv /\ [Next]_vars => IInv'
BY TypeNext, HeldNext, FindingsNext, CancelledNext, FateNext, OrderNext, LockedNext, FirstNext
   DEF IInv

\* The inductive invariant holds in every reachable state.
THEOREM Invariance == Spec => []IInv
BY InitIInv, NextIInv, PTL DEF Spec

\* No crash, kill or redelivery strands a message.
THEOREM NoMessageStranded == Spec => []MessageHeld
<1>1. IInv => MessageHeld
  BY DEF IInv
<1>2. QED BY <1>1, Invariance, PTL

\* The findings of a scan are committed at most once per delivery.
THEOREM FindingsBounded == Spec => []FindingsWithinDeliveries
<1>1. IInv => FindingsWithinDeliveries
  BY DEF IInv
<1>2. QED BY <1>1, Invariance, PTL

\* A scan is cancelled only if a client asked for it.
THEOREM CancelledOnRequest == Spec => []CancelledWasRequested
<1>1. IInv => CancelledWasRequested
  BY DEF IInv
<1>2. QED BY <1>1, Invariance, PTL
\* No step of a single run makes a finished scan active again.
THEOREM NoReopening == Spec => OnlyRedeliveryReopens
<1> DEFINE Reopens == \E s \in Scans : /\ status[s] \in Finished /\ status'[s] \in ActiveStatus
                                      /\ ~(deliveries[s] > 1)
<1>1. IInv /\ [Next]_vars => [~Reopens]_vars
  <2> SUFFICES ASSUME IInv, Next, NEW s \in Scans, status[s] \in Finished,
                      status'[s] \in ActiveStatus
               PROVE  deliveries[s] > 1
    OBVIOUS
  <2>0. TypeOK
    BY DEF IInv
  <2>1. ASSUME NEW t \in Scans, StartScan(t) PROVE FALSE
    BY <2>0, <2>1 DEF IInv, RequestOrder, TypeOK, StartScan, StartCheck, StartReject, InsertScan,
       PublishTask, RecordTaskId, StartLost, Advance, rowVars, Finished, ActiveStatus
  <2>2. ASSUME NEW t \in Scans, CancelScan(t) PROVE FALSE
    BY <2>0, <2>2 DEF TypeOK, CancelScan, CancelMark, CancelCommit, CancelRollback, CancelMiss,
       rowVars, Finished, ActiveStatus
  <2>3. ASSUME NEW t \in Scans, DiscardRevoked(t) \/ Redeliver(t) PROVE FALSE
    BY <2>3 DEF DiscardRevoked, Redeliver, rowVars, Finished, ActiveStatus
  <2>4. ASSUME NEW w \in Workers, NEW t \in Scans, Deliver(w, t) PROVE FALSE
    BY <2>4 DEF Deliver, rowVars, Finished, ActiveStatus
  <2>5. ASSUME NEW w \in Workers, KillTask(w) PROVE FALSE
    BY <2>0, <2>5, KillFrame DEF Finished, ActiveStatus
  <2>6. ASSUME NEW w \in Workers, RunTask(w) PROVE deliveries[s] > 1
    <3>1. s = job[w] /\ w \in Runs(s)
      BY <2>0, <2>6, RunFrame DEF Finished, ActiveStatus, Runs
    <3>2. step[w] = "load"
      BY <2>0, <2>6, <3>1 DEF TypeOK, RunTask, Poll, LoadScan, Authenticate, AuthRejected,
         StartZapScan, RecordScannerId, PollCancelled, PollError, PollFailure, PollProgress, PollDone,
         PollTimeout, CollectFindings, CommitFindings, TaskError, SoftLimitEndsWait, MarkFailed, MarkFailedError, Finish,
         Goto, SetStatus, rowVars, Fate, Finished, ActiveStatus
    <3>3. ~(deliveries[s] <= 1) /\ deliveries[s] \in Nat
      BY <2>0, <3>1, <3>2 DEF IInv, FirstDelivery, TypeOK
    <3>4. QED BY <3>3
  <2>7. QED BY <2>1, <2>2, <2>3, <2>4, <2>5, <2>6 DEF Next
<1>2. [~Reopens]_vars
        => [\A s \in Scans :
              status[s] \in Finished /\ status'[s] \in ActiveStatus => deliveries[s] > 1]_vars
  OBVIOUS
<1>3. QED BY <1>1, <1>2, Invariance, PTL DEF Spec, OnlyRedeliveryReopens
-----------------------------------------------------------------------------
(* A cancellation committed in time is honoured. *)

\* From such a cancellation on, until another delivery: the only run is not
\* where it could complete the scan, and once it has marked its failure it is
\* about to end.
Honoured(s, d) ==
    \/ deliveries[s] > d
    \/ /\ deliveries[s] = d
       /\ request[s] \notin {"new", "checked"}
       /\ OneRun(s)
       /\ \A w \in Runs(s) : step[w] \notin {"load", "collect", "commit"}
       /\ \/ status[s] = "cancelling"
          \/ status[s] \in Fate /\ \A w \in Runs(s) : step[w] = "raise"

\* A cancellation that is honoured stays so until the next delivery.
LEMMA HonouredNext ==
    ASSUME NEW s \in Scans, NEW d \in Nat, IInv, Honoured(s, d), [Next]_vars
    PROVE  Honoured(s, d)'
<1>0. TypeOK /\ RequestOrder /\ RowLocked /\ deliveries[s] \in Nat
  BY DEF IInv, TypeOK
<1>1. ASSUME UNCHANGED <<status, deliveries, step, job>>,
             request'[s] \in {"new", "checked"} => request[s] \in {"new", "checked"}
      PROVE  Honoured(s, d)'
  BY <1>1 DEF Honoured, OneRun, Runs
<1>2. ASSUME NEW t \in Scans, StartScan(t) PROVE Honoured(s, d)'
  <2>1. CASE InsertScan(t)
    <3>1. t # s \/ deliveries[s] > d
      BY <1>0, <2>1 DEF Honoured, InsertScan, Advance
    <3>2. UNCHANGED <<deliveries, step, job>> /\ (t # s => status'[s] = status[s])
          /\ (request'[s] \in {"new", "checked"} => request[s] \in {"new", "checked"})
      BY <1>0, <2>1 DEF TypeOK, InsertScan, Advance, msgVars, taskVars
    <3>3. QED BY <3>1, <3>2 DEF Honoured, OneRun, Runs
  <2>2. CASE ~InsertScan(t)
    <3>1. UNCHANGED <<status, deliveries, step, job>>
      BY <1>2, <2>2 DEF StartScan, StartCheck, StartReject, PublishTask, RecordTaskId, StartLost,
         rowVars, msgVars, taskVars
    <3>2. request'[s] \in {"new", "checked"} => request[s] \in {"new", "checked"}
      BY <1>0, <1>2 DEF TypeOK, StartScan, StartCheck, StartReject, InsertScan, PublishTask,
         RecordTaskId, StartLost, Advance
    <3>3. QED BY <1>1, <3>1, <3>2
  <2>3. QED BY <2>1, <2>2
<1>3. ASSUME NEW t \in Scans, CancelScan(t) PROVE Honoured(s, d)'
  <2>1. UNCHANGED <<request, deliveries, step, job>> /\ (t # s => status'[s] = status[s])
    BY <1>0, <1>3 DEF TypeOK, CancelScan, CancelMark, CancelCommit, CancelRollback, CancelMiss,
       rowVars, apiVars, msgVars, taskVars
  <2>2. CASE CancelCommit(t) /\ t = s
    <3>1. status[s] \in ActiveStatus
      BY <1>0, <2>2 DEF CancelCommit, RowLocked
    <3>2. deliveries[s] > d
      BY <3>1 DEF Honoured, ActiveStatus, Fate
    <3>3. QED BY <2>1, <3>2 DEF Honoured
  <2>3. CASE ~(CancelCommit(t) /\ t = s)
    <3>1. status'[s] = status[s]
      BY <1>0, <1>3, <2>1, <2>3 DEF CancelScan, CancelMark, CancelRollback, CancelMiss, rowVars
    <3>2. QED BY <2>1, <3>1 DEF Honoured, OneRun, Runs
  <2>4. QED BY <2>2, <2>3
<1>4. ASSUME NEW t \in Scans, DiscardRevoked(t) \/ Redeliver(t) PROVE Honoured(s, d)'
  BY <1>1, <1>4 DEF DiscardRevoked, Redeliver, rowVars, apiVars, taskVars
<1>5. ASSUME NEW w \in Workers, NEW t \in Scans, Deliver(w, t) PROVE Honoured(s, d)'
  <2>1. /\ UNCHANGED <<status, request>>
        /\ deliveries' = [deliveries EXCEPT ![t] = @ + 1]
        /\ \A v \in Workers : v # w => job'[v] = job[v] /\ step'[v] = step[v]
        /\ job[w] = NoScan /\ job'[w] = t
    BY <1>0, <1>5 DEF TypeOK, Deliver, rowVars, apiVars
  <2>2. CASE t = s
    BY <1>0, <2>1, <2>2 DEF Honoured, TypeOK
  <2>3. CASE t # s
    <3>1. Runs(s)' = Runs(s) /\ \A v \in Runs(s) : step'[v] = step[v]
      BY <2>1, <2>3, ConstantsAssumption DEF Runs
    <3>2. deliveries'[s] = deliveries[s]
      BY <1>0, <2>1, <2>3 DEF TypeOK
    <3>3. QED BY <2>1, <3>1, <3>2 DEF Honoured, OneRun
  <2>4. QED BY <2>2, <2>3
<1>6. ASSUME NEW w \in Workers, RunTask(w) \/ KillTask(w) PROVE Honoured(s, d)'
  <2>1. /\ UNCHANGED <<request, deliveries>>
        /\ s # job[w] => status'[s] = status[s]
        /\ \A v \in Workers : v # w => job'[v] = job[v] /\ step'[v] = step[v]
        /\ job'[w] \in {job[w], NoScan}
    BY <1>0, <1>6, RunFrame, KillFrame
  <2>2. CASE deliveries[s] > d
    BY <2>1, <2>2 DEF Honoured
  <2>3. CASE ~(deliveries[s] > d) /\ s # job[w]
    <3>1. Runs(s)' = Runs(s) /\ \A v \in Runs(s) : step'[v] = step[v]
      BY <2>1, <2>3, ConstantsAssumption DEF Runs
    <3>2. QED BY <2>1, <2>3, <3>1 DEF Honoured, OneRun
  <2>4. CASE ~(deliveries[s] > d) /\ s = job[w] /\ KillTask(w)
    <3>1. Runs(s)' = {} /\ status' = status
      BY <1>0, <2>1, <2>4, KillFrame, ConstantsAssumption DEF Honoured, OneRun, Runs
    <3>2. QED BY <2>1, <2>4, <3>1 DEF Honoured, OneRun
  <2>5. CASE ~(deliveries[s] > d) /\ s = job[w] /\ RunTask(w)
    <3>1. /\ w \in Runs(s)
          /\ step[w] \notin {"load", "collect", "commit"}
          /\ status[s] = "cancelling" \/ (status[s] \in Fate /\ step[w] = "raise")
      BY <2>5 DEF Honoured, Runs
    <3>2. Runs(s)' \subseteq {w}
      BY <2>1, <2>5, <3>1, ConstantsAssumption DEF Honoured, OneRun, Runs
    <3>3. step'[w] \notin {"load", "collect", "commit"}
      BY <1>0, <2>5, <3>1 DEF TypeOK, RunTask, Poll, LoadScan, Authenticate, AuthRejected,
         StartZapScan, RecordScannerId, PollCancelled, PollError, PollFailure, PollProgress, PollDone,
         PollTimeout, CollectFindings, CommitFindings, TaskError, SoftLimitEndsWait, MarkFailed, MarkFailedError, Finish,
         Release, Idle, Goto, Raise, ScanCancelled, CancelStatus, BeforeCommit
    <3>4. CASE MarkFailed(w)
      <4>1. status'[s] \in Fate /\ step'[w] = "raise"
        BY <1>0, <2>5, <3>4 DEF TypeOK, MarkFailed, SetStatus, Goto
      <4>2. QED BY <2>1, <2>5, <3>2, <3>3, <4>1 DEF Honoured, OneRun
    <3>5. CASE ~MarkFailed(w)
      <4>1. status'[s] = status[s] /\ (step[w] = "raise" => job'[w] = NoScan)
        BY <1>0, <2>5, <3>1, <3>5 DEF TypeOK, RunTask, Poll, LoadScan, Authenticate, AuthRejected,
           StartZapScan, RecordScannerId, PollCancelled, PollError, PollFailure, PollProgress,
           PollDone, PollTimeout, CollectFindings, CommitFindings, TaskError, SoftLimitEndsWait, MarkFailedError,
           Finish, Release, Idle, Goto, BeforeCommit, rowVars
      <4>2. step[w] = "raise" => Runs(s)' = {}
        BY <3>2, <4>1, ConstantsAssumption DEF Runs
      <4>3. QED BY <2>1, <2>5, <3>1, <3>2, <3>3, <4>1, <4>2 DEF Honoured, OneRun
    <3>6. QED BY <3>4, <3>5
  <2>6. QED BY <1>6, <2>2, <2>3, <2>4, <2>5
<1>7. CASE UNCHANGED vars
  BY <1>1, <1>7 DEF vars, rowVars, apiVars, msgVars, taskVars
<1>8. QED BY <1>2, <1>3, <1>4, <1>5, <1>6, <1>7 DEF Next

\* A cancellation that is committed while the scan's only run has loaded it
\* and not yet left its poll loop keeps the scan from completing, unless the
\* message is delivered again.
THEOREM CancellationHonoured == Spec => CancellationHolds
<1>1. ASSUME NEW s \in Scans, NEW d \in 0..MaxDeliveries
      PROVE  Spec => [](CancelledInTime(s) /\ deliveries[s] = d
                          => [](deliveries[s] = d => status[s] # "completed"))
  <2>1. IInv /\ CancelledInTime(s) /\ deliveries[s] = d => Honoured(s, d)
    BY DEF IInv, RequestOrder, CancelledInTime, Honoured
  <2>2. IInv /\ Honoured(s, d) /\ [Next]_vars => Honoured(s, d)'
    BY HonouredNext
  <2>3. Honoured(s, d) => (deliveries[s] = d => status[s] # "completed")
    BY DEF Honoured, Fate
  <2>4. QED BY <2>1, <2>2, <2>3, Invariance, PTL DEF Spec
<1>2. QED BY <1>1 DEF CancellationHolds
-----------------------------------------------------------------------------
(* The capacity limit, when start requests are served one at a time, nothing *)
(* is cancelled and every message is delivered once.                         *)

NothingReactivates ==
    Faults \cap {"concurrent_starts", "cancel", "worker_lost", "redelivery"} = {}

\* A scan is pending from its insertion until its first run loads it.
PendingUntilLoaded ==
    /\ \A s \in Scans :
         /\ ~cancelTx[s]
         /\ request[s] = "inserted" \/ broker[s] = "queued" => status[s] = "pending"
         /\ deliveries[s] <= 1 /\ (broker[s] = "queued" => deliveries[s] = 0)
    /\ \A w \in Workers : step[w] = "load" => status[job[w]] = "pending"

\* The one request that has been admitted finds room.
AdmittedHasRoom ==
    \A s \in Scans :
        request[s] = "checked" =>
          /\ HasCapacity(WorkspaceOf[s])
          /\ \A t \in Scans : request[t] = "checked" => t = s

\* A pending scan stays pending until it is loaded.
LEMMA PendingNext ==
    ASSUME NothingReactivates, IInv, PendingUntilLoaded, [Next]_vars
    PROVE  PendingUntilLoaded'
<1>0. TypeOK /\ RequestOrder /\ FirstDelivery
  BY DEF IInv
<1>1. ASSUME NEW s \in Scans, StartScan(s) PROVE PendingUntilLoaded'
  <2>1. UNCHANGED <<cancelTx, deliveries, step, job>>
    BY <1>1 DEF StartScan, StartCheck, StartReject, InsertScan, PublishTask, RecordTaskId,
       StartLost, msgVars, taskVars
  <2>2. \A w \in Workers : step[w] = "load" => job[w] # s \/ ~InsertScan(s)
    BY <1>0 DEF PendingUntilLoaded, InsertScan, Advance, RequestOrder
  <2>3. \A t \in Scans : status'[t] = status[t] \/ (InsertScan(s) /\ t = s /\ status'[t] = "pending")
    BY <1>0, <1>1 DEF TypeOK, StartScan, StartCheck, StartReject, InsertScan, PublishTask,
       RecordTaskId, StartLost, rowVars
  <2>4. \A t \in Scans :
          /\ request'[t] = "inserted" => request[t] = "inserted" \/ status'[t] = "pending"
          /\ broker'[t] = "queued" =>
               broker[t] = "queued" \/ (request[t] = "inserted" /\ deliveries[t] = 0)
    BY <1>0, <1>1 DEF TypeOK, RequestOrder, StartScan, StartCheck, StartReject, InsertScan,
       PublishTask, RecordTaskId, StartLost, Advance, msgVars
  <2>5. QED BY <1>0, <2>1, <2>2, <2>3, <2>4 DEF PendingUntilLoaded, TypeOK
<1>2. ASSUME NEW s \in Scans, CancelScan(s) PROVE FALSE
  BY <1>2 DEF PendingUntilLoaded, NothingReactivates, CancelScan, CancelMark, CancelCommit,
     CancelRollback, CancelMiss
<1>3. ASSUME NEW s \in Scans, DiscardRevoked(s) \/ Redeliver(s) PROVE PendingUntilLoaded'
  BY <1>0, <1>3 DEF TypeOK, PendingUntilLoaded, NothingReactivates, DiscardRevoked, Redeliver,
     rowVars, apiVars, msgVars, taskVars
<1>4. ASSUME NEW w \in Workers, NEW s \in Scans, Deliver(w, s) PROVE PendingUntilLoaded'
  BY <1>0, <1>4 DEF TypeOK, PendingUntilLoaded, Deliver, rowVars, apiVars
<1>5. ASSUME NEW w \in Workers, RunTask(w) \/ KillTask(w) PROVE PendingUntilLoaded'
  <2>1. /\ job[w] \in Scans /\ w \in Runs(job[w])
        /\ UNCHANGED <<request, cancelTx, deliveries>>
        /\ \A s \in Scans : s # job[w] => status'[s] = status[s]
        /\ \A v \in Workers : v # w => job'[v] = job[v] /\ step'[v] = step[v]
        /\ step'[w] # "load"
    BY <1>0, <1>5, RunFrame, KillFrame DEF Runs
  <2>2. \A s \in Scans : broker'[s] = "queued" => broker[s] = "queued"
    BY <1>0, <1>5 DEF TypeOK, NothingReactivates, RunTask, KillTask, TerminateRevoked, HardTimeLimit,
       WorkerLost, Kill, Poll, LoadScan, Authenticate, AuthRejected, StartZapScan, RecordScannerId,
       PollCancelled, PollError, PollFailure, PollProgress, PollDone, PollTimeout, CollectFindings,
       CommitFindings, TaskError, SoftLimitEndsWait, MarkFailed, MarkFailedError, Finish, Release, msgVars
  <2>3. deliveries[job[w]] # 0 /\ deliveries[job[w]] <= 1
    BY <1>0, <2>1 DEF FirstDelivery, PendingUntilLoaded
  <2>4. broker[job[w]] # "queued" /\ request[job[w]] # "inserted"
    BY <1>0, <2>1, <2>3 DEF PendingUntilLoaded, RequestOrder
  <2>5. \A v \in Workers : v # w => job[v] # job[w]
    BY <1>0, <2>1, <2>3 DEF FirstDelivery, OneRun, Runs
  <2>6. QED BY <1>0, <2>1, <2>2, <2>4, <2>5 DEF PendingUntilLoaded, TypeOK
<1>6. CASE UNCHANGED vars
  BY <1>6 DEF PendingUntilLoaded, vars, rowVars, apiVars, msgVars, taskVars
<1>7. QED BY <1>1, <1>2, <1>3, <1>4, <1>5, <1>6 DEF Next

\* Only the insertion of an admitted scan adds an active one.
LEMMA OnlyInsertActivates ==
    ASSUME IInv, PendingUntilLoaded, [Next]_vars, NEW ws, ~\E s \in Scans : InsertScan(s)
    PROVE  ActiveScans(ws)' \subseteq ActiveScans(ws)
<1>0. TypeOK
  BY DEF IInv
<1>1. SUFFICES ASSUME NEW t \in Scans, status'[t] \in ActiveStatus PROVE status[t] \in ActiveStatus
  BY DEF ActiveScans
<1>2. ASSUME NEW s \in Scans, StartScan(s) \/ DiscardRevoked(s) \/ Redeliver(s)
      PROVE  status' = status
  BY <1>2 DEF StartScan, StartCheck, StartReject, PublishTask, RecordTaskId, StartLost,
     DiscardRevoked, Redeliver, rowVars
<1>3. ASSUME NEW s \in Scans, CancelScan(s) PROVE status[t] \in ActiveStatus
  BY <1>0, <1>1, <1>3 DEF TypeOK, CancelScan, CancelMark, CancelCommit, CancelRollback, CancelMiss,
     rowVars, ActiveStatus
<1>4. ASSUME NEW w \in Workers, NEW s \in Scans, Deliver(w, s) PROVE status' = status
  BY <1>4 DEF Deliver, rowVars
<1>5. ASSUME NEW w \in Workers, KillTask(w) PROVE status' = status
  BY <1>0, <1>5, KillFrame
<1>6. ASSUME NEW w \in Workers, RunTask(w) PROVE status[t] \in ActiveStatus
  <2>1. status'[t] = status[t] \/ (t = job[w] /\ step[w] = "load")
    BY <1>0, <1>1, <1>6, RunFrame DEF TypeOK, RunTask, Poll, LoadScan, Authenticate, AuthRejected,
       StartZapScan, RecordScannerId, PollCancelled, PollError, PollFailure, PollProgress, PollDone,
       PollTimeout, CollectFindings, CommitFindings, TaskError, SoftLimitEndsWait, MarkFailed, MarkFailedError, Finish,
       Goto, SetStatus, rowVars, Fate, ActiveStatus
  <2>2. QED BY <1>1, <2>1 DEF PendingUntilLoaded, ActiveStatus
<1>7. QED BY <1>1, <1>2, <1>3, <1>4, <1>5, <1>6 DEF Next, vars, rowVars

\* A workspace has finitely many active scans.
LEMMA ActiveFinite == \A ws : IsFiniteSet(ActiveScans(ws)) /\ Cardinality(ActiveScans(ws)) \in Nat
<1> TAKE ws
<1>1. ActiveScans(ws) \subseteq Scans
  BY DEF ActiveScans
<1>2. QED BY <1>1, FiniteAssumption, FS_Subset, FS_CardinalityType

\* Without an insertion the number of active scans does not grow.
LEMMA FewerActive ==
    ASSUME IInv, PendingUntilLoaded, [Next]_vars, NEW ws, ~\E s \in Scans : InsertScan(s)
    PROVE  /\ Cardinality(ActiveScans(ws)') \in Nat
           /\ Cardinality(ActiveScans(ws)') <= Cardinality(ActiveScans(ws))
BY OnlyInsertActivates, ActiveFinite, FS_Subset, FS_CardinalityType

\* With serial starts the admitted scan still has room when it is inserted.
LEMMA CapacityNext ==
    ASSUME NothingReactivates, IInv, PendingUntilLoaded, AdmittedHasRoom, CapacityRespected,
           [Next]_vars
    PROVE  AdmittedHasRoom' /\ CapacityRespected'
<1>0. TypeOK
  BY DEF IInv
<1>1. CASE \E s \in Scans : InsertScan(s)
  <2>1. PICK s \in Scans : InsertScan(s)
    BY <1>1
  <2>2. \A t \in Scans : request'[t] # "checked"
    BY <1>0, <2>1 DEF TypeOK, InsertScan, Advance, AdmittedHasRoom
  <2>3. ASSUME NEW ws \in Workspaces PROVE Cardinality(ActiveScans(ws)') <= MaxActiveScans
    <3>1. CASE ws # WorkspaceOf[s]
      <4>1. ActiveScans(ws)' = ActiveScans(ws)
        BY <1>0, <2>1, <3>1 DEF TypeOK, InsertScan, ActiveScans
      <4>2. QED BY <4>1 DEF CapacityRespected
    <3>2. CASE ws = WorkspaceOf[s]
      <4>1. ActiveScans(ws)' \subseteq ActiveScans(ws) \cup {s}
        BY <1>0, <2>1 DEF TypeOK, InsertScan, ActiveScans
      <4>2. IsFiniteSet(ActiveScans(ws)) /\ Cardinality(ActiveScans(ws)) \in Nat
        BY ActiveFinite
      <4>3. /\ IsFiniteSet(ActiveScans(ws) \cup {s})
            /\ Cardinality(ActiveScans(ws) \cup {s})
                 = IF s \in ActiveScans(ws) THEN Cardinality(ActiveScans(ws))
                   ELSE Cardinality(ActiveScans(ws)) + 1
        BY <4>2, FS_AddElement, Zenon
      <4>4. /\ Cardinality(ActiveScans(ws)') \in Nat
            /\ Cardinality(ActiveScans(ws) \cup {s}) \in Nat
            /\ Cardinality(ActiveScans(ws)') <= Cardinality(ActiveScans(ws) \cup {s})
        BY <4>1, <4>3, FS_Subset, FS_CardinalityType
      <4>5. Cardinality(ActiveScans(ws)) < MaxActiveScans
        BY <2>1, <3>2 DEF InsertScan, Advance, AdmittedHasRoom, HasCapacity
      <4>6. QED BY <4>2, <4>3, <4>4, <4>5, ConstantsAssumption
    <3>3. QED BY <3>1, <3>2
  <2>4. QED BY <2>2, <2>3 DEF AdmittedHasRoom, CapacityRespected
<1>2. CASE ~\E s \in Scans : InsertScan(s)
  <2>1. CapacityRespected'
    <3>1. SUFFICES ASSUME NEW ws \in Workspaces
                   PROVE  Cardinality(ActiveScans(ws)') <= MaxActiveScans
      BY DEF CapacityRespected
    <3>2. Cardinality(ActiveScans(ws)) <= MaxActiveScans /\ Cardinality(ActiveScans(ws)) \in Nat
      BY ActiveFinite DEF CapacityRespected
    <3>3. QED BY <1>2, <3>2, FewerActive, ConstantsAssumption
  <2>2. \A ws : HasCapacity(ws) => HasCapacity(ws)'
    <3> TAKE ws
    <3>1. Cardinality(ActiveScans(ws)) \in Nat
      BY ActiveFinite
    <3>2. QED BY <1>2, <3>1, FewerActive, ConstantsAssumption DEF HasCapacity
  <2>3. \A t \in Scans :
          request'[t] = "checked" => request[t] = "checked" \/ StartCheck(t)
    BY <1>0 DEF TypeOK, Next, StartScan, StartCheck, StartReject, InsertScan, PublishTask,
       RecordTaskId, StartLost, Advance, CancelScan, CancelMark, CancelCommit, CancelRollback,
       CancelMiss, DiscardRevoked, Redeliver, Deliver, RunTask, Poll, LoadScan, Authenticate,
       AuthRejected, StartZapScan, RecordScannerId, PollCancelled, PollError, PollFailure,
       PollProgress, PollDone, PollTimeout, CollectFindings, CommitFindings, TaskError, SoftLimitEndsWait, MarkFailed,
       MarkFailedError, Finish, KillTask, TerminateRevoked, HardTimeLimit, WorkerLost, Kill,
       vars, apiVars
  <2>4. \A t \in Scans : StartCheck(t) =>
          /\ HasCapacity(WorkspaceOf[t])
          /\ \A u \in Scans : request[u] # "checked" /\ (request'[u] = "checked" => u = t)
    BY <1>0 DEF TypeOK, StartCheck, Advance, NothingReactivates
  <2>5. QED BY <2>1, <2>2, <2>3, <2>4 DEF AdmittedHasRoom
<1>3. QED BY <1>1, <1>2

\* The limit on active scans holds if no two start requests overlap, no scan
\* is cancelled, and no message is delivered twice.  The run ScanCapacityRace
\* shows that the first is needed; a scan cancelled before its run loads it, or
\* finished and delivered again, is set to running after its place was given
\* away.
THEOREM CapacityWhenSerial ==
    ASSUME NothingReactivates
    PROVE  Spec => []CapacityRespected
<1>1. Init => PendingUntilLoaded /\ AdmittedHasRoom /\ CapacityRespected
  <2> SUFFICES ASSUME Init PROVE PendingUntilLoaded /\ AdmittedHasRoom /\ CapacityRespected
    OBVIOUS
  <2>1. \A ws : ActiveScans(ws) = {}
    BY DEF Init, ActiveScans, ActiveStatus
  <2>2. \A ws : Cardinality(ActiveScans(ws)) = 0
    BY <2>1, FS_EmptySet, Zenon
  <2>3. CapacityRespected
    BY <2>2, ConstantsAssumption DEF CapacityRespected
  <2>4. QED BY <2>3 DEF Init, PendingUntilLoaded, AdmittedHasRoom
<1>2. /\ IInv /\ PendingUntilLoaded /\ AdmittedHasRoom /\ CapacityRespected
      /\ [Next]_vars
      => (PendingUntilLoaded /\ AdmittedHasRoom /\ CapacityRespected)'
  BY PendingNext, CapacityNext
<1>3. QED BY <1>1, <1>2, Invariance, PTL DEF Spec

-----------------------------------------------------------------------------
(* What clients are told, when no login is rejected.                         *)

LoginsSucceed == "auth_rejected" \notin Faults

\* A run that is about to return has committed its findings, and what the row
\* and the result backend say of a success is backed by them.
FindingsStored ==
    /\ \A s \in Scans : status[s] = "completed" \/ result[s] = "SUCCESS" => findings[s] > 0
    /\ \A w \in Workers : step[w] = "return" => findings[job[w]] > 0

\* The steps of the API and of the broker.
LEMMA StoredFrame ==
    ASSUME TypeOK, FindingsStored,
           \A s \in Scans : status'[s] = "completed" => status[s] = "completed",
           \A s \in Scans : result'[s] = "SUCCESS" => result[s] = "SUCCESS",
           \A w \in Workers : step'[w] = "return" => step[w] = "return" /\ job'[w] = job[w],
           findings' = findings
    PROVE  FindingsStored'
BY DEF FindingsStored

LEMMA StoredNext ==
    ASSUME LoginsSucceed, IInv, FindingsStored, [Next]_vars
    PROVE  FindingsStored'
<1>0. TypeOK /\ FateIsRequested
  BY DEF IInv
<1>1. ASSUME NEW s \in Scans, StartScan(s) PROVE FindingsStored'
  BY <1>0, <1>1, StoredFrame DEF TypeOK, StartScan, StartCheck, StartReject, InsertScan, PublishTask,
     RecordTaskId, StartLost, rowVars, taskVars
<1>2. ASSUME NEW s \in Scans, CancelScan(s) PROVE FindingsStored'
  BY <1>0, <1>2, StoredFrame DEF TypeOK, CancelScan, CancelMark, CancelCommit, CancelRollback, CancelMiss,
     rowVars, taskVars
<1>3. ASSUME NEW s \in Scans, DiscardRevoked(s) \/ Redeliver(s) PROVE FindingsStored'
  BY <1>0, <1>3, StoredFrame DEF TypeOK, DiscardRevoked, Redeliver, StoreResult, rowVars, taskVars
<1>4. ASSUME NEW w \in Workers, NEW s \in Scans, Deliver(w, s) PROVE FindingsStored'
  BY <1>0, <1>4, StoredFrame DEF TypeOK, Deliver, rowVars
<1>5. ASSUME NEW w \in Workers, KillTask(w) PROVE FindingsStored'
  <2>1. \A s \in Scans : result'[s] = "SUCCESS" => result[s] = "SUCCESS"
    BY <1>0, <1>5 DEF TypeOK, KillTask, TerminateRevoked, HardTimeLimit, WorkerLost, Kill, StoreResult
  <2>2. QED BY <1>0, <1>5, <2>1, KillFrame, StoredFrame
<1>6. ASSUME NEW w \in Workers, RunTask(w) PROVE FindingsStored'
  <2>1. job[w] \in Scans /\ \A v \in Workers \ {w} : step'[v] = step[v] /\ job'[v] = job[v]
    BY <1>0, <1>6, RunFrame
  <2>2. CASE Finish(w)
    <3>1. /\ step'[w] = "idle" /\ status' = status /\ findings' = findings
          /\ result' = [result EXCEPT ![job[w]] =
                          IF @ = "SUCCESS" THEN @ ELSE IF step[w] = "return" THEN "SUCCESS" ELSE "FAILURE"]
      BY <1>0, <2>2 DEF TypeOK, Finish, StoreResult, Release, Idle, rowVars
    <3>2. \A s \in Scans : result'[s] = "SUCCESS" =>
             result[s] = "SUCCESS" \/ (s = job[w] /\ step[w] = "return")
      BY <1>0, <2>1, <3>1 DEF TypeOK
    <3>3. QED BY <2>1, <3>1, <3>2 DEF FindingsStored
  <2>3. CASE CommitFindings(w)
    <3>1. /\ findings' = [findings EXCEPT ![job[w]] = @ + 1]
          /\ \A s \in Scans : s # job[w] => status'[s] = status[s]
          /\ result' = result /\ job' = job
      BY <1>0, <2>1, <2>3, RunFrame, <1>6 DEF CommitFindings
    <3>2. \A s \in Scans : findings[s] \in Nat
      BY <1>0 DEF TypeOK
    <3>3. findings'[job[w]] > 0 /\ \A s \in Scans : findings[s] > 0 => findings'[s] > 0
      BY <1>0, <2>1, <3>1, <3>2 DEF TypeOK
    <3>4. \A v \in Workers : step[v] = "return" => job[v] \in Scans
      BY <1>0, JobIsScan
    <3>5. QED BY <2>1, <3>1, <3>3, <3>4 DEF FindingsStored
  <2>4. CASE ~Finish(w) /\ ~CommitFindings(w)
    <3>1. findings' = findings /\ step'[w] # "return"
      BY <1>0, <1>6, <2>4 DEF LoginsSucceed, RunTask, Poll, LoadScan, Authenticate, AuthRejected,
         StartZapScan, RecordScannerId, PollCancelled, PollError, PollFailure, PollProgress, PollDone,
         PollTimeout, CollectFindings, TaskError, SoftLimitEndsWait, MarkFailed, MarkFailedError, Raise, Goto, TypeOK, rowVars
    <3>2. \A s \in Scans : result'[s] = "SUCCESS" => result[s] = "SUCCESS"
      BY <1>0, <1>6, <2>4 DEF TypeOK, RunTask, Poll, LoadScan, Authenticate, AuthRejected,
         StartZapScan, RecordScannerId, PollCancelled, PollError, PollFailure, PollProgress, PollDone,
         PollTimeout, CollectFindings, TaskError, SoftLimitEndsWait, MarkFailed, MarkFailedError, Progress, StoreResult
    <3>3. \A s \in Scans : status'[s] = "completed" => status[s] = "completed"
      BY <1>0, <1>6, <2>4 DEF TypeOK, Fate, RunTask, Poll, LoadScan, Authenticate, AuthRejected,
         StartZapScan, RecordScannerId, PollCancelled, PollError, PollFailure, PollProgress, PollDone,
         PollTimeout, CollectFindings, TaskError, SoftLimitEndsWait, MarkFailed, MarkFailedError, SetStatus, rowVars
    <3>4. QED BY <1>0, <2>1, <3>1, <3>2, <3>3, StoredFrame
  <2>5. QED BY <2>2, <2>3, <2>4
<1>7. CASE UNCHANGED vars
  BY <1>0, <1>7, StoredFrame DEF vars, rowVars, taskVars
<1>8. QED BY <1>1, <1>2, <1>3, <1>4, <1>5, <1>6, <1>7 DEF Next

\* Where no login is rejected, a client that is told "completed" finds the
\* findings in the database, whatever is killed, cancelled or delivered again.
\* The run ScanReportAuth shows what a rejected login reports.
THEOREM CompletedHasFindings ==
    ASSUME LoginsSucceed
    PROVE  Spec => []CompletedIsBacked
<1>1. Init => FindingsStored
  BY DEF Init, FindingsStored
<1>2. IInv /\ FindingsStored /\ [Next]_vars => FindingsStored'
  BY StoredNext
<1>3. IInv /\ FindingsStored => CompletedIsBacked
  BY DEF FindingsStored, CompletedIsBacked, ReportedStatus, IInv, TypeOK, ResultState
<1>4. QED BY <1>1, <1>2, <1>3, Invariance, PTL DEF Spec

-----------------------------------------------------------------------------
(* Who is turned away, when every request is answered, nothing is cancelled  *)
(* and every run ends by itself, or dies and leaves its message.             *)

NothingStrands ==
    Faults \cap {"cancel", "api_lost", "db_error", "soft_limit", "time_limit", "redelivery"} = {}

\* A start request goes on to its answer.
RequestsGoOn ==
    \A s \in Scans :
        /\ ~revoked[s] /\ ~cancelTx[s] /\ request[s] # "aborted"
        /\ broker[s] # "none" <=> request[s] \in {"published", "answered"}
        /\ request[s] = "answered" => taskRecorded[s]
        /\ request[s] = "rejected" => status[s] = "none"

\* The only run of a scan is the one that holds its message.
RunsHold == \A w \in Workers : step[w] # "idle" => holder[job[w]] = w

\* A run that fails writes so before it ends.
FailuresEnd ==
    \A w \in Workers :
        /\ step[w] = "failing" => fate[w] # "none"
        /\ step[w] = "raise" => status[job[w]] \notin ActiveStatus

\* An active scan is on its way to a worker, with one, or was told to have completed.
ActiveIsAtWork ==
    \A s \in Scans :
        status[s] \in ActiveStatus =>
            \/ request[s] = "inserted"
            \/ broker[s] \in {"queued", "unacked"}
            \/ result[s] = "SUCCESS"

AtWork == RequestsGoOn /\ RunsHold /\ FailuresEnd /\ ActiveIsAtWork

LEMMA AtWorkStart ==
    ASSUME NothingStrands, IInv, AtWork, NEW s \in Scans, StartScan(s)
    PROVE  AtWork'
<1>0. TypeOK /\ RequestOrder
  BY DEF IInv
<1>1. UNCHANGED <<cancelTx, holder, revoked, step, job, fate, result>>
  BY DEF StartScan, StartCheck, StartReject, InsertScan, PublishTask, RecordTaskId, StartLost,
     msgVars, taskVars
<1>2. \A t \in Scans : status'[t] = status[t] \/ (InsertScan(s) /\ t = s)
  BY <1>0 DEF TypeOK, StartScan, StartCheck, StartReject, InsertScan, PublishTask, RecordTaskId,
     StartLost, rowVars
<1>3. RequestsGoOn'
  BY <1>0 DEF TypeOK, RequestOrder, AtWork, RequestsGoOn, NothingStrands, StartScan, StartCheck, StartReject,
     InsertScan, PublishTask, RecordTaskId, StartLost, Advance, rowVars, msgVars
<1>4. RunsHold'
  BY <1>1 DEF AtWork, RunsHold
<1>5. FailuresEnd'
  <2>1. \A w \in Workers : step[w] = "raise" => job[w] \in Scans /\ (InsertScan(s) => job[w] # s)
    <3>1. ASSUME NEW w \in Workers, step[w] = "raise", InsertScan(s), job[w] = s PROVE FALSE
      <4>1. holder[s] = w /\ broker[s] = "none" /\ w # NoWorker
        BY <1>0, <3>1, ConstantsAssumption DEF AtWork, RunsHold, InsertScan, Advance, RequestOrder
      <4>2. QED BY <4>1 DEF IInv, MessageHeld
    <3>2. QED BY <1>0, <3>1, JobIsScan
  <2>2. QED BY <1>1, <1>2, <2>1 DEF AtWork, FailuresEnd
<1>6. ActiveIsAtWork'
  BY <1>0, <1>1 DEF TypeOK, RequestOrder, MessageState, ActiveStatus, AtWork, RequestsGoOn, ActiveIsAtWork,
     NothingStrands, StartScan, StartCheck, StartReject, InsertScan, PublishTask, RecordTaskId,
     StartLost, Advance, rowVars, msgVars
<1>7. QED BY <1>3, <1>4, <1>5, <1>6 DEF AtWork

LEMMA AtWorkRun ==
    ASSUME NothingStrands, IInv, AtWork, NEW w \in Workers, RunTask(w)
    PROVE  AtWork'
<1>0. TypeOK /\ RequestOrder /\ MessageHeld
  BY DEF IInv
<1>1. /\ job[w] \in Scans /\ step[w] # "idle"
      /\ UNCHANGED <<taskRecorded, request, cancelTx, revoked>>
      /\ \A s \in Scans : s # job[w] => status'[s] = status[s]
      /\ \A v \in Workers : v # w => job'[v] = job[v] /\ step'[v] = step[v] /\ fate'[v] = fate[v]
      /\ job'[w] = IF step'[w] = "idle" THEN NoScan ELSE job[w]
  BY <1>0, RunFrame
<1>2. /\ holder[job[w]] = w /\ broker[job[w]] = "unacked"
      /\ request[job[w]] \in {"published", "answered"}
  <2>1. holder[job[w]] = w /\ w # NoWorker
    BY <1>1, ConstantsAssumption DEF AtWork, RunsHold
  <2>2. broker[job[w]] = "unacked"
    BY <1>0, <1>1, <2>1 DEF MessageHeld
  <2>3. QED BY <1>1, <2>1, <2>2 DEF AtWork, RequestsGoOn
<1>3. \A v \in Workers : v # w /\ step[v] # "idle" => job[v] # job[w] /\ job[v] \in Scans
  BY <1>0, <1>2, JobIsScan DEF AtWork, RunsHold
<1>4. \A s \in Scans : s # job[w] => broker'[s] = broker[s] /\ holder'[s] = holder[s]
  BY <1>0, <1>1, MessageFrame DEF TypeOK
<1>5. CASE Finish(w)
  <2>1. /\ status' = status /\ step[w] \in {"return", "raise"}
        /\ step'[w] = "idle" /\ broker'[job[w]] = "acked"
    BY <1>0, <1>1, <1>2, <1>5 DEF TypeOK, Finish, Release, Idle, rowVars
  <2>2. /\ \A s \in Scans : s # job[w] => result'[s] = result[s]
        /\ step[w] = "return" => result'[job[w]] = "SUCCESS"
    BY <1>0, <1>1, <1>5 DEF TypeOK, Finish, StoreResult
  <2>3. RequestsGoOn'
    BY <1>1, <1>2, <1>4, <2>1 DEF AtWork, RequestsGoOn
  <2>4. RunsHold'
    BY <1>1, <1>3, <1>4, <2>1 DEF AtWork, RunsHold
  <2>5. FailuresEnd'
    BY <1>1, <2>1 DEF AtWork, FailuresEnd
  <2>6. ActiveIsAtWork'
    BY <1>1, <1>4, <2>1, <2>2 DEF AtWork, ActiveIsAtWork, FailuresEnd
  <2>7. QED BY <2>3, <2>4, <2>5, <2>6 DEF AtWork
<1>6. CASE ~Finish(w)
  <2>1. UNCHANGED <<broker, holder>> /\ step'[w] # "idle"
    BY <1>0, <1>6 DEF RunTask, Poll, LoadScan, Authenticate, AuthRejected, StartZapScan, RecordScannerId,
       PollCancelled, PollError, PollFailure, PollProgress, PollDone, PollTimeout, CollectFindings,
       CommitFindings, TaskError, SoftLimitEndsWait, MarkFailed, MarkFailedError, Goto, Raise, TypeOK, BeforeCommit, msgVars
  <2>2. \A s \in Scans : s # job[w] => result'[s] = result[s]
    BY <1>0, <1>1, <1>6 DEF TypeOK, RunTask, Poll, LoadScan, Authenticate, AuthRejected, StartZapScan,
       RecordScannerId, PollCancelled, PollError, PollFailure, PollProgress, PollDone, PollTimeout,
       CollectFindings, CommitFindings, TaskError, SoftLimitEndsWait, MarkFailed, MarkFailedError, Progress, StoreResult
  <2>3. /\ step'[w] = "failing" => fate'[w] # "none"
        /\ step'[w] = "raise" => status'[job[w]] \notin ActiveStatus
    BY <1>0, <1>1, <1>6 DEF AtWork, FailuresEnd, NothingStrands, TypeOK, Fate, ActiveStatus,
       RunTask, Poll, LoadScan, Authenticate, AuthRejected, StartZapScan, RecordScannerId,
       PollCancelled, PollError, PollFailure, PollProgress, PollDone, PollTimeout, CollectFindings,
       CommitFindings, TaskError, SoftLimitEndsWait, MarkFailed, MarkFailedError, Goto, Raise, SetStatus
  <2>4. RequestsGoOn'
    BY <1>1, <1>2, <2>1 DEF AtWork, RequestsGoOn
  <2>5. RunsHold'
    BY <1>1, <1>2, <2>1 DEF AtWork, RunsHold
  <2>6. FailuresEnd'
    <3>1. ASSUME NEW v \in Workers
          PROVE  /\ step'[v] = "failing" => fate'[v] # "none"
                 /\ step'[v] = "raise" => status'[job'[v]] \notin ActiveStatus
      <4>1. CASE v = w
        BY <1>1, <2>1, <2>3, <4>1
      <4>2. CASE v # w
        BY <1>1, <1>3, <4>2 DEF AtWork, FailuresEnd
      <4>3. QED BY <4>1, <4>2
    <3>2. QED BY <3>1 DEF FailuresEnd
  <2>7. ActiveIsAtWork'
    BY <1>1, <1>2, <2>1, <2>2 DEF AtWork, ActiveIsAtWork
  <2>8. QED BY <2>4, <2>5, <2>6, <2>7 DEF AtWork
<1>7. QED BY <1>5, <1>6

LEMMA AtWorkNext ==
    ASSUME NothingStrands, IInv, AtWork, [Next]_vars
    PROVE  AtWork'
<1>0. TypeOK /\ RequestOrder /\ MessageHeld
  BY DEF IInv
<1>1. ASSUME NEW s \in Scans, StartScan(s) PROVE AtWork'
  BY <1>1, AtWorkStart
<1>2. ASSUME NEW s \in Scans, CancelScan(s) \/ DiscardRevoked(s) \/ Redeliver(s) PROVE FALSE
  BY <1>2 DEF AtWork, RequestsGoOn, NothingStrands, CancelScan, CancelMark, CancelCommit,
     CancelRollback, CancelMiss, DiscardRevoked, Redeliver
<1>3. ASSUME NEW w \in Workers, NEW s \in Scans, Deliver(w, s) PROVE AtWork'
  <2>1. /\ step[w] = "idle" /\ broker[s] = "queued"
        /\ broker' = [broker EXCEPT ![s] = "unacked"] /\ holder' = [holder EXCEPT ![s] = w]
        /\ step' = [step EXCEPT ![w] = "load"] /\ job' = [job EXCEPT ![w] = s]
        /\ UNCHANGED <<status, taskRecorded, request, cancelTx, revoked, result, fate>>
    BY <1>3 DEF Deliver, rowVars, apiVars
  <2>2. holder[s] = NoWorker
    BY <1>0, <2>1 DEF MessageHeld
  <2>3. \A v \in Workers : v # w /\ step[v] # "idle" => job[v] # s /\ job[v] \in Scans
    BY <1>0, <2>2, JobIsScan, ConstantsAssumption DEF AtWork, RunsHold
  <2>4. RequestsGoOn'
    BY <1>0, <2>1 DEF TypeOK, AtWork, RequestsGoOn
  <2>5. RunsHold'
    BY <1>0, <2>1, <2>3 DEF TypeOK, AtWork, RunsHold
  <2>6. FailuresEnd'
    BY <1>0, <2>1 DEF TypeOK, AtWork, FailuresEnd
  <2>7. ActiveIsAtWork'
    BY <1>0, <2>1 DEF TypeOK, AtWork, ActiveIsAtWork
  <2>8. QED BY <2>4, <2>5, <2>6, <2>7 DEF AtWork
<1>4. ASSUME NEW w \in Workers, RunTask(w) PROVE AtWork'
  BY <1>4, AtWorkRun
<1>5. ASSUME NEW w \in Workers, KillTask(w) PROVE AtWork'
  <2>1. WorkerLost(w) /\ job[w] \in Scans
    BY <1>0, <1>5, KillFrame DEF AtWork, RequestsGoOn, NothingStrands, KillTask, TerminateRevoked, HardTimeLimit
  <2>2. /\ UNCHANGED <<status, taskRecorded, request, cancelTx, revoked, result>>
        /\ \A v \in Workers : v # w => job'[v] = job[v] /\ step'[v] = step[v] /\ fate'[v] = fate[v]
        /\ step'[w] = "idle" /\ step[w] # "idle"
    BY <1>0, <1>5, <2>1, KillFrame DEF WorkerLost
  <2>3. holder[job[w]] = w /\ w # NoWorker
    BY <2>2, ConstantsAssumption DEF AtWork, RunsHold
  <2>4. broker' = [broker EXCEPT ![job[w]] = "queued"] /\ holder' = [holder EXCEPT ![job[w]] = NoWorker]
    BY <2>1, <2>3 DEF WorkerLost, Release
  <2>5. broker[job[w]] = "unacked"
    BY <1>0, <2>1, <2>3 DEF MessageHeld
  <2>6. \A v \in Workers : v # w /\ step[v] # "idle" => job[v] # job[w] /\ job[v] \in Scans
    BY <1>0, <2>3, JobIsScan DEF AtWork, RunsHold
  <2>7. RequestsGoOn'
    BY <1>0, <2>1, <2>2, <2>4, <2>5 DEF TypeOK, AtWork, RequestsGoOn
  <2>8. RunsHold'
    BY <1>0, <2>1, <2>2, <2>4, <2>6 DEF TypeOK, AtWork, RunsHold
  <2>9. FailuresEnd'
    BY <2>2 DEF AtWork, FailuresEnd
  <2>10. ActiveIsAtWork'
    BY <1>0, <2>1, <2>2, <2>4 DEF TypeOK, AtWork, ActiveIsAtWork
  <2>11. QED BY <2>7, <2>8, <2>9, <2>10 DEF AtWork
<1>6. CASE UNCHANGED vars
  BY <1>6 DEF AtWork, RequestsGoOn, RunsHold, FailuresEnd, ActiveIsAtWork, vars, rowVars, apiVars,
     msgVars, taskVars
<1>7. QED BY <1>1, <1>2, <1>3, <1>4, <1>5, <1>6 DEF Next

\* The active scans of a workspace are at work, or keep their places.
LEMMA ActiveAreCounted ==
    ASSUME IInv, AtWork, NEW t \in Scans, status[t] \in ActiveStatus
    PROVE  Live(t) \/ KeepsPlace(t)
<1>0. TypeOK /\ RequestOrder
  BY DEF IInv
<1>1. CASE request[t] \in {"inserted", "published"} \/ broker[t] \in {"queued", "unacked"}
  BY <1>1 DEF Live
<1>2. CASE request[t] \notin {"inserted", "published"} /\ broker[t] \notin {"queued", "unacked"}
  <2>1. result[t] = "SUCCESS"
    BY <1>2 DEF AtWork, ActiveIsAtWork
  <2>2. request[t] = "answered"
    BY <1>0, <1>2 DEF TypeOK, RequestStep, RequestOrder, AtWork, RequestsGoOn, ActiveStatus
  <2>3. taskRecorded[t]
    BY <2>2 DEF AtWork, RequestsGoOn
  <2>4. ReportedStatus(t) = "completed"
    BY <2>1, <2>3 DEF ReportedStatus
  <2>5. QED BY <2>4 DEF KeepsPlace
<1>3. QED BY <1>1, <1>2

\* A client is turned away only when as many scans as the limit allows are at
\* work or were told to have completed after a rejected login: a run that
\* fails, or dies and is repeated, gives its place back.
THEOREM RejectionsDeserved ==
    ASSUME NothingStrands
    PROVE  Spec => RejectedOnlyAtLimit
<1> DEFINE Counted(s) ==
             {t \in Scans : WorkspaceOf[t] = WorkspaceOf[s] /\ (Live(t) \/ KeepsPlace(t))}
           OnlyAtLimit ==
             \A s \in Scans :
               request'[s] = "rejected" /\ request[s] # "rejected"
                 => Cardinality(Counted(s)) >= MaxActiveScans
<1>1. Init => AtWork
  BY ConstantsAssumption DEF Init, AtWork, RequestsGoOn, RunsHold, FailuresEnd, ActiveIsAtWork, ActiveStatus
<1>2. IInv /\ AtWork /\ [Next]_vars => AtWork'
  BY AtWorkNext
<1>3. ASSUME IInv, AtWork, [Next]_vars PROVE OnlyAtLimit
  <2>0. TypeOK
    BY <1>3 DEF IInv
  <2> SUFFICES ASSUME NEW s \in Scans, request'[s] = "rejected", request[s] # "rejected"
               PROVE  Cardinality(Counted(s)) >= MaxActiveScans
    OBVIOUS
  <2>1. StartReject(s)
    <3>1. ASSUME NEW w \in Workers, RunTask(w) \/ KillTask(w) PROVE request' = request
      BY <2>0, <3>1, RunFrame, KillFrame
    <3>2. ASSUME NEW t \in Scans, CancelScan(t) \/ DiscardRevoked(t) \/ Redeliver(t) PROVE request' = request
      BY <3>2 DEF CancelScan, CancelMark, CancelCommit, CancelRollback, CancelMiss, DiscardRevoked,
         Redeliver, rowVars, apiVars
    <3>3. ASSUME NEW w \in Workers, NEW t \in Scans, Deliver(w, t) PROVE request' = request
      BY <3>3 DEF Deliver, apiVars
    <3>4. ASSUME NEW t \in Scans, StartScan(t) PROVE StartReject(s)
      BY <2>0, <3>4 DEF TypeOK, StartScan, StartCheck, StartReject, InsertScan, PublishTask, RecordTaskId,
         StartLost, Advance
    <3>5. CASE UNCHANGED vars
      BY <3>5 DEF vars, apiVars
    <3>6. QED BY <1>3, <3>1, <3>2, <3>3, <3>4, <3>5 DEF Next
  <2>2. ~(Cardinality(ActiveScans(WorkspaceOf[s])) < MaxActiveScans)
    BY <2>1 DEF StartReject, HasCapacity
  <2>3. ActiveScans(WorkspaceOf[s]) \subseteq Counted(s)
    BY <1>3, ActiveAreCounted DEF ActiveScans
  <2>4. IsFiniteSet(Counted(s))
    BY FiniteAssumption, FS_Subset
  <2> HIDE DEF Counted
  <2>5. /\ Cardinality(ActiveScans(WorkspaceOf[s])) <= Cardinality(Counted(s))
        /\ Cardinality(ActiveScans(WorkspaceOf[s])) \in Nat /\ Cardinality(Counted(s)) \in Nat
    BY <2>3, <2>4, ActiveFinite, FS_Subset, FS_CardinalityType
  <2>6. QED BY <2>2, <2>5, ConstantsAssumption
<1>4. Spec => []IInv
  BY Invariance
<1>5. QED BY <1>1, <1>2, <1>3, <1>4, PTL DEF Spec, RejectedOnlyAtLimit

=============================================================================
