----------------------- MODULE AuthorizationScan_proof -----------------------
(* What AuthorizationScan guarantees for any number of jobs, identities and  *)
(* workers and any set of faults.                                            *)
EXTENDS AuthorizationScan, TLAPS, FiniteSetTheorems

\* A listing of a set of identities is a sequence of exactly its members.
LEMMA ListingOf ==
    ASSUME NEW S \in SUBSET Identities, NEW q \in Listings(S)
    PROVE  q \in Seq(Identities) /\ {q[k] : k \in DOMAIN q} = S
<1>1. IsFiniteSet(S) /\ Cardinality(S) \in Nat
  BY ConstantsAssumption, FS_Subset, FS_CardinalityType
<1>2. QED BY <1>1 DEF Listings

\* The stages a run can mark: none is "idle", "load" or "return".
LEMMA Stages ==
    /\ Marked = {"authenticating", "crawling", "object_discovery", "workflow_discovery",
                 "application_mapping", "scanner_context", "authorization_attacks",
                 "authorization_reasoning", "graph"}
    /\ \A st \in DOMAIN NextStage :
         st \in Marked /\ NextStage[st] \in Marked /\ NextStage[st] # "authenticating"
    /\ TaskStep = Marked \cup {"idle", "load", "return"}
BY DEF Marked, NextStage, TaskStep

\* Outside its transaction a run is at none of them.
LEMMA NotMarked ==
    "idle" \notin Marked /\ "load" \notin Marked /\ "return" \notin Marked /\ "authenticating" \in Marked
BY Stages

\* A run in its transaction runs a job.
LEMMA MarkedJob == ASSUME TypeOK, NEW w \in Workers, step[w] \in Marked PROVE job[w] \in Jobs
BY NotMarked DEF TypeOK

\* A task ends in one of four ways, always giving up its message.
LEMMA TaskEnds ==
    ASSUME NEW w \in Workers, FailRun(w) \/ Finish(w) \/ KillTask(w)
    PROVE  /\ step[w] # "idle"
           /\ \E m \in {"acked", "queued"} : EndTask(w, m)
           /\ \/ UNCHANGED result
              \/ \E r \in {"SUCCESS", "FAILURE"} : StoreResult(job[w], r)
BY DEF FailRun, Finish, KillTask, HardTimeLimit, WorkerLost, TooFewIdentities, SeveralSessions,
   Deadlocked, WaitsFor

-----------------------------------------------------------------------------
(* Type correctness. *)

\* The variables have their types in the initial state.
LEMMA TypeInit == Init => TypeOK
BY ConstantsAssumption DEF Init, TypeOK, Status, RequestStep, MessageState, ResultState, TaskStep

\* The API's steps keep the types.
LEMMA TypeStart ==
    ASSUME TypeOK, NEW j \in Jobs, StartScan(j) \/ Redeliver(j)
    PROVE  TypeOK'
<1>1. CASE Redeliver(j)
  BY <1>1 DEF TypeOK, Redeliver, MessageState, dbVars, lockVars, apiVars, taskVars
<1>2. CASE StartScan(j)
  <2>1. CASE CreateScanJob(j)
    BY <2>1 DEF TypeOK, CreateScanJob, Advance, RequestStep, dbVars,
       lockVars, msgVars, taskVars
  <2>2. CASE SetWorkflowKey(j)
    BY <2>2 DEF TypeOK, SetWorkflowKey, Advance, RequestStep, dbVars,
       lockVars, msgVars, taskVars
  <2>3. CASE PushWorkflow(j)
    BY <2>3 DEF TypeOK, PushWorkflow, Advance, RequestStep, dbVars,
       lockVars, msgVars, taskVars
  <2>4. CASE PublishTask(j)
    BY <2>4 DEF TypeOK, PublishTask, Advance, RequestStep, MessageState, dbVars,
       lockVars, msgVars, taskVars
  <2>5. CASE CommitJob(j)
    BY <2>5 DEF TypeOK, CommitJob, Advance, RequestStep, Status, dbVars,
       lockVars, msgVars, taskVars
  <2>6. CASE RequestLost(j)
    BY <2>6 DEF TypeOK, RequestLost, Advance, RequestStep, dbVars,
       lockVars, msgVars, taskVars
  <2>7. QED BY <1>2, <2>1, <2>2, <2>3, <2>4, <2>5, <2>6 DEF StartScan
<1>3. QED BY <1>1, <1>2

\* A delivery keeps the types.
LEMMA TypeDeliver ==
    ASSUME TypeOK, NEW w \in Workers, NEW j \in Jobs, Deliver(w, j)
    PROVE  TypeOK'
BY ConstantsAssumption, Stages DEF TypeOK, Deliver, MessageState, dbVars, lockVars, apiVars

\* The end of a task keeps the types.
LEMMA TypeEnd ==
    ASSUME TypeOK, NEW w \in Workers, FailRun(w) \/ Finish(w) \/ KillTask(w)
    PROVE  TypeOK'
<1>1. job[w] \in Jobs
  BY TaskEnds DEF TypeOK
<1>2. PICK m \in {"acked", "queued"} : EndTask(w, m)
  BY TaskEnds
<1>3. jobLock' \in [Jobs -> Workers \cup {NoWorker}]
      /\ sessionLock' \in [Identities -> Workers \cup {NoWorker}]
      /\ todo' \in [Workers -> Seq(Identities)]
      /\ created' \in [Workers -> SUBSET Identities]
  BY <1>2 DEF TypeOK, EndTask, EndTransaction, Unlocked
<1>4. result' \in [Jobs -> ResultState]
  BY <1>1, TaskEnds DEF TypeOK, StoreResult, ResultState
<1>5. /\ step' \in [Workers -> TaskStep]
      /\ job' \in [Workers -> Jobs \cup {NoJob}]
      /\ \A v \in Workers : step'[v] = "idle" <=> job'[v] = NoJob
  BY <1>2, Stages DEF TypeOK, EndTask
<1>6. broker' \in [Jobs -> MessageState] /\ holder' \in [Jobs -> Workers \cup {NoWorker}]
  BY <1>1, <1>2 DEF TypeOK, EndTask, MessageState
<1>7. UNCHANGED <<dbVars, apiVars, deliveries>>
  BY <1>2 DEF EndTask
<1>8. QED BY <1>3, <1>4, <1>5, <1>6, <1>7 DEF TypeOK, dbVars, apiVars

\* The stages of a run keep the types.
LEMMA TypeRun ==
    ASSUME TypeOK, NEW w \in Workers, RunTask(w)
    PROVE  TypeOK'
<1>1. CASE StartRun(w)
  <2>1. job[w] \in Jobs /\ IdentitiesOf[job[w]] \in SUBSET Identities
    BY <1>1, ConstantsAssumption DEF TypeOK, StartRun
  <2>2. todo' \in [Workers -> Seq(Identities)]
    <3>1. PICK q \in Listings(IdentitiesOf[job[w]]) : todo' = [todo EXCEPT ![w] = q]
      BY <1>1 DEF StartRun
    <3>2. q \in Seq(Identities)
      BY <2>1, <3>1, ListingOf
    <3>3. QED BY <3>1, <3>2 DEF TypeOK
  <2>3. /\ step' \in [Workers -> TaskStep]
        /\ \A v \in Workers : step'[v] = "idle" <=> job'[v] = NoJob
    BY <1>1, Stages DEF TypeOK, StartRun
  <2>4. jobLock' \in [Jobs -> Workers \cup {NoWorker}]
    BY <1>1, <2>1 DEF TypeOK, StartRun
  <2>5. QED BY <1>1, <2>2, <2>3, <2>4 DEF TypeOK, StartRun, dbVars, apiVars, msgVars
<1>2. CASE InsertSession(w) \/ UpdateSession(w)
  <2>1. Head(todo[w]) \in Identities /\ Tail(todo[w]) \in Seq(Identities)
    BY <1>2 DEF TypeOK, InsertSession, UpdateSession
  <2>2. /\ todo' \in [Workers -> Seq(Identities)]
        /\ created' \in [Workers -> SUBSET Identities]
        /\ sessionLock' \in [Identities -> Workers \cup {NoWorker}]
    <3>1. CASE InsertSession(w)
      BY <2>1, <3>1 DEF TypeOK, InsertSession, lockVars
    <3>2. CASE UpdateSession(w)
      BY <2>1, <3>2 DEF TypeOK, UpdateSession, lockVars
    <3>3. QED BY <1>2, <3>1, <3>2
  <2>3. UNCHANGED <<dbVars, jobLock, apiVars, msgVars, result, step, job>>
    BY <1>2 DEF InsertSession, UpdateSession, lockVars
  <2>4. QED BY <2>2, <2>3 DEF TypeOK, dbVars, apiVars, msgVars
<1>3. CASE StartCrawl(w) \/ MarkStage(w)
  <2>1. /\ step' \in [Workers -> TaskStep]
        /\ \A v \in Workers : step'[v] = "idle" <=> job'[v] = NoJob
    <3>1. CASE StartCrawl(w)
      BY <3>1, Stages DEF TypeOK, StartCrawl
    <3>2. CASE MarkStage(w)
      <4>1. NextStage[step[w]] \in Marked
        BY <3>2, Stages DEF MarkStage
      <4>2. NextStage[step[w]] \in TaskStep /\ NextStage[step[w]] # "idle" /\ step[w] # "idle"
        BY <3>2, <4>1, Stages DEF MarkStage
      <4>3. QED BY <3>2, <4>2 DEF TypeOK, MarkStage
    <3>3. QED BY <1>3, <3>1, <3>2
  <2>2. UNCHANGED <<dbVars, lockVars, apiVars, msgVars, result, job, todo, created>>
    BY <1>3 DEF StartCrawl, MarkStage
  <2>3. QED BY <2>1, <2>2 DEF TypeOK, dbVars, lockVars, apiVars, msgVars
<1>4. CASE CommitRun(w)
  <2>1. job[w] \in Jobs
    BY <1>4 DEF TypeOK, CommitRun
  <2>2. jobLock' \in [Jobs -> Workers \cup {NoWorker}]
        /\ sessionLock' \in [Identities -> Workers \cup {NoWorker}]
        /\ todo' \in [Workers -> Seq(Identities)]
        /\ created' \in [Workers -> SUBSET Identities]
    BY <1>4 DEF TypeOK, CommitRun, EndTransaction, Unlocked
  <2>3. /\ step' \in [Workers -> TaskStep]
        /\ \A v \in Workers : step'[v] = "idle" <=> job'[v] = NoJob
    BY <1>4, Stages DEF TypeOK, CommitRun
  <2>4. /\ status' \in [Jobs -> Status]
        /\ effects' \in [Jobs -> Nat]
        /\ sessions' \in [Identities -> Nat]
    BY <1>4, <2>1 DEF TypeOK, CommitRun, Status
  <2>5. UNCHANGED <<apiVars, msgVars, result, job>>
    BY <1>4 DEF CommitRun
  <2>6. QED BY <2>2, <2>3, <2>4, <2>5 DEF TypeOK, apiVars, msgVars
<1>5. CASE FailRun(w) \/ Finish(w)
  BY <1>5, TypeEnd
<1>6. QED BY <1>1, <1>2, <1>3, <1>4, <1>5 DEF RunTask

\* Every step keeps the types.
LEMMA TypeNext == TypeOK /\ [Next]_vars => TypeOK'
<1> SUFFICES ASSUME TypeOK, [Next]_vars PROVE TypeOK'
  OBVIOUS
<1>1. CASE UNCHANGED vars
  BY <1>1 DEF TypeOK, vars, dbVars, lockVars, apiVars, msgVars, taskVars
<1>2. CASE Next
  BY <1>2, TypeStart, TypeDeliver, TypeRun, TypeEnd DEF Next
<1>3. QED BY <1>1, <1>2

\* The variables keep their types.
THEOREM TypeCorrect == Spec => []TypeOK
BY TypeInit, TypeNext, PTL DEF Spec

-----------------------------------------------------------------------------
(* Frames: what the steps of a task leave alone. *)

\* The end of a task closes its transaction and changes no row.
LEMMA EndFrame ==
    ASSUME TypeOK, NEW w \in Workers, FailRun(w) \/ Finish(w) \/ KillTask(w)
    PROVE  /\ step[w] # "idle"
           /\ UNCHANGED <<status, effects, sessions, request, deliveries>>
           /\ jobLock' = Unlocked(jobLock, w)
           /\ step' = [step EXCEPT ![w] = "idle"]
           /\ job' = [job EXCEPT ![w] = NoJob]
           /\ todo' = [todo EXCEPT ![w] = << >>]
           /\ created' = [created EXCEPT ![w] = {}]
BY TaskEnds DEF EndTask, EndTransaction, dbVars, apiVars

\* A task changes its own variables, and the database only when it commits.
LEMMA TaskFrame ==
    ASSUME TypeOK, NEW w \in Workers, RunTask(w) \/ KillTask(w)
    PROVE  /\ job[w] \in Jobs
           /\ step[w] # "idle"
           /\ UNCHANGED <<request, deliveries>>
           /\ CommitRun(w) \/ UNCHANGED <<status, effects, sessions>>
           /\ \A v \in Workers : v # w =>
                job'[v] = job[v] /\ step'[v] = step[v] /\ todo'[v] = todo[v] /\ created'[v] = created[v]
           /\ \/ step'[w] = "idle" /\ job'[w] = NoJob
              \/ step'[w] \in Marked \cup {"return"} /\ job'[w] = job[w]
<1>1. CASE FailRun(w) \/ Finish(w) \/ KillTask(w)
  BY <1>1, EndFrame DEF TypeOK
<1>2. CASE StartRun(w)
  BY <1>2, Stages DEF TypeOK, StartRun, dbVars, apiVars, msgVars
<1>3. CASE InsertSession(w)
  BY <1>3, Stages DEF TypeOK, InsertSession, dbVars, apiVars, msgVars
<1>4. CASE UpdateSession(w)
  BY <1>4, Stages DEF TypeOK, UpdateSession, dbVars, apiVars, msgVars
<1>5. CASE StartCrawl(w)
  BY <1>5, Stages DEF TypeOK, StartCrawl, dbVars, apiVars, msgVars
<1>6. CASE MarkStage(w)
  <2>1. step[w] \in Marked /\ NextStage[step[w]] \in Marked
    BY <1>6, Stages DEF MarkStage
  <2>2. QED BY <1>6, <2>1, Stages DEF TypeOK, MarkStage, dbVars, apiVars, msgVars
<1>7. CASE CommitRun(w)
  BY <1>7, Stages DEF TypeOK, CommitRun, EndTransaction, apiVars, msgVars
<1>8. QED BY <1>1, <1>2, <1>3, <1>4, <1>5, <1>6, <1>7 DEF RunTask

\* A request, a redelivery and a delivery touch no transaction.
LEMMA OutsideFrame ==
    ASSUME TypeOK, NEW j \in Jobs, StartScan(j) \/ Redeliver(j)
    PROVE  /\ UNCHANGED <<effects, sessions, lockVars, deliveries, taskVars>>
           /\ CommitJob(j) \/ UNCHANGED status
BY DEF StartScan, CreateScanJob, SetWorkflowKey, PushWorkflow, PublishTask, CommitJob, RequestLost,
   Redeliver, dbVars, msgVars

\* A delivery starts a run and touches no row.
LEMMA DeliverFrame ==
    ASSUME TypeOK, NEW w \in Workers, NEW j \in Jobs, Deliver(w, j)
    PROVE  /\ UNCHANGED <<dbVars, lockVars, request, todo, created>>
           /\ step[w] = "idle"
           /\ step' = [step EXCEPT ![w] = "load"]
           /\ job' = [job EXCEPT ![w] = j]
           /\ deliveries' = [deliveries EXCEPT ![j] = @ + 1]
BY DEF Deliver, apiVars

-----------------------------------------------------------------------------
(* The inductive invariant, one lemma for each of its parts. *)

\* Rows appear with the commit of the request and are never deleted.
LEMMA RowNext == TypeOK /\ RowExists /\ [Next]_vars => RowExists'
<1> SUFFICES ASSUME TypeOK, RowExists, [Next]_vars PROVE RowExists'
  OBVIOUS
<1>1. ASSUME NEW j \in Jobs, StartScan(j) \/ Redeliver(j) PROVE RowExists'
  <2>1. \A k \in Jobs : /\ request'[k] # "committed" => status'[k] = "none"
                        /\ status[k] # "none" => status'[k] # "none"
    BY <1>1 DEF TypeOK, RowExists, StartScan, CreateScanJob, SetWorkflowKey, PushWorkflow,
       PublishTask, CommitJob, RequestLost, Redeliver, Advance, dbVars, apiVars
  <2>2. step' = step /\ job' = job
    BY <1>1, OutsideFrame DEF taskVars
  <2>3. \A w \in Workers : step[w] \in Marked => job[w] \in Jobs
    BY Stages DEF TypeOK
  <2>4. QED BY <2>1, <2>2, <2>3 DEF RowExists
<1>2. ASSUME NEW w \in Workers, NEW j \in Jobs, Deliver(w, j) PROVE RowExists'
  <2>1. /\ status' = status /\ request' = request
        /\ \A v \in Workers : step'[v] \in Marked => step[v] \in Marked /\ job'[v] = job[v]
    BY <1>2, DeliverFrame, NotMarked DEF TypeOK, dbVars
  <2>2. QED BY <2>1 DEF RowExists
<1>3. ASSUME NEW w \in Workers, RunTask(w) \/ KillTask(w) PROVE RowExists'
  <2>1. step'[w] \in Marked => status[job[w]] # "none"
    <3>1. CASE StartRun(w)
      BY <3>1 DEF StartRun
    <3>2. CASE step[w] \in Marked
      BY <3>2 DEF RowExists
    <3>3. CASE ~StartRun(w) /\ step[w] \notin Marked
      BY <1>3, <3>3, EndFrame, Stages DEF TypeOK, RunTask, InsertSession, UpdateSession, StartCrawl,
         MarkStage, CommitRun
    <3>4. QED BY <3>1, <3>2, <3>3
  <2>2. CASE UNCHANGED <<status, effects, sessions>>
    <3>1. /\ request' = request
          /\ \A v \in Workers : v # w => step'[v] = step[v] /\ job'[v] = job[v]
          /\ step'[w] \in Marked => job'[w] = job[w]
      BY <1>3, TaskFrame, NotMarked
    <3>2. QED BY <2>1, <2>2, <3>1 DEF RowExists
  <2>3. CASE CommitRun(w)
    <3>1. request[job[w]] = "committed" /\ job[w] \in Jobs
      BY <1>3, <2>3, TaskFrame, Stages DEF RowExists, CommitRun
    <3>2. \A j \in Jobs : status[j] # "none" => status'[j] # "none"
      BY <2>3, <3>1 DEF TypeOK, CommitRun
    <3>3. \A j \in Jobs : j # job[w] => status'[j] = status[j]
      BY <2>3, <3>1 DEF TypeOK, CommitRun
    <3>4. /\ request' = request
          /\ \A v \in Workers : v # w => step'[v] = step[v] /\ job'[v] = job[v]
          /\ step'[w] \notin Marked
      BY <1>3, <2>3, TaskFrame, NotMarked DEF TypeOK, CommitRun
    <3>5. \A v \in Workers : step[v] \in Marked => job[v] \in Jobs
      BY MarkedJob
    <3>6. QED BY <3>1, <3>2, <3>3, <3>4, <3>5 DEF RowExists
  <2>4. QED BY <1>3, <2>2, <2>3, TaskFrame
<1>4. CASE UNCHANGED vars
  BY <1>4 DEF RowExists, vars, dbVars, apiVars, taskVars
<1>5. QED BY <1>1, <1>2, <1>3, <1>4 DEF Next

\* The lock on a job's row belongs to the one run that has marked it.
LEMMA LockedNext == TypeOK /\ JobLocked /\ [Next]_vars => JobLocked'
<1> SUFFICES ASSUME TypeOK, JobLocked, [Next]_vars PROVE JobLocked'
  OBVIOUS
<1>1. ASSUME NEW j \in Jobs, StartScan(j) \/ Redeliver(j) PROVE JobLocked'
  BY <1>1, OutsideFrame DEF JobLocked, lockVars, taskVars
<1>2. ASSUME NEW w \in Workers, NEW j \in Jobs, Deliver(w, j) PROVE JobLocked'
  <2>1. /\ jobLock' = jobLock
        /\ \A v \in Workers : v # w => step'[v] = step[v] /\ job'[v] = job[v]
        /\ step[w] \notin Marked /\ step'[w] \notin Marked
    BY <1>2, DeliverFrame, NotMarked DEF TypeOK, lockVars
  <2>2. \A k \in Jobs : jobLock[k] \in Workers \cup {NoWorker}
    BY DEF TypeOK
  <2>3. QED BY <2>1, <2>2 DEF JobLocked
<1>3. ASSUME NEW w \in Workers, RunTask(w) \/ KillTask(w) PROVE JobLocked'
  <2>0. /\ job[w] \in Jobs
        /\ \A v \in Workers : v # w => job'[v] = job[v] /\ step'[v] = step[v]
    BY <1>3, TaskFrame
  <2>1. CASE FailRun(w) \/ Finish(w) \/ KillTask(w) \/ CommitRun(w)
    <3>1. jobLock' = Unlocked(jobLock, w) /\ step'[w] \notin Marked
      BY <2>1, EndFrame, Stages DEF TypeOK, CommitRun, EndTransaction
    <3>2. \A j \in Jobs : jobLock'[j] = IF jobLock[j] = w THEN NoWorker ELSE jobLock[j]
      BY <3>1 DEF TypeOK, Unlocked
    <3>3. \A v \in Workers : step[v] \in Marked => job[v] \in Jobs
      BY Stages DEF TypeOK
    <3>4. \A j \in Jobs : jobLock[j] \in Workers \cup {NoWorker}
      BY DEF TypeOK
    <3>5. QED BY <2>0, <3>1, <3>2, <3>3, <3>4 DEF JobLocked
  <2>2. CASE StartRun(w)
    <3>1. /\ jobLock[job[w]] = NoWorker
          /\ jobLock' = [jobLock EXCEPT ![job[w]] = w]
          /\ step'[w] = "authenticating" /\ job' = job /\ step[w] = "load"
      BY <2>2 DEF TypeOK, StartRun
    <3>2. /\ jobLock'[job[w]] = w
          /\ \A j \in Jobs : j # job[w] => jobLock'[j] = jobLock[j]
          /\ \A j \in Jobs : jobLock[j] \in Workers \cup {NoWorker}
      BY <2>0, <3>1 DEF TypeOK
    <3>3. step[w] \notin Marked /\ step'[w] \in Marked
      BY <3>1, NotMarked
    <3>4. \A v \in Workers : step[v] \in Marked => job[v] \in Jobs
      BY MarkedJob
    <3>5. QED BY <2>0, <3>1, <3>2, <3>3, <3>4, ConstantsAssumption DEF JobLocked
  <2>3. CASE InsertSession(w) \/ UpdateSession(w)
    BY <2>3 DEF JobLocked, InsertSession, UpdateSession, lockVars
  <2>4. CASE StartCrawl(w) \/ MarkStage(w)
    <3>1. jobLock' = jobLock /\ job' = job /\ step[w] \in Marked /\ step'[w] \in Marked
      BY <2>4, Stages DEF TypeOK, StartCrawl, MarkStage, lockVars
    <3>2. \A j \in Jobs : jobLock[j] \in Workers \cup {NoWorker}
      BY DEF TypeOK
    <3>3. QED BY <2>0, <3>1, <3>2 DEF JobLocked
  <2>5. QED BY <1>3, <2>1, <2>2, <2>3, <2>4 DEF RunTask
<1>4. CASE UNCHANGED vars
  BY <1>4 DEF JobLocked, vars, lockVars, taskVars
<1>5. QED BY <1>1, <1>2, <1>3, <1>4 DEF Next

\* The first of a list, and the rest.
LEMMA HeadAndTail ==
    ASSUME NEW q \in Seq(Identities), q # << >>
    PROVE  /\ Head(q) \in Identities /\ Tail(q) \in Seq(Identities)
           /\ {q[k] : k \in DOMAIN q} = {Head(q)} \cup {Tail(q)[k] : k \in DOMAIN Tail(q)}
<1>1. Len(q) \in Nat \ {0} /\ DOMAIN q = 1..Len(q)
  OBVIOUS
<1>2. /\ Tail(q) \in Seq(Identities) /\ Len(Tail(q)) = Len(q) - 1
      /\ \A k \in 1..(Len(q) - 1) : Tail(q)[k] = q[k + 1]
  BY <1>1
<1>3. DOMAIN Tail(q) = 1..(Len(q) - 1)
  BY <1>2
<1>4. ASSUME NEW k \in 1..Len(q), k # 1
      PROVE  k - 1 \in 1..(Len(q) - 1) /\ Tail(q)[k - 1] = q[k]
  BY <1>1, <1>2, <1>4
<1>5. ASSUME NEW k \in 1..(Len(q) - 1)
      PROVE  k + 1 \in 1..Len(q) /\ Tail(q)[k] = q[k + 1]
  BY <1>1, <1>2
<1>6. Head(q) = q[1] /\ 1 \in 1..Len(q)
  BY <1>1
<1>7. {q[k] : k \in 1..Len(q)}
        = {q[1]} \cup {Tail(q)[k] : k \in 1..(Len(q) - 1)}
  <2>1. ASSUME NEW i, i \in {q[k] : k \in 1..Len(q)}
        PROVE  i \in {q[1]} \cup {Tail(q)[k] : k \in 1..(Len(q) - 1)}
    BY <1>4, <2>1
  <2>2. ASSUME NEW i, i \in {Tail(q)[k] : k \in 1..(Len(q) - 1)}
        PROVE  i \in {q[k] : k \in 1..Len(q)}
    BY <1>5, <2>2
  <2>3. QED BY <1>6, <2>1, <2>2
<1>8. Head(q) \in Identities
  BY <1>1, <1>6
<1>9. QED BY <1>1, <1>2, <1>3, <1>6, <1>7, <1>8

\* What IdentitiesDone says of one worker.
DoneBy(w) ==
    /\ step[w] \notin Marked => created[w] = {} /\ todo[w] = << >>
    /\ step[w] \in Marked =>
         /\ created[w] \cup Listed(w) \subseteq IdentitiesOf[job[w]]
         /\ \A i \in IdentitiesOf[job[w]] :
              sessions[i] > 0 \/ i \in created[w] \/ i \in Listed(w)
         /\ step[w] # "authenticating" => todo[w] = << >>

\* A commit adds sessions and takes none away.
LEMMA SessionsGrow ==
    ASSUME TypeOK, [Next]_vars
    PROVE  \A i \in Identities : sessions'[i] \in Nat /\ (sessions[i] > 0 => sessions'[i] > 0)
<1>1. ASSUME NEW j \in Jobs, StartScan(j) \/ Redeliver(j) PROVE sessions' = sessions
  BY <1>1, OutsideFrame
<1>2. ASSUME NEW w \in Workers, NEW j \in Jobs, Deliver(w, j) PROVE sessions' = sessions
  BY <1>2, DeliverFrame DEF dbVars
<1>3. ASSUME NEW w \in Workers, RunTask(w) \/ KillTask(w)
      PROVE  sessions' = sessions \/ CommitRun(w)
  BY <1>3, TaskFrame
<1>4. ASSUME NEW w \in Workers, CommitRun(w)
      PROVE  \A i \in Identities : sessions'[i] \in Nat /\ (sessions[i] > 0 => sessions'[i] > 0)
  BY <1>4 DEF TypeOK, CommitRun
<1>5. CASE sessions' = sessions
  BY <1>5 DEF TypeOK
<1>6. QED BY <1>1, <1>2, <1>3, <1>4, <1>5 DEF Next, vars, dbVars

\* What a worker has done stays done while it makes no step.
LEMMA DoneFrame ==
    ASSUME TypeOK, [Next]_vars, NEW v \in Workers, DoneBy(v),
           step'[v] = step[v], job'[v] = job[v], todo'[v] = todo[v], created'[v] = created[v]
    PROVE  DoneBy(v)'
<1>1. step[v] \in Marked => IdentitiesOf[job[v]] \subseteq Identities
  BY MarkedJob, ConstantsAssumption
<1>2. Listed(v)' = Listed(v)
  BY DEF Listed
<1>3. QED BY <1>1, <1>2, SessionsGrow DEF DoneBy

\* A run in its transaction keeps account of its identities.
LEMMA DoneRun ==
    ASSUME TypeOK, NEW w \in Workers, DoneBy(w), RunTask(w) \/ KillTask(w)
    PROVE  DoneBy(w)'
<1>1. CASE FailRun(w) \/ Finish(w) \/ KillTask(w) \/ CommitRun(w)
  <2>1. step'[w] \notin Marked /\ created'[w] = {} /\ todo'[w] = << >>
    BY <1>1, EndFrame, NotMarked DEF TypeOK, CommitRun, EndTransaction
  <2>2. QED BY <2>1 DEF DoneBy
<1>2. CASE StartRun(w)
  <2>1. job[w] \in Jobs /\ IdentitiesOf[job[w]] \in SUBSET Identities
    BY <1>2, ConstantsAssumption DEF TypeOK, StartRun
  <2>2. PICK q \in Listings(IdentitiesOf[job[w]]) : todo' = [todo EXCEPT ![w] = q]
    BY <1>2 DEF StartRun
  <2>3. Listed(w)' = IdentitiesOf[job[w]]
    <3>1. todo'[w] = q
      BY <2>2 DEF TypeOK
    <3>2. {q[k] : k \in DOMAIN q} = IdentitiesOf[job[w]]
      BY <2>1, <2>2, ListingOf
    <3>3. QED BY <3>1, <3>2 DEF Listed
  <2>4. step'[w] = "authenticating" /\ job' = job /\ created'[w] = {}
    BY <1>2, NotMarked DEF TypeOK, StartRun, DoneBy
  <2>5. QED BY <2>3, <2>4, NotMarked DEF DoneBy
<1>3. CASE InsertSession(w) \/ UpdateSession(w)
  <2>1. /\ step[w] = "authenticating" /\ step' = step /\ job' = job /\ sessions' = sessions
        /\ todo[w] # << >>
        /\ todo' = [todo EXCEPT ![w] = Tail(@)]
        /\ \/ sessions[Head(todo[w])] = 1 /\ created' = created
           \/ created' = [created EXCEPT ![w] = @ \cup {Head(todo[w])}]
    BY <1>3 DEF InsertSession, UpdateSession, dbVars
  <2>2. Listed(w) = {Head(todo[w])} \cup Listed(w)'
    <3>1. todo'[w] = Tail(todo[w]) /\ todo[w] \in Seq(Identities)
      BY <2>1 DEF TypeOK
    <3>2. {todo[w][k] : k \in DOMAIN todo[w]}
            = {Head(todo[w])} \cup {Tail(todo[w])[k] : k \in DOMAIN Tail(todo[w])}
      BY <2>1, <3>1, HeadAndTail
    <3>3. QED BY <3>1, <3>2 DEF Listed
  <2>3. \/ sessions[Head(todo[w])] > 0 /\ created'[w] = created[w]
        \/ created'[w] = created[w] \cup {Head(todo[w])}
    BY <2>1 DEF TypeOK
  <2>4. step[w] \in Marked
    BY <2>1, NotMarked
  <2>5. QED BY <2>1, <2>2, <2>3, <2>4 DEF DoneBy
<1>4. CASE StartCrawl(w) \/ MarkStage(w)
  <2>1. /\ job' = job /\ sessions' = sessions /\ todo' = todo /\ created' = created
        /\ step[w] \in Marked
        /\ todo[w] = << >>
    BY <1>4, Stages, NotMarked DEF StartCrawl, MarkStage, DoneBy, NextStage, dbVars
  <2>2. step'[w] \in Marked
    <3>1. CASE StartCrawl(w)
      BY <3>1, Stages DEF TypeOK, StartCrawl
    <3>2. CASE MarkStage(w)
      BY <3>2, Stages DEF TypeOK, MarkStage
    <3>3. QED BY <1>4, <3>1, <3>2
  <2>3. Listed(w)' = Listed(w)
    BY <2>1 DEF Listed
  <2>4. QED BY <2>1, <2>2, <2>3 DEF DoneBy
<1>5. QED BY <1>1, <1>2, <1>3, <1>4 DEF RunTask

\* Every identity of a marked job has a session, or will have one at the commit.
LEMMA DoneNext == TypeOK /\ IdentitiesDone /\ [Next]_vars => IdentitiesDone'
<1> SUFFICES ASSUME TypeOK, IdentitiesDone, [Next]_vars, NEW v \in Workers PROVE DoneBy(v)'
  BY DEF IdentitiesDone, DoneBy, Listed
<1>0. DoneBy(v)
  BY DEF IdentitiesDone, DoneBy
<1>1. ASSUME NEW j \in Jobs, StartScan(j) \/ Redeliver(j) PROVE DoneBy(v)'
  BY <1>0, <1>1, OutsideFrame, DoneFrame DEF taskVars
<1>2. ASSUME NEW w \in Workers, NEW j \in Jobs, Deliver(w, j) PROVE DoneBy(v)'
  <2>1. CASE v = w
    BY <1>0, <1>2, <2>1, DeliverFrame, NotMarked DEF TypeOK, DoneBy
  <2>2. CASE v # w
    BY <1>0, <1>2, <2>2, DeliverFrame, DoneFrame DEF TypeOK
  <2>3. QED BY <2>1, <2>2
<1>3. ASSUME NEW w \in Workers, RunTask(w) \/ KillTask(w) PROVE DoneBy(v)'
  <2>1. CASE v = w
    BY <1>0, <1>3, <2>1, DoneRun
  <2>2. CASE v # w
    BY <1>0, <1>3, <2>2, TaskFrame, DoneFrame
  <2>3. QED BY <2>1, <2>2
<1>4. CASE UNCHANGED vars
  BY <1>0, <1>4, DoneFrame DEF vars, taskVars
<1>5. QED BY <1>1, <1>2, <1>3, <1>4 DEF Next

\* A commit leaves a session for every identity of its job.
LEMMA SessionsNext ==
    TypeOK /\ IdentitiesDone /\ RowExists /\ CompletedHasSessions /\ [Next]_vars
      => CompletedHasSessions'
<1> SUFFICES ASSUME TypeOK, IdentitiesDone, RowExists, CompletedHasSessions, [Next]_vars,
                    NEW k \in Jobs, status'[k] = "completed", NEW i \in IdentitiesOf[k]
             PROVE  sessions'[i] > 0
  BY DEF CompletedHasSessions
<1>0. i \in Identities
  BY ConstantsAssumption
<1>1. CASE status[k] = "completed"
  BY <1>0, <1>1, SessionsGrow DEF CompletedHasSessions
<1>2. CASE status[k] # "completed"
  <2>1. PICK w \in Workers : CommitRun(w)
    <3>1. ASSUME NEW j \in Jobs, StartScan(j) \/ Redeliver(j) PROVE FALSE
      BY <1>2, <3>1, OutsideFrame DEF TypeOK, CommitJob
    <3>2. ASSUME NEW w \in Workers, NEW j \in Jobs, Deliver(w, j) PROVE FALSE
      BY <1>2, <3>2, DeliverFrame DEF dbVars
    <3>3. ASSUME NEW w \in Workers, RunTask(w) \/ KillTask(w) PROVE CommitRun(w)
      BY <1>2, <3>3, TaskFrame
    <3>4. QED BY <1>2, <3>1, <3>2, <3>3 DEF Next, vars, dbVars
  <2>2. step[w] \in Marked /\ todo[w] = << >> /\ job[w] = k
    BY <1>2, <2>1, Stages, MarkedJob DEF CommitRun, IdentitiesDone, TypeOK
  <2>3. sessions[i] > 0 \/ i \in created[w]
    BY <2>2 DEF IdentitiesDone, Listed
  <2>4. QED BY <1>0, <2>1, <2>3 DEF CommitRun, TypeOK
<1>3. QED BY <1>1, <1>2

-----------------------------------------------------------------------------
(* Counting the runs of a job. *)

\* There are finitely many of them.
LEMMA UncommittedFinite == \A j : IsFiniteSet(Uncommitted(j)) /\ Cardinality(Uncommitted(j)) \in Nat
<1> TAKE j
<1>1. Uncommitted(j) \subseteq Workers
  BY DEF Uncommitted
<1>2. QED BY <1>1, ConstantsAssumption, FS_Subset, FS_CardinalityType

\* A run commits at most once.
LEMMA RunUncommitted ==
    ASSUME TypeOK, NEW t \in Jobs, NEW w \in Workers, RunTask(w) \/ KillTask(w)
    PROVE  \/ effects'[t] = effects[t] /\ Uncommitted(t)' \subseteq Uncommitted(t)
           \/ /\ effects'[t] = effects[t] + 1
              /\ w \in Uncommitted(t)
              /\ Uncommitted(t)' = Uncommitted(t) \ {w}
<1>1. /\ \A v \in Workers : v # w => job'[v] = job[v] /\ step'[v] = step[v]
      /\ job'[w] \in {job[w], NoJob} /\ job[w] \in Jobs
  BY TaskFrame
<1>2. CASE CommitRun(w)
  <2>1. step[w] = "graph" /\ step'[w] = "return" /\ effects' = [effects EXCEPT ![job[w]] = @ + 1]
    BY <1>2 DEF TypeOK, CommitRun
  <2>2. QED BY <1>1, <2>1 DEF TypeOK, Uncommitted
<1>3. CASE ~CommitRun(w)
  <2>1. effects' = effects
    BY <1>3, TaskFrame
  <2>2. step[w] = "return" => job'[w] = NoJob
    <3>1. CASE FailRun(w) \/ Finish(w) \/ KillTask(w)
      BY <3>1, EndFrame DEF TypeOK
    <3>2. CASE StartRun(w) \/ InsertSession(w) \/ UpdateSession(w) \/ StartCrawl(w)
      BY <3>2 DEF StartRun, InsertSession, UpdateSession, StartCrawl
    <3>3. CASE MarkStage(w)
      BY <3>3, Stages, NotMarked DEF MarkStage
    <3>4. QED BY <1>3, <3>1, <3>2, <3>3 DEF RunTask
  <2>3. Uncommitted(t)' \subseteq Uncommitted(t)
    BY <1>1, <2>2, ConstantsAssumption DEF Uncommitted
  <2>4. QED BY <2>1, <2>3
<1>4. QED BY <1>2, <1>3

\* What a delivery lets a run commit is accounted for from the delivery on.
LEMMA EffectsNext ==
    TypeOK /\ EffectsWithinDeliveries /\ [Next]_vars => EffectsWithinDeliveries'
<1> SUFFICES ASSUME TypeOK, EffectsWithinDeliveries, [Next]_vars, NEW t \in Jobs
             PROVE  effects'[t] + Cardinality(Uncommitted(t)') <= deliveries'[t]
  BY DEF EffectsWithinDeliveries
<1>0. /\ effects[t] + Cardinality(Uncommitted(t)) <= deliveries[t]
      /\ effects[t] \in Nat /\ deliveries[t] \in Nat /\ Cardinality(Uncommitted(t)) \in Nat
      /\ IsFiniteSet(Uncommitted(t))
  BY UncommittedFinite DEF EffectsWithinDeliveries, TypeOK
<1>1. CASE UNCHANGED <<effects, deliveries, step, job>>
  <2>1. Uncommitted(t)' = Uncommitted(t)
    BY <1>1 DEF Uncommitted
  <2>2. QED BY <1>0, <1>1, <2>1
<1>2. ASSUME NEW w \in Workers, NEW j \in Jobs, Deliver(w, j)
      PROVE  effects'[t] + Cardinality(Uncommitted(t)') <= deliveries'[t]
  <2>1. /\ effects' = effects
        /\ deliveries' = [deliveries EXCEPT ![j] = @ + 1]
        /\ job[w] = NoJob /\ job'[w] = j
        /\ \A v \in Workers : v # w => job'[v] = job[v] /\ step'[v] = step[v]
    BY <1>2, DeliverFrame DEF TypeOK, dbVars
  <2>2. CASE t = j
    <3>1. Uncommitted(t)' \subseteq Uncommitted(t) \cup {w}
      BY <2>1 DEF Uncommitted
    <3>2. /\ IsFiniteSet(Uncommitted(t) \cup {w})
          /\ Cardinality(Uncommitted(t) \cup {w})
               = IF w \in Uncommitted(t) THEN Cardinality(Uncommitted(t))
                 ELSE Cardinality(Uncommitted(t)) + 1
      BY <1>0, FS_AddElement, Zenon
    <3>3. Cardinality(Uncommitted(t)') \in Nat /\ Cardinality(Uncommitted(t) \cup {w}) \in Nat
          /\ Cardinality(Uncommitted(t)') <= Cardinality(Uncommitted(t) \cup {w})
      BY <3>1, <3>2, FS_Subset, FS_CardinalityType
    <3>4. deliveries'[t] = deliveries[t] + 1
      BY <2>1, <2>2 DEF TypeOK
    <3>5. QED BY <1>0, <2>1, <3>2, <3>3, <3>4
  <2>3. CASE t # j
    <3>1. Uncommitted(t)' = Uncommitted(t)
      BY <2>1, <2>3, ConstantsAssumption DEF Uncommitted
    <3>2. QED BY <1>0, <2>1, <2>3, <3>1 DEF TypeOK
  <2>4. QED BY <2>2, <2>3
<1>3. ASSUME NEW w \in Workers, RunTask(w) \/ KillTask(w)
      PROVE  effects'[t] + Cardinality(Uncommitted(t)') <= deliveries'[t]
  <2>1. deliveries' = deliveries
    BY <1>3, TaskFrame
  <2>2. CASE effects'[t] = effects[t] /\ Uncommitted(t)' \subseteq Uncommitted(t)
    <3>1. Cardinality(Uncommitted(t)') \in Nat
          /\ Cardinality(Uncommitted(t)') <= Cardinality(Uncommitted(t))
      BY <1>0, <2>2, FS_Subset, FS_CardinalityType
    <3>2. QED BY <1>0, <2>1, <2>2, <3>1
  <2>3. CASE /\ effects'[t] = effects[t] + 1
             /\ w \in Uncommitted(t)
             /\ Uncommitted(t)' = Uncommitted(t) \ {w}
    <3>1. Cardinality(Uncommitted(t)') = Cardinality(Uncommitted(t)) - 1
      BY <1>0, <2>3, FS_RemoveElement
    <3>2. QED BY <1>0, <2>1, <2>3, <3>1
  <2>4. QED BY <1>3, <2>2, <2>3, RunUncommitted
<1>4. ASSUME NEW j \in Jobs, StartScan(j) \/ Redeliver(j)
      PROVE  UNCHANGED <<effects, deliveries, step, job>>
  BY <1>4, OutsideFrame DEF taskVars
<1>5. CASE UNCHANGED vars
  BY <1>1, <1>5 DEF vars, dbVars, msgVars, taskVars
<1>6. QED BY <1>1, <1>2, <1>3, <1>4, <1>5 DEF Next

-----------------------------------------------------------------------------
(* The inductive invariant and what follows from it. *)

\* It holds initially.
LEMMA InitIInv == Init => IInv
<1> SUFFICES ASSUME Init PROVE IInv
  OBVIOUS
<1>1. TypeOK
  BY TypeInit
<1>2. \A j \in Jobs : Uncommitted(j) = {}
  BY ConstantsAssumption DEF Init, Uncommitted
<1>3. \A j \in Jobs : Cardinality(Uncommitted(j)) = 0
  BY <1>2, FS_EmptySet, Zenon
<1>4. EffectsWithinDeliveries
  BY <1>3 DEF Init, EffectsWithinDeliveries
<1>5. CompletedHasSessions /\ RowExists /\ JobLocked /\ IdentitiesDone
  BY NotMarked DEF Init, CompletedHasSessions, RowExists, JobLocked, IdentitiesDone
<1>6. QED BY <1>1, <1>4, <1>5 DEF IInv

\* Every step preserves it.
LEMMA NextIInv == IInv /\ [Next]_vars => IInv'
BY TypeNext, EffectsNext, SessionsNext, RowNext, LockedNext, DoneNext DEF IInv

\* The inductive invariant holds in every reachable state.
THEOREM Invariance == Spec => []IInv
BY InitIInv, NextIInv, PTL DEF Spec

\* The results of a job are committed at most once per delivery of its message.
THEOREM EffectsBounded == Spec => []EffectsWithinDeliveries
<1>1. IInv => EffectsWithinDeliveries
  BY DEF IInv
<1>2. QED BY <1>1, Invariance, PTL

\* A completed job leaves a session for every identity it tested with.
THEOREM SessionsThere == Spec => []CompletedHasSessions
<1>1. IInv => CompletedHasSessions
  BY DEF IInv
<1>2. QED BY <1>1, Invariance, PTL

\* A step of the system is a step of AtomicJob, or changes nothing a reader sees.
LEMMA StepRefines == IInv /\ [Next]_vars => [AtomicJob!Next]_(AtomicJob!jobVars)
<1> SUFFICES ASSUME IInv, [Next]_vars
             PROVE  AtomicJob!Next \/ UNCHANGED <<status, effects>>
  BY DEF AtomicJob!jobVars
<1>0. TypeOK /\ RowExists
  BY DEF IInv
<1>1. ASSUME NEW j \in Jobs, StartScan(j) \/ Redeliver(j)
      PROVE  AtomicJob!Submit(j) \/ UNCHANGED <<status, effects>>
  <2>1. CASE CommitJob(j)
    <3>1. request[j] = "published"
      BY <2>1 DEF CommitJob, Advance
    <3>2. status[j] = "none"
      BY <1>0, <3>1 DEF RowExists
    <3>3. QED BY <2>1, <3>2 DEF CommitJob, AtomicJob!Submit
  <2>2. QED BY <1>0, <1>1, <2>1, OutsideFrame
<1>2. ASSUME NEW w \in Workers, NEW j \in Jobs, Deliver(w, j) PROVE UNCHANGED <<status, effects>>
  BY <1>0, <1>2, DeliverFrame DEF dbVars
<1>3. ASSUME NEW w \in Workers, RunTask(w) \/ KillTask(w)
      PROVE  UNCHANGED <<status, effects>> \/ \E j \in Jobs : AtomicJob!Complete(j)
  <2>1. CASE CommitRun(w)
    <3>1. job[w] \in Jobs /\ status[job[w]] # "none"
      BY <1>0, <1>3, <2>1, TaskFrame, Stages DEF RowExists, CommitRun
    <3>2. AtomicJob!Complete(job[w])
      BY <2>1, <3>1 DEF CommitRun, AtomicJob!Complete
    <3>3. QED BY <3>1, <3>2
  <2>2. QED BY <1>0, <1>3, <2>1, TaskFrame
<1>4. QED BY <1>1, <1>2, <1>3 DEF Next, AtomicJob!Next, vars, dbVars

\* The system implements AtomicJob: a reader sees all of a run or none of it.
THEOREM Refinement == Spec => ImplementsAtomicJob
<1>1. Init => AtomicJob!Init
  BY DEF Init, AtomicJob!Init
<1>2. QED BY <1>1, StepRefines, Invariance, PTL DEF Spec, ImplementsAtomicJob, AtomicJob!Spec

-----------------------------------------------------------------------------
(* The sessions of an identity that one job uses. *)

\* The lock on the job's row keeps two runs from inserting the same session.
LEMMA OneInserts ==
    ASSUME IInv, NEW v \in Workers, NEW w \in Workers,
           NEW i \in created[v] \cap created[w], Unshared(i)
    PROVE  v = w
<1>1. step[v] \in Marked /\ step[w] \in Marked
  BY DEF IInv, IdentitiesDone
<1>2. job[v] \in Jobs /\ job[w] \in Jobs
  BY <1>1, MarkedJob DEF IInv
<1>3. created[v] \subseteq IdentitiesOf[job[v]] /\ created[w] \subseteq IdentitiesOf[job[w]]
  BY <1>1 DEF IInv, IdentitiesDone
<1>4. job[v] = job[w]
  BY <1>2, <1>3 DEF Unshared
<1>5. QED BY <1>1, <1>4 DEF IInv, JobLocked

\* An inserted session stays the first until it is committed.
LEMMA OneSessionNext ==
    ASSUME IInv, OneSessionUnlessShared, InsertedIsFirst, [Next]_vars
    PROVE  OneSessionUnlessShared' /\ InsertedIsFirst'
<1>0. TypeOK
  BY DEF IInv
<1>1. CASE UNCHANGED <<sessions, created>>
  BY <1>1 DEF OneSessionUnlessShared, InsertedIsFirst, Unshared
<1>2. ASSUME NEW w \in Workers, RunTask(w) \/ KillTask(w)
      PROVE  OneSessionUnlessShared' /\ InsertedIsFirst'
  <2>1. \A v \in Workers : v # w => created'[v] = created[v]
    BY <1>0, <1>2, TaskFrame
  <2>2. CASE CommitRun(w)
    <3>1. /\ \A i \in Identities :
               sessions'[i] = IF i \in created[w] THEN sessions[i] + 1 ELSE sessions[i]
          /\ created'[w] = {}
      BY <1>0, <2>2 DEF TypeOK, CommitRun, EndTransaction
    <3>2. \A i \in Identities : i \in created[w] /\ Unshared(i) => sessions[i] = 0
      BY DEF InsertedIsFirst
    <3>3. \A v \in Workers : \A i \in created[v] \cap created[w] : Unshared(i) => v = w
      BY OneInserts
    <3>4. OneSessionUnlessShared'
      BY <3>1, <3>2 DEF OneSessionUnlessShared
    <3>5. InsertedIsFirst'
      BY <1>0, <2>1, <3>1, <3>3 DEF InsertedIsFirst, Unshared, TypeOK
    <3>6. QED BY <3>4, <3>5
  <2>3. CASE InsertSession(w)
    <3>1. /\ sessions' = sessions /\ sessions[Head(todo[w])] = 0
          /\ created'[w] = created[w] \cup {Head(todo[w])}
      BY <1>0, <2>3 DEF TypeOK, InsertSession, dbVars
    <3>2. QED BY <2>1, <3>1 DEF OneSessionUnlessShared, InsertedIsFirst, Unshared
  <2>4. CASE ~CommitRun(w) /\ ~InsertSession(w)
    <3>1. sessions' = sessions
      BY <1>0, <1>2, <2>4, TaskFrame
    <3>2. created'[w] \subseteq created[w]
      BY <1>0, <1>2, <2>4, EndFrame
         DEF TypeOK, RunTask, StartRun, UpdateSession, StartCrawl, MarkStage
    <3>3. QED BY <2>1, <3>1, <3>2 DEF OneSessionUnlessShared, InsertedIsFirst, Unshared
  <2>5. QED BY <2>2, <2>3, <2>4
<1>3. ASSUME NEW j \in Jobs, StartScan(j) \/ Redeliver(j) PROVE UNCHANGED <<sessions, created>>
  BY <1>0, <1>3, OutsideFrame DEF taskVars
<1>4. ASSUME NEW w \in Workers, NEW j \in Jobs, Deliver(w, j) PROVE UNCHANGED <<sessions, created>>
  BY <1>0, <1>4, DeliverFrame DEF dbVars
<1>5. QED BY <1>1, <1>2, <1>3, <1>4 DEF Next, vars, dbVars, taskVars

\* A job may be delivered, killed and repeated in any way: an identity that no
\* other job uses never gets a second session.  AuthSharedIdentity shows that
\* two jobs with one identity are enough to give it two.
THEOREM SessionsUnique == Spec => []OneSessionUnlessShared
<1>1. Init => OneSessionUnlessShared /\ InsertedIsFirst
  BY DEF Init, OneSessionUnlessShared, InsertedIsFirst
<1>2. IInv /\ OneSessionUnlessShared /\ InsertedIsFirst /\ [Next]_vars
        => (OneSessionUnlessShared /\ InsertedIsFirst)'
  BY OneSessionNext
<1>3. QED BY <1>1, <1>2, Invariance, PTL DEF Spec

=============================================================================
