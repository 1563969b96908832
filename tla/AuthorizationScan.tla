-------------------------- MODULE AuthorizationScan --------------------------
(***************************************************************************)
(* An authorization scan: the API request that creates its job, the Celery *)
(* message that carries it, and run_authorization_scan, which does all its *)
(* work in ONE database transaction.                                       *)
(*                                                                         *)
(* PostgreSQL runs the transactions at READ COMMITTED: a SELECT sees what  *)
(* is committed, an UPDATE takes the row's lock and keeps it to the end of *)
(* the transaction.  What a run has inserted but not committed is kept in  *)
(* created; what it has locked, in jobLock and sessionLock.                *)
(***************************************************************************)
EXTENDS Naturals, Sequences, FiniteSets

CONSTANTS
    Jobs,               \* the scans clients ask for, one request each
    Identities,
    IdentitiesOf,       \* the active identities list_identities finds for a job
    Workers,            \* Celery worker processes
    MaxDeliveries,      \* bound: deliveries of one message
    Faults,             \* what the environment may do, see PossibleFaults
    NoWorker, NoJob

PossibleFaults ==
    { "api_lost",           \* the API request dies, or one of its calls fails
      "task_error",         \* an exception leaves the task body
      "time_limit",         \* the hard time limit kills the process
      "worker_lost",        \* the process dies and its message is requeued
      "redelivery" }        \* the broker hands out a message a live worker still holds

ASSUME ConstantsAssumption ==
    /\ IsFiniteSet(Identities) /\ IsFiniteSet(Workers)
    /\ IdentitiesOf \in [Jobs -> SUBSET Identities]
    /\ MaxDeliveries \in Nat \ {0}
    /\ Faults \subseteq PossibleFaults
    /\ NoWorker \notin Workers
    /\ NoJob \notin Jobs

VARIABLES
    (* the database, as committed *)
    status,         \* ScanJob.status and WorkflowState.status, "none" before the rows exist
    effects,        \* the runs whose traffic, objects, attempts, ... are in the database
    sessions,       \* rows of the sessions table for an identity
    (* row locks *)
    jobLock,        \* the worker whose transaction has updated the job's row
    sessionLock,    \* the worker whose transaction has updated the identity's session
    (* the API *)
    request,        \* how far the request has come
    workflowKey,    \* Redis: the idempotency key is set
    workflowList,   \* Redis: entries for the job in authorization_workflows
    (* Celery *)
    broker,         \* the job's message
    holder,         \* the worker whose delivery of it is not acknowledged
    deliveries,     \* how often it was handed to a worker
    result,         \* the state in the result backend
    (* the worker processes *)
    step,           \* the stage the run has marked
    job,            \* the job it runs
    todo,           \* the identities it has still to authenticate
    created         \* the identities whose session it has inserted, not committed

dbVars == <<status, effects, sessions>>
lockVars == <<jobLock, sessionLock>>
apiVars == <<request, workflowKey, workflowList>>
msgVars == <<broker, holder, deliveries>>
taskVars == <<step, job, todo, created>>
vars == <<dbVars, lockVars, apiVars, msgVars, result, taskVars>>

Status == {"none", "queued", "completed"}
RequestStep == {"new", "created", "keyed", "listed", "published", "committed", "aborted"}
MessageState == {"none", "queued", "unacked", "acked"}
ResultState == {"PENDING", "SUCCESS", "FAILURE"}

\* The stages _mark goes through between the authentication and the end.
NextStage ==
    [ crawling                |-> "object_discovery",
      object_discovery        |-> "workflow_discovery",
      workflow_discovery      |-> "application_mapping",
      application_mapping     |-> "scanner_context",
      scanner_context         |-> "authorization_attacks",
      authorization_attacks   |-> "authorization_reasoning",
      authorization_reasoning |-> "graph" ]

\* The stages of a transaction that has marked its job.
Marked == DOMAIN NextStage \cup {"authenticating", "graph"}
TaskStep == Marked \cup {"idle", "load", "return"}

Init ==
    /\ status = [j \in Jobs |-> "none"]
    /\ effects = [j \in Jobs |-> 0]
    /\ sessions = [i \in Identities |-> 0]
    /\ jobLock = [j \in Jobs |-> NoWorker]
    /\ sessionLock = [i \in Identities |-> NoWorker]
    /\ request = [j \in Jobs |-> "new"]
    /\ workflowKey = [j \in Jobs |-> FALSE]
    /\ workflowList = [j \in Jobs |-> 0]
    /\ broker = [j \in Jobs |-> "none"]
    /\ holder = [j \in Jobs |-> NoWorker]
    /\ deliveries = [j \in Jobs |-> 0]
    /\ result = [j \in Jobs |-> "PENDING"]
    /\ step = [w \in Workers |-> "idle"]
    /\ job = [w \in Workers |-> NoJob]
    /\ todo = [w \in Workers |-> << >>]
    /\ created = [w \in Workers |-> {}]

-----------------------------------------------------------------------------
(* POST /authorization/scans: the job is inserted, put in Redis and handed   *)
(* to Celery inside the transaction that get_db commits at the end.          *)

Advance(j, from, to) ==
    /\ request[j] = from
    /\ request' = [request EXCEPT ![j] = to]

CreateScanJob(j) ==
    /\ Advance(j, "new", "created")
    /\ UNCHANGED <<dbVars, lockVars, workflowKey, workflowList, msgVars, result, taskVars>>

SetWorkflowKey(j) ==
    /\ Advance(j, "created", IF workflowKey[j] THEN "listed" ELSE "keyed")
    /\ workflowKey' = [workflowKey EXCEPT ![j] = TRUE]
    /\ UNCHANGED <<dbVars, lockVars, workflowList, msgVars, result, taskVars>>

PushWorkflow(j) ==
    /\ Advance(j, "keyed", "listed")
    /\ workflowList' = [workflowList EXCEPT ![j] = @ + 1]
    /\ UNCHANGED <<dbVars, lockVars, workflowKey, msgVars, result, taskVars>>

PublishTask(j) ==
    /\ Advance(j, "listed", "published")
    /\ broker' = [broker EXCEPT ![j] = "queued"]
    /\ UNCHANGED <<dbVars, lockVars, workflowKey, workflowList, holder, deliveries, result, taskVars>>

CommitJob(j) ==
    /\ Advance(j, "published", "committed")
    /\ status' = [status EXCEPT ![j] = "queued"]
    /\ UNCHANGED <<effects, sessions, lockVars, workflowKey, workflowList, msgVars, result, taskVars>>

\* What is in Redis, Celery's message included, survives the rollback.
RequestLost(j) ==
    /\ "api_lost" \in Faults
    /\ request[j] \notin {"new", "committed", "aborted"}
    /\ request' = [request EXCEPT ![j] = "aborted"]
    /\ UNCHANGED <<dbVars, lockVars, workflowKey, workflowList, msgVars, result, taskVars>>

-----------------------------------------------------------------------------
(* Celery and the end of a task.                                             *)

Deliver(w, j) ==
    /\ step[w] = "idle"
    /\ broker[j] = "queued"
    /\ broker' = [broker EXCEPT ![j] = "unacked"]
    /\ holder' = [holder EXCEPT ![j] = w]
    /\ deliveries' = [deliveries EXCEPT ![j] = @ + 1]
    /\ step' = [step EXCEPT ![w] = "load"]
    /\ job' = [job EXCEPT ![w] = j]
    /\ UNCHANGED <<dbVars, lockVars, apiVars, result, todo, created>>

Redeliver(j) ==
    /\ "redelivery" \in Faults
    /\ broker[j] = "unacked"
    /\ deliveries[j] < MaxDeliveries
    /\ broker' = [broker EXCEPT ![j] = "queued"]
    /\ holder' = [holder EXCEPT ![j] = NoWorker]
    /\ UNCHANGED <<dbVars, lockVars, apiVars, deliveries, result, taskVars>>

Unlocked(lock, w) == [x \in DOMAIN lock |-> IF lock[x] = w THEN NoWorker ELSE lock[x]]

\* Mutant: get_db neither rolls back nor closes the session.
EndTransaction_KeepsLocks(w) ==
    /\ todo' = [todo EXCEPT ![w] = << >>]
    /\ created' = [created EXCEPT ![w] = {}]
    /\ UNCHANGED lockVars

\* The end of w's transaction, committed or not.
EndTransaction(w) ==
    /\ jobLock' = Unlocked(jobLock, w)
    /\ sessionLock' = Unlocked(sessionLock, w)
    /\ todo' = [todo EXCEPT ![w] = << >>]
    /\ created' = [created EXCEPT ![w] = {}]

\* Mutant: the worker keeps the job of its last task.
EndTask_KeepsJob(w, m) ==
    /\ broker' = [broker EXCEPT ![job[w]] = m]
    /\ holder' = [holder EXCEPT ![job[w]] = NoWorker]
    /\ EndTransaction(w)
    /\ step' = [step EXCEPT ![w] = "idle"]
    /\ UNCHANGED <<dbVars, apiVars, deliveries, job>>

\* The end of w's task, its transaction rolled back if it is open: m is what
\* becomes of the message, if w still holds it.
EndTask(w, m) ==
    LET j == job[w] IN
    /\ IF holder[j] = w
       THEN /\ broker' = [broker EXCEPT ![j] = m]
            /\ holder' = [holder EXCEPT ![j] = NoWorker]
       ELSE UNCHANGED <<broker, holder>>
    /\ EndTransaction(w)
    /\ step' = [step EXCEPT ![w] = "idle"]
    /\ job' = [job EXCEPT ![w] = NoJob]
    /\ UNCHANGED <<dbVars, apiVars, deliveries>>

\* The key-value result backend never replaces SUCCESS.
StoreResult(j, r) == result' = [result EXCEPT ![j] = IF @ = "SUCCESS" THEN @ ELSE r]

Finish(w) ==
    /\ step[w] = "return"
    /\ StoreResult(job[w], "SUCCESS")
    /\ EndTask(w, "acked")

HardTimeLimit(w) ==
    /\ "time_limit" \in Faults
    /\ step[w] # "idle"
    /\ StoreResult(job[w], "FAILURE")
    /\ EndTask(w, "acked")

WorkerLost(w) ==
    /\ "worker_lost" \in Faults
    /\ step[w] # "idle"
    /\ deliveries[job[w]] < MaxDeliveries
    /\ EndTask(w, "queued")
    /\ UNCHANGED result

-----------------------------------------------------------------------------
(* The task: OrchestrationEngine.run_authorization_scan.                     *)

\* A list of identities in the order of a SELECT without ORDER BY.
Listings(S) ==
    {q \in [1..Cardinality(S) -> S] : \A i \in S : \E k \in DOMAIN q : q[k] = i}

\* Mutant: the job is not marked before the authentication.
StartRun_Unmarked(w) ==
    /\ step[w] = "load"
    /\ status[job[w]] # "none"
    /\ \E q \in Listings(IdentitiesOf[job[w]]) : todo' = [todo EXCEPT ![w] = q]
    /\ step' = [step EXCEPT ![w] = "authenticating"]
    /\ UNCHANGED <<dbVars, lockVars, apiVars, msgVars, result, job, created>>

\* The first _mark waits for a run of the same job that has marked it before.
StartRun(w) ==
    /\ step[w] = "load"
    /\ status[job[w]] # "none"
    /\ jobLock[job[w]] = NoWorker
    /\ jobLock' = [jobLock EXCEPT ![job[w]] = w]
    /\ \E q \in Listings(IdentitiesOf[job[w]]) : todo' = [todo EXCEPT ![w] = q]
    /\ step' = [step EXCEPT ![w] = "authenticating"]
    /\ UNCHANGED <<dbVars, sessionLock, apiVars, msgVars, result, job, created>>

TooFewIdentities(w) ==
    /\ step[w] = "authenticating"
    /\ Cardinality(IdentitiesOf[job[w]]) < 2

\* Mutant: the new session is not added.
InsertSession_NotAdded(w) ==
    /\ step[w] = "authenticating" /\ ~TooFewIdentities(w)
    /\ todo[w] # << >>
    /\ sessions[Head(todo[w])] = 0
    /\ todo' = [todo EXCEPT ![w] = Tail(@)]
    /\ UNCHANGED <<dbVars, lockVars, apiVars, msgVars, result, step, job, created>>

\* upsert_session finds no row and inserts one ...
InsertSession(w) ==
    /\ step[w] = "authenticating" /\ ~TooFewIdentities(w)
    /\ todo[w] # << >>
    /\ sessions[Head(todo[w])] = 0
    /\ created' = [created EXCEPT ![w] = @ \cup {Head(todo[w])}]
    /\ todo' = [todo EXCEPT ![w] = Tail(@)]
    /\ UNCHANGED <<dbVars, lockVars, apiVars, msgVars, result, step, job>>

\* ... or finds one and updates it.
UpdateSession(w) ==
    /\ step[w] = "authenticating" /\ ~TooFewIdentities(w)
    /\ todo[w] # << >>
    /\ sessions[Head(todo[w])] = 1
    /\ sessionLock[Head(todo[w])] \in {w, NoWorker}
    /\ sessionLock' = [sessionLock EXCEPT ![Head(todo[w])] = w]
    /\ todo' = [todo EXCEPT ![w] = Tail(@)]
    /\ UNCHANGED <<dbVars, jobLock, apiVars, msgVars, result, step, job, created>>

\* scalar_one_or_none raises when there are several.
SeveralSessions(w) ==
    /\ step[w] = "authenticating"
    /\ todo[w] # << >>
    /\ sessions[Head(todo[w])] > 1

StartCrawl(w) ==
    /\ step[w] = "authenticating" /\ ~TooFewIdentities(w)
    /\ todo[w] = << >>
    /\ step' = [step EXCEPT ![w] = "crawling"]
    /\ UNCHANGED <<dbVars, lockVars, apiVars, msgVars, result, job, todo, created>>

\* Mutant: every stage commits what it did.
MarkStage_Commits(w) ==
    /\ step[w] \in DOMAIN NextStage
    /\ step' = [step EXCEPT ![w] = NextStage[step[w]]]
    /\ effects' = [effects EXCEPT ![job[w]] = @ + 1]
    /\ UNCHANGED <<status, sessions, lockVars, apiVars, msgVars, result, job, todo, created>>

\* The work of a stage and the _mark of the next.
MarkStage(w) ==
    /\ step[w] \in DOMAIN NextStage
    /\ step' = [step EXCEPT ![w] = NextStage[step[w]]]
    /\ UNCHANGED <<dbVars, lockVars, apiVars, msgVars, result, job, todo, created>>

\* The last _mark, and the commit of get_db.
CommitRun(w) ==
    /\ step[w] = "graph"
    /\ step' = [step EXCEPT ![w] = "return"]
    /\ status' = [status EXCEPT ![job[w]] = "completed"]
    /\ effects' = [effects EXCEPT ![job[w]] = @ + 1]
    /\ sessions' = [i \in Identities |-> IF i \in created[w] THEN sessions[i] + 1 ELSE sessions[i]]
    /\ EndTransaction(w)
    /\ UNCHANGED <<apiVars, msgVars, result, job>>

\* w's transaction waits for one that has updated the row it wants.
WaitsFor(w, v) ==
    \/ /\ step[w] = "load"
       /\ jobLock[job[w]] = v
    \/ /\ step[w] = "authenticating"
       /\ todo[w] # << >>
       /\ sessions[Head(todo[w])] = 1
       /\ sessionLock[Head(todo[w])] = v
       /\ v # w

\* PostgreSQL looks for a cycle of waits and fails one of its transactions.
Deadlocked(w) ==
    \E C \in SUBSET Workers :
        /\ w \in C
        /\ \A v \in C : (\E u \in C : WaitsFor(v, u)) /\ (\E u \in C : WaitsFor(u, v))

\* The exception handler sets the job to "failed" in the same transaction, and
\* the exception it raises again makes get_db roll all of it back.  Its UPDATE
\* waits for the lock as the first _mark does.
FailRun(w) ==
    /\ \/ step[w] = "load" /\ status[job[w]] = "none"
       \/ TooFewIdentities(w)
       \/ SeveralSessions(w)
       \/ Deadlocked(w)
       \/ /\ "task_error" \in Faults
          /\ step[w] # "idle"
          /\ step[w] = "load" => jobLock[job[w]] = NoWorker
    /\ StoreResult(job[w], "FAILURE")
    /\ EndTask(w, "acked")

-----------------------------------------------------------------------------

StartScan(j) ==
    \/ CreateScanJob(j)
    \/ SetWorkflowKey(j)
    \/ PushWorkflow(j)
    \/ PublishTask(j)
    \/ CommitJob(j)
    \/ RequestLost(j)

RunTask(w) ==
    \/ StartRun(w)
    \/ InsertSession(w)
    \/ UpdateSession(w)
    \/ StartCrawl(w)
    \/ MarkStage(w)
    \/ CommitRun(w)
    \/ FailRun(w)
    \/ Finish(w)

KillTask(w) == HardTimeLimit(w) \/ WorkerLost(w)

Next ==
    \/ \E j \in Jobs : StartScan(j) \/ Redeliver(j)
    \/ \E w \in Workers, j \in Jobs : Deliver(w, j)
    \/ \E w \in Workers : RunTask(w) \/ KillTask(w)

Spec == Init /\ [][Next]_vars

\* A worker takes messages, and a task goes on unless it waits for a lock.
LiveSpec ==
    /\ Spec
    /\ \A j \in Jobs : WF_vars(\E w \in Workers : Deliver(w, j))
    /\ \A w \in Workers : WF_vars(RunTask(w))

-----------------------------------------------------------------------------
(* Properties. *)

TypeOK ==
    /\ status \in [Jobs -> Status]
    /\ effects \in [Jobs -> Nat]
    /\ sessions \in [Identities -> Nat]
    /\ jobLock \in [Jobs -> Workers \cup {NoWorker}]
    /\ sessionLock \in [Identities -> Workers \cup {NoWorker}]
    /\ request \in [Jobs -> RequestStep]
    /\ workflowKey \in [Jobs -> BOOLEAN]
    /\ workflowList \in [Jobs -> Nat]
    /\ broker \in [Jobs -> MessageState]
    /\ holder \in [Jobs -> Workers \cup {NoWorker}]
    /\ deliveries \in [Jobs -> Nat]
    /\ result \in [Jobs -> ResultState]
    /\ step \in [Workers -> TaskStep]
    /\ job \in [Workers -> Jobs \cup {NoJob}]
    /\ todo \in [Workers -> Seq(Identities)]
    /\ created \in [Workers -> SUBSET Identities]
    /\ \A w \in Workers : step[w] = "idle" <=> job[w] = NoJob

AtomicJob == INSTANCE AtomicJob WITH Jobs <- Jobs, status <- status, effects <- effects

\* Whoever reads the database sees a job without any of a run's results or
\* completed with all of them, whatever stage a run has reached, and however
\* runs are killed, repeated and interleaved.
ImplementsAtomicJob == AtomicJob!Spec

\* The runs of a job that may still commit.
Uncommitted(j) == {w \in Workers : job[w] = j /\ step[w] # "return"}

\* The results of a job are duplicated at most once per delivery of its message.
EffectsWithinDeliveries ==
    \A j \in Jobs : effects[j] + Cardinality(Uncommitted(j)) <= deliveries[j]

\* A job is completed only with a session for every identity it tests with.
CompletedHasSessions ==
    \A j \in Jobs : status[j] = "completed" => \A i \in IdentitiesOf[j] : sessions[i] > 0

\* No two jobs use the identity.
Unshared(i) == \A j, k \in Jobs : i \in IdentitiesOf[j] \cap IdentitiesOf[k] => j = k

\* However often its job is delivered, killed and run at the same time as
\* itself, an identity that one job uses never has two rows in the sessions
\* table, although nothing but a SELECT before the INSERT keeps them apart.
OneSessionUnlessShared == \A i \in Identities : Unshared(i) => sessions[i] <= 1

\* No identity ever has two rows in the sessions table: with two, no later
\* scan can use it (scalar_one_or_none in upsert_session).
OneSessionPerIdentity == \A i \in Identities : sessions[i] <= 1

\* Every message is eventually settled: transactions that wait for each other's
\* rows do not keep their workers for ever.
MessageSettles == \A j \in Jobs : broker[j] = "queued" ~> broker[j] = "acked"

\* A job that is still "queued" has its message, or its request is not over.
QueuedIsCarried ==
    \A j \in Jobs : status[j] = "queued" => broker[j] \in {"queued", "unacked"}

-----------------------------------------------------------------------------
(* What strengthens the properties into inductive invariants, see            *)
(* AuthorizationScan_proof.                                                  *)

\* A job's row is there from its commit on, and before a run marks it.
RowExists ==
    /\ \A j \in Jobs : request[j] # "committed" => status[j] = "none"
    /\ \A w \in Workers : step[w] \in Marked => status[job[w]] # "none"

\* A run that has marked its job holds the job's row, and only then.
JobLocked ==
    /\ \A w \in Workers : step[w] \in Marked => jobLock[job[w]] = w
    /\ \A j \in Jobs :
         jobLock[j] # NoWorker => job[jobLock[j]] = j /\ step[jobLock[j]] \in Marked

Listed(w) == {todo[w][k] : k \in DOMAIN todo[w]}

\* A run works on its own job's identities: one has a session, or the run has
\* inserted it, or it is still to do.
IdentitiesDone ==
    \A w \in Workers :
        /\ step[w] \notin Marked => created[w] = {} /\ todo[w] = << >>
        /\ step[w] \in Marked =>
             /\ created[w] \cup Listed(w) \subseteq IdentitiesOf[job[w]]
             /\ \A i \in IdentitiesOf[job[w]] :
                  sessions[i] > 0 \/ i \in created[w] \/ i \in Listed(w)
             /\ step[w] # "authenticating" => todo[w] = << >>

IInv ==
    /\ TypeOK
    /\ EffectsWithinDeliveries
    /\ CompletedHasSessions
    /\ RowExists
    /\ JobLocked
    /\ IdentitiesDone

\* A session that is inserted and not committed will be the first of an
\* identity that one job uses.
InsertedIsFirst ==
    \A w \in Workers : \A i \in created[w] : Unshared(i) => sessions[i] = 0

=============================================================================
