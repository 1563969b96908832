# A verification project for dast-wrapper

TLA+ models of the program in `src/`, checked with TLC on small instances and
proved with TLAPS for every value of the constants. `PROJECT.json` is the index:
components, runs, mutants, the source lines of every definition, findings,
hazards and theorems.

## 1. The system

dast-wrapper is a FastAPI service that runs security scans of web applications
in Celery workers, with PostgreSQL for its rows, Redis as Celery's broker and
result backend, and a ZAP daemon that all scans share.

| Component | State it keeps | Operations | Talks to |
| --- | --- | --- | --- |
| Scan service (`app/services/scan_service.py`, `governance.py`) | `scans` rows | start, cancel, status, findings | PostgreSQL, Celery, result backend |
| `run_zap_scan` (`app/workers/tasks.py`) | the row's status, `findings` rows | login, ZAP scan, poll loop, validation and commit, failure handler | PostgreSQL, ZAP, the target |
| Celery (`app/workers/celery_app.py`) | one message per task, results | delivery with late acknowledgement, kill on revoke and on time limit, requeue on worker loss | Redis |
| Auth contexts (`app/auth/context_manager.py`, `browser_session.py`, `assertions.py`, `playwright_auth.py`) | `auth_sessions`, one browser-state file per role | sign in, verify, save, reuse, list | PostgreSQL, a browser |
| ZAP driver (`app/scanners/`) | replacer rules, site tree, messages and alerts, all in the one daemon | inject credentials, verify, open, attack, take the alerts | ZAP |
| Replay and validation of findings (`app/replay/`, `app/validators/`) | the status of a finding | replay with each stored session, mutate, compare | the target, PostgreSQL |
| Authorization scans (`app/api/routes/authorization.py`, `app/orchestration/`) | `scan_jobs`, `workflow_states`, two Redis keys | create, run stage by stage | PostgreSQL, Redis, Celery |
| Identities and sessions (`app/auth/identity_engine.py`, `authentication_engine.py`) | `identities`, `sessions` | add, list, upsert | PostgreSQL, a browser |
| Crawler and traffic store (`app/crawling/engine.py`, `app/storage/`) | the queue of URLs, `endpoints`, `traffic_logs` | walk the links, record a response | a browser, PostgreSQL |
| Object discovery and ownership (`app/crawling/`) | `object_references` with an owner score | discover, score | PostgreSQL |
| Attacks (`app/attack_engine/`, `app/validation/`) | `attack_attempts`, `attack_chains`, verdicts | discover targets, replay, compare | the target, PostgreSQL |
| Workflows, intelligence, graph (`app/workflows/`, `app/intelligence/`, `app/graph/`) | transitions, relationships, planned chains, findings, graph | derive from the rows of the runs | PostgreSQL |
| Pages, reports, configuration, logging | none | read | |

What makes each part correct. A scan: the limit on active scans, no message
without a holder, findings at most once per delivery, cancellations that are
honoured, a "completed" that is backed by findings. Sign-ins: no session of one
role where one of another belongs. The daemon: credentials that were cleared are not
sent again, and a page that denies strangers is confirmed as a flaw only where a
session of its own application was compared that may read it. An authorization
scan: all or nothing for a reader, one session per identity. A crawl: each page
once, each response with its endpoint. Attacks and intelligence: sound lineage, and findings,
plan and graph that agree with the rows they are about.

What is hard in it: start and cancel requests that overlap with each other and
with a running task; a message that is delivered again after a crash or a
timeout; transactions held open over network calls; a task that is handed out
before the row it works on is committed; a status that is kept in two places;
one scanner daemon and one browser file per role that concurrent scans share;
sessions that end between sign-in and use; response callbacks that share one
database session; selects of a run that see what other runs commit in between.
`PROJECT.json` lists these hazards at their lines.

## 2. Modules

| Module | Models | State |
| --- | --- | --- |
| `ScanLifecycle` | a classic scan, from the start request to the settled message | the row (`status`, `taskRecorded`, `cancelRequested`, `findings`), the requests (`request`, `cancelTx`), Celery (`broker`, `holder`, `deliveries`, `revoked`, `result`), the workers (`step`, `job`, `errors`, `fate`) |
| `Verdicts` | the two scores that decide: signed in or not, flaw or not | none: operators in percent |
| `AuthContexts` | sign-ins, their rows, browser files and reuse | `rows`, `file`, `live`, and per login `login`, `browser`, `context` |
| `SharedScanner` | scans on the one ZAP daemon, and the validation of what they find; EXTENDS `AuthContexts` | the daemon (`rules`, `sites`, `answered`, `alerts`), per scan `phase`, `todo`, `target`, `found`, `listed`, `verdict`; for a property `former` |
| `AuthorizationScan` | an authorization scan, from the request to the settled message | committed rows (`status`, `effects`, `sessions`), row locks (`jobLock`, `sessionLock`), the request and Redis, Celery, the workers (`step`, `job`, `todo`, `created`) |
| `AtomicJob` | what a reader of the jobs may rely on | `status`, `effects` |
| `Crawl` | the crawl of one identity, and the rest of its run as a user of the same database session | the walk (`walk`, `visited`, `queue`, `history`), one callback per response (`step`, `linked`), the database session (`pending`, `written`, `flushing`, `batch`); for the properties `overlapped` |
| `AttackRun` | what the runs of an application's jobs write and read, up to the findings about attacks | where a run is (`phase`, `todo`), what it has looked up and not used yet (`looked`, `missing`), rows by the run that wrote them (`sessions`, `endpoints`, `traffic`, `references`, `findings`) |
| `Intelligence` | what the same runs derive: transitions, relationships, plan, findings, graph | where a run is (`phase`), rows by the run that wrote them (`traffic`, `endpoints`, `objects`, `transitions`, `relations`, `chains`, `findings`), the rows its selects have found (`seen`) |
| `ReportedFlaws` | what a reader of findings may rely on | `flaws`, `reports` |
| `*_proof` | the theorems of the module they are named after; `IntelligenceRows_proof` has more of `Intelligence` | |
| `MC*` | instances for TLC | |

How they compose. `SharedScanner` extends `AuthContexts`, which extends
`Verdicts`: every step of a scan on the daemon is a step of `AuthContexts` or leaves
it alone (`ScansFollowAuthContexts`). `ScanLifecycle` sees the same task from
outside: its `Authenticate` is `LogIn`, its `StartZapScan` what `SharedScanner` does
up to `StartAttack`, its `CollectFindings` and `CommitFindings` the rest.

`AuthorizationScan` and `Crawl` meet in the stage "crawling": there a crawl is
part of one `MarkStage`, here it is seen from the inside, up to the `_mark` that
ends the stage (`NextStage`). A crawl that ends with `walk` = "failed" is a
`FailRun`. `AttackRun` and `Intelligence` open the same transaction from the side of
its rows: what `AuthorizationScan` counts as one effect of a run is there the
traffic, the references, the attempts, the plan and the findings, and what `Crawl`
does with the responses of one identity is `Record` and `RecordLate`.

Three modules promise something to a reader of the database, and the promise is a
specification of its own: `AuthorizationScan` implements `AtomicJob`; `AttackRun`
and `Intelligence` implement `ReportedFlaws`, each for its findings.

### ScanLifecycle

A step is a committed transaction, a call on the broker, or the end of a task.
A transaction that reads and writes without waiting is one step at its commit.
Two are split because others can come between: the admission of a scan
(`StartCheck`, then `InsertScan`), and a cancellation (`CancelMark` takes the
row lock and broadcasts the revoke, `CancelCommit` or `CancelRollback` ends it).
Every other writer of the row waits for that lock.

The task's program counter is `step`: `load` (lines 44-68 of `tasks.py`), `auth`
(74-204), `zap` (206-207), `record` (208-213), `poll` (215, 379-432), `collect`
(216-225), `commit` (227-298), `return`, and `failing` and `raise` for the
handler at 33-42. The poll loop is modelled per iteration with its error
counter: a cancellation is an exception that the loop's own handler catches,
and it leaves the loop as the last of `ZapPollMaxErrors` errors, with
`fate` = "cancelled" because the handler derives the status from the text.

A rejected login is `AuthRejected`: the statuses `auth_failed` and
`auth_unverified` are executed on a session that `get_db` has already left and
are never committed, and the task returns normally. A login that raises goes
another way: its handler (160-175) sets a column `error` that `Scan` does not
have, so it raises itself and the outer handler commits `failed`; that is
`TaskError` at `auth`.

Celery is modelled as it is configured: `task_acks_late` (a message is
`unacked` while its task runs, `Redeliver` is the visibility timeout or a lost
connection, after which the first run goes on), `task_reject_on_worker_lost`
(`WorkerLost` requeues), the hard limit (`HardTimeLimit` acknowledges and stores
FAILURE), `revoke(terminate=True)` (`TerminateRevoked`, `DiscardRevoked`). The
soft limit is an exception, in one of two places. In a line of the task it goes to
the handler like any other: `TaskError`. While the event loop waits it leaves
`asyncio.run` instead; the coroutine is cancelled, the handler at 33 catches
`Exception` and not that, and the row keeps its status: `SoftLimitEndsWait`.

Not in the model: the branches for a missing scan or application, which a
foreign key and the absence of any delete make unreachable; what is in a
finding; how long anything takes.

### Verdicts, AuthContexts

`Verdicts` has the weights of `AuthConfidenceScore.compute` (`assertions.py` 80-117)
and the comparison and thresholds of `ReplayDiffEngine` and
`AuthorizationValidationEngine`. Both scores are in percent. The code adds floats;
`FallsShort` names the sets of signals whose sum comes out just below a threshold
they would reach exactly. `Confidence` rounds to two digits as the code does.

A login of `AuthContexts` is a scan, or a request to POST /authenticate; a session
of the application bears the name of the login that created it. The rows, the
files and the browsers hold such names.

| Actions | Code |
| --- | --- |
| `LookUp` | `get_context`: the newest row of the role (`tasks.py` 74-100) |
| `OpenBrowser` | a browser loads the role's file, for each of the three purposes it is opened for |
| `CheckStored` | `AuthenticatedSessionValidator` on the stored row: reused unless the level is low |
| `SignIn`, `NoForm`, `CloseSignIn` | `PlaywrightAuthEngine.authenticate`; the file is written when the browser closes, whatever the outcome |
| `VerifyContext`, `SaveContext` | the scan's second look, and the row that is inserted |
| `Expire` | the application ends a session (external) |

What a browser reports of a page is chosen among what the application shows to
somebody signed in, or to anybody (`SeenInside`, `SeenOutside`), and what is in the
credentials; the routes that time out leave signals out (`Reports`).

### SharedScanner

| Actions | Code |
| --- | --- |
| `ClearRules`, `AddRule`, `VerifyAccess`, `SkipBridge` | `ZAPAuthContextBridge`: the old rules go, the new ones come one by one, and a 200 among the daemon's messages is the proof of access |
| `OpenTarget`, `StartAttack`, `Attack`, `TakeAlerts` | `ZAPScanner`: the site tree, its only site as the fallback, the alerts of the whole daemon |
| `LoadContexts`, `ValidateFinding`, `CommitFindings` | the replays of each finding with the stored sessions, and the commit |

The rules apply to whatever the daemon sends: `Injected` are the sessions it then
speaks for. `former`, the scans that were through with the daemon when the rules
were last cleared, is history and set by the branch of `ClearRules` that clears.
Where clearing fails, and where the replacer has no `remove_all_rules` at all, the
other branch is taken (`clear_fails`) and `former` stays as it is.

An alert is about one of `PagesOf` its site. Pages that `denies` answer 401 to
strangers, those of kind `redirects` send them to a login form, those of kind `form`
serve it with 200, and `public` ones are alike for all; 403 is for sessions of the
site with the wrong role. `mutated` is the number of requests that
`generate_identifier_mutations` makes, three for each identifier among 14 names.
Where a site sets cookies, the one client of the replay engine keeps them, and a
context may be answered as any before it, or as nobody (`Senders`). `Replies` are
the answers a replay may get, none among them (`replay_fails`), and a mutated one
may hit an object of the sender's own.

`ValidateFinding` is one step although its replays are several requests: the number
of suspicious ones is any between those that must be (`MustSuspect`) and those that
may be (`MaySuspect`). `live` is the only thing in it that another actor changes; on a
page that denies, a session that ends between two replays is covered by replays that
get no answer. `ConfigRoles` is the filter of `list_contexts` from the configuration.

### AuthorizationScan

`run_authorization_scan` does everything in the one transaction that
`_run_authorization_scan_async` opens. The model keeps what READ COMMITTED makes
visible: committed rows, row locks held to the end of the transaction, and what
a run has inserted and not committed. `StartRun` is the load, the first `_mark`
(which waits for the job's row lock) and the list of identities, in any order
since the SELECT has no ORDER BY. `InsertSession` and `UpdateSession` are the two
outcomes of `upsert_session`; `SeveralSessions` is its exception. `MarkStage` is
the work of a stage and the next `_mark`; all that the stages write is one
`effect`, visible at `CommitRun`. `FailRun` is the handler that writes "failed" in
the transaction whose rollback it causes, whatever the exception was: a missing
job, too few identities, several sessions, a deadlock PostgreSQL resolves.
The request creates the rows, fills Redis and publishes the message before the
commit, in that order.

`AtomicJob` is the promise to a reader: a job is there or not, and completed
together with the results of a whole run. `AuthorizationScan` implements it
under the identity mapping of `status` and `effects`.

### Crawl

An action is what asyncio does between two awaits. `HomeLoaded`, `LoadNext`,
`PageLoaded`, `LoadFails` and `Close` are the walk (`engine.py` 77-117), with the
page's links in every order. A page load sets off callbacks, one for each
request it makes; `step` is the await a callback is at: the body (44-56), the
headers (57-75), then those of `TrafficStore.record` (`traffic_store.py` 17-78).
The first `goto` and the loop's first one load the same page, so a callback is
named by the number of the load and its URL.

What the code relies on and does not contain is modelled from its use: a page
load ends at network idle, a redirect has no body, nothing can be read after
`browser.close()`; the session queues statements, flushes new objects before a
query if no flush is under way (`AutoFlush`), and raises when `flush()` is called
inside a flush. An object whose `flush()` raised stays in the session and is
written by the next one (`pending`).

The session is the run's, and the rows are the application's. `Init` starts with any
of `OtherEndpoints`, rows of earlier jobs and identities that may share a path, and
`OthersInsert` adds them meanwhile. `RestFlushes` is a flush of somebody else on the
session: of the stages after `NextStage`, which find late callbacks in `record()`, or of
callbacks the crawl before has left (`late_callbacks`). `EngineRaises` is the other
side of it: the engine's own `flush()` meets a callback's, and the run fails.

The handlers at 47, 53 and 104 use a name `logger` that the module does not
define, so what they should ignore raises: `BodyFails` drops the response, and
`LoadFails` ends the crawl and with it the scan.

### AttackRun

A run is one delivery of a job's message, <<job, number>>, and one transaction;
`StartRun` of the next delivery waits for the end of the one before, as the lock
on the job's row makes it (`JobLocked` of `AuthorizationScan`). A failed run is
one that raised or was killed: its rows disappear (`RollBack`). `Found`,
`EndpointsOf` and `JobTraffic` are what a statement sees: the run's own rows and
those of committed runs.

| Actions | Code |
| --- | --- |
| `SelectSession`, `SeveralSessions`, `InsertSession`, `UpdateSession` | `upsert_session`: the select, its exception, the insert, and the update, which takes the row's lock to the end of the run (`Locks`) |
| `Record`, `RecordLate` | `TrafficStore.record` of a response; late, if the endpoint was inserted since the callback looked for it |
| `StartDiscovery`, `MissReference`, `InsertReference`, `FindReference`, `SeveralReferences` | `discover_for_scan` and `_store_reference`: the select and the insert are two steps |
| `StartAttacks`, `Replay`, `SeveralEndpoints`, `StartReasoning` | `run_attacks`: the traffic, sessions and references are read once, then the targets are replayed, attack after attack |
| `Reason`, `Commit` | findings of the job's exploitable attempts; the commit |
| `Deadlocked`, `FailRun` | PostgreSQL breaks a cycle of waits; anything else raises |

A row of `traffic` with `attack` # 0 stands for the five rows of
`_persist_result` (chain, traffic log, attempt, validation, evidence), which live
and die together; its `parent` is the baseline's row and its `attack` the type.
The location of a reference is part of its value. What is in a request or an
answer is a constant: `Yields` (the values discovered in it), `Contains` (those
that occur in it, for `_reference_for_request`), `Tenants`, `Writes`,
`StateTokens` and `Compared`, the verdict on a successful replay. `StartAttacks`
chooses where the code depends on the order of a SELECT that has none
(`BolaDoubtful`). The stages between discovery and attacks write rows that nothing
here reads; they are in `Intelligence`.

A reader sees the rows of committed runs. `ReportedFlaws` says that these come run
by run, each with reports on all the exploitable attempts of the job that are there
then; `ReportsMatchFlaws` is `AttackRun`'s refinement of it.

### Intelligence

The same runs once more, with the stages `AttackRun` leaves out, and less of the
ones it has: each reference is of one job's identity, sessions do not occur, and an
endpoint that two rows have makes a run fail.

| Actions | Code |
| --- | --- |
| `Record`, `DiscoverObjects` | `TrafficStore.record`, `discover_for_scan` |
| `DiscoverWorkflows` | `WorkflowDiscoveryEngine`: the state fields of the responses, one after the other in whatever order the SELECT has, each a transition from the state the same object, or URL, had before |
| `MapEndpoints`, `MapObjects` | the two selects of `ApplicationMapper.build` whose rows are used later |
| `PlanAttacks` | the relationships (`relationships.py`), the expectations that deny something (`expectations.py`), the plan in the order of its priorities and its first `planned_chain_limit` steps (`adaptive_planner.py`, `chain_executor.py`) |
| `Replay` | an attack's rows, as far as the graph has nodes for them |
| `Reason` | the findings about transitions and relationships (`reasoner.py` 64-113) |
| `BuildGraph` | the selects of `GraphEngine.build_graph`, one after the other; `Nodes` are the nodes that are added with a kind, `Ends` those that edges name |
| `Commit`, `FailRun` | the commit, and the rollback of everything the run has written |

`PlanAttacks` is one step: between the selects of the map and the attacks nothing is
read that another run can change. The order in which relationships were added
decides which of several parents an object has (`ParentsIn`); among steps of one
priority any may come first (`Prioritized`). Scores are in percent.

## 3. Runs

Every run has `CHECK_DEADLOCK FALSE`: when all requests are answered and all
messages settled, the system has nothing left to do.

| Run | Instance | Shows |
| --- | --- | --- |
| `ScanFaults` | 1 scan, 2 workers, 2 workspaces, 3 deliveries, 2 poll errors, every fault but a rejected login, the soft limit in a wait included | `MessageHeld`, `FindingsWithinDeliveries`, `CancelledWasRequested`, `CompletedIsBacked`, `OnlyRedeliveryReopens`, `CancellationHolds`, and `MessageSettles` under the hard time limit alone |
| `ScanCapacity` | 3 scans in 2 workspaces, limit 1, start requests one at a time, task errors, rejected logins | `CapacityRespected`, `RejectedOnlyAtLimit`, `ScanSettles` |
| `SharedScanner` | a scan of each of 2 applications, two sign-ins before, one of them for another role; pages that deny, redirect, serve a form or are public, with and without cookies and a second identifier; a session that ends, a bridge, a daemon and replays that fail | `RoleIsolation`, `ClearedNotSent`, `ConfirmedByReader`, `ForeignDenialNotConfirmed` |
| `AuthFaults` | 2 jobs that share 2 of 3 identities, 2 workers, 2 deliveries, every fault | `EffectsWithinDeliveries`, `OneSessionUnlessShared`, `CompletedHasSessions`, `ImplementsAtomicJob`, and `MessageSettles` with deadlocks |
| `Crawl` | a start page that links to itself and to a page which redirects to an off-site login, `max_pages` 0, 2 or 3, up to two endpoints of others for the start page's path, loads that fail, callbacks of the crawl before and stages after it on the same session | `WalkIsComplete`, `RowsLinked`, `DuplicatesNeedOverlap`, `LossNeedsOverlap`, `CrawlSettles` |
| `AttackRuns` | 2 jobs of one application with the same 2 identities, one delivered twice, a target that answers both, runs that fail, late responses | `LineageSound`, `DepthWithinDeliveries`, `DuplicatesAcrossJobs`, `SharedReferences`, `ReportsMatchFlaws`, `RunsEnd` |
| `Intelligence` | 2 jobs that share an endpoint, one delivered twice, 3 references of equal and unequal scores, a tenant, a suspicious change of state, a plan of 3 steps | `GraphClosed`, `PivotsFollowRelations`, `BoundariesFirst`, `ReportsMatchAnomalies` |
| `ScanCapacityRace` | violation | two overlapping start requests exceed the limit |
| `ScanReportAuth` | violation | a scan whose login was rejected is reported completed |
| `ScanTwoRoles` | violation | a scan signs in again, and its findings are compared between two sessions of one role |
| `AuthSharedIdentity` | violation | two first runs with one identity give it two sessions |
| `AuthDispatch` | violation | the worker is faster than the commit, and the job stays queued for ever |

Each passing run but `ScanCapacity` also checks the type invariant of its module.

Why the bounds are enough. A scan and its message interact with other scans only
through the count of active scans and the workers, so one scan with two workers
shows every interleaving of two runs of it; three deliveries allow a run that
finished, one that was killed and one that is alive. Two scans of one workspace
with limit 1 are the smallest that compete for a place; the third, of another
workspace, shows that the count is per workspace. `ZapPollMaxErrors` 2
distinguishes the error that leaves the loop from one that does not.

In `SharedScanner` two scans are enough to share the daemon, and two applications
for alerts and rules of another; three contexts of one application are listed when
the scan has to sign in again, which is when sessions of one role are compared.
`Earlier` fixes the sign-ins that were over before (the sign-ins that are under way
are the scans' own) and `Expiring` whose session may end; more of either multiplies
states and adds no new order of steps. The pages of `Pagelist` differ in kind, in
cookies, and in 0, 3 or 6 mutated requests, the numbers for no, one and two
identifiers: with three the share of the mutated ones is below what confirms, with
six it is above.

Three identities, two of them shared, are the least for a deadlock and for an
identity that only one job uses. Two deliveries are one that fails or is lost and
one that is done. `MaxDeliveries` is in the guards of `Redeliver` and `WorkerLost`.

In `Crawl`, `max_pages` 0 loads nothing in the loop, 2 stops inside the site and
3 lets the walk end by itself; two callbacks that overlap, the walk and one flush of
somebody else are enough for each way they disturb each other. Two endpoints of others
are the least that make a select raise without any overlap.

In `AttackRuns` and `Intelligence`, two deliveries of one job are the least for a
replay of a replay and for findings that are repeated, and a second job for rows
that are there twice or belong to somebody else; a target that answers everybody
gives most targets. With one request the attacks differ only in the baselines they
accept, and that is the theorems' business, as are tenants, denied replays, and jobs
with different identities. `Deliveries` and `Replays` are the bounds there; the three
references are two that may belong to each other and the tenant both belong to, and
`PlanLimit` 3 cuts a plan of four steps.

What the properties do not hold without. `ScanCapacity` leaves out overlapping
starts, cancellations, lost requests, repeated deliveries and a soft limit that comes
while the event loop waits: a scan that is cancelled before its task loads it is set to
running again after its place was given away (`tasks.py:67`), and a scan whose request
died between its commit and `delay()`, or whose task was stopped in a wait, keeps its
place for ever. `RejectedOnlyAtLimit` counts the places of scans whose login was
rejected, which keep `running`. `ScanFaults` leaves out the rejected login because
`CompletedIsBacked` fails with it (`ScanReportAuth`); the theorems are for every set of
faults.

`LossNeedsOverlap` says what a lone callback depends on: no flush of anybody else,
and at most one endpoint of its path among those of the whole application. With two
that an earlier job left, every response of the path is lost without any overlap.

`ClearedNotSent` is about what was cleared. Scans that overlap carry each other's
credentials, and where `remove_all_rules` is not there nothing is ever cleared and the
property says nothing; no statement of the repository denies either. `ConfirmedByReader` leaves out
requests with two identifiers, since six mutated replays of seven confirm a flaw
whatever the request itself was answered, and sites that set cookies, where the session
that is answered need not be the one that is listed. `ForeignDenialNotConfirmed` holds
for those as well. Both are about pages that deny: of a page that is public, that serves
a login form with 200 or redirects to one, all contexts see the same, and the code
confirms the alert, whichever site it is about.

Other behaviour the models show and no document promises otherwise:

- a cancel request with another workspace marks nothing and revokes the task
  (`CancelMiss`); one that comes before the task id is recorded revokes nothing; a
  task that was killed by revoke leaves its row at `cancelling`;
- a failed authorization scan stays `queued`, since its `failed` status is rolled
  back; a job delivered again after its commit adds a second set of results: it
  attacks the replays of the first run along with the crawled rows, and reports the
  first run's attempts, transitions and relationships again;
- two jobs that store an endpoint or a reference twice make every later scan of the
  application raise when it comes to that row; `AttackRun` shows that this takes two
  jobs or two callbacks, never two runs of one job, and for the references of an
  identity both jobs have selected a session that is there twice as well;
- the step `chain_create_to_approve` is never planned: `_infer_workflows` keeps no
  endpoint whose action is "create" (`application_mapper.py:118`), and the planner
  looks for "create" and "approve" among those it kept (`adaptive_planner.py:53`);
- a stored workflow transition need not have happened: the responses come in no
  order, and the state fields of one response follow each other as if they were
  states of one object (`state_machine.py` 53-57);
- the graph of a run has nodes without a kind for rows of other jobs: its traffic is
  the job's, its chains and transitions are the application's. `GraphClosed` says
  that this is all.

## 4. Fairness

- `WatchdogSpec` (`ScanFaults`): a worker that is idle takes a message, and
  Celery's hard limit (`celery_app.py:23`) ends a task that does not end. Nothing
  is assumed of the task body, which may wait for the spider for ever
  (`zap_scanner.py:78`).
- `LiveSpec` of `ScanLifecycle` (`ScanCapacity`): the API process goes on to
  publish and to record the task's id, idle workers take messages, and a task goes
  on to its next line, to the deadline of its poll loop (`tasks.py:386`) or to the
  soft limit (`celery_app.py:24`), which ends the loops of the spider (they sleep in a
line of the task, so the handler runs). `PollProgress` is not assumed to end: a scan may
  stay below 100 % until the deadline.
- `LiveSpec` of `AuthorizationScan` (`AuthFaults`): idle workers take messages, and a
  task that is not waiting for a lock goes on. That PostgreSQL fails one of the
  transactions in a cycle of waits is the `Deadlocked` disjunct of `FailRun`.
- `LiveSpec` of `AttackRun` (`AttackRuns`): a run that has begun goes on, since each
  of its awaits has a timeout or raises. `RunsEnd` includes the cycles of waits for
  sessions, which `Deadlocked` breaks.
- `LiveSpec` of `Crawl` (`Crawl`): the event loop runs some coroutine that can go on.
  Which one is not assumed, nor that a request is answered: then `goto` raises its
  timeout, `LoadFails`.

`SharedScanner` and `Intelligence` state safety only: whether a scan and a run end
is the business of `ScanLifecycle` and `AttackRun`.

## 5. Proofs

All theorems are checked by TLAPS from the assumptions the modules declare
(finite sets of scans, workers and identities, natural limits, at least one
delivery). `ScanLifecycle_proof`:

- `Invariance`: `IInv` is inductive. It adds to the properties what they need:
  `FateIsRequested` (a handler that will write "cancelled" follows a committed
  cancellation, for `CancelledWasRequested`), `RequestOrder` (no message before the
  row, no delivery before the message), `RowLocked` (every writer waits for a
  cancellation's lock) and `FirstDelivery` (up to the first delivery there is one
  run, which loads the row before it finishes it, for `OnlyRedeliveryReopens`).
- `TypeCorrect`, `NoMessageStranded`, `FindingsBounded`, `CancelledOnRequest`,
  `NoReopening` follow from it for any number of scans, workers and deliveries and
  any faults.
- `FindingsWithinDeliveries` counts what may still be committed: findings plus
  unfinished runs never exceed deliveries, so a killed run gives its share back
  only to the delivery that starts the next.
- `CancellationHonoured`: from a state in the window of `CancelledInTime` the
  predicate `Honoured` is preserved until the next delivery, and it excludes
  "completed".
- `CompletedHasFindings` assumes that no login is rejected (`LoginsSucceed`). Its
  invariant `FindingsStored` says that a task which returns success, and a row or a
  result that says so, have committed findings behind them, whatever is killed,
  cancelled or delivered again; `ReportedStatus` then has nothing else to say
  "completed" from.
- `RejectionsDeserved` assumes that every request is answered, nothing is cancelled
  and no run is cut off by the time limit, stopped by the soft limit in a wait or
  handed out twice (`NothingStrands`; worker crashes, failures and rejected logins stay in). Its invariant follows each counted
  row to a request, a message or a run that still ends it (`AtWork`), so that a row in
  an active status is `Live` or keeps its place after a rejected login.
- `CapacityWhenSerial`: the limit holds under the assumption `NothingReactivates`,
  with the invariants that a row stays pending until it is loaded and that the one
  admitted request still has room.

`AuthorizationScan_proof`:

- `Invariance` with `RowExists`, `JobLocked` (the lock on the job's row belongs to
  the one run that has marked it) and `IdentitiesDone` (every identity of a marked
  job has a session, was inserted by the run or is still to do).
- `EffectsBounded`, `SessionsThere`, and `Refinement`: initial states map to initial
  states of `AtomicJob` and every step to a step or a stutter.
- `SessionsUnique`: runs of one job insert one after the other, because they hold
  the job's lock from the first `_mark` on, and the second reads the first one's
  row; so an identity of one job has one session.

`Crawl_proof`, for every finite set of pages and every site on it:

- `Invariance` has a part for the walk and one for the callbacks. The walk's is
  that `history \o queue` has no repetition and is what was found, so that the
  loop's test, which counts the URLs found, bounds the loads (`LoadLimit`), and an
  empty queue means that all is loaded (`Completeness`).
- `RowsKeepEndpoints` holds under any overlap of callbacks: a callback adds its row
  after its endpoint was written, by whatever flush (`StoreStage`).
- `SerialCallbacksAgree` and `SerialCallbacksStore` need `Serial`: a callback that is
  in `record()` with no other and during no flush of the rest of the run finds nothing
  unflushed, so its select sees every endpoint of the crawl, and the crawl gives a path
  one endpoint. What others inserted for the path, before or meanwhile, is any set of
  rows: it cannot make the crawl add a duplicate, but it can make the select raise,
  and that is the one way left to lose a response.

`AttackRun_proof`, for any number of jobs, identities, requests and deliveries and
any target:

- `Invariance` adds `RunsInOrder` (runs of a job follow one another), `RowsOfRuns`
  (a run that is rolled back has no rows, and findings are of attempts their run
  sees), `LooksSound` and `TargetsSound` (what a run has looked up or planned is
  still as it was). With `RunsInOrder` a job's traffic is that of earlier runs,
  committed, and the run's own.
- `LineageIsSound` and `DepthIsBounded`: the targets are rows of earlier runs or
  crawled ones, so a replay is one step deeper than the delivery before allowed.
- `FindingsAreExact`: whoever reasons sees all attempts of the runs before it; with
  it, and since no run of a job is under way when another commits,
  `ReaderRefinement`: every commit is a `Publish` of `ReportedFlaws` and every other
  step a stutter.
- `NoDuplicatesInAJob` needs `RefersOnce`, which also counts the references that
  are looked up and not inserted.
- `DuplicatesNeedTwoSessions` needs `SessionsShared`: of two runs that have both
  logged an identity in, one has inserted its session, since otherwise both held
  the lock of the same row; and each has a session behind it that was inserted by
  itself or is committed.

`AuthContexts_proof` and `SharedScanner_proof`, for any applications, roles, logins and
orders of steps:

- `ContextsTyped` needs nothing of the files: two roles may share one.
- `SessionsApart`: `RoleIsolation` is inductive under `SeparateFiles`, the assumption
  that no two roles have one browser-state file. Without it a browser opens with the
  session of another role, as `session_state_path` allows for names that differ in
  characters it replaces.
- `ScansFollowAuthContexts`: `SharedScanner` implements `AuthContexts`, so that
  `ScansKeepRolesApart` follows from the theorem above.
- `FormerCredentialsNotSent`: who is through with the daemon never adds a rule again
  (`FormerAreThrough`), and a successful clearing leaves no rule of anybody, so the
  rules there are belong to scans that were on the daemon or came after it. It assumes
  nothing of overlaps, of refused rules or of later clearings that fail.
- `ScannerTypes`: what a scan holds has the types of `TypeOK`, with any number of
  scans on the daemon.
- `ConfirmedWhereRead` and `ForeignDenialsUnconfirmed` are about what `Validate` makes
  of any number of contexts, pages, ended sessions and replays without an answer. A
  replay that is denied is never suspicious (`DeniedNotSuspicious`), and a flaw is
  confirmed only if at least 79.5 % of the replays may be (`ConfirmedByReplays`).
  Where no session that was compared may read the page, only the mutations may be, three
  of four for each context (`UnreadUnconfirmed`). Strangers to a site are denied the
  mutations too, whatever their number and whoever's cookies they send
  (`StrangersDenied`); that the contexts a scan compares are strangers to any other
  site is `OwnContexts`, which needs the sessions of the roles apart and so
  `SeparateFiles`.

`Intelligence_proof`, for any jobs, deliveries and responses, whatever a response
mentions or shows:

- `Invariance`: between its reasoning and its commit, a run has reported exactly the
  strong anomalies of its job that it sees (`ReportsExact`). The others cannot change
  what these are: a run of another job writes no row of this one, and those of the
  same job have not begun or are over (`RunsInOrder`).
- `ReaderRefinement`: a commit is a `Publish` of `ReportedFlaws`, every other step a
  stutter. Only the run that a new row belongs to matters here, not what was inferred.

`IntelligenceRows_proof`, for the same and any references, signals and plans:

- `Linked` is `TypeOK` with what it needs: responses are responses, and traffic and
  objects are finite, so that they can be listed in some order. What a run sees, it
  goes on seeing until it fails (`TablesStay`); a failure takes away only rows that
  nobody else sees, and so leaves no link behind that leads nowhere (`RowsLinked`).
- `GraphsClosed`: whatever a select of the graph has found of the run's own job is all
  there is (`Gathered`), because the other runs of the job rest (`JobStays`), and what
  it has found of other jobs can be seen to the end. An edge starts at a row that
  was found, so `RowsLinked` says that the row it leads to can be seen, and if that
  is of the job, a select has found it.
- `PivotsAlongRelations`: every `Extended` path is free of repetitions, follows the
  relationships of the run and stays at one endpoint (`ExtendedFollows`). That the
  recursion of `OwnershipChain` defines a function is proved from the existence of
  iterates (`Iterates`), and that all its values are such paths by a least
  counterexample. Relationships and chains of a run come and go together.
- `BoundariesComeFirst`: what the job's traffic names is known after the discovery, is
  among the rows of the map, and is in the plan with the highest priority: a pivot has
  90 at most, whatever its length. Later only replays are added, and these name
  what the replayed row does (`Bounded`).

Proved and in no run, because a run's instance shows nothing that the other
properties do not: the inductive invariants `IInv`, `NoPageTwice`,
`LoadsWithinMax` and `WalkFollowsLinks` of `Crawl`, `FindingsExact` of `AttackRun`.

Model-checked only: the liveness properties (`ScanSettles`, the two
`MessageSettles`, `CrawlSettles`, `RunsEnd`), which need fairness and ENABLED. Every
invariant and every action property of a run is also a theorem; one that needs an
assumption on the faults or on the names of files says so in its ASSUME.

## 6. Not modelled

- Browser automation: how fields are found and pages are waited for. What comes of it
  is modelled (`SignIn`, `NoForm`, `Reports`).
- Normalization, hashes and the similarity of bodies: the classes they make are data
  (`Alike`, `Compared`).
- The adapters of `app/scanners/adapter.py`, which authorization scans use: they keep
  no state that anything reads.
- The map, the expectations and the strategy that `app/intelligence` stores: nothing
  in the program reads them again.
- `app/validators/idor_validator.py` and its Celery task, which nothing publishes, and
  `app/ai/triage_engine.py`, which nothing calls.
- Applications, identities, reports, pages, configuration, logging, encryption: single
  inserts and reads with no protocol of their own.
