----------------------------- MODULE AttackRun -----------------------------
(***************************************************************************)
(* What the runs of an application's authorization scans write and read:   *)
(* sessions, endpoints, traffic, object references, attack attempts and    *)
(* findings (app/orchestration/engine.py 69-174 and the engines it calls). *)
(*                                                                         *)
(* A run is one delivery of a job and one transaction.  Under READ         *)
(* COMMITTED its statements see its own rows and the rows of committed     *)
(* runs.  No table has a unique constraint: a row is looked up by one      *)
(* statement and, if it is not there, inserted by a later one.             *)
(*                                                                         *)
(* How a job is requested, delivered and killed is in AuthorizationScan,   *)
(* how pages are found and responses written in Crawl.  Here the runs of   *)
(* one job follow one another, since the second waits for the first one's  *)
(* lock on the job.                                                        *)
(***************************************************************************)
EXTENDS Naturals, FiniteSets

CONSTANTS
    Jobs,
    Identities,
    Requests,       \* what the crawler may record: a method, a URL, a body
    Paths,          \* a method and a normalized path
    Values,         \* what object discovery may take for an object's name, by location
    JobIdentities,  \* the identities a job selects
    PathOf,         \* the method and normalized path of a request
    Answers,        \* the statuses the target may answer a request and an identity with
    Compared,       \* the verdict on a successful replay, by request, owner and target
    Yields,         \* the values discovered in a request's URL and bodies
    Contains,       \* the values that are substrings of its URL or body
    Tenants,        \* the values whose references are of type "tenant"
    Writes,         \* the requests with a method that writes
    StateTokens,    \* the requests with a word of the workflow attack
    Deliveries,     \* how often a job's message is delivered, at most
    Faults,         \* a subset of PossibleFaults
    NoRow

PossibleFaults ==
    { "run_fails",          \* a login, a page, a request or a statement raises
      "redelivered",        \* the message is delivered again after the run
      "late_response" }     \* others insert an endpoint after a callback has looked for it

Statuses == {"success", "denied", "other"}

ASSUME ConstantsAssumption ==
    /\ IsFiniteSet(Jobs) /\ IsFiniteSet(Identities) /\ IsFiniteSet(Requests) /\ IsFiniteSet(Values)
    /\ PathOf \in [Requests -> Paths]
    /\ JobIdentities \in [Jobs -> SUBSET Identities]
    /\ Answers \in [Requests -> [Identities -> SUBSET Statuses]]
    /\ Compared \in [Requests -> [Identities -> [Identities -> {"confirmed", "likely", "needs_review"}]]]
    /\ Yields \in [Requests -> SUBSET Values]
    /\ Contains \in [Requests -> SUBSET Values]
    /\ Tenants \subseteq Values
    /\ Deliveries \in [Jobs -> Nat \ {0}]
    /\ Faults \subseteq PossibleFaults

Runs == UNION {{j} \X (1..Deliveries[j]) : j \in Jobs}
JobOf(r) == r[1]

VARIABLES
    phase,          \* where a run is
    todo,           \* what its loop has still to go through
    looked,         \* the session a run has looked for, and how many it found
    missing,        \* the reference a run has looked for and not found
    sessions,       \* who inserted a session of which identity
    endpoints,      \* who inserted the endpoint of which path, for which time
    traffic,        \* traffic_logs, an attack's replay with its attempt and validation
    references,     \* who inserted the reference of which identity to which value
    findings        \* the findings of a run, by the attempt they report

vars == <<phase, todo, looked, missing, sessions, endpoints, traffic, references, findings>>

Phase == {"new", "authenticating", "crawling", "object_discovery", "authorization_attacks",
          "authorization_reasoning", "graph", "committed", "failed"}

Over(r) == phase[r] \in {"committed", "failed"}
Active(r) == phase[r] # "new" /\ ~Over(r)

Sees(r, s) == s = r \/ phase[s] = "committed"

\* The rows of a table of <<run, key>> pairs that r's SELECT finds for a key.
Found(r, table, key) == {s \in Runs : Sees(r, s) /\ <<s, key>> \in table}

\* The endpoints of a path that r's SELECT finds.
EndpointsOf(r, p) == {x \in endpoints : Sees(r, x[1]) /\ x[2] = p}

\* The traffic of r's job that r sees.
JobTraffic(r) == {x \in traffic : Sees(r, x.run) /\ JobOf(x.run) = JobOf(r)}

IsReplay(x) == x.attack # 0

Init ==
    /\ phase = [r \in Runs |-> "new"]
    /\ todo = [r \in Runs |-> {}]
    /\ looked = {} /\ missing = {}
    /\ sessions = {} /\ endpoints = {} /\ references = {}
    /\ traffic = {}
    /\ findings = {}

Enter(r, from, to, work) ==
    /\ phase[r] = from
    /\ phase' = [phase EXCEPT ![r] = to]
    /\ todo' = [todo EXCEPT ![r] = work]
    /\ UNCHANGED <<looked, missing>>

\* Mutant: the loop does not go on to its next item.
Done_StaysThere(r, item) == todo' = todo

Done(r, item) == todo' = [todo EXCEPT ![r] = @ \ {item}]

\* Mutant: what the run was at is not forgotten.
RollBack_KeepsWork(r) ==
    /\ phase' = [phase EXCEPT ![r] = "failed"]
    /\ looked' = {x \in looked : x[1] # r}
    /\ missing' = {x \in missing : x[1] # r}
    /\ sessions' = {x \in sessions : x[1] # r}
    /\ endpoints' = {x \in endpoints : x[1] # r}
    /\ references' = {x \in references : x[1] # r}
    /\ traffic' = {x \in traffic : x.run # r}
    /\ findings' = {x \in findings : x[1] # r}
    /\ UNCHANGED todo

\* The transaction is rolled back.
RollBack(r) ==
    /\ phase' = [phase EXCEPT ![r] = "failed"]
    /\ looked' = {x \in looked : x[1] # r}
    /\ missing' = {x \in missing : x[1] # r}
    /\ todo' = [todo EXCEPT ![r] = {}]
    /\ sessions' = {x \in sessions : x[1] # r}
    /\ endpoints' = {x \in endpoints : x[1] # r}
    /\ references' = {x \in references : x[1] # r}
    /\ traffic' = {x \in traffic : x.run # r}
    /\ findings' = {x \in findings : x[1] # r}

-----------------------------------------------------------------------------
(* Sessions.                                                                 *)

\* The job is delivered for the first time, or again.
StartRun(r) ==
    /\ r[2] > 1 => "redelivered" \in Faults /\ Over(<<JobOf(r), r[2] - 1>>)
    /\ Enter(r, "new", "authenticating", JobIdentities[JobOf(r)])
    /\ UNCHANGED <<sessions, endpoints, traffic, references, findings>>

\* upsert_session looks for the session: there is none, or one ...
SelectSession(r, i) ==
    /\ phase[r] = "authenticating" /\ i \in todo[r]
    /\ \A x \in looked : x[1] # r
    /\ Cardinality(Found(r, sessions, i)) <= 1
    /\ looked' = looked \cup {<<r, i, IF Found(r, sessions, i) = {} THEN 0 ELSE 1>>}
    /\ UNCHANGED <<phase, todo, missing, sessions, endpoints, traffic, references, findings>>

\* ... or several, and it raises.
SeveralSessions(r, i) ==
    /\ phase[r] = "authenticating" /\ i \in todo[r]
    /\ \A x \in looked : x[1] # r
    /\ Cardinality(Found(r, sessions, i)) > 1
    /\ RollBack(r)

LoggedInAs(r, i) ==
    /\ looked' = {x \in looked : x[1] # r}
    /\ Done(r, i)
    /\ UNCHANGED <<phase, missing, endpoints, traffic, references, findings>>

InsertSession(r, i) ==
    /\ <<r, i, 0>> \in looked
    /\ sessions' = sessions \cup {<<r, i>>}
    /\ LoggedInAs(r, i)

\* r has logged i in by an update, and holds the lock of the session's row.
Locks(r, i) ==
    /\ Active(r)
    /\ i \in JobIdentities[JobOf(r)] /\ <<r, i>> \notin sessions
    /\ phase[r] = "authenticating" => i \notin todo[r]

\* Mutant: the update does not wait for the lock.
UpdateSession_Unlocked(r, i) ==
    /\ <<r, i, 1>> \in looked
    /\ LoggedInAs(r, i)
    /\ UNCHANGED sessions

UpdateSession(r, i) ==
    /\ <<r, i, 1>> \in looked
    /\ \A s \in Runs : ~Locks(s, i)
    /\ LoggedInAs(r, i)
    /\ UNCHANGED sessions

WaitsFor(r, s) == \E i \in Identities : <<r, i, 1>> \in looked /\ Locks(s, i)

\* Runs that wait for each other: PostgreSQL makes one statement raise.
Deadlocked(r) ==
    /\ \E D \in SUBSET Runs : r \in D /\ \A s \in D : \E u \in D : WaitsFor(s, u)
    /\ RollBack(r)

StartCrawl(r) ==
    /\ todo[r] = {}
    /\ Enter(r, "authenticating", "crawling", {})
    /\ UNCHANGED <<sessions, endpoints, traffic, references, findings>>

-----------------------------------------------------------------------------
(* Traffic and object references.                                            *)

\* The endpoint of a path is inserted if the select finds none.
UpsertEndpoint(r, p) ==
    endpoints' = IF EndpointsOf(r, p) = {} THEN endpoints \cup {<<r, p, 1>>} ELSE endpoints

Crawled(r, q, i, st) ==
    [run |-> r, request |-> q, identity |-> i, status |-> st, parent |-> NoRow, attack |-> 0, depth |-> 0]

\* A response is recorded, if its path has not several endpoints.  Rows that
\* differ in nothing else are one here.
Record(r, q, i) ==
    /\ phase[r] = "crawling" /\ i \in JobIdentities[JobOf(r)]
    /\ Cardinality(EndpointsOf(r, PathOf[q])) <= 1
    /\ \E st \in Answers[q][i] :
          /\ Crawled(r, q, i, st) \notin traffic
          /\ traffic' = traffic \cup {Crawled(r, q, i, st)}
    /\ UpsertEndpoint(r, PathOf[q])
    /\ UNCHANGED <<phase, todo, looked, missing, sessions, references, findings>>

\* Since its callback looked for the endpoint another callback of the run has
\* inserted it, or the run of another job has committed one.
RecordLate(r, q, i) ==
    /\ "late_response" \in Faults
    /\ phase[r] = "crawling" /\ i \in JobIdentities[JobOf(r)]
    /\ EndpointsOf(r, PathOf[q]) # {}
    /\ \A x \in EndpointsOf(r, PathOf[q]) : x[1] = r \/ JobOf(x[1]) # JobOf(r)
    /\ \E n \in 1..2 : /\ <<r, PathOf[q], n>> \notin endpoints
                      /\ endpoints' = endpoints \cup {<<r, PathOf[q], n>>}
    /\ \E st \in Answers[q][i] : traffic' = traffic \cup {Crawled(r, q, i, st)}
    /\ UNCHANGED <<phase, todo, looked, missing, sessions, references, findings>>

\* The crawl ends with what it has recorded, and the traffic of the job is read.
StartDiscovery(r) ==
    /\ Enter(r, "crawling", "object_discovery",
             UNION {{x.identity} \X Yields[x.request] : x \in JobTraffic(r)})
    /\ UNCHANGED <<sessions, endpoints, traffic, references, findings>>

\* Mutant: _store_reference does not look for the reference of earlier runs.
MissReference_Blind(r, key) ==
    /\ phase[r] = "object_discovery" /\ key \in todo[r]
    /\ \A x \in missing : x[1] # r
    /\ missing' = missing \cup {<<r, key>>}
    /\ UNCHANGED <<phase, todo, looked, sessions, endpoints, traffic, references, findings>>

\* _store_reference looks for a reference and finds none ...
MissReference(r, key) ==
    /\ phase[r] = "object_discovery" /\ key \in todo[r]
    /\ \A x \in missing : x[1] # r
    /\ Found(r, references, key) = {}
    /\ missing' = missing \cup {<<r, key>>}
    /\ UNCHANGED <<phase, todo, looked, sessions, endpoints, traffic, references, findings>>

\* ... and inserts it ...
InsertReference(r, key) ==
    /\ <<r, key>> \in missing
    /\ missing' = missing \ {<<r, key>>}
    /\ references' = references \cup {<<r, key>>}
    /\ Done(r, key)
    /\ UNCHANGED <<phase, looked, sessions, endpoints, traffic, findings>>

\* ... or finds one, which is all it wants ...
FindReference(r, key) ==
    /\ phase[r] = "object_discovery" /\ key \in todo[r]
    /\ \A x \in missing : x[1] # r
    /\ Cardinality(Found(r, references, key)) = 1
    /\ Done(r, key)
    /\ UNCHANGED <<phase, looked, missing, sessions, endpoints, traffic, references, findings>>

\* ... or several, and scalar_one_or_none raises.
SeveralReferences(r, key) ==
    /\ phase[r] = "object_discovery" /\ key \in todo[r]
    /\ \A x \in missing : x[1] # r
    /\ Cardinality(Found(r, references, key)) > 1
    /\ RollBack(r)

-----------------------------------------------------------------------------
(* The attacks.                                                              *)

BOLA == 1
Horizontal == 2
Vertical == 3
TenantBoundary == 4
WorkflowTransition == 5
Attacks == BOLA..WorkflowTransition

\* The references r sees for values in the request of x, of one identity.
Mentioned(r, x, i) == {v \in Contains[x.request] : Found(r, references, <<i, v>>) # {}}

\* The first reference that is found decides on BOLA, and the SELECT has no
\* order: the rows it takes for sure, and those it may or may not take.
BolaRows(r) == {x \in JobTraffic(r) : Mentioned(r, x, x.identity) \ Tenants # {}}
BolaDoubtful(r) == {x \in BolaRows(r) : Mentioned(r, x, x.identity) \cap Tenants # {}}

\* discover_targets of each attack, by the row it takes for a baseline.
Discovers(r, attack, x, bola) ==
    \/ attack = BOLA /\ x \in bola
    \/ attack = Horizontal
    \/ attack = Vertical /\ x.request \in Writes
    \/ attack = TenantBoundary /\ \E i \in Identities : Mentioned(r, x, i) \cap Tenants # {}
    \/ attack = WorkflowTransition /\ x.request \in StateTokens

\* The sessions are those of the application, whatever the job selects.
Targets(r, bola) ==
    {t \in Attacks \X JobTraffic(r) \X {i \in Identities : Found(r, sessions, i) # {}} :
        t[2].status = "success" /\ Discovers(r, t[1], t[2], bola) /\ t[3] # t[2].identity}

StartAttacks(r) ==
    /\ todo[r] = {}
    /\ \E left \in SUBSET BolaDoubtful(r) :
          Enter(r, "object_discovery", "authorization_attacks", Targets(r, BolaRows(r) \ left))
    /\ UNCHANGED <<sessions, endpoints, traffic, references, findings>>

Replayed(r, a, x, i, st) ==
    [run |-> r, request |-> x.request, identity |-> i, status |-> st, parent |-> x, attack |-> a, depth |-> x.depth + 1]

\* ValidationEngine.validate.
Verdict(x) ==
    CASE x.status = "success" -> Compared[x.request][x.parent.identity][x.identity]
      [] x.status = "denied" -> "blocked"
      [] OTHER -> "needs_review"

\* Attack after attack.  The replays of one do not read each other's rows, and
\* go in one order here.
NextTarget(r) == CHOOSE t \in todo[r] : \A u \in todo[r] : t[1] <= u[1]

Reply(r, st) == Replayed(r, NextTarget(r)[1], NextTarget(r)[2], NextTarget(r)[3], st)

\* Mutant: the replay is stored under the root of its chain.
Replay_FromRoot(r) ==
    /\ phase[r] = "authorization_attacks" /\ todo[r] # {}
    /\ LET t == NextTarget(r)
           x == t[2]
       IN  /\ Cardinality(EndpointsOf(r, PathOf[x.request])) <= 1
           /\ \E st \in Answers[x.request][t[3]] :
                 traffic' = traffic \cup {[Reply(r, st) EXCEPT !.parent = IF IsReplay(x) THEN x.parent ELSE x]}
           /\ UpsertEndpoint(r, PathOf[x.request])
           /\ Done(r, t)
    /\ UNCHANGED <<phase, looked, missing, sessions, references, findings>>

\* Mutant: the attacks go through the traffic they write.
Replay_Rereads(r) ==
    /\ phase[r] = "authorization_attacks" /\ todo[r] # {}
    /\ LET t == NextTarget(r)
           x == t[2]
       IN  /\ Cardinality(EndpointsOf(r, PathOf[x.request])) <= 1
           /\ \E st \in Answers[x.request][t[3]] :
                 /\ traffic' = traffic \cup {Reply(r, st)}
                 /\ todo' = [todo EXCEPT ![r] = (@ \ {t}) \cup {<<t[1], Reply(r, st), x.identity>>}]
           /\ UpsertEndpoint(r, PathOf[x.request])
    /\ UNCHANGED <<phase, looked, missing, sessions, references, findings>>

\* execute() and _persist_result: the chain, the replay's row, the attempt, its
\* validation and its evidence are one row here.
Replay(r) ==
    /\ phase[r] = "authorization_attacks" /\ todo[r] # {}
    /\ LET t == NextTarget(r)
           x == t[2]
       IN  /\ Cardinality(EndpointsOf(r, PathOf[x.request])) <= 1
           /\ \E st \in Answers[x.request][t[3]] : traffic' = traffic \cup {Reply(r, st)}
           /\ UpsertEndpoint(r, PathOf[x.request])
           /\ Done(r, t)
    /\ UNCHANGED <<phase, looked, missing, sessions, references, findings>>

\* record() raises for a path with several endpoints.
SeveralEndpoints(r) ==
    /\ phase[r] = "authorization_attacks" /\ todo[r] # {}
    /\ Cardinality(EndpointsOf(r, PathOf[NextTarget(r)[2].request])) > 1
    /\ RollBack(r)

StartReasoning(r) ==
    /\ todo[r] = {}
    /\ Enter(r, "authorization_attacks", "authorization_reasoning", {})
    /\ UNCHANGED <<sessions, endpoints, traffic, references, findings>>

-----------------------------------------------------------------------------
(* The findings, and the end of a run.                                       *)

Exploitable(x) == IsReplay(x) /\ Verdict(x) \in {"confirmed", "likely"}

\* Mutant: only the attempts of this run are reasoned about.
Reason_OwnAttempts(r) ==
    /\ Enter(r, "authorization_reasoning", "graph", {})
    /\ findings' = findings \cup {<<r, x>> : x \in {y \in JobTraffic(r) : Exploitable(y) /\ y.run = r}}
    /\ UNCHANGED <<sessions, endpoints, traffic, references>>

\* _reason_about_validated_attacks, over all attempts of the job.
Reason(r) ==
    /\ Enter(r, "authorization_reasoning", "graph", {})
    /\ findings' = findings \cup {<<r, x>> : x \in {y \in JobTraffic(r) : Exploitable(y)}}
    /\ UNCHANGED <<sessions, endpoints, traffic, references>>

Commit(r) ==
    /\ Enter(r, "graph", "committed", {})
    /\ UNCHANGED <<sessions, endpoints, traffic, references, findings>>

\* Anything in a run raises.
FailRun(r) ==
    /\ Active(r)
    /\ "run_fails" \in Faults
    /\ RollBack(r)

Step(r) ==
    \/ \E i \in Identities : \/ SelectSession(r, i) \/ SeveralSessions(r, i)
                             \/ InsertSession(r, i) \/ UpdateSession(r, i)
    \/ Deadlocked(r)
    \/ StartCrawl(r)
    \/ \E q \in Requests, i \in Identities : Record(r, q, i) \/ RecordLate(r, q, i)
    \/ StartDiscovery(r)
    \/ \E key \in Identities \X Values : \/ MissReference(r, key) \/ FindReference(r, key)
                                        \/ InsertReference(r, key) \/ SeveralReferences(r, key)
    \/ StartAttacks(r) \/ Replay(r) \/ SeveralEndpoints(r)
    \/ StartReasoning(r) \/ Reason(r) \/ Commit(r)

Next == \E r \in Runs : StartRun(r) \/ Step(r) \/ FailRun(r)

Spec == Init /\ [][Next]_vars

\* A run that has begun goes on: each of its awaits ends or raises.
LiveSpec == Spec /\ \A r \in Runs : WF_vars(Step(r))

-----------------------------------------------------------------------------
(* The rows are of their types and the work of a run is of its stage's.      *)
TypeOK ==
    /\ phase \in [Runs -> Phase]
    /\ sessions \subseteq Runs \X Identities
    /\ looked \subseteq Runs \X Identities \X {0, 1}
    /\ missing \subseteq Runs \X (Identities \X Values)
    /\ endpoints \subseteq Runs \X Paths \X (1..2)
    /\ references \subseteq Runs \X (Identities \X Values)
    /\ \A x \in traffic :
          /\ x.run \in Runs /\ x.request \in Requests /\ x.identity \in Identities
          /\ x.status \in Statuses /\ x.attack \in 0..WorkflowTransition /\ x.depth \in Nat
    /\ findings \subseteq Runs \X traffic
    /\ DOMAIN todo = Runs
    /\ \A r \in Runs :
          /\ phase[r] = "authenticating" => todo[r] \subseteq JobIdentities[JobOf(r)]
          /\ phase[r] = "object_discovery" => todo[r] \subseteq Identities \X Values
          /\ phase[r] = "authorization_attacks" => todo[r] \subseteq Attacks \X traffic \X Identities
          /\ phase[r] \notin {"authenticating", "object_discovery", "authorization_attacks"} => todo[r] = {}

(* A replay can be traced: its parent is there as long as it is, in its own  *)
(* transaction or committed, is a success of another identity of the same    *)
(* request and job, and one step nearer to the crawl, so that                *)
(* LineageEngine.ancestors ends (attack_engine/engine.py:66-96).             *)
LineageSound ==
    \A x \in traffic : IsReplay(x) =>
        /\ x.parent \in traffic
        /\ JobOf(x.parent.run) = JobOf(x.run) /\ Sees(x.run, x.parent.run)
        /\ x.parent.request = x.request /\ x.parent.identity # x.identity
        /\ x.parent.status = "success"
        /\ x.depth = x.parent.depth + 1

(* Replays of replays come only from repeated deliveries: a run attacks what *)
(* was there when its attacks began (attack_engine/engine.py:33-48).         *)
DepthWithinDeliveries == \A x \in traffic : x.depth <= x.run[2]

(* A finding reports an exploitable attempt of its job, and a run that has   *)
(* reasoned reports every one there is, those of earlier deliveries again    *)
(* (reasoner.py:30-62).                                                      *)
FindingsExact ==
    /\ \A f \in findings :
          /\ Exploitable(f[2]) /\ f[2].status = "success"
          /\ JobOf(f[2].run) = JobOf(f[1]) /\ f[2].run[2] <= f[1][2]
    /\ \A r \in Runs : phase[r] \in {"graph", "committed"} =>
          \A x \in traffic :
              Exploitable(x) /\ JobOf(x.run) = JobOf(r) /\ x.run[2] <= r[2] => <<r, x>> \in findings

(* The look-up before an insert is enough for the runs of one job, which     *)
(* follow one another: an endpoint or a reference that is there twice is     *)
(* from two jobs, or from callbacks of one run (traffic_store.py:55-76,      *)
(* object_discovery.py:103-140).                                             *)
DuplicatesAcrossJobs ==
    \A r, s \in Runs :
        /\ JobOf(r) = JobOf(s)
        /\ \/ \E p \in Paths, n, m \in 1..2 : <<r, p, n>> \in endpoints /\ <<s, p, m>> \in endpoints
           \/ \E key \in Identities \X Values : <<r, key>> \in references /\ <<s, key>> \in references
        => r = s

(* Two jobs that have both selected an identity store a reference of it      *)
(* twice only if they have stored its session twice: otherwise one waits for *)
(* the other's update of the session (identity_engine.py:70-103,             *)
(* object_discovery.py:103-140).                                             *)
SharedReferences ==
    \A r, s \in Runs : \A i \in JobIdentities[JobOf(r)] \cap JobIdentities[JobOf(s)] : \A v \in Values :
        /\ r # s /\ phase[r] = "committed" /\ phase[s] = "committed"
        /\ <<r, <<i, v>>>> \in references /\ <<s, <<i, v>>>> \in references
        => \E u, w \in Runs :
              /\ u # w /\ phase[u] = "committed" /\ phase[w] = "committed"
              /\ <<u, i>> \in sessions /\ <<w, i>> \in sessions

\* What a reader of the database sees: the rows of committed runs.
VisibleFlaws == {x \in traffic : Exploitable(x) /\ phase[x.run] = "committed"}
VisibleReports == {f \in findings : phase[f[1]] = "committed"}

Reader == INSTANCE ReportedFlaws WITH
            Runs <- Runs, flaws <- VisibleFlaws, reports <- VisibleReports

(* Whoever reads the findings sees those of whole runs, each with reports on *)
(* exactly the exploitable attempts of its job that can be read with it,     *)
(* however the runs of several jobs interleave, fail and repeat              *)
(* (orchestration/engine.py:147-174, reasoner.py:30-62).                     *)
ReportsMatchFlaws == Reader!Spec

-----------------------------------------------------------------------------
(* The inductive invariant of the proofs.                                    *)

\* The runs of a job follow one another.
RunsInOrder ==
    \A r, s \in Runs : JobOf(r) = JobOf(s) /\ s[2] < r[2] /\ phase[r] # "new" => Over(s)

Lasts(r) == phase[r] \notin {"new", "failed"}
Attacked(r) == phase[r] \in {"authorization_attacks", "authorization_reasoning", "graph", "committed"}

\* A run that has not begun, or is rolled back, has no rows.
RowsOfRuns ==
    /\ \A x \in sessions : Lasts(x[1])
    /\ \A x \in endpoints : Lasts(x[1])
    /\ \A x \in references : Lasts(x[1]) /\ phase[x[1]] # "authenticating"
    /\ \A x \in findings : Lasts(x[1])
    /\ \A x \in traffic : Lasts(x.run)
    /\ \A x \in traffic : IF IsReplay(x) THEN Attacked(x.run) ELSE x.depth = 0
    /\ \A f \in findings : Sees(f[1], f[2].run)

\* What the attacks still have to replay.
TargetsSound ==
    \A r \in Runs : phase[r] = "authorization_attacks" =>
        \A t \in todo[r] :
            /\ t[2] \in JobTraffic(r) /\ t[2].status = "success" /\ t[2].identity # t[3]
            /\ t[2].run = r => t[2].attack = 0

\* What a run has looked for is still to be done.
LooksSound ==
    /\ \A x \in looked : phase[x[1]] = "authenticating" /\ x[2] \in todo[x[1]]
    /\ \A x \in missing : phase[x[1]] = "object_discovery" /\ x[2] \in todo[x[1]]

\* Who has a session of i behind it: the run that inserted it, or one that is committed.
Backs(u, i, R) == <<u, i>> \in sessions /\ (u \in R \/ phase[u] = "committed")

LoggedIn(r, i) ==
    /\ Active(r) /\ i \in JobIdentities[JobOf(r)]
    /\ phase[r] = "authenticating" => i \notin todo[r]

\* The references there are, and those that are about to be inserted.
Refers == references \cup missing

SessionsShared ==
    /\ \A r \in Runs, i \in Identities : LoggedIn(r, i) \/ <<r, i, 1>> \in looked => \E u \in Runs : Backs(u, i, {r})
    /\ \A r, s \in Runs, i \in Identities :
          LoggedIn(r, i) /\ LoggedIn(s, i) /\ r # s => <<r, i>> \in sessions \/ <<s, i>> \in sessions
    /\ \A r, s \in Runs : \A i \in JobIdentities[JobOf(r)] \cap JobIdentities[JobOf(s)] : \A v \in Values :
          r # s /\ <<r, <<i, v>>>> \in Refers /\ <<s, <<i, v>>>> \in Refers
          => \E u, w \in Runs : u # w /\ Backs(u, i, {r, s}) /\ Backs(w, i, {r, s})

\* The runs of a job do not refer to the same thing twice, nor are about to.
RefersOnce ==
    \A r, s \in Runs : JobOf(r) = JobOf(s) /\ r # s =>
        \A key \in Identities \X Values : ~(<<r, key>> \in Refers /\ <<s, key>> \in Refers)

IInv ==
    /\ TypeOK /\ RunsInOrder /\ RowsOfRuns /\ LooksSound /\ TargetsSound
    /\ LineageSound /\ DepthWithinDeliveries /\ FindingsExact
    /\ DuplicatesAcrossJobs /\ RefersOnce /\ SessionsShared

-----------------------------------------------------------------------------
(* Again and again no run is at work: attacks are planned once, a crawl is   *)
(* finite, and no look-up and no lock leaves a run waiting for ever          *)
(* (orchestration/engine.py 69-174, identity_engine.py:88).                  *)
RunsEnd == []<>(\A r \in Runs : ~Active(r))
=============================================================================
