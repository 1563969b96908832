---------------------------- MODULE Intelligence ----------------------------
(***************************************************************************)
(* What the runs of an application's authorization scans derive from its   *)
(* responses: workflow transitions, the relationships of objects, an       *)
(* attack plan, findings and the authorization graph (app/orchestration/   *)
(* engine.py 105-151, app/intelligence, app/workflows, app/graph).         *)
(*                                                                         *)
(* A run is a job and the number of a delivery, and one transaction, as in *)
(* AttackRun.  Some selects are of the job's rows, some of all rows of the *)
(* application, and each sees the runs that have been committed by then.   *)
(***************************************************************************)
EXTENDS Integers, FiniteSetsExt, SequencesExt

CONSTANTS
    Jobs,
    Deliveries,     \* how often a job's message is delivered, at most
    Responses,      \* what the crawler may record
    JobOf,          \* the job whose identities get the response
    PathOf,         \* its method and normalized path
    Shows,          \* the values of its state fields, in order
    Refs,           \* the references discovery may find, each of one job's identity
    Mentions,       \* the references in a response
    Signals,        \* what OwnershipInferenceEngine.score sees of a reference
    TenantRefs,     \* the references of type "tenant", of different values
    ParentRefs,     \* those whose key is one of account_id, project_id, org_id, tenant_id
    Paths,
    RootOf,         \* the first segment of a path
    CrudOf,         \* _crud_action of its endpoint
    Roles,          \* the roles of the application's identities
    PlanLimit,      \* planned_chain_limit
    Replays,        \* bound: the replays of a run
    None

Cruds == {"approve", "refund", "archive", "publish", "pay", "create", "edit", "delete", "read"}

Weight ==
    [ identity      |-> 20,
      ownership_key |-> 45,
      tenant        |-> 35,
      owned_path    |-> 20,
      response_id   |-> 5,
      public_path   |-> -35 ]

ASSUME IntelligenceAssumption ==
    /\ Deliveries \in [Jobs -> Nat \ {0}]
    /\ JobOf \in [Responses -> Jobs]
    /\ PathOf \in [Responses -> Paths]
    /\ CrudOf \in [Paths -> Cruds]
    /\ Shows \in [Responses -> Seq(STRING)]
    /\ Mentions \in [Responses -> SUBSET Refs]
    /\ Signals \in [Refs -> SUBSET DOMAIN Weight]
    /\ IsFiniteSet(Refs) /\ TenantRefs \subseteq Refs /\ ParentRefs \subseteq Refs
    /\ PlanLimit \in Nat /\ Replays \in Nat

Runs == UNION {{j} \X (1..Deliveries[j]) : j \in Jobs}

VARIABLES
    phase,          \* where a run is
    (* the rows; each has the run that inserted it *)
    traffic,        \* traffic_logs, a replay with its attempt and chain
    endpoints,
    objects,        \* object_references
    transitions,    \* workflow_transitions
    relations,      \* object_relationships
    chains,         \* attack_chains that are planned
    findings,       \* reasoning_findings: the run, and the row it reports
    (* what a run holds in memory *)
    seen            \* the rows that its selects have found

rowVars == <<traffic, endpoints, objects, transitions, relations, chains, findings>>
vars == <<phase, rowVars, seen>>

Phase ==
    { "new", "crawling", "workflows", "map_endpoints", "map_objects", "planning", "attacks",
      "graph_endpoints", "graph_objects", "graph_transitions", "graph_chains",
      "graph_traffic", "graph_built", "committed", "failed" }

Selected == {"endpoints", "objects", "transitions", "chains", "traffic"}

Init ==
    /\ phase = [r \in Runs |-> "new"]
    /\ traffic = {} /\ endpoints = {} /\ objects = {} /\ transitions = {}
    /\ relations = {} /\ chains = {} /\ findings = {}
    /\ seen = [r \in Runs |-> [s \in Selected |-> {}]]

Enter(r, from, to) ==
    /\ phase[r] = from
    /\ phase' = [phase EXCEPT ![r] = to]

Over(r) == phase[r] \in {"committed", "failed"}
Active(r) == phase[r] # "new" /\ ~Over(r)

\* The rows a statement of r finds: of the application, and of r's job.
Visible(r, table) == {x \in table : x.run = r \/ phase[x.run] = "committed"}
OfJob(r, table) == {x \in Visible(r, table) : x.run[1] = r[1]}

Keep(r, select, rows) == seen' = [seen EXCEPT ![r][select] = rows]

-----------------------------------------------------------------------------
(* The crawl and the discovery of objects.                                   *)

\* The lock on the job's row makes the next delivery wait for this run's end.
StartRun(r) ==
    /\ r[2] > 1 => Over(<<r[1], r[2] - 1>>)
    /\ Enter(r, "new", "crawling")
    /\ UNCHANGED <<rowVars, seen>>

EndpointsAt(r, p) == {e \in Visible(r, endpoints) : e.path = p}

Known(r, ref) == \E o \in Visible(r, objects) : o.ref = ref

\* The endpoint that a select finds or that is inserted then.
Upserted(r, p) ==
    IF EndpointsAt(r, p) = {} THEN {[run |-> r, path |-> p]} ELSE EndpointsAt(r, p)

\* A response is recorded with its endpoint.
Record(r, x) ==
    /\ phase[r] = "crawling"
    /\ JobOf[x] = r[1]
    /\ ~\E y \in traffic : y.run = r /\ y.response = x
    /\ Cardinality(EndpointsAt(r, PathOf[x])) < 2
    /\ endpoints' = endpoints \cup Upserted(r, PathOf[x])
    /\ \E e \in Upserted(r, PathOf[x]) :
         traffic' = traffic \cup {[run |-> r, response |-> x, endpoint |-> e, baseline |-> None]}
    /\ UNCHANGED <<phase, objects, transitions, relations, chains, findings, seen>>

\* Where a reference is first found.
FoundAt(rows, m) ==
    rows[Min({k \in DOMAIN rows : m \in Mentions[rows[k].response]})].endpoint

Named(rows) == UNION {Mentions[x.response] : x \in rows}

\* The rows of the job come in no order.  A reference that is known keeps the
\* endpoint it was found at first.
DiscoverObjects(r) ==
    LET new == {m \in Named(OfJob(r, traffic)) : ~Known(r, m)} IN
    /\ \E found \in {[m \in new |-> FoundAt(rows, m)] : rows \in SetToSeqs(OfJob(r, traffic))} :
         objects' = objects \cup {[run |-> r, ref |-> m, endpoint |-> found[m]] : m \in new}
    /\ Enter(r, "crawling", "workflows")
    /\ UNCHANGED <<traffic, endpoints, transitions, relations, chains, findings, seen>>

\* The references discover_for_scan returns: those in the job's traffic.
Discovered(r) == {o \in Visible(r, objects) : o.ref \in Named(OfJob(r, traffic))}

-----------------------------------------------------------------------------
(* WorkflowDiscoveryEngine.                                                  *)

Suspicious ==
    { <<"created", "approved">>, <<"draft", "published">>, <<"pending", "paid">>,
      <<"active", "archived">>, <<"archived", "active">> }

\* What a row's states are states of: the first of the objects, in the order in
\* which they were discovered, that it mentions, or else its URL.
Subject(x, order) ==
    LET mentioned == {k \in DOMAIN order : order[k].ref \in Mentions[x.response]}
    IN  IF mentioned = {} THEN x.response ELSE order[Min(mentioned)]

\* The last state of the same subject before state n of row k.
Previous(rows, subjectOf, k, n) ==
    LET before == {i \in 1..(k - 1) : subjectOf[rows[i]] = subjectOf[rows[k]]}
    IN  IF n > 1 THEN Shows[rows[k].response][n - 1]
        ELSE IF before = {} THEN None ELSE Last(Shows[rows[Max(before)].response])

\* The states of the rows, one after the other.
Transitions(r, rows, subjectOf) ==
    UNION {{[ run |-> r, traffic |-> rows[k], n |-> n, subject |-> subjectOf[rows[k]],
              from |-> Previous(rows, subjectOf, k, n), to |-> Shows[rows[k].response][n] ] :
                 n \in DOMAIN Shows[rows[k].response]} : k \in DOMAIN rows}

\* The selects of the traffic and of the objects have no order.
DiscoverWorkflows(r) ==
    LET changing == {x \in OfJob(r, traffic) : Shows[x.response] # << >>} IN
    /\ \E subjectOf \in {[x \in changing |-> Subject(x, order)] : order \in SetToSeqs(Discovered(r))} :
       \E rows \in SetToSeqs(changing) :
         transitions' = transitions \cup Transitions(r, rows, subjectOf)
    /\ Enter(r, "workflows", "map_endpoints")
    /\ UNCHANGED <<traffic, endpoints, objects, relations, chains, findings, seen>>

-----------------------------------------------------------------------------
(* ApplicationMapper, ObjectRelationshipInferenceEngine.                     *)

\* The map keeps the endpoints, and then the objects, of all jobs.
MapEndpoints(r) ==
    /\ Enter(r, "map_endpoints", "map_objects")
    /\ Keep(r, "endpoints", Visible(r, endpoints))
    /\ UNCHANGED rowVars

MapObjects(r) ==
    /\ Enter(r, "map_objects", "planning")
    /\ Keep(r, "objects", Visible(r, objects))
    /\ UNCHANGED rowVars

Score(ref) ==
    Max({0, Min({100, 10 + MapThenSumSet(LAMBDA s : Weight[s], Signals[ref])})})

\* The relationships between the references found at one endpoint: objects
\* belong to its tenants, and whatever scores no higher to a parent reference.
Related(r) ==
    LET found == Discovered(r)
        pairs == {q \in found \X found : q[1] # q[2] /\ q[1].endpoint = q[2].endpoint}
    IN  {[run |-> r, child |-> q[1], parent |-> q[2], strong |-> TRUE] :
            q \in {pair \in pairs : pair[1].ref \notin TenantRefs /\ pair[2].ref \in TenantRefs}}
        \cup
        {[run |-> r, child |-> q[1], parent |-> q[2], strong |-> FALSE] :
            q \in {pair \in pairs : pair[2].ref \in ParentRefs /\ Score(pair[1].ref) <= Score(pair[2].ref)}}

-----------------------------------------------------------------------------
(* AuthorizationExpectationEngine, AdaptiveAttackPlanner,                    *)
(* AttackChainExecutor.  The map, the expectations and the strategy are      *)
(* stored as well, and nothing here reads them.                              *)

\* _infer_workflows: the endpoints of a root that act on something.
Workflow(r, root) ==
    {e \in seen[r].endpoints : RootOf[e.path] = root /\ CrudOf[e.path] \notin {"create", "read"}}

Actions(r, root) == {CrudOf[e.path] : e \in Workflow(r, root)}

Roots == {RootOf[p] : p \in Paths}

Tenants(r) == {o.ref : o \in {x \in seen[r].objects : x.ref \in TenantRefs}}

\* What is expected to be denied: privileged actions to other roles, and the
\* objects of a tenant to others.  (What is allowed is not looked at again.)
DeniedActions(r) ==
    {<<role, e>> : role \in Roles \ {"admin", "manager", "owner"},
                   e \in {x \in seen[r].endpoints :
                             CrudOf[x.path] \in {"approve", "refund", "archive", "publish"}}}

\* Mutant: what the chain has already is not looked at.
Extended_Loops(chain, parentOf) ==
    IF Last(chain) \in DOMAIN parentOf THEN Append(chain, parentOf[Last(chain)]) ELSE chain

\* A chain and the parent of its last object, unless the chain has that already.
Extended(chain, parentOf) ==
    IF Last(chain) \in DOMAIN parentOf /\ parentOf[Last(chain)] \notin Range(chain)
    THEN Append(chain, parentOf[Last(chain)]) ELSE chain

\* Every object with a parent extends the chain once at most.
OwnershipChain(child, parentOf) ==
    LET chain[n \in Nat] == IF n = 0 THEN <<child>> ELSE Extended(chain[n - 1], parentOf)
    IN  chain[Cardinality(DOMAIN parentOf)]

\* Priorities are in percent.
Plan(r, parentOf) ==
    {[attack |-> "vertical_privilege_escalation", target |-> d, priority |-> 92] : d \in DeniedActions(r)}
    \cup
    {[attack |-> "tenant_boundary_violation", target |-> t, priority |-> 100] : t \in Tenants(r)}
    \cup
    {[attack |-> "create_to_approve", target |-> w, priority |-> 88] :
        w \in {x \in Roots : {"create", "approve"} \subseteq Actions(r, x)}}
    \cup
    {[attack |-> "payment_state_skip", target |-> w, priority |-> 80] :
        w \in {x \in Roots : {"pay", "refund"} \cap Actions(r, x) # {}}}
    \cup
    {[attack |-> "BOLA", target |-> OwnershipChain(c, parentOf),
      priority |-> 75 + Min({3 * Len(OwnershipChain(c, parentOf)), 15})] : c \in DOMAIN parentOf}

\* Mutant: the lowest priorities first.
Prioritized_Ascending(plan, n) ==
    {P \in kSubset(Min({n, Cardinality(plan)}), plan) :
        \A p \in P, q \in plan \ P : p.priority <= q.priority}

\* The first n steps of a plan in the order of their priorities.
Prioritized(plan, n) ==
    {P \in kSubset(Min({n, Cardinality(plan)}), plan) :
        \A p \in P, q \in plan \ P : p.priority >= q.priority}

\* An object's last relationship, which depends on the order of the traffic,
\* decides which is its parent.
ParentsIn(related) ==
    LET children == {x.child : x \in related}
    IN  {f \in [children -> {x.parent : x \in related}] :
            \A c \in children : \E x \in related : x.child = c /\ x.parent = f[c]}

\* The relationships and the chains are stored; nothing is read in between.
PlanAttacks(r) ==
    /\ relations' = relations \cup Related(r)
    /\ \E parentOf \in ParentsIn(Related(r)) : \E steps \in Prioritized(Plan(r, parentOf), PlanLimit) :
         chains' = chains \cup {[run |-> r, step |-> s] : s \in steps}
    /\ Enter(r, "planning", "attacks")
    /\ UNCHANGED <<traffic, endpoints, objects, transitions, findings, seen>>

-----------------------------------------------------------------------------
(* The attacks, AuthorizationReasoner, GraphEngine.                          *)

IsReplay(x) == x.baseline # None

\* A row that was there before the attacks is replayed.
Replay(r, b) ==
    /\ phase[r] = "attacks"
    /\ b \in OfJob(r, traffic) /\ (b.run = r => ~IsReplay(b))
    /\ EndpointsAt(r, b.endpoint.path) = {b.endpoint}
    /\ Cardinality({x \in traffic : x.run = r /\ IsReplay(x)}) < Replays
    /\ traffic' = traffic \cup
          {[run |-> r, response |-> b.response, endpoint |-> b.endpoint, baseline |-> b]}
    /\ UNCHANGED <<phase, endpoints, objects, transitions, relations, chains, findings, seen>>

\* The transitions of confidence 0.85 and the relationships of 0.84.
Strong(x) ==
    \/ x \in transitions /\ <<x.from, x.to>> \in Suspicious
    \/ x \in relations /\ x.strong

\* Mutant: all anomalies of the application, whatever the job.
Reason_AllJobs(r) ==
    /\ Enter(r, "attacks", "graph_endpoints")
    /\ findings' = findings \cup {<<r, x>> : x \in {y \in Visible(r, transitions \cup relations) : Strong(y)}}
    /\ UNCHANGED <<traffic, endpoints, objects, transitions, relations, chains, seen>>

Reason(r) ==
    /\ Enter(r, "attacks", "graph_endpoints")
    /\ findings' = findings \cup {<<r, x>> : x \in {y \in OfJob(r, transitions \cup relations) : Strong(y)}}
    /\ UNCHANGED <<traffic, endpoints, objects, transitions, relations, chains, seen>>

\* One select of the graph after the other.
Select(r, from, to, table, rows) ==
    /\ Enter(r, from, to)
    /\ Keep(r, table, rows)
    /\ UNCHANGED rowVars

\* Mutant: only what this run has recorded.
SelectTraffic_ThisRun(r) ==
    Select(r, "graph_traffic", "graph_built", "traffic", {x \in traffic : x.run = r})

SelectTraffic(r) == Select(r, "graph_traffic", "graph_built", "traffic", OfJob(r, traffic))

\* Each replay has an attack chain.
BuildGraph(r) ==
    \/ Select(r, "graph_endpoints", "graph_objects", "endpoints", Visible(r, endpoints))
    \/ Select(r, "graph_objects", "graph_transitions", "objects", Visible(r, objects))
    \/ Select(r, "graph_transitions", "graph_chains", "transitions", Visible(r, transitions))
    \/ Select(r, "graph_chains", "graph_traffic", "chains",
              Visible(r, chains) \cup {x \in Visible(r, traffic) : IsReplay(x)})
    \/ SelectTraffic(r)

\* The nodes that are added with a kind.  (Users and roles always are.)
Nodes(r) ==
    LET g == seen[r] IN
    ({"endpoint"} \X g.endpoints) \cup ({"object"} \X g.objects)
    \cup ({"workflow"} \X g.transitions) \cup ({"chain"} \X g.chains)
    \cup ({"traffic"} \X g.traffic) \cup ({"attack"} \X {x \in g.traffic : IsReplay(x)})

\* The nodes that edges are added to: an edge adds the node that is missing.
\* (An attack's object is one of those that were there before.)
Ends(r) ==
    LET g       == seen[r]
        attacks == {x \in g.traffic : IsReplay(x)}
        roots   == {x \in g.chains : x \notin chains}
    IN  ({"endpoint"} \X {x.endpoint : x \in g.objects \cup g.traffic})
        \cup ({"traffic"} \X {x.baseline : x \in attacks \cup roots})
        \cup ({"object"} \X {x.subject : x \in {y \in g.transitions : y.subject \notin Responses}})
        \cup ({"endpoint"} \X {x.traffic.endpoint : x \in g.transitions})

-----------------------------------------------------------------------------

Forget(r) == seen' = [seen EXCEPT ![r] = [s \in Selected |-> {}]]

Commit(r) ==
    /\ Enter(r, "graph_built", "committed")
    /\ Forget(r)
    /\ UNCHANGED rowVars

\* Mutant: the findings of a run outlive it.
FailRun_KeepsFindings(r) ==
    /\ Active(r)
    /\ phase' = [phase EXCEPT ![r] = "failed"]
    /\ traffic' = {x \in traffic : x.run # r}
    /\ endpoints' = {x \in endpoints : x.run # r}
    /\ objects' = {x \in objects : x.run # r}
    /\ transitions' = {x \in transitions : x.run # r}
    /\ relations' = {x \in relations : x.run # r}
    /\ chains' = {x \in chains : x.run # r}
    /\ Forget(r)
    /\ UNCHANGED findings

\* Something raises, two rows of one endpoint among others.
FailRun(r) ==
    /\ Active(r)
    /\ phase' = [phase EXCEPT ![r] = "failed"]
    /\ traffic' = {x \in traffic : x.run # r}
    /\ endpoints' = {x \in endpoints : x.run # r}
    /\ objects' = {x \in objects : x.run # r}
    /\ transitions' = {x \in transitions : x.run # r}
    /\ relations' = {x \in relations : x.run # r}
    /\ chains' = {x \in chains : x.run # r}
    /\ findings' = {x \in findings : x[1] # r}
    /\ Forget(r)

Step(r) ==
    \/ StartRun(r)
    \/ \E x \in Responses : Record(r, x)
    \/ DiscoverObjects(r)
    \/ DiscoverWorkflows(r)
    \/ MapEndpoints(r)
    \/ MapObjects(r)
    \/ PlanAttacks(r)
    \/ \E b \in traffic : Replay(r, b)
    \/ Reason(r)
    \/ BuildGraph(r)
    \/ Commit(r)
    \/ FailRun(r)

Next == \E r \in Runs : Step(r)

Spec == Init /\ [][Next]_vars

-----------------------------------------------------------------------------
(* Properties. *)

Rows == traffic \cup endpoints \cup objects \cup transitions \cup relations \cup chains

\* Variables have their types; a run that has not begun, or has failed, has no
\* rows; and a row is only linked to rows that its run could see.
TypeOK ==
    /\ phase \in [Runs -> Phase]
    /\ \A x \in Rows : x.run \in Runs /\ phase[x.run] \notin {"new", "failed"}
    /\ \A f \in findings : f[1] \in Runs /\ f[2] \in Visible(f[1], transitions \cup relations)
    /\ \A x \in traffic : x.endpoint \in Visible(x.run, endpoints)
                         /\ x.baseline \in OfJob(x.run, traffic) \cup {None}
    /\ \A o \in objects : o.ref \in Refs /\ o.endpoint \in Visible(o.run, endpoints)
    /\ \A t \in transitions : t.traffic \in OfJob(t.run, traffic)
                             /\ t.subject \in Visible(t.run, objects) \cup Responses
    /\ \A x \in relations : {x.child, x.parent} \subseteq Visible(x.run, objects)
    /\ \A r \in Runs : DOMAIN seen[r] = Selected

(* The graph a run stores describes every node of its own job that an edge   *)
(* leads to, although it is gathered by one select after the other while     *)
(* other runs commit, and although earlier runs of the job were attacked by  *)
(* it: only rows of other jobs are left without a kind                       *)
(* (graph/engine.py:28-137).                                                 *)
GraphClosed ==
    \A r \in Runs : phase[r] = "graph_built" =>
        \A n \in Ends(r) \ Nodes(r) : n[2].run[1] # r[1]

(* A planned pivot goes from reference to reference without coming back,     *)
(* whatever cycles equal scores make, along relationships that the run has   *)
(* stored, and never leaves the endpoint it begins at (relationships.py:     *)
(* 16-29, adaptive_planner.py:73-82).                                        *)
PivotsFollowRelations ==
    \A c \in {x \in chains : x.step.attack = "BOLA"} :
        LET path == c.step.target IN
        /\ IsInjective(path)
        /\ \A k \in 1..(Len(path) - 1) :
             \E x \in relations :
                x.run = c.run /\ x.child = path[k] /\ x.parent = path[k + 1] /\ x.parent.endpoint = path[1].endpoint

(* The limit cuts off the boundary of a tenant that the run could see only   *)
(* for those of other tenants (adaptive_planner.py:26-27, 41,                *)
(* chain_executor.py:27).                                                    *)
BoundariesFirst ==
    \A c \in {x \in chains : Active(x.run) /\ x.step.attack # "tenant_boundary_violation"} :
        \A o \in {x \in Discovered(c.run) : x.ref \in TenantRefs} :
            \E d \in chains : d.run = c.run /\ d.step.attack = "tenant_boundary_violation"
                             /\ d.step.target = o.ref

\* What a reader of the database sees: the rows of committed runs.
VisibleAnomalies == {x \in transitions \cup relations : Strong(x) /\ phase[x.run] = "committed"}
VisibleReports == {f \in findings : phase[f[1]] = "committed"}

Reader == INSTANCE ReportedFlaws WITH
            Runs <- Runs, flaws <- VisibleAnomalies, reports <- VisibleReports

(* The findings about workflows and relationships are, like those about      *)
(* attacks, of whole runs: a reader sees, with each run, reports on exactly  *)
(* the anomalies of its job that are there then (reasoner.py:64-113).        *)
ReportsMatchAnomalies == Reader!Spec

-----------------------------------------------------------------------------
(* The inductive invariant of the proof that the reports match.              *)

\* The runs of a job follow one another.
RunsInOrder ==
    \A r, s \in Runs : r[1] = s[1] /\ s[2] < r[2] /\ phase[r] # "new" => Over(s)

\* The reasoner has been through.
Reasoned(r) ==
    phase[r] \in { "graph_endpoints", "graph_objects", "graph_transitions", "graph_chains",
                   "graph_traffic", "graph_built", "committed" }

\* Anomalies are of runs that last, and are reported by runs that have reasoned.
RowsOfRuns ==
    /\ \A x \in transitions \cup relations : x.run \in Runs /\ phase[x.run] \notin {"new", "failed"}
    /\ \A f \in findings : f[1] \in Runs /\ f = <<f[1], f[2]>> /\ Reasoned(f[1])

\* Until it commits, a run has reported the anomalies that it could see, and
\* no other run of its job can change what these are.
ReportsExact ==
    \A r \in Runs : Reasoned(r) /\ phase[r] # "committed" =>
        \A x : <<r, x>> \in findings <=> x \in OfJob(r, transitions \cup relations) /\ Strong(x)

IInv == phase \in [Runs -> Phase] /\ RunsInOrder /\ RowsOfRuns /\ ReportsExact

=============================================================================
