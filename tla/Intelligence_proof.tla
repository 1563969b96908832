------------------------- MODULE Intelligence_proof -------------------------
(* What a reader of the findings sees, for any number of jobs, deliveries    *)
(* and responses, whatever is inferred from them and whatever fails.         *)
EXTENDS Intelligence, TLAPS

\* A run is a job and the number of a delivery.
LEMMA RunParts ==
    /\ \A r \in Runs : r[1] \in Jobs /\ r[2] \in Nat \ {0} /\ r = <<r[1], r[2]>>
    /\ \A r \in Runs : r[2] > 1 => <<r[1], r[2] - 1>> \in Runs
    /\ \A r, s \in Runs : r[1] = s[1] /\ r[2] = s[2] => r = s
<1>1. \A r \in Runs : r[1] \in Jobs /\ r[2] \in 1..Deliveries[r[1]] /\ r = <<r[1], r[2]>>
  BY DEF Runs
<1>2. \A j \in Jobs : Deliveries[j] \in Nat \ {0}
  BY IntelligenceAssumption
<1>3. \A j \in Jobs : \A n \in 1..Deliveries[j] : <<j, n>> \in Runs
  BY DEF Runs
<1>4. ASSUME NEW r \in Runs, r[2] > 1 PROVE <<r[1], r[2] - 1>> \in Runs
  <2>1. r[2] - 1 \in 1..Deliveries[r[1]]
    BY <1>1, <1>2, <1>4
  <2>2. QED BY <1>1, <1>3, <2>1
<1>5. QED BY <1>1, <1>2, <1>4

\* What a change of phase does.
LEMMA EnterParts ==
    ASSUME phase \in [Runs -> Phase], NEW r \in Runs, NEW from, NEW to \in Phase, Enter(r, from, to)
    PROVE  /\ phase[r] = from /\ phase'[r] = to /\ phase' \in [Runs -> Phase]
           /\ \A s \in Runs : s # r => phase'[s] = phase[s]
BY DEF Enter

\* While a run is active, the others of its job have not begun or are over.
LEMMA OthersRest ==
    ASSUME IInv, NEW r \in Runs, NEW s \in Runs, r # s, r[1] = s[1], Active(r)
    PROVE  ~Active(s)
<1>1. r[2] \in Nat /\ s[2] \in Nat /\ r[2] # s[2]
  BY RunParts
<1>2. CASE r[2] < s[2]
  BY <1>2 DEF IInv, RunsInOrder, Active
<1>3. CASE s[2] < r[2]
  BY <1>3 DEF IInv, RunsInOrder, Active
<1>4. QED BY <1>1, <1>2, <1>3

\* r writes and removes rows of its own.
OwnRowsOnly(r) ==
    /\ \A s \in Runs : s # r => phase'[s] = phase[s]
    /\ \A x \in transitions : x \in transitions' \/ x.run = r
    /\ \A x \in transitions' : x \in transitions \/ x.run = r
    /\ \A x \in relations : x \in relations' \/ x.run = r
    /\ \A x \in relations' : x \in relations \/ x.run = r
    /\ \A f \in findings : f \in findings' \/ f[1] = r
    /\ \A f \in findings' : f \in findings \/ (f[1] = r /\ f = <<f[1], f[2]>>)

\* What an active run does to its own rows leaves the reports of the others exact.
LEMMA OtherReportsKeep ==
    ASSUME IInv, NEW r \in Runs, Active(r), OwnRowsOnly(r),
           NEW s \in Runs, s # r, Reasoned(s)', phase'[s] # "committed"
    PROVE  \A x : <<s, x>> \in findings' <=> x \in OfJob(s, transitions \cup relations)' /\ Strong(x)'
<1>1. phase[s] = phase'[s] /\ Reasoned(s) /\ phase[s] # "committed" /\ Active(s)
  BY DEF OwnRowsOnly, Reasoned, Active, Over
<1>2. r[1] # s[1]
  BY <1>1, OthersRest
<1>3. \A x : <<s, x>> \in findings <=> x \in OfJob(s, transitions \cup relations) /\ Strong(x)
  BY <1>1 DEF IInv, ReportsExact
<1>4. \A x : <<s, x>> \in findings' <=> <<s, x>> \in findings
  BY DEF OwnRowsOnly
<1>5. ASSUME NEW x, x \in transitions \cup relations \cup transitions' \cup relations', x.run[1] = s[1]
      PROVE  /\ x \in transitions' <=> x \in transitions
             /\ x \in relations' <=> x \in relations
             /\ x.run \in Runs /\ phase'[x.run] = phase[x.run]
  <2>1. x.run # r
    BY <1>2, <1>5
  <2>2. /\ x \in transitions' <=> x \in transitions
        /\ x \in relations' <=> x \in relations
    BY <2>1 DEF OwnRowsOnly
  <2>3. x.run \in Runs
    BY <1>5, <2>2 DEF IInv, RowsOfRuns
  <2>4. QED BY <2>1, <2>2, <2>3 DEF OwnRowsOnly
<1>6. \A x : x \in OfJob(s, transitions \cup relations) /\ Strong(x)
             <=> x \in OfJob(s, transitions \cup relations)' /\ Strong(x)'
  BY <1>5 DEF OfJob, Visible, Strong
<1>7. QED BY <1>3, <1>4, <1>6

\* The invariant is kept by what an active run does to its own rows if it
\* keeps its own reports exact.
LEMMA OwnStepKeeps ==
    ASSUME IInv, NEW r \in Runs, Active(r), OwnRowsOnly(r),
           phase' \in [Runs -> Phase], phase'[r] # "new",
           \A x \in transitions' \cup relations' : x.run = r => phase'[r] # "failed",
           \A f \in findings' : f[1] = r => Reasoned(r)',
           Reasoned(r)' /\ phase'[r] # "committed" =>
               \A x : <<r, x>> \in findings' <=> x \in OfJob(r, transitions \cup relations)' /\ Strong(x)'
    PROVE  IInv'
<1>1. RunsInOrder'
  <2> SUFFICES ASSUME NEW u \in Runs, NEW s \in Runs, u[1] = s[1], s[2] < u[2], phase'[u] # "new"
               PROVE  Over(s)'
    BY DEF RunsInOrder
  <2>1. phase[u] # "new"
    BY DEF OwnRowsOnly, Active
  <2>2. Over(s)
    BY <2>1 DEF IInv, RunsInOrder
  <2>3. s # r
    BY <2>2 DEF Active
  <2>4. QED BY <2>2, <2>3 DEF OwnRowsOnly, Over
<1>2. \A x \in transitions' \cup relations' : x.run \in Runs /\ phase'[x.run] \notin {"new", "failed"}
  BY DEF IInv, RowsOfRuns, OwnRowsOnly
<1>3. \A f \in findings' : f[1] \in Runs /\ f = <<f[1], f[2]>> /\ Reasoned(f[1])'
  <2> SUFFICES ASSUME NEW f \in findings' PROVE f[1] \in Runs /\ f = <<f[1], f[2]>> /\ Reasoned(f[1])'
    OBVIOUS
  <2>1. CASE f[1] = r
    BY <2>1 DEF IInv, RowsOfRuns, OwnRowsOnly
  <2>2. CASE f[1] # r
    BY <2>2 DEF IInv, RowsOfRuns, OwnRowsOnly, Reasoned
  <2>3. QED BY <2>1, <2>2
<1>4. ReportsExact'
  <2> SUFFICES ASSUME NEW s \in Runs, Reasoned(s)', phase'[s] # "committed"
               PROVE  \A x : <<s, x>> \in findings' <=> x \in OfJob(s, transitions \cup relations)' /\ Strong(x)'
    BY DEF ReportsExact
  <2>1. CASE s = r
    BY <2>1
  <2>2. CASE s # r
    BY <2>2, OtherReportsKeep
  <2>3. QED BY <2>1, <2>2
<1>5. RowsOfRuns'
  BY <1>2, <1>3 DEF RowsOfRuns
<1>6. QED BY <1>1, <1>4, <1>5 DEF IInv

\* A run has no findings before it reasons.
LEMMA NoFindingsBefore ==
    ASSUME IInv, NEW r \in Runs, ~Reasoned(r)
    PROVE  \A f \in findings : f[1] # r
BY DEF IInv, RowsOfRuns

\* A delivery begins when the one before is over.
LEMMA StartRunKeeps ==
    ASSUME IInv, NEW r \in Runs, StartRun(r)
    PROVE  IInv'
<1>1. /\ phase[r] = "new" /\ phase'[r] = "crawling" /\ phase' \in [Runs -> Phase]
      /\ \A s \in Runs : s # r => phase'[s] = phase[s]
      /\ transitions' = transitions /\ relations' = relations /\ findings' = findings
  BY EnterParts DEF StartRun, IInv, Phase, rowVars
<1>2. RunsInOrder'
  <2> SUFFICES ASSUME NEW u \in Runs, NEW s \in Runs, u[1] = s[1], s[2] < u[2], phase'[u] # "new"
               PROVE  Over(s)'
    BY DEF RunsInOrder
  <2>1. u[2] \in Nat /\ s[2] \in Nat \ {0}
    BY RunParts
  <2>2. Over(s)
    <3>1. CASE u # r
      BY <1>1, <3>1 DEF IInv, RunsInOrder
    <3>2. CASE u = r
      <4>1. <<r[1], r[2] - 1>> \in Runs /\ Over(<<r[1], r[2] - 1>>)
        BY <2>1, <3>2, RunParts DEF StartRun
      <4>2. CASE s[2] = r[2] - 1
        BY <2>1, <3>2, <4>1, <4>2, RunParts
      <4>3. CASE s[2] < r[2] - 1
        BY <3>2, <4>1, <4>3 DEF IInv, RunsInOrder, Over
      <4>4. QED BY <2>1, <3>2, <4>2, <4>3
    <3>3. QED BY <3>1, <3>2
  <2>3. QED BY <1>1, <2>2 DEF Over
<1>3. RowsOfRuns'
  BY <1>1 DEF IInv, RowsOfRuns, Reasoned
<1>4. ReportsExact'
  <2> SUFFICES ASSUME NEW s \in Runs, Reasoned(s)', phase'[s] # "committed"
               PROVE  \A x : <<s, x>> \in findings' <=> x \in OfJob(s, transitions \cup relations)' /\ Strong(x)'
    BY DEF ReportsExact
  <2>1. s # r /\ Reasoned(s) /\ phase[s] # "committed"
    BY <1>1 DEF Reasoned
  <2>2. \A x : <<s, x>> \in findings <=> x \in OfJob(s, transitions \cup relations) /\ Strong(x)
    BY <2>1 DEF IInv, ReportsExact
  <2>3. \A x \in transitions \cup relations :
            (phase'[x.run] = "committed") = (phase[x.run] = "committed")
    BY <1>1 DEF IInv, RowsOfRuns
  <2>4. QED BY <1>1, <2>2, <2>3 DEF OfJob, Visible, Strong
<1>5. QED BY <1>1, <1>2, <1>3, <1>4 DEF IInv

\* Before its reasoning, a run can do anything to its transitions and relationships.
LEMMA EarlyStepKeeps ==
    ASSUME IInv, NEW r \in Runs, Active(r), ~Reasoned(r), ~Reasoned(r)', Active(r)',
           phase' \in [Runs -> Phase], findings' = findings,
           \A s \in Runs : s # r => phase'[s] = phase[s],
           transitions \subseteq transitions', \A x \in transitions' : x \in transitions \/ x.run = r,
           relations \subseteq relations', \A x \in relations' : x \in relations \/ x.run = r
    PROVE  IInv'
<1>1. OwnRowsOnly(r)
  BY DEF OwnRowsOnly
<1>2. phase'[r] # "new" /\ phase'[r] # "failed"
  BY DEF Active, Over
<1>3. \A f \in findings' : f[1] # r
  BY NoFindingsBefore
<1>4. QED BY <1>1, <1>2, <1>3, OwnStepKeeps

\* Afterwards it does not change them.
LEMMA LateStepKeeps ==
    ASSUME IInv, NEW r \in Runs, Active(r), Reasoned(r), Reasoned(r)',
           phase' \in [Runs -> Phase],
           \A s \in Runs : s # r => phase'[s] = phase[s],
           transitions' = transitions, relations' = relations, findings' = findings
    PROVE  IInv'
<1>1. OwnRowsOnly(r)
  BY DEF OwnRowsOnly
<1>2. phase'[r] # "new" /\ phase'[r] # "failed"
  BY DEF Reasoned
<1>3. phase[r] # "committed"
  BY DEF Active, Over
<1>4. ASSUME phase'[r] # "committed"
      PROVE  \A x : <<r, x>> \in findings' <=> x \in OfJob(r, transitions \cup relations)' /\ Strong(x)'
  <2>1. \A x : <<r, x>> \in findings <=> x \in OfJob(r, transitions \cup relations) /\ Strong(x)
    BY <1>3 DEF IInv, ReportsExact
  <2>2. \A x \in transitions \cup relations :
            x.run # r => (phase'[x.run] = "committed") = (phase[x.run] = "committed")
    BY DEF IInv, RowsOfRuns
  <2>3. QED BY <2>1, <2>2 DEF OfJob, Visible, Strong
<1>5. QED BY <1>1, <1>2, <1>4, OwnStepKeeps

\* The run reports what it finds then.
LEMMA ReasonKeeps ==
    ASSUME IInv, NEW r \in Runs, Reason(r)
    PROVE  IInv'
<1>1. /\ phase[r] = "attacks" /\ phase'[r] = "graph_endpoints" /\ phase' \in [Runs -> Phase]
      /\ \A s \in Runs : s # r => phase'[s] = phase[s]
  BY EnterParts DEF Reason, IInv, Phase
<1>2. /\ transitions' = transitions /\ relations' = relations
      /\ findings' = findings \cup {<<r, x>> : x \in {y \in OfJob(r, transitions \cup relations) : Strong(y)}}
  BY DEF Reason
<1>3. Active(r) /\ ~Reasoned(r) /\ Reasoned(r)'
  BY <1>1 DEF Active, Over, Reasoned
<1>4. OwnRowsOnly(r)
  BY <1>1, <1>2 DEF OwnRowsOnly
<1>5. \A x : <<r, x>> \in findings' <=> x \in OfJob(r, transitions \cup relations)' /\ Strong(x)'
  <2>1. \A x : <<r, x>> \in findings' <=> x \in OfJob(r, transitions \cup relations) /\ Strong(x)
    BY <1>2, <1>3, NoFindingsBefore
  <2>2. \A x \in transitions \cup relations :
            x.run # r => (phase'[x.run] = "committed") = (phase[x.run] = "committed")
    BY <1>1 DEF IInv, RowsOfRuns
  <2>3. QED BY <1>2, <2>1, <2>2 DEF OfJob, Visible, Strong
<1>6. QED BY <1>1, <1>3, <1>4, <1>5, OwnStepKeeps

\* A run that fails takes its rows along.
LEMMA FailRunKeeps ==
    ASSUME IInv, NEW r \in Runs, FailRun(r)
    PROVE  OwnRowsOnly(r) /\ phase'[r] = "failed" /\ IInv'
<1>1. /\ phase' \in [Runs -> Phase] /\ phase'[r] = "failed" /\ Active(r)
      /\ \A s \in Runs : s # r => phase'[s] = phase[s]
  BY DEF FailRun, IInv, Phase
<1>2. OwnRowsOnly(r)
  BY <1>1 DEF FailRun, OwnRowsOnly
<1>3. /\ \A x \in transitions' \cup relations' : x.run # r
      /\ \A f \in findings' : f[1] # r
  BY DEF FailRun
<1>4. ~Reasoned(r)'
  BY <1>1 DEF Reasoned
<1>5. QED BY <1>1, <1>2, <1>3, <1>4, OwnStepKeeps

-----------------------------------------------------------------------------
(* The actions.                                                              *)

\* Everything before the reasoning.
EarlyStep(r) ==
    \/ \E x \in Responses : Record(r, x)
    \/ DiscoverObjects(r)
    \/ DiscoverWorkflows(r)
    \/ MapEndpoints(r)
    \/ MapObjects(r)
    \/ PlanAttacks(r)
    \/ \E b \in traffic : Replay(r, b)

\* What these do to the rows that are reported.
LEMMA EarlyStepParts ==
    ASSUME IInv, NEW r \in Runs, EarlyStep(r)
    PROVE  /\ Active(r) /\ ~Reasoned(r) /\ Active(r)' /\ ~Reasoned(r)'
           /\ phase' \in [Runs -> Phase] /\ findings' = findings
           /\ \A s \in Runs : s # r => phase'[s] = phase[s]
           /\ transitions \subseteq transitions' /\ \A x \in transitions' : x \in transitions \/ x.run = r
           /\ relations \subseteq relations' /\ \A x \in relations' : x \in relations \/ x.run = r
<1> DEFINE Moves(from, to) ==
        /\ phase[r] = from /\ phase'[r] = to /\ phase' \in [Runs -> Phase]
        /\ \A s \in Runs : s # r => phase'[s] = phase[s]
<1>1. phase \in [Runs -> Phase]
  BY DEF IInv
<1>2. CASE \E x \in Responses : Record(r, x)
  BY <1>1, <1>2 DEF Record, Active, Over, Reasoned
<1>3. CASE DiscoverObjects(r)
  <2>1. Moves("crawling", "workflows")
    BY <1>1, <1>3, EnterParts DEF DiscoverObjects, Phase
  <2>2. transitions' = transitions /\ relations' = relations /\ findings' = findings
    BY <1>3 DEF DiscoverObjects
  <2>3. QED BY <2>1, <2>2 DEF Active, Over, Reasoned
<1>4. CASE DiscoverWorkflows(r)
  <2>1. Moves("workflows", "map_endpoints")
    BY <1>1, <1>4, EnterParts DEF DiscoverWorkflows, Phase
  <2>2. PICK subjectOf, rows : transitions' = transitions \cup Transitions(r, rows, subjectOf)
    BY <1>4 DEF DiscoverWorkflows
  <2>3. \A x \in Transitions(r, rows, subjectOf) : x.run = r
    BY DEF Transitions
  <2>4. relations' = relations /\ findings' = findings
    BY <1>4 DEF DiscoverWorkflows
  <2>5. QED BY <2>1, <2>2, <2>3, <2>4 DEF Active, Over, Reasoned
<1>5. CASE MapEndpoints(r)
  <2>1. Moves("map_endpoints", "map_objects")
    BY <1>1, <1>5, EnterParts DEF MapEndpoints, Phase
  <2>2. QED BY <1>5, <2>1 DEF MapEndpoints, rowVars, Active, Over, Reasoned
<1>6. CASE MapObjects(r)
  <2>1. Moves("map_objects", "planning")
    BY <1>1, <1>6, EnterParts DEF MapObjects, Phase
  <2>2. QED BY <1>6, <2>1 DEF MapObjects, rowVars, Active, Over, Reasoned
<1>7. CASE PlanAttacks(r)
  <2>1. Moves("planning", "attacks")
    BY <1>1, <1>7, EnterParts DEF PlanAttacks, Phase
  <2>2. relations' = relations \cup Related(r) /\ transitions' = transitions /\ findings' = findings
    BY <1>7 DEF PlanAttacks
  <2>3. \A x \in Related(r) : x.run = r
    BY DEF Related
  <2>4. QED BY <2>1, <2>2, <2>3 DEF Active, Over, Reasoned
<1>8. CASE \E b \in traffic : Replay(r, b)
  BY <1>1, <1>8 DEF Replay, Active, Over, Reasoned
<1>9. QED BY <1>2, <1>3, <1>4, <1>5, <1>6, <1>7, <1>8 DEF EarlyStep

\* The graph and the commit only change the phase and what the run keeps.
LEMMA LateStepParts ==
    ASSUME IInv, NEW r \in Runs, BuildGraph(r) \/ Commit(r)
    PROVE  /\ Active(r) /\ Reasoned(r) /\ Reasoned(r)' /\ phase' \in [Runs -> Phase]
           /\ \A s \in Runs : s # r => phase'[s] = phase[s]
           /\ transitions' = transitions /\ relations' = relations /\ findings' = findings
           /\ Commit(r) <=> phase'[r] = "committed"
<1> DEFINE Gathering == {"graph_endpoints", "graph_objects", "graph_transitions", "graph_chains", "graph_traffic"}
<1>1. phase \in [Runs -> Phase]
  BY DEF IInv
<1>2. CASE Commit(r)
  <2>1. /\ phase[r] = "graph_built" /\ phase'[r] = "committed" /\ phase' \in [Runs -> Phase]
        /\ \A s \in Runs : s # r => phase'[s] = phase[s]
    BY <1>1, <1>2, EnterParts DEF Commit, Phase
  <2>2. QED BY <1>2, <2>1 DEF Commit, rowVars, Active, Over, Reasoned
<1>3. CASE BuildGraph(r)
  <2>1. PICK from \in Gathering, to \in (Gathering \cup {"graph_built"}) : Enter(r, from, to) /\ UNCHANGED rowVars
    BY <1>3 DEF BuildGraph, SelectTraffic, Select
  <2>2. /\ phase[r] = from /\ phase'[r] = to /\ phase' \in [Runs -> Phase]
        /\ \A s \in Runs : s # r => phase'[s] = phase[s]
    BY <1>1, <2>1, EnterParts DEF Phase
  <2>3. to # "committed" /\ ~Commit(r)
    BY <1>1, <2>2, EnterParts DEF Commit, Phase
  <2>4. QED BY <2>1, <2>2, <2>3 DEF rowVars, Active, Over, Reasoned
<1>4. QED BY <1>2, <1>3

\* Together these are all the actions.
LEMMA StepCases ==
    ASSUME NEW r \in Runs, Step(r)
    PROVE  StartRun(r) \/ EarlyStep(r) \/ Reason(r) \/ BuildGraph(r) \/ Commit(r) \/ FailRun(r)
BY DEF Step, EarlyStep

\* The runs of a job follow one another, and report what they see.
THEOREM Invariance == Spec => []IInv
<1>1. Init => IInv
  BY DEF Init, IInv, RunsInOrder, RowsOfRuns, ReportsExact, Reasoned, Phase
<1>2. IInv /\ [Next]_vars => IInv'
  <2> SUFFICES ASSUME IInv, [Next]_vars PROVE IInv'
    OBVIOUS
  <2>1. CASE UNCHANGED vars
    BY <2>1 DEF vars, rowVars, IInv, RunsInOrder, RowsOfRuns, ReportsExact, Reasoned, Over,
                OfJob, Visible, Strong
  <2>2. ASSUME NEW r \in Runs, Step(r) PROVE IInv'
    <3>1. CASE StartRun(r)
      BY <3>1, StartRunKeeps
    <3>2. CASE EarlyStep(r)
      BY <3>2, EarlyStepParts, EarlyStepKeeps
    <3>3. CASE Reason(r)
      BY <3>3, ReasonKeeps
    <3>4. CASE BuildGraph(r) \/ Commit(r)
      BY <3>4, LateStepParts, LateStepKeeps
    <3>5. CASE FailRun(r)
      BY <3>5, FailRunKeeps
    <3>6. QED BY <2>2, <3>1, <3>2, <3>3, <3>4, <3>5, StepCases
  <2>3. QED BY <2>1, <2>2 DEF Next
<1>3. QED BY <1>1, <1>2, PTL DEF Spec

-----------------------------------------------------------------------------
(* The runs implement ReportedFlaws.                                         *)

\* A run that is not committed is hidden from readers.
LEMMA HiddenStep ==
    ASSUME IInv, NEW r \in Runs, OwnRowsOnly(r), phase[r] # "committed", phase'[r] # "committed"
    PROVE  VisibleAnomalies' = VisibleAnomalies /\ VisibleReports' = VisibleReports
<1>1. /\ \A x \in transitions \cup relations : x.run \in Runs
      /\ \A f \in findings : f[1] \in Runs
  BY DEF IInv, RowsOfRuns
<1>2. \A x : x \in VisibleAnomalies' <=> x \in VisibleAnomalies
  BY <1>1 DEF OwnRowsOnly, VisibleAnomalies, Strong
<1>3. \A f : f \in VisibleReports' <=> f \in VisibleReports
  BY <1>1 DEF OwnRowsOnly, VisibleReports
<1>4. QED BY <1>2, <1>3 DEF VisibleAnomalies, VisibleReports

\* Only a commit is seen by readers.
LEMMA StepHidden ==
    ASSUME IInv, NEW r \in Runs, Step(r), ~Commit(r)
    PROVE  VisibleAnomalies' = VisibleAnomalies /\ VisibleReports' = VisibleReports
<1>1. CASE StartRun(r)
  <2>1. /\ phase[r] = "new" /\ phase'[r] = "crawling"
        /\ \A s \in Runs : s # r => phase'[s] = phase[s]
        /\ transitions' = transitions /\ relations' = relations /\ findings' = findings
    BY <1>1, EnterParts DEF StartRun, IInv, Phase, rowVars
  <2>2. OwnRowsOnly(r)
    BY <2>1 DEF OwnRowsOnly
  <2>3. QED BY <2>1, <2>2, HiddenStep
<1>2. CASE EarlyStep(r)
  <2>1. OwnRowsOnly(r) /\ Active(r) /\ Active(r)'
    BY <1>2, EarlyStepParts DEF OwnRowsOnly
  <2>2. QED BY <2>1, HiddenStep DEF Active, Over
<1>3. CASE Reason(r)
  <2>1. /\ phase[r] = "attacks" /\ phase'[r] = "graph_endpoints"
        /\ \A s \in Runs : s # r => phase'[s] = phase[s]
    BY <1>3, EnterParts DEF Reason, IInv, Phase
  <2>2. OwnRowsOnly(r)
    BY <1>3, <2>1 DEF Reason, OwnRowsOnly
  <2>3. QED BY <2>1, <2>2, HiddenStep
<1>4. CASE BuildGraph(r)
  <2>1. OwnRowsOnly(r) /\ Active(r) /\ phase'[r] # "committed"
    BY <1>4, LateStepParts DEF OwnRowsOnly
  <2>2. QED BY <2>1, HiddenStep DEF Active, Over
<1>5. CASE FailRun(r)
  <2>1. OwnRowsOnly(r) /\ phase'[r] = "failed" /\ Active(r)
    BY <1>5, FailRunKeeps DEF FailRun
  <2>2. QED BY <2>1, HiddenStep DEF Active, Over
<1>6. QED BY <1>1, <1>2, <1>3, <1>4, <1>5, StepCases

\* What a run has reported when it commits is what a reader then sees of its job.
LEMMA CommitPublishes ==
    ASSUME IInv, NEW r \in Runs, Commit(r)
    PROVE  Reader!Publish(r)
<1>1. /\ Active(r) /\ Reasoned(r) /\ phase'[r] = "committed"
      /\ \A s \in Runs : s # r => phase'[s] = phase[s]
      /\ transitions' = transitions /\ relations' = relations /\ findings' = findings
  BY LateStepParts
<1>2. /\ \A x \in transitions \cup relations : x.run \in Runs
      /\ \A f \in findings : f[1] \in Runs /\ f = <<f[1], f[2]>>
      /\ phase[r] # "committed"
  BY <1>1 DEF IInv, RowsOfRuns, Active, Over
<1>3. \A x : x \in VisibleAnomalies' <=>
                \/ x \in VisibleAnomalies
                \/ x \in transitions \cup relations /\ Strong(x) /\ x.run = r
  BY <1>1, <1>2 DEF VisibleAnomalies, Strong
<1>4. \A f : f \in VisibleReports' <=> f \in VisibleReports \/ (f \in findings /\ f[1] = r)
  BY <1>1, <1>2 DEF VisibleReports
<1>5. \A x : <<r, x>> \in findings <=> x \in OfJob(r, transitions \cup relations) /\ Strong(x)
  BY <1>1, <1>2 DEF IInv, ReportsExact
<1>6. \A x : <<r, x>> \in findings <=> x \in VisibleAnomalies' /\ x.run[1] = r[1]
  BY <1>3, <1>5 DEF OfJob, Visible, VisibleAnomalies
<1>7. \A x \in VisibleAnomalies : x.run # r
  BY <1>2 DEF VisibleAnomalies
<1>8. \A f \in VisibleReports : f[1] # r
  BY <1>2 DEF VisibleReports
<1>9. VisibleAnomalies \subseteq VisibleAnomalies' /\ \A x \in VisibleAnomalies' \ VisibleAnomalies : x.run = r
  BY <1>3
<1>10. VisibleReports' = VisibleReports \cup {<<r, x>> : x \in {y \in VisibleAnomalies' : y.run[1] = r[1]}}
  <2>1. \A f \in VisibleReports' : f \in VisibleReports \/ \E x \in VisibleAnomalies' : x.run[1] = r[1] /\ f = <<r, x>>
    BY <1>2, <1>4, <1>6
  <2>2. \A x \in VisibleAnomalies' : x.run[1] = r[1] => <<r, x>> \in VisibleReports'
    BY <1>4, <1>6
  <2>3. \A f \in VisibleReports : f \in VisibleReports'
    BY <1>4
  <2>4. QED BY <2>1, <2>2, <2>3
<1>11. QED BY <1>7, <1>8, <1>9, <1>10 DEF Reader!Publish

\* A reader of the findings sees whole runs, whose reports are about exactly
\* the suspicious transitions and the tenant relationships of the job that it sees.
THEOREM ReaderRefinement == Spec => ReportsMatchAnomalies
<1>1. Init => Reader!Init
  BY DEF Init, Reader!Init, VisibleAnomalies, VisibleReports
<1>2. IInv /\ [Next]_vars => [Reader!Next]_<<VisibleAnomalies, VisibleReports>>
  <2> SUFFICES ASSUME IInv, [Next]_vars
               PROVE  Reader!Next \/ UNCHANGED <<VisibleAnomalies, VisibleReports>>
    OBVIOUS
  <2>1. CASE UNCHANGED vars
    BY <2>1 DEF vars, rowVars, VisibleAnomalies, VisibleReports, Strong
  <2>2. ASSUME NEW r \in Runs, Step(r)
        PROVE  Reader!Next \/ UNCHANGED <<VisibleAnomalies, VisibleReports>>
    <3>1. CASE Commit(r)
      BY <3>1, CommitPublishes DEF Reader!Next
    <3>2. CASE ~Commit(r)
      BY <2>2, <3>2, StepHidden
    <3>3. QED BY <3>1, <3>2
  <2>3. QED BY <2>1, <2>2 DEF Next
<1>3. QED BY <1>1, <1>2, Invariance, PTL DEF Spec, ReportsMatchAnomalies, Reader!Spec

=============================================================================
