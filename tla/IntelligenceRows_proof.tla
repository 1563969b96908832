----------------------- MODULE IntelligenceRows_proof -----------------------
(* How the rows that the runs of an application store hang together, for any *)
(* number of jobs, deliveries, responses and references: links lead to rows  *)
(* that can be seen, the graph is closed, and plans follow relationships.    *)
EXTENDS Intelligence_proof, WellFoundedInduction, FiniteSetTheorems

-----------------------------------------------------------------------------
(* Least numbers, listings and iterates.                                     *)

\* A set of numbers has a least one.
LEMMA LeastExists ==
    ASSUME NEW T, T \subseteq Nat, T # {}
    PROVE  \E x \in T : \A y \in T : x <= y
<1>1. PICK x \in T : \A y \in T : ~(<<y, x>> \in OpToRel(<, Nat))
  BY NatLessThanWellFounded, WFMin
<1>2. \A y \in T : ~(y < x)
  BY <1>1, Zenon DEF OpToRel
<1>3. \A y \in T : x <= y
  BY <1>2
<1>4. QED BY <1>3

\* The least of some numbers is one of them.
LEMMA LeastIn ==
    ASSUME NEW T, T \subseteq Nat, T # {}
    PROVE  Min(T) \in T /\ \A y \in T : Min(T) <= y
BY LeastExists DEF Min

\* The iterates of a function on an element.
IteratesOf(S, f, s) == {g \in [Nat -> S] : g[0] = s /\ \A n \in Nat : g[n + 1] = f[g[n]]}

\* There are iterates.
LEMMA Iterates ==
    ASSUME NEW S, NEW f \in [S -> S], NEW s \in S
    PROVE  IteratesOf(S, f, s) # {}
<1> DEFINE Prefix(g, n) ==
      g \in [0..n -> S] /\ g[0] = s /\ \A i \in Nat : i < n => g[i + 1] = f[g[i]]
<1>1. \A n \in Nat : \E g : Prefix(g, n)
  <2> DEFINE Without == {n \in Nat : ~\E g : Prefix(g, n)}
  <2>1. SUFFICES ASSUME Without # {} PROVE FALSE
    BY DEF Without
  <2>2. PICK m \in Without : \A k \in Without : m <= k
    BY <2>1, LeastExists
  <2>3. CASE m = 0
    <3>1. Prefix([i \in 0..0 |-> s], 0)
      OBVIOUS
    <3>2. QED BY <2>3, <3>1
  <2>4. CASE m # 0
    <3>a. m \in Nat
      BY <2>2
    <3>1. m - 1 \in Nat /\ m - 1 \notin Without
      <4> HIDE DEF Without
      <4>1. QED BY <2>2, <2>4, <3>a
    <3>2. PICK g : Prefix(g, m - 1)
      BY <3>1
    <3>3. g[m - 1] \in S /\ f[g[m - 1]] \in S
      BY <3>1, <3>2
    <3>4. Prefix([i \in 0..m |-> IF i = m THEN f[g[m - 1]] ELSE g[i]], m)
      <4> DEFINE h == [i \in 0..m |-> IF i = m THEN f[g[m - 1]] ELSE g[i]]
      <4>1. h \in [0..m -> S]
        BY <3>1, <3>2, <3>3
      <4>2. h[0] = s
        BY <2>4, <3>2
      <4>3. ASSUME NEW i \in Nat, i < m PROVE h[i + 1] = f[h[i]]
        <5>1. CASE i = m - 1
          BY <3>1, <5>1
        <5>2. CASE i < m - 1
          BY <3>1, <3>2, <5>2
        <5>3. QED BY <4>3, <5>1, <5>2
      <4>4. QED BY <4>1, <4>2, <4>3
    <3>5. QED BY <3>4
  <2>5. QED BY <2>3, <2>4
<1>2. ASSUME NEW m \in Nat, NEW n \in Nat, NEW g, NEW h, Prefix(g, m), Prefix(h, n),
             NEW i \in Nat, i <= m, i <= n
      PROVE  g[i] = h[i]
  <2> DEFINE Differ == {k \in Nat : k <= m /\ k <= n /\ g[k] # h[k]}
  <2>1. SUFFICES ASSUME Differ # {} PROVE FALSE
    BY <1>2
  <2>2. PICK k \in Differ : \A l \in Differ : k <= l
    BY <2>1, LeastExists
  <2>3. k # 0
    BY <1>2, <2>2
  <2>4. k - 1 \in Nat /\ k - 1 \notin Differ
    BY <2>2, <2>3
  <2>5. g[k - 1] = h[k - 1]
    BY <2>2, <2>4
  <2>6. g[(k - 1) + 1] = f[g[k - 1]] /\ h[(k - 1) + 1] = f[h[k - 1]]
    BY <1>2, <2>2, <2>4
  <2>7. g[k] = h[k]
    BY <2>2, <2>5, <2>6
  <2>8. QED BY <2>2, <2>7
<1> DEFINE prefix == [n \in Nat |-> CHOOSE g : Prefix(g, n)]
           all == [n \in Nat |-> prefix[n][n]]
<1>3. \A n \in Nat : Prefix(prefix[n], n)
  BY <1>1
<1> HIDE DEF prefix
<1>4. all \in [Nat -> S] /\ all[0] = s
  BY <1>3
<1>5. ASSUME NEW n \in Nat PROVE all[n + 1] = f[all[n]]
  <2>1. prefix[n + 1][n + 1] = f[prefix[n + 1][n]]
    BY <1>3
  <2>2. prefix[n + 1][n] = prefix[n][n]
    <3>1. Prefix(prefix[n + 1], n + 1) /\ Prefix(prefix[n], n) /\ n + 1 \in Nat /\ n <= n + 1
      BY <1>3
    <3> HIDE DEF Prefix
    <3>2. QED BY <1>2, <3>1
  <2>3. QED BY <2>1, <2>2
<1>6. QED BY <1>4, <1>5 DEF IteratesOf

\* A finite set in any order.
LEMMA Listing ==
    ASSUME NEW S, IsFiniteSet(S), NEW f \in SetToSeqs(S)
    PROVE  \E n \in Nat : f \in [1..n -> S] /\ \A x \in S : \E k \in 1..n : f[k] = x
<1> DEFINE n == Cardinality(S)
<1>1. n \in Nat
  BY FS_CardinalityType
<1>2. f \in [1..n -> S] /\ \A i, j \in 1..n : i # j => f[i] # f[j]
  BY DEF SetToSeqs
<1>3. f \in Injection(1..n, S)
  BY <1>2 DEF Injection, IsInjective
<1>4. Cardinality(1..n) = n
  BY <1>1, FS_Interval
<1>5. f \in Surjection(1..n, S)
  BY <1>3, <1>4, FS_Injection
<1>6. \A x \in S : \E k \in 1..n : f[k] = x
  BY <1>5 DEF Surjection
<1>7. QED BY <1>1, <1>2, <1>6

\* What a function makes of a finite set is finite.
LEMMA ImageFinite ==
    ASSUME NEW S, IsFiniteSet(S), NEW f, DOMAIN f = S
    PROVE  IsFiniteSet({f[x] : x \in S})
<1>1. [x \in S |-> f[x]] \in Surjection(S, {f[x] : x \in S})
  BY DEF Surjection
<1>2. QED BY <1>1, FS_Surjection

-----------------------------------------------------------------------------
(* What a step does to the rows, and what the runs see afterwards.           *)

\* r adds rows of its own to a table.
Grown(r, old, new) == old \subseteq new /\ \A x \in new : x \in old \/ x.run = r

\* The rows of r are gone.
Purged(r, old, new) == new = {x \in old : x.run # r}

\* What r stores when it goes on.
Stores(r) ==
    /\ Grown(r, traffic, traffic') /\ Grown(r, endpoints, endpoints') /\ Grown(r, objects, objects')
    /\ Grown(r, transitions, transitions') /\ Grown(r, relations, relations') /\ Grown(r, chains, chains')
    /\ findings \subseteq findings'

\* What is left of it when it fails.
Loses(r) ==
    /\ Purged(r, traffic, traffic') /\ Purged(r, endpoints, endpoints') /\ Purged(r, objects, objects')
    /\ Purged(r, transitions, transitions') /\ Purged(r, relations, relations') /\ Purged(r, chains, chains')
    /\ findings' = {f \in findings : f[1] # r}

\* A run that fails loses its rows.
LEMMA FailureLoses ==
    ASSUME IInv, NEW r \in Runs, FailRun(r)
    PROVE  /\ Loses(r) /\ phase' \in [Runs -> Phase] /\ phase'[r] = "failed" /\ Active(r)
           /\ \A s \in Runs : s # r => phase'[s] = phase[s]
<1>1. Loses(r)
  BY DEF FailRun, Loses, Purged
<1>2. QED BY <1>1 DEF FailRun, IInv, Phase

\* A step that is no failure stores rows of its run, which is not over before it.
Going(r) ==
    /\ Stores(r) /\ phase' \in [Runs -> Phase]
    /\ phase'[r] \notin {"new", "failed"} /\ ~Over(r)
    /\ \A s \in Runs : s # r => phase'[s] = phase[s]

\* The references that discovery stores.
New(r) == {m \in Named(OfJob(r, traffic)) : ~Known(r, m)}

\* Every step but a failure is one.
LEMMA StepGoes ==
    ASSUME IInv, NEW r \in Runs, Step(r), ~FailRun(r)
    PROVE  Going(r)
<1>0. phase \in [Runs -> Phase]
  BY DEF IInv
<1>1. CASE StartRun(r)
  <2>1. /\ phase[r] = "new" /\ phase'[r] = "crawling" /\ phase' \in [Runs -> Phase]
        /\ \A s \in Runs : s # r => phase'[s] = phase[s]
    BY <1>0, <1>1, EnterParts DEF StartRun, Phase
  <2>2. Stores(r)
    BY <1>1 DEF StartRun, rowVars, Stores, Grown
  <2>3. QED BY <2>1, <2>2 DEF Going, Over
<1>2. CASE EarlyStep(r)
  <2>1. /\ Active(r) /\ Active(r)' /\ phase' \in [Runs -> Phase] /\ findings' = findings
        /\ \A s \in Runs : s # r => phase'[s] = phase[s]
        /\ Grown(r, transitions, transitions') /\ Grown(r, relations, relations')
    BY <1>2, EarlyStepParts DEF Grown
  <2>2. Grown(r, traffic, traffic') /\ Grown(r, endpoints, endpoints')
        /\ Grown(r, objects, objects') /\ Grown(r, chains, chains')
    <3>1. CASE \E x \in Responses : Record(r, x)
      <4>1. PICK x \in Responses : Record(r, x)
        BY <3>1
      <4>2. \A e \in endpoints' : e \in endpoints \/ e.run = r
        BY <4>1 DEF Record, Upserted, EndpointsAt, Visible
      <4>3. QED BY <4>1, <4>2 DEF Record, Grown
    <3>2. CASE DiscoverObjects(r)
      <4>1. PICK found : objects' = objects \cup {[run |-> r, ref |-> m, endpoint |-> found[m]] : m \in New(r)}
        BY <3>2 DEF DiscoverObjects, New
      <4>2. QED BY <3>2, <4>1 DEF DiscoverObjects, Grown
    <3>3. CASE DiscoverWorkflows(r)
      BY <3>3 DEF DiscoverWorkflows, Grown
    <3>4. CASE MapEndpoints(r) \/ MapObjects(r)
      BY <3>4 DEF MapEndpoints, MapObjects, rowVars, Grown
    <3>5. CASE PlanAttacks(r)
      <4>1. PICK steps : chains' = chains \cup {[run |-> r, step |-> s] : s \in steps}
        BY <3>5 DEF PlanAttacks
      <4>2. QED BY <3>5, <4>1 DEF PlanAttacks, Grown
    <3>6. CASE \E b \in traffic : Replay(r, b)
      BY <3>6 DEF Replay, Grown
    <3>7. QED BY <1>2, <3>1, <3>2, <3>3, <3>4, <3>5, <3>6 DEF EarlyStep
  <2>3. Stores(r)
    BY <2>1, <2>2 DEF Stores
  <2>4. QED BY <2>1, <2>3 DEF Going, Active, Over
<1>3. CASE Reason(r)
  <2>1. /\ phase[r] = "attacks" /\ phase'[r] = "graph_endpoints" /\ phase' \in [Runs -> Phase]
        /\ \A s \in Runs : s # r => phase'[s] = phase[s]
    BY <1>0, <1>3, EnterParts DEF Reason, Phase
  <2>2. Stores(r)
    BY <1>3 DEF Reason, Stores, Grown
  <2>3. QED BY <2>1, <2>2 DEF Going, Over
<1>4. CASE BuildGraph(r) \/ Commit(r)
  <2>1. UNCHANGED rowVars
    BY <1>4 DEF BuildGraph, SelectTraffic, Select, Commit
  <2>2. Stores(r)
    BY <2>1 DEF rowVars, Stores, Grown
  <2>3. QED BY <1>4, <2>2, LateStepParts DEF Going, Active, Reasoned
<1>5. QED BY <1>1, <1>2, <1>3, <1>4, StepCases

\* Runs that have rows have begun and not failed.
LEMMA RowRuns ==
    ASSUME TypeOK
    PROVE  \A x \in Rows : x.run \in Runs /\ phase[x.run] \notin {"new", "failed"}
BY DEF TypeOK

\* What a run sees, it goes on seeing, unless it fails.
LEMMA VisibleStays ==
    ASSUME IInv, NEW r \in Runs, Step(r), NEW s \in Runs, s # r \/ ~FailRun(r),
           NEW old, NEW new, \A x \in old : x.run \in Runs,
           Grown(r, old, new) \/ Purged(r, old, new),
           ~FailRun(r) => Grown(r, old, new)
    PROVE  Visible(s, old) \subseteq {x \in new : x.run = s \/ phase'[x.run] = "committed"}
<1>1. SUFFICES ASSUME NEW x \in Visible(s, old)
      PROVE  x \in new /\ (x.run = s \/ phase'[x.run] = "committed")
  OBVIOUS
<1>2. ~Over(r) /\ \A t \in Runs : t # r => phase'[t] = phase[t]
  BY FailureLoses, StepGoes DEF Going, Active
<1>3. x \in old /\ (x.run = s \/ phase[x.run] = "committed") /\ x.run \in Runs
  BY DEF Visible
<1>4. x.run = s \/ phase'[x.run] = "committed"
  BY <1>2, <1>3 DEF Over
<1>5. x \in new
  BY <1>2, <1>3 DEF Over, Grown, Purged
<1>6. QED BY <1>4, <1>5

\* The same for each table.
SeenStill(s) ==
    /\ Visible(s, traffic) \subseteq Visible(s, traffic)'
    /\ Visible(s, endpoints) \subseteq Visible(s, endpoints)'
    /\ Visible(s, objects) \subseteq Visible(s, objects)'
    /\ Visible(s, transitions) \subseteq Visible(s, transitions)'
    /\ Visible(s, relations) \subseteq Visible(s, relations)'
    /\ Visible(s, chains) \subseteq Visible(s, chains)'

\* No table takes away what a run sees.
LEMMA TablesStay ==
    ASSUME IInv, TypeOK, NEW r \in Runs, Step(r), NEW s \in Runs, s # r \/ ~FailRun(r)
    PROVE  SeenStill(s)
<1>1. \A x \in Rows : x.run \in Runs
  BY RowRuns
<1>2. ~FailRun(r) => Stores(r)
  BY StepGoes DEF Going
<1>3. FailRun(r) => Loses(r)
  BY FailureLoses
<1>4. Visible(s, traffic) \subseteq Visible(s, traffic)'
  BY <1>1, <1>2, <1>3, VisibleStays DEF Rows, Stores, Loses, Visible
<1>5. Visible(s, endpoints) \subseteq Visible(s, endpoints)'
  BY <1>1, <1>2, <1>3, VisibleStays DEF Rows, Stores, Loses, Visible
<1>6. Visible(s, objects) \subseteq Visible(s, objects)'
  BY <1>1, <1>2, <1>3, VisibleStays DEF Rows, Stores, Loses, Visible
<1>7. Visible(s, transitions) \subseteq Visible(s, transitions)'
  BY <1>1, <1>2, <1>3, VisibleStays DEF Rows, Stores, Loses, Visible
<1>8. Visible(s, relations) \subseteq Visible(s, relations)'
  BY <1>1, <1>2, <1>3, VisibleStays DEF Rows, Stores, Loses, Visible
<1>9. Visible(s, chains) \subseteq Visible(s, chains)'
  BY <1>1, <1>2, <1>3, VisibleStays DEF Rows, Stores, Loses, Visible
<1>10. QED BY <1>4, <1>5, <1>6, <1>7, <1>8, <1>9 DEF SeenStill

\* Who sees a row, sees what its run saw.
LEMMA VisibleOnwards ==
    ASSUME NEW r, NEW t1, NEW x \in Visible(r, t1), NEW t2
    PROVE  Visible(x.run, t2) \subseteq Visible(r, t2)
BY DEF Visible

-----------------------------------------------------------------------------
(* Links lead to rows that the run could see.                                *)

TrafficLinked(x) ==
    /\ x.endpoint \in Visible(x.run, endpoints)
    /\ x.baseline \in OfJob(x.run, traffic) \cup {None}
    /\ x.response \in Responses

ObjectLinked(o) == o.ref \in Refs /\ o.endpoint \in Visible(o.run, endpoints)

TransitionLinked(t) ==
    /\ t.traffic \in OfJob(t.run, traffic)
    /\ t.subject \in Visible(t.run, objects) \cup Responses

RelationLinked(x) == {x.child, x.parent} \subseteq Visible(x.run, objects)

FindingLinked(f) == f[1] \in Runs /\ f[2] \in Visible(f[1], transitions \cup relations)

\* Everything is linked, and what is listed is finite.
Links ==
    /\ TypeOK
    /\ \A x \in traffic : x.response \in Responses
    /\ IsFiniteSet(traffic) /\ IsFiniteSet(objects)
    /\ DOMAIN seen = Runs

\* New rows that are linked keep everything linked.
LEMMA LinksKeep ==
    ASSUME IInv, Links, NEW r \in Runs, Step(r),
           \A x \in traffic' : x \in traffic \/ (x.run = r /\ TrafficLinked(x)'),
           \A o \in objects' : o \in objects \/ (o.run = r /\ ObjectLinked(o)'),
           \A t \in transitions' : t \in transitions \/ (t.run = r /\ TransitionLinked(t)'),
           \A x \in relations' : x \in relations \/ (x.run = r /\ RelationLinked(x)'),
           \A f \in findings' : f \in findings \/ FindingLinked(f)',
           IsFiniteSet(traffic'), IsFiniteSet(objects'),
           DOMAIN seen' = Runs, \A s \in Runs : DOMAIN seen'[s] = Selected
    PROVE  Links'
<1>1. TypeOK
  BY DEF Links
<1>2. phase' \in [Runs -> Phase] /\ \A s \in Runs : s # r => phase'[s] = phase[s]
  BY FailureLoses, StepGoes DEF Going
<1>3. ~FailRun(r) => Going(r) /\ Stores(r)
  BY StepGoes DEF Going
<1>4. FailRun(r) => Loses(r)
  BY FailureLoses
<1>5. ASSUME NEW x \in Rows' PROVE x.run \in Runs /\ phase'[x.run] \notin {"new", "failed"}
  <2>1. CASE FailRun(r)
    <3>1. x \in Rows /\ x.run # r
      BY <1>4, <2>1 DEF Loses, Purged, Rows
    <3>2. QED BY <1>1, <1>2, <3>1, RowRuns
  <2>2. CASE ~FailRun(r)
    <3>1. x \in Rows \/ x.run = r
      BY <1>3, <2>2 DEF Stores, Grown, Rows
    <3>2. QED BY <1>1, <1>2, <1>3, <2>2, <3>1, RowRuns DEF Going
  <2>3. QED BY <2>1, <2>2
<1>6. ASSUME NEW s \in Runs, s # r \/ ~FailRun(r)
      PROVE  /\ SeenStill(s)
             /\ OfJob(s, traffic) \subseteq OfJob(s, traffic)'
             /\ Visible(s, transitions \cup relations) \subseteq Visible(s, transitions \cup relations)'
  <2>1. SeenStill(s)
    BY <1>1, <1>6, TablesStay
  <2>2. QED BY <2>1 DEF SeenStill, OfJob, Visible
<1>7. \A x \in Rows : x.run \in Runs
  BY <1>1, RowRuns
<1>8. ASSUME NEW x \in traffic' PROVE TrafficLinked(x)'
  <2>1. SUFFICES ASSUME x \in traffic, x.run # r \/ ~FailRun(r) PROVE TrafficLinked(x)'
    BY <1>4 DEF Loses, Purged
  <2>2. x.run \in Runs
    BY <1>7, <2>1 DEF Rows
  <2>3. SeenStill(x.run) /\ OfJob(x.run, traffic) \subseteq OfJob(x.run, traffic)'
    BY <1>6, <2>1, <2>2
  <2>4. TrafficLinked(x)
    BY <2>1 DEF Links, TypeOK, TrafficLinked
  <2>5. QED BY <2>3, <2>4 DEF TrafficLinked, SeenStill
<1>9. ASSUME NEW o \in objects' PROVE ObjectLinked(o)'
  <2>1. SUFFICES ASSUME o \in objects, o.run # r \/ ~FailRun(r) PROVE ObjectLinked(o)'
    BY <1>4 DEF Loses, Purged
  <2>2. o.run \in Runs
    BY <1>7, <2>1 DEF Rows
  <2>3. SeenStill(o.run)
    BY <1>6, <2>1, <2>2
  <2>4. ObjectLinked(o)
    BY <1>1, <2>1 DEF TypeOK, ObjectLinked
  <2>5. QED BY <2>3, <2>4 DEF ObjectLinked, SeenStill
<1>10. ASSUME NEW t \in transitions' PROVE TransitionLinked(t)'
  <2>1. SUFFICES ASSUME t \in transitions, t.run # r \/ ~FailRun(r) PROVE TransitionLinked(t)'
    BY <1>4 DEF Loses, Purged
  <2>2. t.run \in Runs
    BY <1>7, <2>1 DEF Rows
  <2>3. SeenStill(t.run) /\ OfJob(t.run, traffic) \subseteq OfJob(t.run, traffic)'
    BY <1>6, <2>1, <2>2
  <2>4. TransitionLinked(t)
    BY <1>1, <2>1 DEF TypeOK, TransitionLinked
  <2>5. QED BY <2>3, <2>4 DEF TransitionLinked, SeenStill
<1>11. ASSUME NEW x \in relations' PROVE RelationLinked(x)'
  <2>1. SUFFICES ASSUME x \in relations, x.run # r \/ ~FailRun(r) PROVE RelationLinked(x)'
    BY <1>4 DEF Loses, Purged
  <2>2. x.run \in Runs
    BY <1>7, <2>1 DEF Rows
  <2>3. SeenStill(x.run)
    BY <1>6, <2>1, <2>2
  <2>4. RelationLinked(x)
    BY <1>1, <2>1 DEF TypeOK, RelationLinked
  <2>5. QED BY <2>3, <2>4 DEF RelationLinked, SeenStill
<1>12. ASSUME NEW f \in findings' PROVE FindingLinked(f)'
  <2>1. SUFFICES ASSUME f \in findings, f[1] # r \/ ~FailRun(r) PROVE FindingLinked(f)'
    BY <1>4 DEF Loses
  <2>2. FindingLinked(f)
    BY <1>1, <2>1 DEF TypeOK, FindingLinked
  <2>3. f[1] \in Runs
    BY <2>2 DEF FindingLinked
  <2>4. Visible(f[1], transitions \cup relations) \subseteq Visible(f[1], transitions \cup relations)'
    BY <1>6, <2>1, <2>3
  <2>5. QED BY <2>2, <2>4 DEF FindingLinked
<1>13. TypeOK'
  BY <1>2, <1>5, <1>8, <1>9, <1>10, <1>11, <1>12
     DEF TypeOK, TrafficLinked, ObjectLinked, TransitionLinked, RelationLinked, FindingLinked
<1>14. QED BY <1>8, <1>13 DEF Links, TrafficLinked

\* What the runs keep in memory has one set of rows for each table.
LEMMA KeptSelects ==
    ASSUME Links, NEW r \in Runs, NEW select \in Selected, NEW rows, Keep(r, select, rows)
    PROVE  DOMAIN seen' = Runs /\ \A s \in Runs : DOMAIN seen'[s] = Selected
BY DEF Links, TypeOK, Keep

\* That stays so at the end of the run.
LEMMA ForgottenSelects ==
    ASSUME Links, NEW r \in Runs, Forget(r)
    PROVE  DOMAIN seen' = Runs /\ \A s \in Runs : DOMAIN seen'[s] = Selected
BY DEF Links, TypeOK, Forget

\* A step that adds no rows.
LEMMA NothingStoredLinks ==
    ASSUME IInv, Links, NEW r \in Runs, Step(r), UNCHANGED rowVars,
           DOMAIN seen' = Runs, \A s \in Runs : DOMAIN seen'[s] = Selected
    PROVE  Links'
<1>1. /\ traffic' = traffic /\ objects' = objects /\ transitions' = transitions
      /\ relations' = relations /\ findings' = findings
  BY DEF rowVars
<1>2. IsFiniteSet(traffic') /\ IsFiniteSet(objects')
  BY <1>1 DEF Links
<1>3. QED BY <1>1, <1>2, LinksKeep

\* A response is recorded with an endpoint that the run sees.
LEMMA RecordLinks ==
    ASSUME IInv, Links, NEW r \in Runs, NEW x \in Responses, Record(r, x), Step(r)
    PROVE  Links'
<1>1. PICK e \in Upserted(r, PathOf[x]) :
        traffic' = traffic \cup {[run |-> r, response |-> x, endpoint |-> e, baseline |-> None]}
  BY DEF Record
<1>2. /\ phase' = phase /\ objects' = objects /\ transitions' = transitions /\ relations' = relations
      /\ findings' = findings /\ seen' = seen /\ endpoints' = endpoints \cup Upserted(r, PathOf[x])
  BY DEF Record
<1>3. e \in Visible(r, endpoints)'
  BY <1>1, <1>2 DEF Upserted, EndpointsAt, Visible
<1>4. \A y \in traffic' : y \in traffic \/ (y.run = r /\ TrafficLinked(y)')
  BY <1>1, <1>3 DEF TrafficLinked
<1>5. IsFiniteSet(traffic') /\ IsFiniteSet(objects')
  BY <1>1, <1>2, FS_AddElement DEF Links
<1>6. QED BY <1>2, <1>4, <1>5, LinksKeep DEF Links, TypeOK

\* A new reference is found at an endpoint that the run sees.
LEMMA FoundIsSeen ==
    ASSUME IInv, Links, NEW r \in Runs, NEW rows \in SetToSeqs(OfJob(r, traffic)), NEW m \in New(r)
    PROVE  FoundAt(rows, m) \in Visible(r, endpoints)
<1> DEFINE at == {k \in DOMAIN rows : m \in Mentions[rows[k].response]}
<1>1. IsFiniteSet(OfJob(r, traffic))
  BY FS_Subset DEF Links, OfJob, Visible
<1>2. PICK n \in Nat : rows \in [1..n -> OfJob(r, traffic)] /\ \A x \in OfJob(r, traffic) : \E k \in 1..n : rows[k] = x
  BY <1>1, Listing
<1>3. PICK x \in OfJob(r, traffic) : m \in Mentions[x.response]
  BY DEF New, Named
<1>4. at # {} /\ at \subseteq Nat
  BY <1>2, <1>3
<1>5. Min(at) \in at
  BY <1>4, LeastIn
<1>6. rows[Min(at)] \in OfJob(r, traffic)
  BY <1>2, <1>5
<1>7. rows[Min(at)].endpoint \in Visible(rows[Min(at)].run, endpoints)
  BY <1>6 DEF Links, TypeOK, OfJob, Visible
<1>8. rows[Min(at)] \in Visible(r, traffic)
  BY <1>6 DEF OfJob
<1>9. QED BY <1>7, <1>8, VisibleOnwards DEF FoundAt

\* What the traffic of a job names are references.
LEMMA NewAreRefs ==
    ASSUME Links, NEW r \in Runs
    PROVE  New(r) \subseteq Refs /\ Named(OfJob(r, traffic)) \subseteq Refs
BY IntelligenceAssumption DEF Links, New, Named, OfJob, Visible

\* Objects are linked to the endpoint where they are found.
LEMMA DiscoverObjectsLinks ==
    ASSUME IInv, Links, NEW r \in Runs, DiscoverObjects(r), Step(r)
    PROVE  Links'
<1>1. PICK found : /\ \E rows \in SetToSeqs(OfJob(r, traffic)) : found = [m \in New(r) |-> FoundAt(rows, m)]
                   /\ objects' = objects \cup {[run |-> r, ref |-> m, endpoint |-> found[m]] : m \in New(r)}
  BY DEF DiscoverObjects, New
<1>2. PICK rows \in SetToSeqs(OfJob(r, traffic)) : found = [m \in New(r) |-> FoundAt(rows, m)]
  BY <1>1
<1>3. \A m \in New(r) : m \in Refs /\ found[m] \in Visible(r, endpoints)
  BY <1>2, FoundIsSeen, NewAreRefs
<1>4. /\ traffic' = traffic /\ endpoints' = endpoints /\ transitions' = transitions /\ relations' = relations
      /\ findings' = findings /\ seen' = seen
  BY DEF DiscoverObjects
<1>5. ~FailRun(r)
  BY EarlyStepParts, FailureLoses DEF EarlyStep, Active, Over
<1>6. Visible(r, endpoints) \subseteq Visible(r, endpoints)'
  BY <1>5, TablesStay DEF SeenStill, Links
<1>7. \A o \in objects' : o \in objects \/ (o.run = r /\ ObjectLinked(o)')
  BY <1>1, <1>3, <1>6 DEF ObjectLinked
<1>8. IsFiniteSet(traffic')
  BY <1>4 DEF Links
<1>9. IsFiniteSet(objects')
  <2>1. IsFiniteSet(New(r))
    BY NewAreRefs, FS_Subset, IntelligenceAssumption
  <2>2. [m \in New(r) |-> [run |-> r, ref |-> m, endpoint |-> found[m]]] \in
           Surjection(New(r), {[run |-> r, ref |-> m, endpoint |-> found[m]] : m \in New(r)})
    BY DEF Surjection
  <2>3. IsFiniteSet({[run |-> r, ref |-> m, endpoint |-> found[m]] : m \in New(r)})
    BY <2>1, <2>2, FS_Surjection
  <2>4. QED BY <1>1, <2>3, FS_Union DEF Links
<1>10. QED BY <1>4, <1>7, <1>8, <1>9, LinksKeep DEF Links, TypeOK

\* The subject of a row's states is an object that the run sees, or the row's URL.
LEMMA SubjectSeen ==
    ASSUME Links, NEW r \in Runs, NEW order \in SetToSeqs(Discovered(r)), NEW x \in traffic
    PROVE  Subject(x, order) \in Visible(r, objects) \cup Responses
<1> DEFINE mentioned == {k \in DOMAIN order : order[k].ref \in Mentions[x.response]}
<1>1. IsFiniteSet(Discovered(r))
  BY FS_Subset DEF Links, Discovered, Visible
<1>2. PICK n \in Nat : order \in [1..n -> Discovered(r)]
  BY <1>1, Listing
<1>3. CASE mentioned = {}
  BY <1>3 DEF Subject, Links
<1>4. CASE mentioned # {}
  <2>1. mentioned \subseteq Nat
    BY <1>2
  <2> HIDE DEF mentioned
  <2>3. Min(mentioned) \in mentioned
    BY <1>4, <2>1, LeastIn
  <2> USE DEF mentioned
  <2>2. order[Min(mentioned)] \in Discovered(r)
    BY <1>2, <2>3
  <2>4. QED BY <1>4, <2>2 DEF Subject, Discovered
<1>5. QED BY <1>3, <1>4

\* Transitions are linked to their row and to what they are transitions of.
LEMMA DiscoverWorkflowsLinks ==
    ASSUME IInv, Links, NEW r \in Runs, DiscoverWorkflows(r), Step(r)
    PROVE  Links'
<1> DEFINE changing == {x \in OfJob(r, traffic) : Shows[x.response] # << >>}
<1>1. PICK subjectOf \in {[x \in changing |-> Subject(x, order)] : order \in SetToSeqs(Discovered(r))},
           rows \in SetToSeqs(changing) :
        transitions' = transitions \cup Transitions(r, rows, subjectOf)
  BY DEF DiscoverWorkflows
<1>2. PICK order \in SetToSeqs(Discovered(r)) : subjectOf = [x \in changing |-> Subject(x, order)]
  BY <1>1
<1>3. IsFiniteSet(changing)
  BY FS_Subset DEF Links, OfJob, Visible
<1>4. PICK n \in Nat : rows \in [1..n -> changing]
  BY <1>3, Listing
<1>5. \A x \in changing : x \in OfJob(r, traffic) /\ subjectOf[x] \in Visible(r, objects) \cup Responses
  BY <1>2, SubjectSeen DEF OfJob, Visible
<1> HIDE DEF changing
<1>6. ASSUME NEW t \in Transitions(r, rows, subjectOf)
      PROVE  /\ t.run = r /\ t.traffic \in OfJob(r, traffic)
             /\ t.subject \in Visible(r, objects) \cup Responses
  <2>1. PICK k \in 1..n : t \in {[ run |-> r, traffic |-> rows[k], n |-> i, subject |-> subjectOf[rows[k]],
              from |-> Previous(rows, subjectOf, k, i), to |-> Shows[rows[k].response][i] ] :
                 i \in DOMAIN Shows[rows[k].response]}
    BY <1>4 DEF Transitions
  <2>2. t.run = r /\ t.traffic = rows[k] /\ t.subject = subjectOf[rows[k]]
    BY <2>1
  <2>3. QED BY <1>4, <1>5, <2>2
<1>7. /\ traffic' = traffic /\ endpoints' = endpoints /\ objects' = objects /\ relations' = relations
      /\ findings' = findings /\ seen' = seen
  BY DEF DiscoverWorkflows
<1>8. ~FailRun(r)
  BY EarlyStepParts, FailureLoses DEF EarlyStep, Active, Over
<1>9. SeenStill(r)
  BY <1>8, TablesStay DEF Links
<1>10. \A t \in transitions' : t \in transitions \/ (t.run = r /\ TransitionLinked(t)')
  BY <1>1, <1>6, <1>9 DEF TransitionLinked, SeenStill, OfJob
<1>11. QED BY <1>7, <1>10, LinksKeep DEF Links, TypeOK

\* Relationships are between objects that the run sees.
LEMMA PlanAttacksLinks ==
    ASSUME IInv, Links, NEW r \in Runs, PlanAttacks(r), Step(r)
    PROVE  Links'
<1>1. relations' = relations \cup Related(r)
  BY DEF PlanAttacks
<1>2. \A x \in Related(r) : x.run = r /\ x.child \in Discovered(r) /\ x.parent \in Discovered(r)
  BY DEF Related
<1>3. /\ traffic' = traffic /\ endpoints' = endpoints /\ objects' = objects /\ transitions' = transitions
      /\ findings' = findings /\ seen' = seen
  BY DEF PlanAttacks
<1>4. ~FailRun(r)
  BY EarlyStepParts, FailureLoses DEF EarlyStep, Active, Over
<1>5. SeenStill(r)
  BY <1>4, TablesStay DEF Links
<1>6. \A x \in relations' : x \in relations \/ (x.run = r /\ RelationLinked(x)')
  BY <1>1, <1>2, <1>5 DEF RelationLinked, SeenStill, Discovered
<1>7. QED BY <1>3, <1>6, LinksKeep DEF Links, TypeOK

\* A replay has the endpoint of the row it replays.
LEMMA ReplayLinks ==
    ASSUME IInv, Links, NEW r \in Runs, NEW b \in traffic, Replay(r, b), Step(r)
    PROVE  Links'
<1>1. traffic' = traffic \cup {[run |-> r, response |-> b.response, endpoint |-> b.endpoint, baseline |-> b]}
  BY DEF Replay
<1>2. /\ phase' = phase /\ endpoints' = endpoints /\ objects' = objects /\ transitions' = transitions
      /\ relations' = relations /\ findings' = findings /\ seen' = seen
  BY DEF Replay
<1>3. b \in OfJob(r, traffic) /\ b.response \in Responses /\ b.endpoint \in Visible(b.run, endpoints)
  BY DEF Replay, Links, TypeOK
<1>4. b.endpoint \in Visible(r, endpoints)
  BY <1>3, VisibleOnwards DEF OfJob
<1>5. b \in OfJob(r, traffic)'
  BY <1>1, <1>2, <1>3 DEF OfJob, Visible
<1>6. \A y \in traffic' : y \in traffic \/ (y.run = r /\ TrafficLinked(y)')
  BY <1>1, <1>2, <1>3, <1>4, <1>5 DEF TrafficLinked, Visible
<1>7. IsFiniteSet(traffic') /\ IsFiniteSet(objects')
  BY <1>1, <1>2, FS_AddElement DEF Links
<1>8. QED BY <1>2, <1>6, <1>7, LinksKeep DEF Links, TypeOK

\* Reports are about rows that the run sees.
LEMMA ReasonLinks ==
    ASSUME IInv, Links, NEW r \in Runs, Reason(r), Step(r)
    PROVE  Links'
<1>1. findings' = findings \cup {<<r, x>> : x \in {y \in OfJob(r, transitions \cup relations) : Strong(y)}}
  BY DEF Reason
<1>2. /\ traffic' = traffic /\ endpoints' = endpoints /\ objects' = objects /\ transitions' = transitions
      /\ relations' = relations /\ seen' = seen
  BY DEF Reason
<1>3. ~FailRun(r)
  BY DEF Reason, Enter, FailRun, IInv
<1>4. SeenStill(r)
  BY <1>3, TablesStay DEF Links
<1>5. \A f \in findings' : f \in findings \/ FindingLinked(f)'
  <2>1. ASSUME NEW x \in OfJob(r, transitions \cup relations) PROVE FindingLinked(<<r, x>>)'
    BY <1>4 DEF FindingLinked, OfJob, Visible, SeenStill
  <2>2. QED BY <1>1, <2>1
<1>6. QED BY <1>2, <1>5, LinksKeep DEF Links, TypeOK

\* A failure leaves what is linked.
LEMMA FailRunLinks ==
    ASSUME IInv, Links, NEW r \in Runs, FailRun(r), Step(r)
    PROVE  Links'
<1>1. Loses(r)
  BY FailureLoses
<1>2. DOMAIN seen' = Runs /\ \A s \in Runs : DOMAIN seen'[s] = Selected
  BY ForgottenSelects DEF FailRun
<1>3. IsFiniteSet(traffic') /\ IsFiniteSet(objects')
  BY <1>1, FS_Subset DEF Loses, Purged, Links
<1>4. QED BY <1>1, <1>2, <1>3, LinksKeep DEF Loses, Purged

\* Every step keeps the links.
LEMMA LinksStep ==
    ASSUME IInv, Links, NEW r \in Runs, Step(r)
    PROVE  Links'
<1>1. CASE StartRun(r)
  BY <1>1, NothingStoredLinks DEF StartRun, Links, TypeOK
<1>2. CASE EarlyStep(r)
  <2>1. CASE MapEndpoints(r)
    BY <2>1, KeptSelects, NothingStoredLinks DEF MapEndpoints, Selected
  <2>2. CASE MapObjects(r)
    BY <2>2, KeptSelects, NothingStoredLinks DEF MapObjects, Selected
  <2>3. QED BY <1>2, <2>1, <2>2, RecordLinks, DiscoverObjectsLinks, DiscoverWorkflowsLinks,
               PlanAttacksLinks, ReplayLinks DEF EarlyStep
<1>3. CASE Reason(r)
  BY <1>3, ReasonLinks
<1>4. CASE BuildGraph(r)
  <2>1. PICK select \in Selected : \E rows : Keep(r, select, rows) /\ UNCHANGED rowVars
    BY <1>4 DEF BuildGraph, SelectTraffic, Select, Selected
  <2>2. QED BY <2>1, KeptSelects, NothingStoredLinks
<1>5. CASE Commit(r)
  BY <1>5, ForgottenSelects, NothingStoredLinks DEF Commit
<1>6. CASE FailRun(r)
  BY <1>6, FailRunLinks
<1>7. QED BY <1>1, <1>2, <1>3, <1>4, <1>5, <1>6, StepCases

\* In every reachable state the rows of an application hang together.
THEOREM Linked == Spec => []Links
<1>1. Init => Links
  BY FS_EmptySet DEF Init, Links, TypeOK, Rows, Phase
<1>2. IInv /\ Links /\ [Next]_vars => Links'
  <2> SUFFICES ASSUME IInv, Links, [Next]_vars PROVE Links'
    OBVIOUS
  <2>1. CASE UNCHANGED vars
    BY <2>1 DEF vars, rowVars, Links, TypeOK, Rows, Visible, OfJob
  <2>2. QED BY <2>1, LinksStep DEF Next
<1>3. QED BY <1>1, <1>2, Invariance, PTL DEF Spec

\* Variables have their types; and whatever runs commit or fail in between, a
\* row is only linked to rows that its run could see.
THEOREM RowsLinked == Spec => []TypeOK
<1>1. Links => TypeOK
  BY DEF Links
<1>2. QED BY <1>1, Linked, PTL

-----------------------------------------------------------------------------
(* The graph of a run.                                                       *)

\* What others do leaves the rows of the job of an active run.
LEMMA TableOfJob ==
    ASSUME NEW r \in Runs, NEW s \in Runs, r[1] # s[1],
           NEW old, NEW new, \A x \in old : x.run \in Runs,
           Grown(s, old, new) \/ Purged(s, old, new),
           \A u \in Runs : u # s => phase'[u] = phase[u]
    PROVE  OfJob(r, old) = {x \in {y \in new : y.run = r \/ phase'[y.run] = "committed"} : x.run[1] = r[1]}
<1>1. ASSUME NEW x, x.run[1] = r[1]
      PROVE  x \in OfJob(r, old) <=> x \in new /\ (x.run = r \/ phase'[x.run] = "committed")
  <2>1. x.run # s
    BY <1>1
  <2>2. x \in old <=> x \in new
    BY <2>1 DEF Grown, Purged
  <2>3. x \in old => phase'[x.run] = phase[x.run]
    BY <2>1
  <2>4. QED BY <1>1, <2>2, <2>3 DEF OfJob, Visible
<1>2. QED BY <1>1 DEF OfJob

\* For each table.
JobUnchanged(r) ==
    /\ OfJob(r, traffic)' = OfJob(r, traffic)
    /\ OfJob(r, endpoints)' = OfJob(r, endpoints)
    /\ OfJob(r, objects)' = OfJob(r, objects)
    /\ OfJob(r, transitions)' = OfJob(r, transitions)
    /\ OfJob(r, relations)' = OfJob(r, relations)
    /\ OfJob(r, chains)' = OfJob(r, chains)

\* Nobody else changes the rows of the job of an active run.
LEMMA JobStays ==
    ASSUME IInv, TypeOK, NEW s \in Runs, Step(s), NEW r \in Runs, r # s, Active(r)
    PROVE  JobUnchanged(r)
<1>1. \A x \in Rows : x.run \in Runs /\ phase[x.run] # "new"
  BY RowRuns
<1>2. CASE StartRun(s)
  <2>1. /\ phase[s] = "new" /\ \A u \in Runs : u # s => phase'[u] = phase[u]
        /\ UNCHANGED rowVars
    BY <1>2, EnterParts DEF StartRun, IInv, Phase
  <2>2. \A x \in Rows : phase'[x.run] = phase[x.run]
    BY <1>1, <2>1
  <2>3. QED BY <2>1, <2>2 DEF rowVars, Rows, JobUnchanged, OfJob, Visible
<1>3. CASE ~StartRun(s)
  <2>1. Active(s)
    <3>1. CASE EarlyStep(s)
      BY <3>1, EarlyStepParts
    <3>2. CASE Reason(s) \/ BuildGraph(s) \/ Commit(s)
      BY <3>2, LateStepParts DEF Reason, Enter, Active, Over
    <3>3. CASE FailRun(s)
      BY <3>3 DEF FailRun
    <3>4. QED BY <1>3, <3>1, <3>2, <3>3, StepCases
  <2>2. r[1] # s[1]
    BY <2>1, OthersRest
  <2>3. \A u \in Runs : u # s => phase'[u] = phase[u]
    BY FailureLoses, StepGoes DEF Going
  <2>4. Stores(s) \/ Loses(s)
    BY FailureLoses, StepGoes DEF Going
  <2>5. OfJob(r, traffic)' = OfJob(r, traffic)
    BY <1>1, <2>2, <2>3, <2>4, TableOfJob DEF Rows, Stores, Loses, OfJob, Visible
  <2>6. OfJob(r, endpoints)' = OfJob(r, endpoints)
    BY <1>1, <2>2, <2>3, <2>4, TableOfJob DEF Rows, Stores, Loses, OfJob, Visible
  <2>7. OfJob(r, objects)' = OfJob(r, objects)
    BY <1>1, <2>2, <2>3, <2>4, TableOfJob DEF Rows, Stores, Loses, OfJob, Visible
  <2>8. OfJob(r, transitions)' = OfJob(r, transitions)
    BY <1>1, <2>2, <2>3, <2>4, TableOfJob DEF Rows, Stores, Loses, OfJob, Visible
  <2>9. OfJob(r, relations)' = OfJob(r, relations)
    BY <1>1, <2>2, <2>3, <2>4, TableOfJob DEF Rows, Stores, Loses, OfJob, Visible
  <2>10. OfJob(r, chains)' = OfJob(r, chains)
    BY <1>1, <2>2, <2>3, <2>4, TableOfJob DEF Rows, Stores, Loses, OfJob, Visible
  <2>11. QED BY <2>5, <2>6, <2>7, <2>8, <2>9, <2>10 DEF JobUnchanged
<1>4. QED BY <1>2, <1>3

\* What the selects of the graph have found so far: all rows of the run's job,
\* and nothing that cannot be seen.
GatheredBy(r) ==
    LET g == seen[r] IN
    /\ phase[r] \in {"graph_objects", "graph_transitions", "graph_chains", "graph_traffic", "graph_built"} =>
          OfJob(r, endpoints) \subseteq g.endpoints
    /\ phase[r] \in {"graph_transitions", "graph_chains", "graph_traffic", "graph_built"} =>
          OfJob(r, objects) \subseteq g.objects /\ g.objects \subseteq Visible(r, objects)
    /\ phase[r] \in {"graph_chains", "graph_traffic", "graph_built"} =>
          g.transitions \subseteq Visible(r, transitions)
    /\ phase[r] \in {"graph_traffic", "graph_built"} =>
          g.chains \subseteq Visible(r, chains) \cup {x \in Visible(r, traffic) : IsReplay(x)}
    /\ phase[r] = "graph_built" => g.traffic = OfJob(r, traffic)

Gathered == \A r \in Runs : GatheredBy(r)

\* What another run does meanwhile changes nothing of that.
LEMMA OthersGather ==
    ASSUME IInv, Links, NEW s \in Runs, Step(s), NEW r \in Runs, r # s, GatheredBy(r), seen'[r] = seen[r]
    PROVE  GatheredBy(r)'
<1>1. phase'[r] = phase[r]
  BY FailureLoses, StepGoes DEF Going
<1>2. CASE ~Active(r)
  BY <1>1, <1>2 DEF GatheredBy, Active, Over
<1>3. CASE Active(r)
  <2>1. JobUnchanged(r) /\ SeenStill(r)
    BY <1>3, JobStays, TablesStay DEF Links
  <2>2. QED BY <1>1, <2>1 DEF GatheredBy, JobUnchanged, SeenStill
<1>4. QED BY <1>2, <1>3

\* A select finds what it asks for.
LEMMA SelectFinds ==
    ASSUME IInv, Links, NEW r \in Runs, NEW from, NEW to \in Phase, NEW select \in Selected, NEW rows,
           Select(r, from, to, select, rows)
    PROVE  /\ phase[r] = from /\ phase'[r] = to /\ UNCHANGED rowVars
           /\ \A s \in Runs : s # r => phase'[s] = phase[s] /\ seen'[s] = seen[s]
           /\ seen'[r][select] = rows
           /\ \A other \in Selected : other # select => seen'[r][other] = seen[r][other]
<1>1. seen' = [seen EXCEPT ![r][select] = rows] /\ DOMAIN seen = Runs /\ DOMAIN seen[r] = Selected
  BY DEF Select, Keep, Links, TypeOK
<1>2. /\ phase[r] = from /\ phase'[r] = to /\ UNCHANGED rowVars
      /\ \A s \in Runs : s # r => phase'[s] = phase[s]
  BY EnterParts DEF Select, IInv
<1>3. QED BY <1>1, <1>2

\* So each select of the graph keeps what is gathered.
LEMMA BuildGraphGathers ==
    ASSUME IInv, Links, NEW r \in Runs, BuildGraph(r), GatheredBy(r), Step(r)
    PROVE  GatheredBy(r)'
<1>1. ~FailRun(r)
  BY LateStepParts, FailureLoses DEF Reasoned
<1>2. SeenStill(r)
  BY <1>1, TablesStay DEF Links
<1>3. ASSUME NEW from \in {"graph_endpoints", "graph_objects", "graph_transitions", "graph_chains", "graph_traffic"},
             phase[r] = from, UNCHANGED rowVars, NEW to \in Phase \ {"committed", "new", "failed"}, phase'[r] = to,
             \A s \in Runs : s # r => phase'[s] = phase[s]
      PROVE  JobUnchanged(r)
  <2>1. \A x \in Rows : x.run \in Runs
    BY RowRuns DEF Links
  <2>2. \A x \in Rows : phase'[x.run] = "committed" <=> phase[x.run] = "committed"
    BY <1>3, <2>1
  <2>3. QED BY <1>3, <2>2 DEF rowVars, JobUnchanged, OfJob, Visible, Rows
<1>4. CASE Select(r, "graph_endpoints", "graph_objects", "endpoints", Visible(r, endpoints))
  <2>1. /\ phase[r] = "graph_endpoints" /\ phase'[r] = "graph_objects" /\ UNCHANGED rowVars
        /\ \A s \in Runs : s # r => phase'[s] = phase[s] /\ seen'[s] = seen[s]
        /\ seen'[r].endpoints = Visible(r, endpoints)
    <3>1. "graph_objects" \in Phase /\ "endpoints" \in Selected
      BY DEF Phase, Selected
    <3>2. /\ phase[r] = "graph_endpoints" /\ phase'[r] = "graph_objects" /\ UNCHANGED rowVars
          /\ \A s \in Runs : s # r => phase'[s] = phase[s] /\ seen'[s] = seen[s]
          /\ seen'[r]["endpoints"] = Visible(r, endpoints)
          /\ \A other \in Selected : other # "endpoints" => seen'[r][other] = seen[r][other]
      BY <1>4, <3>1, SelectFinds
    <3>3. QED BY <3>2 DEF Selected
  <2>2. JobUnchanged(r)
    BY <1>3, <2>1 DEF Phase
  <2>3. QED BY <2>1, <2>2 DEF GatheredBy, JobUnchanged, OfJob
<1>5. CASE Select(r, "graph_objects", "graph_transitions", "objects", Visible(r, objects))
  <2>1. /\ phase[r] = "graph_objects" /\ phase'[r] = "graph_transitions" /\ UNCHANGED rowVars
        /\ \A s \in Runs : s # r => phase'[s] = phase[s] /\ seen'[s] = seen[s]
        /\ seen'[r].objects = Visible(r, objects) /\ seen'[r].endpoints = seen[r].endpoints
    <3>1. "graph_transitions" \in Phase /\ "objects" \in Selected
      BY DEF Phase, Selected
    <3>2. /\ phase[r] = "graph_objects" /\ phase'[r] = "graph_transitions" /\ UNCHANGED rowVars
          /\ \A s \in Runs : s # r => phase'[s] = phase[s] /\ seen'[s] = seen[s]
          /\ seen'[r]["objects"] = Visible(r, objects)
          /\ \A other \in Selected : other # "objects" => seen'[r][other] = seen[r][other]
      BY <1>5, <3>1, SelectFinds
    <3>3. QED BY <3>2 DEF Selected
  <2>2. JobUnchanged(r)
    BY <1>3, <2>1 DEF Phase
  <2>3. OfJob(r, objects) \subseteq Visible(r, objects)
    BY DEF OfJob
  <2>4. QED BY <1>2, <2>1, <2>2, <2>3 DEF GatheredBy, JobUnchanged, SeenStill
<1>6. CASE Select(r, "graph_transitions", "graph_chains", "transitions", Visible(r, transitions))
  <2>1. /\ phase[r] = "graph_transitions" /\ phase'[r] = "graph_chains" /\ UNCHANGED rowVars
        /\ \A s \in Runs : s # r => phase'[s] = phase[s] /\ seen'[s] = seen[s]
        /\ seen'[r].transitions = Visible(r, transitions)
        /\ seen'[r].endpoints = seen[r].endpoints /\ seen'[r].objects = seen[r].objects
    <3>1. "graph_chains" \in Phase /\ "transitions" \in Selected
      BY DEF Phase, Selected
    <3>2. /\ phase[r] = "graph_transitions" /\ phase'[r] = "graph_chains" /\ UNCHANGED rowVars
          /\ \A s \in Runs : s # r => phase'[s] = phase[s] /\ seen'[s] = seen[s]
          /\ seen'[r]["transitions"] = Visible(r, transitions)
          /\ \A other \in Selected : other # "transitions" => seen'[r][other] = seen[r][other]
      BY <1>6, <3>1, SelectFinds
    <3>3. QED BY <3>2 DEF Selected
  <2>2. JobUnchanged(r)
    BY <1>3, <2>1 DEF Phase
  <2>3. QED BY <1>2, <2>1, <2>2 DEF GatheredBy, JobUnchanged, SeenStill
<1>7. CASE Select(r, "graph_chains", "graph_traffic", "chains",
                  Visible(r, chains) \cup {x \in Visible(r, traffic) : IsReplay(x)})
  <2>1. /\ phase[r] = "graph_chains" /\ phase'[r] = "graph_traffic" /\ UNCHANGED rowVars
        /\ \A s \in Runs : s # r => phase'[s] = phase[s] /\ seen'[s] = seen[s]
        /\ seen'[r].chains = Visible(r, chains) \cup {x \in Visible(r, traffic) : IsReplay(x)}
        /\ seen'[r].endpoints = seen[r].endpoints /\ seen'[r].objects = seen[r].objects
        /\ seen'[r].transitions = seen[r].transitions
    <3>1. "graph_traffic" \in Phase /\ "chains" \in Selected
      BY DEF Phase, Selected
    <3>2. /\ phase[r] = "graph_chains" /\ phase'[r] = "graph_traffic" /\ UNCHANGED rowVars
          /\ \A s \in Runs : s # r => phase'[s] = phase[s] /\ seen'[s] = seen[s]
          /\ seen'[r]["chains"] = Visible(r, chains) \cup {x \in Visible(r, traffic) : IsReplay(x)}
          /\ \A other \in Selected : other # "chains" => seen'[r][other] = seen[r][other]
      BY <1>7, <3>1, SelectFinds
    <3>3. QED BY <3>2 DEF Selected
  <2>2. JobUnchanged(r)
    BY <1>3, <2>1 DEF Phase
  <2>3. QED BY <1>2, <2>1, <2>2 DEF GatheredBy, JobUnchanged, SeenStill
<1>8. CASE SelectTraffic(r)
  <2>1. /\ phase[r] = "graph_traffic" /\ phase'[r] = "graph_built" /\ UNCHANGED rowVars
        /\ \A s \in Runs : s # r => phase'[s] = phase[s] /\ seen'[s] = seen[s]
        /\ seen'[r].traffic = OfJob(r, traffic)
        /\ seen'[r].endpoints = seen[r].endpoints /\ seen'[r].objects = seen[r].objects
        /\ seen'[r].transitions = seen[r].transitions /\ seen'[r].chains = seen[r].chains
    <3>1. "graph_built" \in Phase /\ "traffic" \in Selected
      BY DEF Phase, Selected
    <3>2. /\ phase[r] = "graph_traffic" /\ phase'[r] = "graph_built" /\ UNCHANGED rowVars
          /\ \A s \in Runs : s # r => phase'[s] = phase[s] /\ seen'[s] = seen[s]
          /\ seen'[r]["traffic"] = OfJob(r, traffic)
          /\ \A other \in Selected : other # "traffic" => seen'[r][other] = seen[r][other]
      BY <1>8, <3>1, SelectFinds DEF SelectTraffic
    <3>3. QED BY <3>2 DEF Selected
  <2>2. JobUnchanged(r)
    BY <1>3, <2>1 DEF Phase
  <2>3. QED BY <1>2, <2>1, <2>2 DEF GatheredBy, JobUnchanged, SeenStill
<1>9. QED BY <1>4, <1>5, <1>6, <1>7, <1>8 DEF BuildGraph

\* A run keeps what it has seen to itself.
LEMMA OwnMemory ==
    ASSUME Links, NEW s \in Runs, Step(s), NEW r \in Runs, r # s
    PROVE  seen'[r] = seen[r]
<1>1. CASE \E select, rows : Keep(s, select, rows)
  BY <1>1 DEF Keep, Links
<1>2. CASE Forget(s)
  BY <1>2 DEF Forget, Links
<1>3. CASE seen' = seen
  BY <1>3
<1>4. StartRun(s) \/ EarlyStep(s) \/ Reason(s) => seen' = seen \/ \E select, rows : Keep(s, select, rows)
  BY DEF StartRun, EarlyStep, Record, DiscoverObjects, DiscoverWorkflows, MapEndpoints, MapObjects,
         PlanAttacks, Replay, Reason
<1>5. BuildGraph(s) => \E select, rows : Keep(s, select, rows)
  BY DEF BuildGraph, SelectTraffic, Select
<1>6. Commit(s) \/ FailRun(s) => Forget(s)
  BY DEF Commit, FailRun
<1>7. QED BY <1>1, <1>2, <1>3, <1>4, <1>5, <1>6, StepCases

\* Every step keeps what is gathered.
LEMMA GatheredStep ==
    ASSUME IInv, Links, Gathered, NEW s \in Runs, Step(s)
    PROVE  Gathered'
<1>1. ASSUME NEW r \in Runs, r # s PROVE GatheredBy(r)'
  BY <1>1, OwnMemory, OthersGather DEF Gathered
<1>2. GatheredBy(s)'
  <2>0. phase \in [Runs -> Phase]
    BY DEF IInv
  <2>1. CASE StartRun(s)
    <3>1. phase'[s] = "crawling"
      BY <2>0, <2>1, EnterParts DEF StartRun, Phase
    <3>2. QED BY <3>1 DEF GatheredBy
  <2>2. CASE EarlyStep(s)
    <3>1. ~Reasoned(s)'
      BY <2>2, EarlyStepParts
    <3>2. QED BY <3>1 DEF GatheredBy, Reasoned
  <2>3. CASE Reason(s)
    <3>1. phase'[s] = "graph_endpoints"
      BY <2>0, <2>3, EnterParts DEF Reason, Phase
    <3>2. QED BY <3>1 DEF GatheredBy
  <2>4. CASE BuildGraph(s)
    BY <2>4, BuildGraphGathers DEF Gathered
  <2>5. CASE Commit(s) \/ FailRun(s)
    <3>1. phase'[s] = "committed" \/ phase'[s] = "failed"
      BY <2>5, LateStepParts, FailureLoses
    <3>2. QED BY <3>1 DEF GatheredBy
  <2>6. QED BY <2>1, <2>2, <2>3, <2>4, <2>5, StepCases
<1>3. QED BY <1>1, <1>2 DEF Gathered

\* Ends that are rows of the run's own job are among those gathered.
LEMMA EndsAreNodes ==
    ASSUME IInv, Links, NEW r \in Runs, GatheredBy(r), phase[r] = "graph_built", NEW n \in Ends(r) \ Nodes(r)
    PROVE  n[2].run[1] # r[1]
<1> SUFFICES ASSUME n[2].run[1] = r[1] PROVE n \in Nodes(r)
  OBVIOUS
<1> DEFINE g == seen[r]
           attacks == {x \in g.traffic : IsReplay(x)}
           roots == {x \in g.chains : x \notin chains}
<1>1. /\ OfJob(r, endpoints) \subseteq g.endpoints
      /\ OfJob(r, objects) \subseteq g.objects /\ g.objects \subseteq Visible(r, objects)
      /\ g.transitions \subseteq Visible(r, transitions)
      /\ g.chains \subseteq Visible(r, chains) \cup {x \in Visible(r, traffic) : IsReplay(x)}
      /\ g.traffic = OfJob(r, traffic)
  BY DEF GatheredBy
<1>2. TypeOK
  BY DEF Links
<1>3. ASSUME NEW x \in Visible(r, traffic) PROVE x.endpoint \in Visible(r, endpoints)
  <2>1. x \in traffic /\ x.endpoint \in Visible(x.run, endpoints)
    BY <1>2 DEF Visible, TypeOK
  <2>2. QED BY <2>1, VisibleOnwards
<1>4. ASSUME NEW e \in Visible(r, endpoints), n = <<"endpoint", e>>
      PROVE  n \in Nodes(r)
  <2>1. e \in g.endpoints
    BY <1>1, <1>4 DEF OfJob
  <2>2. QED BY <1>4, <2>1 DEF Nodes
<1>5. CASE n \in {"endpoint"} \X {x.endpoint : x \in g.objects \cup g.traffic}
  <2>1. PICK x \in g.objects \cup g.traffic : n = <<"endpoint", x.endpoint>>
    BY <1>5
  <2>2. CASE x \in g.traffic
    BY <1>1, <1>3, <1>4, <2>1, <2>2 DEF OfJob
  <2>3. CASE x \in g.objects
    <3>1. x \in Visible(r, objects) /\ x.endpoint \in Visible(x.run, endpoints)
      BY <1>1, <1>2, <2>3 DEF Visible, TypeOK
    <3>2. x.endpoint \in Visible(r, endpoints)
      BY <3>1, VisibleOnwards
    <3>3. QED BY <1>4, <2>1, <3>2
  <2>4. QED BY <2>1, <2>2, <2>3
<1>6. CASE n \in {"traffic"} \X {x.baseline : x \in attacks \cup roots}
  <2>1. PICK x \in attacks \cup roots : n = <<"traffic", x.baseline>>
    BY <1>6
  <2>2. x \in Visible(r, traffic)
    BY <1>1, <2>1 DEF OfJob, Visible
  <2>3. x \in traffic /\ x.baseline \in OfJob(x.run, traffic) \cup {None}
    BY <1>2, <2>2 DEF Visible, TypeOK
  <2>4. CASE x.baseline \in OfJob(x.run, traffic)
    <3>1. x.baseline \in Visible(r, traffic)
      BY <2>2, <2>4, VisibleOnwards DEF OfJob
    <3>2. x.baseline \in g.traffic
      BY <1>1, <2>1, <3>1 DEF OfJob
    <3>3. QED BY <2>1, <3>2 DEF Nodes
  <2>5. CASE x.baseline = None
    BY <1>1, <2>1, <2>5 DEF IsReplay, Visible
  <2>6. QED BY <2>3, <2>4, <2>5
<1>7. CASE n \in {"object"} \X {x.subject : x \in {y \in g.transitions : y.subject \notin Responses}}
  <2>1. PICK x \in g.transitions : x.subject \notin Responses /\ n = <<"object", x.subject>>
    BY <1>7
  <2>2. x \in Visible(r, transitions) /\ x.subject \in Visible(x.run, objects)
    BY <1>1, <1>2, <2>1 DEF Visible, TypeOK
  <2>3. x.subject \in Visible(r, objects)
    BY <2>2, VisibleOnwards
  <2>4. x.subject \in g.objects
    BY <1>1, <2>1, <2>3 DEF OfJob
  <2>5. QED BY <2>1, <2>4 DEF Nodes
<1>8. CASE n \in {"endpoint"} \X {x.traffic.endpoint : x \in g.transitions}
  <2>1. PICK x \in g.transitions : n = <<"endpoint", x.traffic.endpoint>>
    BY <1>8
  <2>2. x \in Visible(r, transitions) /\ x.traffic \in Visible(x.run, traffic)
    BY <1>1, <1>2, <2>1 DEF Visible, TypeOK, OfJob
  <2>3. x.traffic \in Visible(r, traffic)
    BY <2>2, VisibleOnwards
  <2>4. QED BY <1>3, <1>4, <2>1, <2>3
<1>9. QED BY <1>5, <1>6, <1>7, <1>8 DEF Ends

\* What a run has gathered of its job is all there is.
THEOREM GraphGathered == Spec => []Gathered
<1>1. Init => Gathered
  BY DEF Init, Gathered, GatheredBy
<1>2. IInv /\ Links /\ Gathered /\ [Next]_vars => Gathered'
  <2> SUFFICES ASSUME IInv, Links, Gathered, [Next]_vars PROVE Gathered'
    OBVIOUS
  <2>1. CASE UNCHANGED vars
    BY <2>1 DEF vars, rowVars, Gathered, GatheredBy, Visible, OfJob
  <2>2. QED BY <2>1, GatheredStep DEF Next
<1>3. QED BY <1>1, <1>2, Invariance, Linked, PTL DEF Spec

\* Although one select comes after the other while other runs commit and fail,
\* no edge of a run's graph ends at a row of its own job that has no kind.
THEOREM GraphsClosed == Spec => []GraphClosed
<1>1. IInv /\ Links /\ Gathered => GraphClosed
  BY EndsAreNodes DEF Gathered, GraphClosed
<1>2. QED BY <1>1, Invariance, Linked, GraphGathered, PTL

-----------------------------------------------------------------------------
(* The pivots of a plan.                                                     *)

\* A path from reference to reference along relationships, without coming back,
\* at one endpoint.
Follows(path, related) ==
    /\ Len(path) \in Nat
    /\ IsInjective(path)
    /\ \A k \in 1..(Len(path) - 1) : \E x \in related : x.child = path[k] /\ x.parent = path[k + 1]
    /\ \A k \in 1..Len(path) : path[k].endpoint = path[1].endpoint

PathsAlong(related, set) == {path \in Seq(set) : path # << >> /\ Follows(path, related)}

\* A parent that is not on the path extends it.
LEMMA ExtendedFollows ==
    ASSUME NEW set, NEW related, \A x \in related : x.parent \in set /\ x.child.endpoint = x.parent.endpoint,
           NEW parentOf \in ParentsIn(related), NEW path \in PathsAlong(related, set)
    PROVE  Extended(path, parentOf) \in PathsAlong(related, set)
<1>1. /\ path \in Seq(set) /\ Len(path) \in Nat \ {0} /\ DOMAIN path = 1..Len(path)
      /\ Follows(path, related)
  BY DEF PathsAlong
<1>2. SUFFICES ASSUME Last(path) \in DOMAIN parentOf, parentOf[Last(path)] \notin Range(path)
      PROVE  Append(path, parentOf[Last(path)]) \in PathsAlong(related, set)
  BY DEF Extended
<1> DEFINE parent == parentOf[Last(path)]
           longer == Append(path, parent)
<1>3. PICK x \in related : x.child = Last(path) /\ x.parent = parent
  BY <1>2 DEF ParentsIn
<1>4. parent \in set /\ parent.endpoint = path[1].endpoint
  <2>1. Last(path) = path[Len(path)] /\ path[Len(path)].endpoint = path[1].endpoint
    BY <1>1 DEF Last, Follows
  <2>2. QED BY <1>3, <2>1
<1>5. \A k \in 1..Len(path) : path[k] # parent
  BY <1>1, <1>2 DEF Range
<1> HIDE DEF parent
<1>6. /\ longer \in Seq(set) /\ Len(longer) = Len(path) + 1 /\ DOMAIN longer = 1..(Len(path) + 1)
      /\ longer[Len(path) + 1] = parent /\ \A k \in 1..Len(path) : longer[k] = path[k]
  BY <1>1, <1>4
<1> HIDE DEF longer
<1>7. IsInjective(longer)
  <2> SUFFICES ASSUME NEW a \in 1..(Len(path) + 1), NEW b \in 1..(Len(path) + 1), longer[a] = longer[b]
               PROVE  a = b
    BY <1>6 DEF IsInjective
  <2>1. CASE a \in 1..Len(path) /\ b \in 1..Len(path)
    BY <1>1, <1>6, <2>1 DEF Follows, IsInjective
  <2>2. CASE a \notin 1..Len(path) \/ b \notin 1..Len(path)
    BY <1>1, <1>5, <1>6, <2>2
  <2>3. QED BY <2>1, <2>2
<1>8. ASSUME NEW k \in 1..Len(path)
      PROVE  \E y \in related : y.child = longer[k] /\ y.parent = longer[k + 1]
  <2>1. CASE k = Len(path)
    BY <1>1, <1>3, <1>6, <2>1 DEF Last
  <2>2. CASE k # Len(path)
    <3>0. Len(path) \in Nat
      BY <1>1
    <3>1. k \in 1..(Len(path) - 1) /\ k + 1 \in 1..Len(path)
      BY <2>2, <3>0
    <3>2. QED BY <1>1, <1>6, <3>1 DEF Follows
  <2>3. QED BY <2>1, <2>2
<1>9. \A k \in 1..Len(longer) : longer[k].endpoint = longer[1].endpoint
  BY <1>1, <1>4, <1>6 DEF Follows
<1>10. longer # << >> /\ Len(longer) - 1 = Len(path) /\ Len(longer) \in Nat
  BY <1>1, <1>6
<1>11. QED BY <1>6, <1>7, <1>8, <1>9, <1>10 DEF PathsAlong, Follows, longer, parent

\* The chain of a child, after any number of parents.
ChainOf(child, parentOf) ==
    CHOOSE chain : chain = [n \in Nat |-> IF n = 0 THEN <<child>> ELSE Extended(chain[n - 1], parentOf)]

\* The recursion defines a function, and every chain is such a path.
LEMMA ChainFollows ==
    ASSUME NEW set, NEW related, \A x \in related : x.parent \in set /\ x.child.endpoint = x.parent.endpoint,
           NEW parentOf \in ParentsIn(related), NEW child \in set
    PROVE  \A n \in Nat : ChainOf(child, parentOf)[n] \in PathsAlong(related, set)
<1> DEFINE G == PathsAlong(related, set)
           step == [path \in G |-> Extended(path, parentOf)]
<1>1. step \in [G -> G]
  BY ExtendedFollows
<1>2. <<child>> \in G
  BY DEF PathsAlong, Follows, IsInjective
<1>3. PICK g \in [Nat -> G] : g[0] = <<child>> /\ \A n \in Nat : g[n + 1] = step[g[n]]
  <2> DEFINE first == <<child>>
  <2>1. first \in G
    BY <1>2
  <2> HIDE DEF G, step, first
  <2>2. IteratesOf(G, step, first) # {}
    BY <1>1, <2>1, Iterates
  <2>3. QED BY <2>2 DEF first, IteratesOf
<1>4. g = [n \in Nat |-> IF n = 0 THEN <<child>> ELSE Extended(g[n - 1], parentOf)]
  <2>1. ASSUME NEW n \in Nat, n # 0 PROVE g[n] = Extended(g[n - 1], parentOf)
    <3>1. n - 1 \in Nat /\ (n - 1) + 1 = n /\ g[n - 1] \in G
      BY <1>3, <2>1
    <3>2. g[n] = step[g[n - 1]]
      BY <1>3, <3>1
    <3>3. QED BY <3>1, <3>2
  <2>2. QED BY <1>3, <2>1
<1> DEFINE chain == ChainOf(child, parentOf)
<1>5. chain = [n \in Nat |-> IF n = 0 THEN <<child>> ELSE Extended(chain[n - 1], parentOf)]
  BY <1>4 DEF ChainOf
<1> HIDE DEF chain, G
<1>6. chain[0] = <<child>> /\ \A n \in Nat : n # 0 => chain[n] = Extended(chain[n - 1], parentOf)
  BY <1>5
<1> DEFINE Bad == {n \in Nat : chain[n] \notin G}
<1>7. ASSUME Bad # {} PROVE FALSE
  <2>1. PICK n \in Bad : \A k \in Bad : n <= k
    BY <1>7, LeastExists
  <2>2. n \in Nat /\ n # 0
    BY <1>2, <1>6, <2>1
  <2>3. n - 1 \in Nat /\ n - 1 \notin Bad
    <3> HIDE DEF Bad
    <3>1. QED BY <2>1, <2>2
  <2>4. chain[n - 1] \in G
    BY <2>3
  <2>5. chain[n] \in G
    BY <1>6, <2>2, <2>4, ExtendedFollows DEF G
  <2>6. QED BY <2>1, <2>5
<1>8. QED BY <1>7 DEF chain, G

\* The model's recursion is this one.
LEMMA OwnershipIsChain ==
    ASSUME NEW child, NEW parentOf
    PROVE  OwnershipChain(child, parentOf) = ChainOf(child, parentOf)[Cardinality(DOMAIN parentOf)]
BY DEF OwnershipChain, ChainOf

\* Relationships are between different references of one endpoint.
LEMMA RelatedParts ==
    ASSUME NEW r \in Runs
    PROVE  \A x \in Related(r) :
              /\ x.run = r /\ x.child \in Discovered(r) /\ x.parent \in Discovered(r)
              /\ x.child.endpoint = x.parent.endpoint
BY DEF Related

\* The chain of a child follows the relationships.
LEMMA OwnershipFollows ==
    ASSUME Links, NEW r \in Runs, NEW parentOf \in ParentsIn(Related(r)), NEW c \in DOMAIN parentOf
    PROVE  OwnershipChain(c, parentOf) \in PathsAlong(Related(r), Discovered(r))
<1>1. DOMAIN parentOf \subseteq Discovered(r)
  BY RelatedParts DEF ParentsIn
<1>2. IsFiniteSet(DOMAIN parentOf)
  BY <1>1, FS_Subset DEF Links, Discovered, Visible
<1>3. Cardinality(DOMAIN parentOf) \in Nat
  BY <1>2, FS_CardinalityType
<1>4. \A n \in Nat : ChainOf(c, parentOf)[n] \in PathsAlong(Related(r), Discovered(r))
  BY <1>1, RelatedParts, ChainFollows
<1>5. QED BY <1>3, <1>4, OwnershipIsChain

\* The steps of a plan that are kept are steps of it.
LEMMA PrioritizedSteps ==
    ASSUME NEW plan, NEW n, NEW steps \in Prioritized(plan, n)
    PROVE  steps \subseteq plan /\ \A p \in steps, q \in plan \ steps : p.priority >= q.priority
BY DEF Prioritized, kSubset

\* The pivots among the planned chains follow the relationships of their run.
PivotsFollow ==
    \A c \in {x \in chains : x.step.attack = "BOLA"} :
        Follows(c.step.target, {x \in relations : x.run = c.run})

\* The step of a pivot, and of a tenant's boundary.
PivotStep(c, parentOf) ==
    [attack |-> "BOLA", target |-> OwnershipChain(c, parentOf),
     priority |-> 75 + Min({3 * Len(OwnershipChain(c, parentOf)), 15})]

BoundaryStep(t) == [attack |-> "tenant_boundary_violation", target |-> t, priority |-> 100]

\* What kinds of steps a plan has.
LEMMA PlanParts ==
    ASSUME NEW r, NEW parentOf
    PROVE  /\ \A p \in Plan(r, parentOf) :
                \/ p.attack \notin {"BOLA", "tenant_boundary_violation"} /\ p.priority \in {80, 88, 92}
                \/ \E t \in Tenants(r) : p = BoundaryStep(t)
                \/ \E c \in DOMAIN parentOf : p = PivotStep(c, parentOf)
           /\ \A t \in Tenants(r) : BoundaryStep(t) \in Plan(r, parentOf)
<1> DEFINE denied == {[attack |-> "vertical_privilege_escalation", target |-> d, priority |-> 92] : d \in DeniedActions(r)}
           boundaries == {BoundaryStep(t) : t \in Tenants(r)}
           approvals == {[attack |-> "create_to_approve", target |-> w, priority |-> 88] :
                            w \in {x \in Roots : {"create", "approve"} \subseteq Actions(r, x)}}
           payments == {[attack |-> "payment_state_skip", target |-> w, priority |-> 80] :
                            w \in {x \in Roots : {"pay", "refund"} \cap Actions(r, x) # {}}}
           pivots == {PivotStep(c, parentOf) : c \in DOMAIN parentOf}
<1>1. Plan(r, parentOf) = denied \cup boundaries \cup approvals \cup payments \cup pivots
  BY DEF Plan, BoundaryStep, PivotStep
<1>2. \A p \in denied \cup approvals \cup payments :
        p.attack \notin {"BOLA", "tenant_boundary_violation"} /\ p.priority \in {80, 88, 92}
  OBVIOUS
<1>3. \A p \in boundaries : \E t \in Tenants(r) : p = BoundaryStep(t)
  OBVIOUS
<1>4. \A p \in pivots : \E c \in DOMAIN parentOf : p = PivotStep(c, parentOf)
  OBVIOUS
<1>5. \A t \in Tenants(r) : BoundaryStep(t) \in boundaries
  OBVIOUS
<1> HIDE DEF denied, boundaries, approvals, payments, pivots
<1>6. QED BY <1>1, <1>2, <1>3, <1>4, <1>5

\* A planned pivot follows the relationships that are planned with.
LEMMA PlannedPivots ==
    ASSUME Links, NEW r \in Runs, NEW parentOf \in ParentsIn(Related(r)),
           NEW p \in Plan(r, parentOf), p.attack = "BOLA"
    PROVE  Follows(p.target, Related(r))
<1>1. PICK c \in DOMAIN parentOf : p = PivotStep(c, parentOf)
  <2>1. \A t \in Tenants(r) : p # BoundaryStep(t)
    BY DEF BoundaryStep
  <2>2. QED BY <2>1, PlanParts
<1>2. p.target = OwnershipChain(c, parentOf)
  BY <1>1 DEF PivotStep
<1>3. QED BY <1>2, OwnershipFollows DEF PathsAlong

\* More relationships do not hurt.
LEMMA FollowsMore ==
    ASSUME NEW path, NEW related, NEW more, related \subseteq more, Follows(path, related)
    PROVE  Follows(path, more)
BY DEF Follows

\* Every step keeps that.
LEMMA PivotsStep ==
    ASSUME IInv, Links, PivotsFollow, NEW r \in Runs, Step(r)
    PROVE  PivotsFollow'
<1>1. SUFFICES ASSUME NEW c \in chains', c.step.attack = "BOLA"
      PROVE  Follows(c.step.target, {x \in relations' : x.run = c.run})
  BY DEF PivotsFollow, Follows
<1>2. CASE c \in chains
  <2>1. Follows(c.step.target, {x \in relations : x.run = c.run})
    BY <1>1, <1>2 DEF PivotsFollow
  <2>2. {x \in relations : x.run = c.run} \subseteq {x \in relations' : x.run = c.run}
    <3>1. CASE FailRun(r)
      BY <1>1, <3>1, FailureLoses DEF Loses, Purged
    <3>2. CASE ~FailRun(r)
      BY <3>2, StepGoes DEF Going, Stores, Grown
    <3>3. QED BY <3>1, <3>2
  <2>3. QED BY <2>1, <2>2, FollowsMore
<1>3. CASE c \notin chains
  <2>1. PlanAttacks(r)
    <3>1. chains' # chains
      BY <1>1, <1>3
    <3>2. ~FailRun(r)
      BY <1>1, <1>3, FailureLoses DEF Loses, Purged
    <3>3. ~(StartRun(r) \/ Reason(r) \/ BuildGraph(r) \/ Commit(r))
      BY <3>1 DEF StartRun, Reason, BuildGraph, SelectTraffic, Select, Commit, rowVars
    <3>4. EarlyStep(r)
      BY <3>2, <3>3, StepCases
    <3>5. QED BY <3>1, <3>4 DEF EarlyStep, Record, DiscoverObjects, DiscoverWorkflows, MapEndpoints,
                                MapObjects, Replay, rowVars
  <2>0. PICK parentOf \in ParentsIn(Related(r)) : \E steps \in Prioritized(Plan(r, parentOf), PlanLimit) :
            chains' = chains \cup {[run |-> r, step |-> s] : s \in steps}
    BY <2>1 DEF PlanAttacks
  <2>2. PICK steps \in Prioritized(Plan(r, parentOf), PlanLimit) :
            chains' = chains \cup {[run |-> r, step |-> s] : s \in steps}
    BY <2>0
  <2>3. PICK s \in steps : c = [run |-> r, step |-> s]
    BY <1>1, <1>3, <2>2
  <2>4. s \in Plan(r, parentOf)
    BY <2>2, <2>3, PrioritizedSteps
  <2>5. Follows(c.step.target, Related(r))
    BY <1>1, <2>2, <2>3, <2>4, PlannedPivots
  <2>6. Related(r) \subseteq {x \in relations' : x.run = c.run}
    BY <2>1, <2>3, RelatedParts DEF PlanAttacks
  <2>7. QED BY <2>5, <2>6, FollowsMore
<1>4. QED BY <1>2, <1>3

\* In every reachable state the pivots follow what is stored.
THEOREM PlannedPivotsFollow == Spec => []PivotsFollow
<1>1. Init => PivotsFollow
  BY DEF Init, PivotsFollow
<1>2. IInv /\ Links /\ PivotsFollow /\ [Next]_vars => PivotsFollow'
  <2> SUFFICES ASSUME IInv, Links, PivotsFollow, [Next]_vars PROVE PivotsFollow'
    OBVIOUS
  <2>1. CASE UNCHANGED vars
    BY <2>1 DEF vars, rowVars, PivotsFollow
  <2>2. QED BY <2>1, PivotsStep DEF Next
<1>3. QED BY <1>1, <1>2, Invariance, Linked, PTL DEF Spec

\* A planned pivot never comes back to a reference, follows relationships that
\* its run has stored, and stays at one endpoint, whatever cycles equal scores make.
THEOREM PivotsAlongRelations == Spec => []PivotsFollowRelations
<1>1. PivotsFollow => PivotsFollowRelations
  <2> SUFFICES ASSUME PivotsFollow, NEW c \in chains, c.step.attack = "BOLA"
               PROVE  /\ IsInjective(c.step.target)
                      /\ \A k \in 1..(Len(c.step.target) - 1) :
                           \E x \in relations :
                              /\ x.run = c.run /\ x.child = c.step.target[k] /\ x.parent = c.step.target[k + 1]
                              /\ x.parent.endpoint = c.step.target[1].endpoint
    BY DEF PivotsFollowRelations
  <2> DEFINE path == c.step.target
  <2>1. Follows(path, {x \in relations : x.run = c.run})
    BY DEF PivotsFollow
  <2>2. ASSUME NEW k \in 1..(Len(path) - 1)
        PROVE  \E x \in relations :
                  /\ x.run = c.run /\ x.child = path[k] /\ x.parent = path[k + 1]
                  /\ x.parent.endpoint = path[1].endpoint
    <3>1. PICK x \in relations : x.run = c.run /\ x.child = path[k] /\ x.parent = path[k + 1]
      BY <2>1 DEF Follows
    <3>2. QED BY <2>1, <3>1 DEF Follows
  <2>3. QED BY <2>1, <2>2 DEF Follows
<1>2. QED BY <1>1, PlannedPivotsFollow, PTL

-----------------------------------------------------------------------------
(* The boundaries of a plan.                                                 *)

IsBoundary(c, r, t) == c.run = r /\ c.step.attack = "tenant_boundary_violation" /\ c.step.target = t

\* What the traffic of the job names is known once it is discovered, seen when
\* the map is complete, and if it is a tenant's, its boundary is planned before
\* anything else.
BoundedBy(r) ==
    /\ phase[r] \in {"workflows", "map_endpoints", "map_objects"} =>
          \A m \in Named(OfJob(r, traffic)) : Known(r, m)
    /\ phase[r] = "planning" =>
          \A m \in Named(OfJob(r, traffic)) : \E o \in seen[r].objects : o.ref = m
    /\ phase[r] \in {"new", "crawling", "workflows", "map_endpoints", "map_objects", "planning"} =>
          \A c \in chains : c.run # r
    /\ Active(r) => \A c \in {x \in chains : x.run = r /\ x.step.attack # "tenant_boundary_violation"} :
          \A m \in Named(OfJob(r, traffic)) \cap TenantRefs : \E d \in chains : IsBoundary(d, r, m)

Bounded == \A r \in Runs : BoundedBy(r)

\* What others do changes nothing of that.
LEMMA OthersBounded ==
    ASSUME IInv, Links, NEW s \in Runs, Step(s), NEW r \in Runs, r # s, BoundedBy(r)
    PROVE  BoundedBy(r)'
<1>1. phase'[r] = phase[r] /\ seen'[r] = seen[r]
  BY FailureLoses, StepGoes, OwnMemory DEF Going
<1>2. \A c : c.run = r => (c \in chains' <=> c \in chains)
  BY FailureLoses, StepGoes DEF Going, Stores, Loses, Grown, Purged
<1>3. CASE ~Active(r)
  BY <1>1, <1>2, <1>3 DEF BoundedBy, Active, Over
<1>4. CASE Active(r)
  <2>1. OfJob(r, traffic)' = OfJob(r, traffic)
    BY <1>4, JobStays DEF Links, JobUnchanged
  <2>2. Visible(r, objects) \subseteq Visible(r, objects)'
    BY <1>4, TablesStay DEF Links, SeenStill
  <2>3. \A m : Known(r, m) => Known(r, m)'
    BY <2>2 DEF Known
  <2>4. Named(OfJob(r, traffic))' = Named(OfJob(r, traffic))
    BY <2>1 DEF Named
  <2>5. \A m : (\E d \in chains : IsBoundary(d, r, m)) => \E d \in chains' : IsBoundary(d, r, m)
    BY <1>2 DEF IsBoundary
  <2>6. QED BY <1>1, <1>2, <2>3, <2>4, <2>5 DEF BoundedBy, Active, Over
<1>5. QED BY <1>3, <1>4

\* A step of a run that leaves the traffic leaves what it names.
LEMMA SameNames ==
    ASSUME IInv, Links, NEW r \in Runs, traffic' = traffic, phase[r] # "committed", phase'[r] # "committed",
           \A s \in Runs : s # r => phase'[s] = phase[s]
    PROVE  Named(OfJob(r, traffic))' = Named(OfJob(r, traffic))
<1>1. \A x \in traffic : x.run \in Runs
  BY RowRuns DEF Links, Rows
<1>2. OfJob(r, traffic)' = OfJob(r, traffic)
  BY <1>1 DEF OfJob, Visible
<1>3. QED BY <1>2 DEF Named

\* The boundaries of the tenants come first.
LEMMA BoundariesPlanned ==
    ASSUME Links, NEW r \in Runs, NEW parentOf \in ParentsIn(Related(r)),
           NEW steps \in Prioritized(Plan(r, parentOf), PlanLimit),
           NEW p \in steps, p.attack # "tenant_boundary_violation", NEW t \in Tenants(r)
    PROVE  BoundaryStep(t) \in steps
<1>1. BoundaryStep(t) \in Plan(r, parentOf) /\ p \in Plan(r, parentOf)
  BY PlanParts, PrioritizedSteps
<1>2. p.priority \in Int /\ p.priority < 100
  <2>1. CASE p.priority \in {80, 88, 92}
    BY <2>1
  <2>2. ASSUME NEW c \in DOMAIN parentOf, p = PivotStep(c, parentOf)
        PROVE  p.priority \in Int /\ p.priority < 100
    <3> DEFINE l == Len(OwnershipChain(c, parentOf))
    <3>1. l \in Nat
      BY OwnershipFollows DEF PathsAlong, Follows
    <3>2. Min({3 * l, 15}) \in Nat /\ Min({3 * l, 15}) <= 15
      <4> HIDE DEF l
      <4>1. {3 * l, 15} \subseteq Nat /\ {3 * l, 15} # {}
        BY <3>1
      <4>2. QED BY <4>1, LeastIn
    <3>3. p.priority = 75 + Min({3 * l, 15})
      BY <2>2 DEF PivotStep
    <3>4. QED BY <3>2, <3>3
  <2>3. \A u \in Tenants(r) : p # BoundaryStep(u)
    BY DEF BoundaryStep
  <2>4. QED BY <1>1, <2>1, <2>2, <2>3, PlanParts
<1>3. BoundaryStep(t).priority = 100
  BY DEF BoundaryStep
<1>4. QED BY <1>1, <1>2, <1>3, PrioritizedSteps

\* Planning puts the boundaries of the named tenants first.
LEMMA PlanAttacksBounds ==
    ASSUME IInv, Links, NEW r \in Runs, BoundedBy(r), PlanAttacks(r)
    PROVE  BoundedBy(r)'
<1>1. /\ phase[r] = "planning" /\ phase'[r] = "attacks" /\ \A s \in Runs : s # r => phase'[s] = phase[s]
  BY EnterParts DEF PlanAttacks, IInv, Phase
<1>2. Named(OfJob(r, traffic))' = Named(OfJob(r, traffic))
  BY <1>1, SameNames DEF PlanAttacks
<1>3. PICK parentOf \in ParentsIn(Related(r)) : \E steps \in Prioritized(Plan(r, parentOf), PlanLimit) :
          chains' = chains \cup {[run |-> r, step |-> s] : s \in steps}
  BY DEF PlanAttacks
<1>4. PICK steps \in Prioritized(Plan(r, parentOf), PlanLimit) :
          chains' = chains \cup {[run |-> r, step |-> s] : s \in steps}
  BY <1>3
<1>5. ASSUME NEW c \in chains', c.run = r, c.step.attack # "tenant_boundary_violation",
             NEW m \in Named(OfJob(r, traffic)) \cap TenantRefs
      PROVE  \E d \in chains' : IsBoundary(d, r, m)
  <2>1. \A x \in chains : x.run # r
    BY <1>1 DEF BoundedBy
  <2>2. PICK p \in steps : c = [run |-> r, step |-> p]
    BY <1>4, <1>5, <2>1
  <2>3. m \in Tenants(r)
    BY <1>1, <1>5 DEF BoundedBy, Tenants
  <2>4. BoundaryStep(m) \in steps
    BY <1>5, <2>2, <2>3, BoundariesPlanned
  <2>5. [run |-> r, step |-> BoundaryStep(m)] \in chains'
    BY <1>4, <2>4
  <2>6. IsBoundary([run |-> r, step |-> BoundaryStep(m)], r, m)
    BY DEF IsBoundary, BoundaryStep
  <2>7. QED BY <2>5, <2>6
<1>6. QED BY <1>1, <1>2, <1>5 DEF BoundedBy

\* A replay names what the replayed row does.
LEMMA ReplayBounds ==
    ASSUME IInv, Links, NEW r \in Runs, BoundedBy(r), NEW b \in traffic, Replay(r, b)
    PROVE  BoundedBy(r)'
<1>1. phase' = phase /\ phase[r] = "attacks" /\ chains' = chains /\ b \in OfJob(r, traffic)
      /\ traffic' = traffic \cup {[run |-> r, response |-> b.response, endpoint |-> b.endpoint, baseline |-> b]}
  BY DEF Replay
<1>2. \A x \in OfJob(r, traffic)' : \E y \in OfJob(r, traffic) : x.response = y.response
  BY <1>1 DEF OfJob, Visible
<1>3. Named(OfJob(r, traffic))' \subseteq Named(OfJob(r, traffic))
  BY <1>2 DEF Named
<1>4. QED BY <1>1, <1>3 DEF BoundedBy, Active, Over

\* Every step of a run keeps that for the run.
LEMMA OwnBounded ==
    ASSUME IInv, Links, NEW r \in Runs, Step(r), BoundedBy(r)
    PROVE  BoundedBy(r)'
<1>0. phase \in [Runs -> Phase]
  BY DEF IInv
<1>1. CASE StartRun(r)
  <2>1. phase[r] = "new" /\ phase'[r] = "crawling" /\ chains' = chains
    BY <1>0, <1>1, EnterParts DEF StartRun, Phase, rowVars
  <2>2. QED BY <2>1 DEF BoundedBy
<1>2. CASE \E x \in Responses : Record(r, x)
  BY <1>2 DEF Record, BoundedBy
<1>3. CASE DiscoverObjects(r)
  <2>1. /\ phase[r] = "crawling" /\ phase'[r] = "workflows" /\ chains' = chains /\ traffic' = traffic
        /\ \A s \in Runs : s # r => phase'[s] = phase[s]
    BY <1>0, <1>3, EnterParts DEF DiscoverObjects, Phase
  <2>2. Named(OfJob(r, traffic))' = Named(OfJob(r, traffic))
    BY <2>1, SameNames
  <2>3. PICK found : objects' = objects \cup {[run |-> r, ref |-> m, endpoint |-> found[m]] : m \in New(r)}
    BY <1>3 DEF DiscoverObjects, New
  <2>4. ASSUME NEW m \in Named(OfJob(r, traffic)) PROVE Known(r, m)'
    <3>1. CASE m \in New(r)
      <4>1. [run |-> r, ref |-> m, endpoint |-> found[m]] \in objects'
        BY <2>3, <3>1
      <4>2. QED BY <4>1 DEF Known, Visible
    <3>2. CASE Known(r, m)
      <4>1. ~FailRun(r)
        BY <2>1, FailureLoses
      <4>2. Visible(r, objects) \subseteq Visible(r, objects)'
        BY <4>1, TablesStay DEF SeenStill, Links
      <4>3. QED BY <3>2, <4>2 DEF Known
    <3>3. QED BY <3>1, <3>2 DEF New
  <2>5. QED BY <2>1, <2>2, <2>4 DEF BoundedBy
<1>4. CASE DiscoverWorkflows(r) \/ MapEndpoints(r)
  <2>1. /\ phase[r] \in {"workflows", "map_endpoints"} /\ phase'[r] \in {"map_endpoints", "map_objects"}
        /\ chains' = chains /\ traffic' = traffic /\ \A s \in Runs : s # r => phase'[s] = phase[s]
    BY <1>0, <1>4, EnterParts DEF DiscoverWorkflows, MapEndpoints, Phase, rowVars
  <2>2. Named(OfJob(r, traffic))' = Named(OfJob(r, traffic))
    BY <2>1, SameNames
  <2>3. ~FailRun(r)
    BY <2>1, FailureLoses
  <2>4. Visible(r, objects) \subseteq Visible(r, objects)'
    BY <2>3, TablesStay DEF SeenStill, Links
  <2>5. QED BY <2>1, <2>2, <2>4 DEF BoundedBy, Known
<1>5. CASE MapObjects(r)
  <2>1. /\ phase[r] = "map_objects" /\ phase'[r] = "planning" /\ chains' = chains /\ traffic' = traffic
        /\ \A s \in Runs : s # r => phase'[s] = phase[s]
    BY <1>0, <1>5, EnterParts DEF MapObjects, Phase, rowVars
  <2>2. Named(OfJob(r, traffic))' = Named(OfJob(r, traffic))
    BY <2>1, SameNames
  <2>3. seen'[r]["objects"] = Visible(r, objects)
    BY <1>5 DEF MapObjects, Keep, Links, TypeOK, Selected
  <2>4. QED BY <2>1, <2>2, <2>3 DEF BoundedBy, Known
<1>6. CASE PlanAttacks(r)
  BY <1>6, PlanAttacksBounds
<1>7. CASE \E b \in traffic : Replay(r, b)
  BY <1>7, ReplayBounds
<1>8. CASE Reason(r) \/ BuildGraph(r)
  <2>1. /\ Active(r) /\ phase'[r] \in Phase \ {"new", "committed", "failed"}
        /\ chains' = chains /\ traffic' = traffic /\ \A s \in Runs : s # r => phase'[s] = phase[s]
        /\ Reasoned(r)'
    <3>1. CASE Reason(r)
      BY <1>0, <3>1, EnterParts DEF Reason, Phase, Active, Over, Reasoned
    <3>2. CASE BuildGraph(r)
      <4>1. chains' = chains /\ traffic' = traffic
        BY <3>2 DEF BuildGraph, SelectTraffic, Select, rowVars
      <4>2. phase'[r] # "committed"
        BY <1>0, <3>2, EnterParts DEF BuildGraph, SelectTraffic, Select, Phase
      <4>3. QED BY <3>2, <4>1, <4>2, LateStepParts DEF Reasoned
    <3>3. QED BY <1>8, <3>1, <3>2
  <2>2. Named(OfJob(r, traffic))' = Named(OfJob(r, traffic))
    BY <2>1, SameNames DEF Active, Over
  <2>3. QED BY <2>1, <2>2 DEF BoundedBy, Reasoned
<1>9. CASE Commit(r) \/ FailRun(r)
  <2>1. phase'[r] = "committed" \/ phase'[r] = "failed"
    BY <1>9, LateStepParts, FailureLoses
  <2>2. QED BY <2>1 DEF BoundedBy, Active, Over
<1>10. QED BY <1>1, <1>2, <1>3, <1>4, <1>5, <1>6, <1>7, <1>8, <1>9, StepCases DEF EarlyStep

\* In every reachable state the boundaries of the tenants come first.
THEOREM PlansBounded == Spec => []Bounded
<1>1. Init => Bounded
  BY DEF Init, Bounded, BoundedBy
<1>2. IInv /\ Links /\ Bounded /\ [Next]_vars => Bounded'
  <2> SUFFICES ASSUME IInv, Links, Bounded, [Next]_vars PROVE Bounded'
    OBVIOUS
  <2>1. CASE UNCHANGED vars
    BY <2>1 DEF vars, rowVars, Bounded, BoundedBy, Named, OfJob, Visible, Known, Active, Over
  <2>2. ASSUME NEW s \in Runs, Step(s) PROVE Bounded'
    BY <2>2, OwnBounded, OthersBounded DEF Bounded
  <2>3. QED BY <2>1, <2>2 DEF Next
<1>3. QED BY <1>1, <1>2, Invariance, Linked, PTL DEF Spec

\* The limit of a plan drops the boundary of a tenant that the run discovered
\* only for boundaries of other tenants, whatever is committed meanwhile.
THEOREM BoundariesComeFirst == Spec => []BoundariesFirst
<1>1. Links /\ Bounded => BoundariesFirst
  <2> SUFFICES ASSUME Links, Bounded, NEW c \in chains, Active(c.run),
                      c.step.attack # "tenant_boundary_violation",
                      NEW o \in Discovered(c.run), o.ref \in TenantRefs
               PROVE  \E d \in chains : d.run = c.run /\ d.step.attack = "tenant_boundary_violation"
                                        /\ d.step.target = o.ref
    BY DEF BoundariesFirst
  <2>1. c.run \in Runs
    BY RowRuns DEF Links, Rows
  <2>2. o.ref \in Named(OfJob(c.run, traffic)) \cap TenantRefs
    BY DEF Discovered
  <2>3. \E d \in chains : IsBoundary(d, c.run, o.ref)
    BY <2>1, <2>2 DEF Bounded, BoundedBy
  <2>4. QED BY <2>3 DEF IsBoundary
<1>2. QED BY <1>1, Linked, PlansBounded, PTL

=============================================================================
