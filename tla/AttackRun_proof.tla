-------------------------- MODULE AttackRun_proof --------------------------
(* What AttackRun guarantees for any number of jobs, deliveries, identities  *)
(* and requests, whatever the target answers and whatever fails.             *)
EXTENDS AttackRun, TLAPS

\* A run is a job and the number of a delivery.
LEMMA RunParts ==
    /\ \A r \in Runs : JobOf(r) \in Jobs /\ r[2] \in Nat \ {0} /\ r = <<JobOf(r), r[2]>>
    /\ \A r \in Runs : r[2] > 1 => <<JobOf(r), r[2] - 1>> \in Runs
    /\ \A r, s \in Runs : JobOf(r) = JobOf(s) /\ r[2] = s[2] => r = s
<1>1. \A r \in Runs : r[1] \in Jobs /\ r[2] \in 1..Deliveries[r[1]] /\ r = <<r[1], r[2]>>
  BY DEF Runs
<1>2. \A j \in Jobs : Deliveries[j] \in Nat \ {0}
  BY ConstantsAssumption
<1>3. \A j \in Jobs : \A n \in 1..Deliveries[j] : <<j, n>> \in Runs
  BY DEF Runs
<1>4. ASSUME NEW r \in Runs, r[2] > 1 PROVE <<JobOf(r), r[2] - 1>> \in Runs
  <2>1. r[2] - 1 \in 1..Deliveries[r[1]]
    BY <1>1, <1>2, <1>4
  <2>2. QED BY <1>1, <1>3, <2>1 DEF JobOf
<1>5. QED BY <1>1, <1>2, <1>4 DEF JobOf

\* The stages are different, and over when they say so.
LEMMA PhaseFacts ==
    ASSUME NEW r \in Runs
    PROVE  /\ Active(r) <=> phase[r] \notin {"new", "committed", "failed"}
           /\ Over(r) <=> phase[r] \in {"committed", "failed"}
           /\ Lasts(r) <=> phase[r] \notin {"new", "failed"}
BY DEF Active, Over, Lasts

\* What a change of stage does.
LEMMA EnterParts ==
    ASSUME TypeOK, NEW r \in Runs, NEW from, NEW to \in Phase, NEW work, Enter(r, from, to, work)
    PROVE  /\ phase[r] = from /\ phase'[r] = to /\ phase' \in [Runs -> Phase]
           /\ \A s \in Runs : s # r => phase'[s] = phase[s]
           /\ DOMAIN todo' = Runs /\ todo'[r] = work
           /\ \A s \in Runs : s # r => todo'[s] = todo[s]
           /\ looked' = looked /\ missing' = missing
BY DEF Enter, TypeOK

\* What finishing an item does.
LEMMA DoneParts ==
    ASSUME TypeOK, NEW r \in Runs, NEW item, Done(r, item)
    PROVE  /\ DOMAIN todo' = Runs /\ todo'[r] = todo[r] \ {item}
           /\ \A s \in Runs : s # r => todo'[s] = todo[s]
           /\ \A s \in Runs : todo'[s] \subseteq todo[s]
BY DEF Done, TypeOK

\* The next target is one that is left.
LEMMA NextTargetIsLeft ==
    ASSUME TypeOK, NEW r \in Runs, phase[r] = "authorization_attacks", todo[r] # {}
    PROVE  /\ NextTarget(r) \in todo[r]
           /\ NextTarget(r)[1] \in Attacks /\ NextTarget(r)[2] \in traffic /\ NextTarget(r)[3] \in Identities
<1> DEFINE At(n) == \E t \in todo[r] : t[1] = n
<1>1. todo[r] \subseteq Attacks \X traffic \X Identities
  BY DEF TypeOK
<1>2. \A t \in todo[r] : t[1] \in 1..5
  BY <1>1 DEF Attacks, BOLA, WorkflowTransition
<1>3. At(1) \/ At(2) \/ At(3) \/ At(4) \/ At(5)
  BY <1>2
<1>4. \E n \in 1..5 : At(n) /\ \A m \in 1..5 : m < n => ~At(m)
  <2> HIDE DEF At
  <2>1. QED BY <1>3
<1>5. \E t \in todo[r] : \A u \in todo[r] : t[1] <= u[1]
  BY <1>2, <1>4
<1>6. NextTarget(r) \in todo[r]
  BY <1>5 DEF NextTarget
<1>7. QED BY <1>1, <1>6
-----------------------------------------------------------------------------
(* A run goes from one stage to the next.                                    *)

\* What Stage assumes of the step: only the stage of r and its work change,
\* and the findings when r has reasoned.
StageStep(r, from, to, work) ==
    /\ Enter(r, from, to, work)
    /\ from \in Phase \ {"committed", "failed"} /\ to \in Phase \ {"new", "failed"}
    /\ from = "new" <=> to = "authenticating"
    /\ from = "new" => /\ work = JobIdentities[JobOf(r)]
                       /\ \A s \in Runs : JobOf(s) = JobOf(r) /\ s[2] < r[2] => Over(s)
    /\ from \in {"authenticating", "object_discovery"} => todo[r] = {}
    /\ Attacked(r) => to \in {"authorization_reasoning", "graph", "committed"}
    /\ to = "committed" => from = "graph"
    /\ to = "object_discovery" => work \subseteq Identities \X Values
    /\ to = "authorization_attacks" =>
          /\ work \subseteq Attacks \X traffic \X Identities
          /\ \A t \in work : /\ t[2] \in JobTraffic(r) /\ t[2].status = "success" /\ t[2].identity # t[3]
                             /\ t[2].run = r => t[2].attack = 0
    /\ to \notin {"authenticating", "object_discovery", "authorization_attacks"} => work = {}
    /\ UNCHANGED <<sessions, endpoints, traffic, references>>
    /\ findings' \subseteq Runs \X traffic
    /\ \A f \in findings' : f \in findings \/ (f[1] = r /\ Sees(r, f[2].run) /\ from # "new")

\* The other stages stay what they were.
LEMMA StageFacts ==
    ASSUME TypeOK, NEW r \in Runs, NEW from, NEW to, NEW work, StageStep(r, from, to, work)
    PROVE  /\ phase[r] = from /\ phase'[r] = to /\ phase' \in [Runs -> Phase]
           /\ \A s \in Runs : s # r => phase'[s] = phase[s] /\ todo'[s] = todo[s]
           /\ DOMAIN todo' = Runs /\ todo'[r] = work
           /\ \A s \in Runs : phase[s] = "committed" => phase'[s] = "committed"
           /\ \A s, u \in Runs : Sees(s, u) => Sees(s, u)'
           /\ \A s \in Runs : Lasts(s) => Lasts(s)'
           /\ \A s \in Runs : Over(s) => Over(s)'
           /\ \A s \in Runs : Attacked(s) => Attacked(s)'
           /\ \A s \in Runs : phase'[s] = "authenticating" => phase[s] \in {"new", "authenticating"}
           /\ looked' = looked /\ missing' = missing
<1>1. Enter(r, from, to, work) /\ to \in Phase /\ from \notin {"committed", "failed"} /\ to \notin {"new", "failed"}
  BY DEF StageStep
<1>2. /\ phase[r] = from /\ phase'[r] = to /\ phase' \in [Runs -> Phase]
      /\ DOMAIN todo' = Runs /\ todo'[r] = work
      /\ \A s \in Runs : s # r => phase'[s] = phase[s]
      /\ \A s \in Runs : s # r => todo'[s] = todo[s]
      /\ looked' = looked /\ missing' = missing
  BY <1>1, EnterParts
<1>3. \A s \in Runs : phase[s] = "committed" => phase'[s] = "committed"
  BY <1>1, <1>2
<1>4. \A s, u \in Runs : Sees(s, u) => Sees(s, u)'
  BY <1>3 DEF Sees
<1>5. \A s \in Runs : Lasts(s) => Lasts(s)'
  BY <1>1, <1>2 DEF Lasts
<1>6. \A s \in Runs : Over(s) => Over(s)'
  BY <1>1, <1>2 DEF Over
<1>7. \A s \in Runs : Attacked(s) => Attacked(s)'
  <2>1. Attacked(r) => Attacked(r)'
    BY <1>2 DEF StageStep, Attacked
  <2>2. QED BY <1>2, <2>1 DEF Attacked
<1>8. \A s \in Runs : phase'[s] = "authenticating" => phase[s] \in {"new", "authenticating"}
  BY <1>2 DEF StageStep
<1>9. QED BY <1>2, <1>3, <1>4, <1>5, <1>6, <1>7, <1>8

LEMMA StageKeepsTypes ==
    ASSUME TypeOK, NEW r \in Runs, NEW from, NEW to, NEW work, StageStep(r, from, to, work)
    PROVE  TypeOK'
<1>1. /\ phase' \in [Runs -> Phase] /\ DOMAIN todo' = Runs
      /\ sessions' = sessions /\ endpoints' = endpoints /\ traffic' = traffic /\ references' = references
      /\ looked' = looked /\ missing' = missing
      /\ findings' \subseteq Runs \X traffic
  BY StageFacts DEF StageStep
<1>2. ASSUME NEW s \in Runs
      PROVE  /\ phase'[s] = "authenticating" => todo'[s] \subseteq JobIdentities[JobOf(s)]
             /\ phase'[s] = "object_discovery" => todo'[s] \subseteq Identities \X Values
             /\ phase'[s] = "authorization_attacks" => todo'[s] \subseteq Attacks \X traffic \X Identities
             /\ phase'[s] \notin {"authenticating", "object_discovery", "authorization_attacks"} => todo'[s] = {}
  <2>1. CASE s = r
    <3>1. phase'[r] = to /\ todo'[r] = work
      BY StageFacts
    <3>2. QED BY <2>1, <3>1 DEF StageStep
  <2>2. CASE s # r
    <3>1. phase'[s] = phase[s] /\ todo'[s] = todo[s]
      BY <2>2, StageFacts
    <3>2. QED BY <3>1 DEF TypeOK
  <2>3. QED BY <2>1, <2>2
<1>3. QED BY <1>1, <1>2 DEF TypeOK

LEMMA StageKeepsOrder ==
    ASSUME TypeOK, RunsInOrder, NEW r \in Runs, NEW from, NEW to, NEW work, StageStep(r, from, to, work)
    PROVE  RunsInOrder'
<1> SUFFICES ASSUME NEW s \in Runs, NEW u \in Runs, JobOf(s) = JobOf(u), u[2] < s[2], phase'[s] # "new"
             PROVE  Over(u)'
  BY DEF RunsInOrder, JobOf
<1>1. Over(u) => Over(u)'
  BY StageFacts
<1>2. CASE phase[s] # "new"
  BY <1>1, <1>2 DEF RunsInOrder
<1>3. CASE phase[s] = "new"
  <2>1. s = r /\ from = "new"
    BY <1>3, StageFacts
  <2>2. QED BY <1>1, <2>1 DEF StageStep
<1>4. QED BY <1>2, <1>3

LEMMA StageKeepsRows ==
    ASSUME TypeOK, RowsOfRuns, NEW r \in Runs, NEW from, NEW to, NEW work, StageStep(r, from, to, work)
    PROVE  RowsOfRuns'
<1>1. /\ \A s \in Runs : Lasts(s) => Lasts(s)'
      /\ \A s, u \in Runs : Sees(s, u) => Sees(s, u)'
      /\ \A s \in Runs : Attacked(s) => Attacked(s)'
  BY StageFacts
<1>2. sessions' = sessions /\ endpoints' = endpoints /\ traffic' = traffic /\ references' = references
  BY DEF StageStep
<1>3. \A x \in traffic : x.run \in Runs
  BY DEF TypeOK
<1>4. \A f \in findings' : f[1] \in Runs /\ f[2] \in traffic
  BY DEF StageStep
<1>5. /\ \A x \in sessions' : Lasts(x[1])'
      /\ \A x \in endpoints' : Lasts(x[1])'
  BY <1>1, <1>2 DEF RowsOfRuns, TypeOK
<1>5a. \A x \in references' : Lasts(x[1])' /\ phase'[x[1]] # "authenticating"
  <2>1. \A x \in references : x[1] \in Runs /\ Lasts(x[1]) /\ phase[x[1]] # "authenticating"
    BY DEF RowsOfRuns, TypeOK
  <2>2. \A s \in Runs : phase'[s] = "authenticating" => phase[s] \in {"new", "authenticating"}
    BY StageFacts
  <2>3. QED BY <1>1, <1>2, <2>1, <2>2 DEF Lasts
<1>6. \A x \in traffic' : Lasts(x.run)'
  BY <1>1, <1>2, <1>3 DEF RowsOfRuns
<1>7. ASSUME NEW f \in findings' PROVE Lasts(f[1])' /\ Sees(f[1], f[2].run)'
  <2>1. CASE f \in findings
    <3>1. Lasts(f[1]) /\ Sees(f[1], f[2].run)
      BY <2>1 DEF RowsOfRuns
    <3>2. QED BY <1>1, <1>3, <1>4, <3>1
  <2>2. CASE f \notin findings
    <3>1. f[1] = r /\ Sees(r, f[2].run) /\ to \notin {"new", "failed"}
      BY <2>2 DEF StageStep
    <3>2. phase'[r] = to
      BY StageFacts
    <3>3. QED BY <1>1, <1>3, <1>4, <3>1, <3>2 DEF Lasts
  <2>3. QED BY <2>1, <2>2
<1>8. \A x \in traffic' : IF IsReplay(x) THEN Attacked(x.run)' ELSE x.depth = 0
  BY <1>1, <1>2, <1>3 DEF RowsOfRuns
<1>9. QED BY <1>5, <1>5a, <1>6, <1>7, <1>8 DEF RowsOfRuns, IsReplay

LEMMA StageKeepsLooks ==
    ASSUME TypeOK, LooksSound, RefersOnce, NEW r \in Runs, NEW from, NEW to, NEW work, StageStep(r, from, to, work)
    PROVE  LooksSound' /\ RefersOnce'
<1>1. looked' = looked /\ missing' = missing /\ references' = references /\ phase[r] = from
  BY StageFacts DEF StageStep
<1>2. RefersOnce'
  BY <1>1 DEF RefersOnce, Refers, JobOf
<1>3. from \in {"authenticating", "object_discovery"} => todo[r] = {}
  BY DEF StageStep
<1>4. /\ \A x \in looked : x[1] \in Runs /\ x[1] # r
      /\ \A x \in missing : x[1] \in Runs /\ x[1] # r
  BY <1>1, <1>3 DEF LooksSound, TypeOK
<1>5. \A s \in Runs : s # r => phase'[s] = phase[s] /\ todo'[s] = todo[s]
  BY StageFacts
<1>6. LooksSound'
  BY <1>1, <1>4, <1>5 DEF LooksSound
<1>7. QED BY <1>2, <1>6

LEMMA StageKeepsTargets ==
    ASSUME TypeOK, TargetsSound, NEW r \in Runs, NEW from, NEW to, NEW work, StageStep(r, from, to, work)
    PROVE  TargetsSound'
<1>1. traffic' = traffic /\ \A x \in traffic : x.run \in Runs
  BY DEF StageStep, TypeOK
<1>2. \A s, u \in Runs : Sees(s, u) => Sees(s, u)'
  BY StageFacts
<1>3. \A s \in Runs : JobTraffic(s) \subseteq JobTraffic(s)'
  BY <1>1, <1>2 DEF JobTraffic, JobOf
<1>4. ASSUME NEW s \in Runs, phase'[s] = "authorization_attacks", NEW t \in todo'[s]
      PROVE  /\ t[2] \in JobTraffic(s) /\ t[2].status = "success" /\ t[2].identity # t[3]
             /\ t[2].run = s => t[2].attack = 0
  <2>1. CASE s = r
    <3>1. phase'[r] = to /\ todo'[r] = work
      BY StageFacts
    <3>2. QED BY <1>4, <2>1, <3>1 DEF StageStep
  <2>2. CASE s # r
    <3>1. phase'[s] = phase[s] /\ todo'[s] = todo[s]
      BY <2>2, StageFacts
    <3>2. QED BY <1>4, <3>1 DEF TargetsSound
  <2>3. QED BY <2>1, <2>2
<1>5. QED BY <1>3, <1>4 DEF TargetsSound

LEMMA StageKeepsLineage ==
    ASSUME TypeOK, LineageSound, DepthWithinDeliveries, DuplicatesAcrossJobs,
           NEW r \in Runs, NEW from, NEW to, NEW work, StageStep(r, from, to, work)
    PROVE  LineageSound' /\ DepthWithinDeliveries' /\ DuplicatesAcrossJobs'
<1>1. traffic' = traffic /\ endpoints' = endpoints /\ references' = references
  BY DEF StageStep
<1>2. \A s, u \in Runs : Sees(s, u) => Sees(s, u)'
  BY StageFacts
<1>3. \A x \in traffic : x.run \in Runs
  BY DEF TypeOK
<1>4. LineageSound'
  BY <1>1, <1>2, <1>3 DEF LineageSound, JobOf, IsReplay
<1>5. DepthWithinDeliveries' /\ DuplicatesAcrossJobs'
  BY <1>1 DEF DepthWithinDeliveries, DuplicatesAcrossJobs, JobOf
<1>6. QED BY <1>4, <1>5

\* Unless r has just reasoned, the findings are as exact as they were.
LEMMA StageKeepsFindings ==
    ASSUME TypeOK, FindingsExact, NEW r \in Runs, NEW from, NEW to, NEW work, StageStep(r, from, to, work),
           findings' = findings, to # "graph"
    PROVE  FindingsExact'
<1>1. traffic' = traffic
  BY DEF StageStep
<1>2. ASSUME NEW s \in Runs, phase'[s] \in {"graph", "committed"} PROVE phase[s] \in {"graph", "committed"}
  BY <1>2, StageFacts DEF StageStep
<1>3. QED BY <1>1, <1>2 DEF FindingsExact, JobOf, Exploitable, IsReplay, Verdict

\* Who is logged in was so before, and what is behind the session still is.
LEMMA StageKeepsSessions ==
    ASSUME TypeOK, SessionsShared, NEW r \in Runs, NEW from, NEW to, NEW work, StageStep(r, from, to, work)
    PROVE  SessionsShared'
<1>1. ASSUME NEW s \in Runs, NEW i \in Identities, LoggedIn(s, i)' PROVE LoggedIn(s, i)
  <2>1. CASE s # r
    <3>1. phase'[s] = phase[s] /\ todo'[s] = todo[s]
      BY <2>1, StageFacts
    <3>2. QED BY <1>1, <3>1 DEF LoggedIn, Active, Over, JobOf
  <2>2. CASE s = r
    <3>1. phase[r] = from /\ phase'[r] = to /\ todo'[r] = work
      BY StageFacts
    <3>2. CASE from = "new"
      <4>1. to = "authenticating" /\ work = JobIdentities[JobOf(r)]
        BY <3>2 DEF StageStep
      <4>2. QED BY <1>1, <2>2, <3>1, <4>1 DEF LoggedIn, JobOf
    <3>3. CASE from # "new"
      <4>1. from \notin {"committed", "failed"} /\ (from = "authenticating" => todo[r] = {})
        BY DEF StageStep
      <4>2. QED BY <1>1, <2>2, <3>1, <3>3, <4>1 DEF LoggedIn, Active, Over, JobOf
    <3>4. QED BY <3>2, <3>3
  <2>3. QED BY <2>1, <2>2
<1>2. sessions' = sessions /\ looked' = looked /\ Refers' = Refers
  BY StageFacts DEF StageStep, Refers
<1>3. \A s \in Runs : phase[s] = "committed" => phase'[s] = "committed"
  BY StageFacts
<1>4. \A u \in Runs, i \in Identities, R \in SUBSET Runs : Backs(u, i, R) => Backs(u, i, R)'
  BY <1>2, <1>3 DEF Backs
<1>5. ASSUME NEW s \in Runs, NEW i \in Identities, LoggedIn(s, i)' \/ <<s, i, 1>> \in looked'
      PROVE  \E u \in Runs : Backs(u, i, {s})'
  BY <1>1, <1>2, <1>4, <1>5 DEF SessionsShared
<1>6. ASSUME NEW s \in Runs, NEW u \in Runs, NEW i \in Identities, LoggedIn(s, i)', LoggedIn(u, i)', s # u
      PROVE  <<s, i>> \in sessions' \/ <<u, i>> \in sessions'
  BY <1>1, <1>2, <1>6 DEF SessionsShared
<1>7. ASSUME NEW s \in Runs, NEW u \in Runs, NEW i \in JobIdentities[JobOf(s)] \cap JobIdentities[JobOf(u)], NEW v \in Values,
             s # u, <<s, <<i, v>>>> \in Refers', <<u, <<i, v>>>> \in Refers'
      PROVE  \E p, q \in Runs : p # q /\ Backs(p, i, {s, u})' /\ Backs(q, i, {s, u})'
  <2>1. \E p, q \in Runs : p # q /\ Backs(p, i, {s, u}) /\ Backs(q, i, {s, u})
    BY <1>2, <1>7 DEF SessionsShared
  <2>2. i \in Identities /\ {s, u} \in SUBSET Runs
    BY RunParts, ConstantsAssumption
  <2>3. QED BY <1>4, <2>1, <2>2
<1>8. QED BY <1>5, <1>6, <1>7 DEF SessionsShared, JobOf

\* All of the invariant but the findings, which differ by stage.
LEMMA StageKeeps ==
    ASSUME IInv, NEW r \in Runs, NEW from, NEW to, NEW work, StageStep(r, from, to, work), FindingsExact'
    PROVE  IInv'
BY StageKeepsTypes, StageKeepsOrder, StageKeepsRows, StageKeepsLooks, StageKeepsTargets, StageKeepsLineage, StageKeepsSessions
   DEF IInv

LEMMA StartRunKeeps ==
    ASSUME IInv, NEW r \in Runs, StartRun(r)
    PROVE  IInv'
<1>1. /\ Enter(r, "new", "authenticating", JobIdentities[JobOf(r)])
      /\ r[2] > 1 => Over(<<JobOf(r), r[2] - 1>>)
      /\ UNCHANGED <<sessions, endpoints, traffic, references, findings>>
  BY DEF StartRun
<1>2. ASSUME NEW s \in Runs, JobOf(s) = JobOf(r), s[2] < r[2] PROVE Over(s)
  <2>1. /\ s[2] \in Nat \ {0} /\ r[2] \in Nat \ {0} /\ s = <<JobOf(s), s[2]>>
        /\ \A x \in Runs : x[2] > 1 => <<JobOf(x), x[2] - 1>> \in Runs
    BY RunParts
  <2>2. r[2] > 1
    BY <1>2, <2>1
  <2> DEFINE p == <<JobOf(r), r[2] - 1>>
  <2>3. p \in Runs /\ JobOf(p) = JobOf(r) /\ p[2] = r[2] - 1 /\ Over(p)
    BY <1>1, <2>1, <2>2 DEF JobOf
  <2>4. CASE s[2] = r[2] - 1
    BY <1>2, <2>1, <2>3, <2>4
  <2>5. CASE s[2] # r[2] - 1
    <3> HIDE DEF p
    <3>1. s[2] < p[2]
      BY <1>2, <2>1, <2>3, <2>5
    <3>2. phase[p] # "new"
      BY <2>3 DEF Over
    <3>3. QED BY <1>2, <2>3, <3>1, <3>2 DEF IInv, RunsInOrder
  <2>6. QED BY <2>4, <2>5
<1>3. findings \subseteq Runs \X traffic /\ phase[r] = "new"
  BY <1>1 DEF IInv, TypeOK, Enter
<1>4. StageStep(r, "new", "authenticating", JobIdentities[JobOf(r)])
  BY <1>1, <1>2, <1>3 DEF StageStep, Phase, Attacked
<1>5. FindingsExact'
  BY <1>1, <1>4, StageKeepsFindings DEF IInv
<1>6. QED BY <1>4, <1>5, StageKeeps

LEMMA StartCrawlKeeps ==
    ASSUME IInv, NEW r \in Runs, StartCrawl(r)
    PROVE  IInv'
<1>1. findings \subseteq Runs \X traffic /\ phase[r] = "authenticating"
  BY DEF IInv, TypeOK, Enter, StartCrawl
<1>2. StageStep(r, "authenticating", "crawling", {})
  BY <1>1 DEF StageStep, StartCrawl, Phase, Attacked
<1>3. FindingsExact'
  BY <1>2, StageKeepsFindings DEF IInv, StartCrawl
<1>4. QED BY <1>2, <1>3, StageKeeps

LEMMA StartDiscoveryKeeps ==
    ASSUME IInv, NEW r \in Runs, StartDiscovery(r)
    PROVE  IInv'
<1> DEFINE work == UNION {{x.identity} \X Yields[x.request] : x \in JobTraffic(r)}
<1>1. findings \subseteq Runs \X traffic /\ phase[r] = "crawling"
  BY DEF IInv, TypeOK, Enter, StartDiscovery
<1>2. \A x \in JobTraffic(r) : x.identity \in Identities /\ Yields[x.request] \subseteq Values
  BY ConstantsAssumption DEF IInv, TypeOK, JobTraffic
<1>3. work \subseteq Identities \X Values
  BY <1>2
<1>4. Enter(r, "crawling", "object_discovery", work) /\ UNCHANGED <<sessions, endpoints, traffic, references, findings>>
  BY DEF StartDiscovery
<1>5. StageStep(r, "crawling", "object_discovery", work)
  <2> HIDE DEF work
  <2>1. QED BY <1>1, <1>3, <1>4 DEF StageStep, Phase, Attacked
<1>6. FindingsExact'
  <2> HIDE DEF work
  <2>1. QED BY <1>4, <1>5, StageKeepsFindings DEF IInv
<1>7. QED
  <2> HIDE DEF work
  <2>1. QED BY <1>5, <1>6, StageKeeps

LEMMA StartAttacksKeeps ==
    ASSUME IInv, NEW r \in Runs, StartAttacks(r)
    PROVE  IInv'
<1>1. PICK work : /\ Enter(r, "object_discovery", "authorization_attacks", work)
                  /\ \E bola : work = Targets(r, bola)
  BY DEF StartAttacks
<1>2. /\ UNCHANGED <<sessions, endpoints, traffic, references, findings>>
      /\ phase[r] = "object_discovery" /\ todo[r] = {}
  BY DEF StartAttacks, Enter
<1>3. \A t \in work : /\ t \in Attacks \X JobTraffic(r) \X Identities
                      /\ t[2].status = "success" /\ t[3] # t[2].identity
  BY <1>1 DEF Targets
<1>4. JobTraffic(r) \subseteq traffic
  BY DEF JobTraffic
<1>5. \A x \in traffic : x.run = r => x.attack = 0
  BY <1>2 DEF IInv, RowsOfRuns, IsReplay, Attacked
<1>6. findings \subseteq Runs \X traffic
  BY DEF IInv, TypeOK
<1>7. work \subseteq Attacks \X traffic \X Identities
  BY <1>3, <1>4
<1>8. \A t \in work : /\ t[2] \in JobTraffic(r) /\ t[2].status = "success" /\ t[2].identity # t[3]
                      /\ t[2].run = r => t[2].attack = 0
  BY <1>3, <1>4, <1>5
<1>9. StageStep(r, "object_discovery", "authorization_attacks", work)
  BY <1>1, <1>2, <1>6, <1>7, <1>8 DEF StageStep, Phase, Attacked
<1>10. FindingsExact'
  BY <1>2, <1>9, StageKeepsFindings DEF IInv
<1>11. QED BY <1>9, <1>10, StageKeeps

LEMMA StartReasoningKeeps ==
    ASSUME IInv, NEW r \in Runs, StartReasoning(r)
    PROVE  IInv'
<1>1. findings \subseteq Runs \X traffic /\ phase[r] = "authorization_attacks"
  BY DEF IInv, TypeOK, Enter, StartReasoning
<1>2. StageStep(r, "authorization_attacks", "authorization_reasoning", {})
  BY <1>1 DEF StageStep, StartReasoning, Phase, Attacked
<1>3. FindingsExact'
  BY <1>2, StageKeepsFindings DEF IInv, StartReasoning
<1>4. QED BY <1>2, <1>3, StageKeeps

\* An active run is behind every earlier delivery and ahead of every later one.
LEMMA EarlierDeliveries ==
    ASSUME IInv, NEW r \in Runs, Active(r), NEW x \in traffic, JobOf(x.run) = JobOf(r)
    PROVE  /\ x.run \in Runs
           /\ Sees(r, x.run) <=> x.run[2] <= r[2]
           /\ x.run # r /\ Sees(r, x.run) => x.run[2] < r[2]
<1>1. x.run \in Runs /\ Lasts(x.run)
  BY DEF IInv, TypeOK, RowsOfRuns
<1>2. x.run[2] \in Nat /\ r[2] \in Nat /\ (x.run[2] = r[2] => x.run = r)
  BY <1>1, RunParts
<1>3. x.run[2] < r[2] => Sees(r, x.run)
  BY <1>1 DEF IInv, RunsInOrder, Over, Lasts, Sees, Active
<1>4. x.run[2] > r[2] => ~Sees(r, x.run)
  BY <1>1, <1>2 DEF IInv, RunsInOrder, Over, Lasts, Sees, Active
<1>5. x.run = r => Sees(r, x.run)
  BY DEF Sees
<1>6. QED BY <1>1, <1>2, <1>3, <1>4, <1>5

LEMMA ReasonKeeps ==
    ASSUME IInv, NEW r \in Runs, Reason(r)
    PROVE  IInv'
<1> DEFINE new == {<<r, x>> : x \in {y \in JobTraffic(r) : Exploitable(y)}}
<1>1. /\ Enter(r, "authorization_reasoning", "graph", {})
      /\ UNCHANGED <<sessions, endpoints, traffic, references>>
      /\ findings' = findings \cup new
  BY DEF Reason
<1>2. phase[r] = "authorization_reasoning" /\ Active(r)
  BY <1>1 DEF Enter, Active, Over
<1>3. findings \subseteq Runs \X traffic
  BY DEF IInv, TypeOK
<1>4. \A f \in new : f = <<r, f[2]>> /\ f[2] \in JobTraffic(r) /\ Exploitable(f[2])
  OBVIOUS
<1>5. \A x \in JobTraffic(r) : x \in traffic /\ Sees(r, x.run) /\ JobOf(x.run) = JobOf(r)
  BY DEF JobTraffic
<1>6. \A x \in JobTraffic(r) : Exploitable(x) => <<r, x>> \in new
  OBVIOUS
<1> HIDE DEF new
<1>7. StageStep(r, "authorization_reasoning", "graph", {})
  BY <1>1, <1>2, <1>3, <1>4, <1>5 DEF StageStep, Phase, Attacked
<1>8. \A s \in Runs : s # r => phase'[s] = phase[s]
  BY <1>7, StageFacts DEF IInv
<1>9. ASSUME NEW f \in findings'
      PROVE  /\ Exploitable(f[2]) /\ f[2].status = "success"
             /\ JobOf(f[2].run) = JobOf(f[1]) /\ f[2].run[2] <= f[1][2]
  <2>1. CASE f \in findings
    BY <2>1 DEF IInv, FindingsExact
  <2>2. CASE f \in new
    <3>1. f[1] = r /\ f[2] \in traffic /\ Sees(r, f[2].run) /\ JobOf(f[2].run) = JobOf(r) /\ Exploitable(f[2])
      BY <1>4, <1>5, <2>2
    <3>2. f[2].run[2] <= r[2]
      BY <1>2, <3>1, EarlierDeliveries
    <3>3. f[2].status = "success"
      BY <3>1 DEF IInv, TypeOK, Statuses, Exploitable, Verdict
    <3>4. QED BY <3>1, <3>2, <3>3
  <2>3. QED BY <1>1, <2>1, <2>2
<1>10. ASSUME NEW s \in Runs, phase'[s] \in {"graph", "committed"}, NEW x \in traffic,
              Exploitable(x), JobOf(x.run) = JobOf(s), x.run[2] <= s[2]
       PROVE  <<s, x>> \in findings'
  <2>1. CASE s = r
    <3>1. Sees(r, x.run)
      BY <1>2, <1>10, <2>1, EarlierDeliveries
    <3>2. x \in JobTraffic(r)
      BY <1>10, <2>1, <3>1 DEF JobTraffic
    <3>3. QED BY <1>1, <1>6, <1>10, <2>1, <3>2
  <2>2. CASE s # r
    BY <1>1, <1>8, <1>10, <2>2 DEF IInv, FindingsExact
  <2>3. QED BY <2>1, <2>2
<1>11. FindingsExact'
  BY <1>1, <1>9, <1>10 DEF FindingsExact, JobOf, Exploitable, IsReplay, Verdict
<1>12. QED BY <1>7, <1>11, StageKeeps

LEMMA CommitKeeps ==
    ASSUME IInv, NEW r \in Runs, Commit(r)
    PROVE  IInv'
<1>1. findings \subseteq Runs \X traffic /\ phase[r] = "graph"
  BY DEF IInv, TypeOK, Enter, Commit
<1>2. StageStep(r, "graph", "committed", {})
  BY <1>1 DEF StageStep, Commit, Phase, Attacked
<1>3. FindingsExact'
  BY <1>2, StageKeepsFindings DEF IInv, Commit
<1>4. QED BY <1>2, <1>3, StageKeeps
-----------------------------------------------------------------------------
(* A run inserts rows.                                                       *)

\* What an insert or an update changes: rows of r are added, work is done.
WriteStep(r) ==
    /\ phase' = phase /\ findings' = findings
    /\ phase[r] \in {"authenticating", "crawling", "object_discovery", "authorization_attacks"}
    /\ DOMAIN todo' = Runs /\ \A s \in Runs : todo'[s] \subseteq todo[s]
    /\ \A x \in sessions' : x \in sessions \/ x[1] = r
    /\ \A x \in endpoints' : x \in endpoints \/ x[1] = r
    /\ \A x \in references' : x \in references \/ (x[1] = r /\ phase[r] # "authenticating")
    /\ traffic \subseteq traffic'
    /\ \A x \in traffic' : \/ x \in traffic
                           \/ x.run = r /\ x.depth <= r[2] /\ IF IsReplay(x) THEN Attacked(r) ELSE x.depth = 0

\* The runs of the job that have rows are seen.
LEMMA SameJobIsSeen ==
    ASSUME IInv, NEW r \in Runs, Active(r), NEW s \in Runs, JobOf(s) = JobOf(r), Lasts(s)
    PROVE  Sees(r, s)
<1>1. s[2] \in Nat /\ r[2] \in Nat /\ (s[2] = r[2] => s = r)
  BY RunParts
<1>2. CASE s[2] < r[2]
  BY <1>2 DEF IInv, RunsInOrder, Over, Lasts, Sees, Active
<1>3. CASE s[2] > r[2]
  BY <1>1, <1>3 DEF IInv, RunsInOrder, Over, Lasts, Active
<1>4. CASE s[2] = r[2]
  BY <1>1, <1>4 DEF Sees
<1>5. QED BY <1>1, <1>2, <1>3, <1>4

LEMMA WriteKeeps ==
    ASSUME IInv, NEW r \in Runs, WriteStep(r), TypeOK', LooksSound', LineageSound', DuplicatesAcrossJobs',
           RefersOnce', SessionsShared'
    PROVE  IInv'
<1>1. Active(r) /\ Lasts(r) /\ phase[r] \notin {"graph", "committed"}
  BY DEF WriteStep, Active, Over, Lasts
<1>2. phase' = phase /\ findings' = findings /\ traffic \subseteq traffic'
  BY DEF WriteStep
<1>3. RunsInOrder'
  BY <1>2 DEF IInv, RunsInOrder, Over, JobOf
<1>4. RowsOfRuns'
  <2>1. /\ \A s : Lasts(s)' = Lasts(s) /\ Attacked(s)' = Attacked(s)
        /\ \A s, u : Sees(s, u)' = Sees(s, u)
    BY <1>2 DEF Lasts, Attacked, Sees
  <2>2. /\ \A x \in sessions' : Lasts(x[1])
        /\ \A x \in endpoints' : Lasts(x[1])
        /\ \A x \in references' : Lasts(x[1]) /\ phase[x[1]] # "authenticating"
    BY <1>1 DEF WriteStep, IInv, RowsOfRuns
  <2>3. \A x \in traffic' : Lasts(x.run) /\ IF IsReplay(x) THEN Attacked(x.run) ELSE x.depth = 0
    BY <1>1 DEF WriteStep, IInv, RowsOfRuns
  <2>4. QED BY <1>2, <2>1, <2>2, <2>3 DEF IInv, RowsOfRuns, IsReplay
<1>5. TargetsSound'
  <2>1. \A s \in Runs : JobTraffic(s) \subseteq JobTraffic(s)'
    BY <1>2 DEF JobTraffic, Sees, JobOf
  <2>2. \A s \in Runs : todo'[s] \subseteq todo[s]
    BY DEF WriteStep
  <2>3. QED BY <1>2, <2>1, <2>2 DEF IInv, TargetsSound
<1>6. DepthWithinDeliveries'
  BY DEF WriteStep, IInv, DepthWithinDeliveries
<1>7. FindingsExact'
  <2>1. ASSUME NEW s \in Runs, phase[s] \in {"graph", "committed"}, NEW x \in traffic',
               Exploitable(x), JobOf(x.run) = JobOf(s), x.run[2] <= s[2]
        PROVE  <<s, x>> \in findings
    <3>1. CASE x \in traffic
      BY <2>1, <3>1 DEF IInv, FindingsExact
    <3>2. CASE x.run = r
      <4>1. s[2] \in Nat /\ r[2] \in Nat /\ (s[2] = r[2] /\ JobOf(s) = JobOf(r) => s = r)
        BY RunParts
      <4>2. r[2] < s[2]
        BY <1>1, <2>1, <3>2, <4>1
      <4>3. Over(r)
        BY <2>1, <3>2, <4>2 DEF IInv, RunsInOrder
      <4>4. QED BY <1>1, <4>3 DEF Active
    <3>3. QED BY <3>1, <3>2 DEF WriteStep
  <2>2. QED BY <1>2, <2>1 DEF IInv, FindingsExact, JobOf, Exploitable, IsReplay, Verdict
<1>8. QED BY <1>3, <1>4, <1>5, <1>6, <1>7 DEF IInv

\* If neither sessions nor references nor logins change, nor does who shares them.
LEMMA SameSessions ==
    ASSUME SessionsShared, phase' = phase, looked' = looked, missing' = missing,
           sessions' = sessions, references' = references,
           \A s \in Runs : phase[s] = "authenticating" => todo'[s] = todo[s]
    PROVE  SessionsShared'
<1>1. \A s \in Runs, i \in Identities : LoggedIn(s, i)' = LoggedIn(s, i)
  BY DEF LoggedIn, Active, Over, JobOf
<1>2. \A u, i, R : Backs(u, i, R)' = Backs(u, i, R)
  BY DEF Backs
<1>3. Refers' = Refers
  BY DEF Refers
<1>4. QED BY <1>1, <1>2, <1>3 DEF SessionsShared, JobOf

\* Nor does what the runs are looking for.
LEMMA SameLooks ==
    ASSUME IInv, phase' = phase, looked' = looked, missing' = missing, references' = references,
           \A s \in Runs : phase[s] \in {"authenticating", "object_discovery"} => todo'[s] = todo[s]
    PROVE  LooksSound' /\ RefersOnce'
<1>1. LooksSound'
  BY DEF IInv, LooksSound, TypeOK
<1>2. RefersOnce'
  BY DEF IInv, RefersOnce, Refers, JobOf
<1>3. QED BY <1>1, <1>2

LEMMA SelectSessionKeeps ==
    ASSUME IInv, NEW r \in Runs, NEW i \in Identities, SelectSession(r, i)
    PROVE  IInv'
<1> DEFINE n == IF Found(r, sessions, i) = {} THEN 0 ELSE 1
<1>1. /\ phase[r] = "authenticating" /\ i \in todo[r]
      /\ looked' = looked \cup {<<r, i, n>>}
      /\ UNCHANGED <<phase, todo, missing, sessions, endpoints, traffic, references, findings>>
  BY DEF SelectSession
<1>2. n \in {0, 1}
  OBVIOUS
<1>3. n = 1 => \E u \in Runs : Backs(u, i, {r})
  BY DEF Found, Backs, Sees
<1> HIDE DEF n
<1>4. WriteStep(r)
  BY <1>1 DEF WriteStep, IInv, TypeOK
<1>5. TypeOK'
  <2>1. looked' \subseteq Runs \X Identities \X {0, 1}
    BY <1>1, <1>2 DEF IInv, TypeOK
  <2>2. QED BY <1>1, <2>1 DEF IInv, TypeOK, JobOf
<1>6. LineageSound' /\ DuplicatesAcrossJobs'
  BY <1>1 DEF IInv, LineageSound, DuplicatesAcrossJobs, Sees, JobOf, IsReplay
<1>7. LooksSound' /\ RefersOnce'
  <2>1. LooksSound'
    BY <1>1 DEF IInv, LooksSound
  <2>2. QED BY <1>1, <2>1 DEF IInv, RefersOnce, Refers, JobOf
<1>8. SessionsShared'
  <2>1. /\ \A s \in Runs, k \in Identities : LoggedIn(s, k)' = LoggedIn(s, k)
        /\ \A u, k, R : Backs(u, k, R)' = Backs(u, k, R)
        /\ Refers' = Refers
    BY <1>1 DEF LoggedIn, Active, Over, JobOf, Backs, Refers
  <2>2. \A s \in Runs, k \in Identities : <<s, k, 1>> \in looked' => <<s, k, 1>> \in looked \/ (s = r /\ k = i /\ n = 1)
    BY <1>1
  <2>3. QED BY <1>1, <1>3, <2>1, <2>2 DEF IInv, SessionsShared, JobOf
<1>9. QED BY <1>4, <1>5, <1>6, <1>7, <1>8, WriteKeeps

\* Who logs in has found a committed session, or inserts one.
LEMMA LoginKeeps ==
    ASSUME IInv, NEW r \in Runs, NEW i \in Identities, NEW n \in {0, 1}, <<r, i, n>> \in looked, LoggedInAs(r, i),
           sessions' = sessions \/ sessions' = sessions \cup {<<r, i>>},
           \E u \in Runs : Backs(u, i, {r})',
           \A s \in Runs : LoggedIn(s, i) /\ s # r => <<r, i>> \in sessions' \/ <<s, i>> \in sessions'
    PROVE  IInv'
<1>1. /\ Done(r, i) /\ looked' = {x \in looked : x[1] # r}
      /\ UNCHANGED <<phase, missing, endpoints, traffic, references, findings>>
      /\ phase[r] = "authenticating"
  BY DEF LoggedInAs, IInv, LooksSound
<1>2. /\ DOMAIN todo' = Runs /\ todo'[r] = todo[r] \ {i}
      /\ \A s \in Runs : s # r => todo'[s] = todo[s]
      /\ \A s \in Runs : todo'[s] \subseteq todo[s]
  BY <1>1, DoneParts DEF IInv
<1>3. WriteStep(r)
  BY <1>1, <1>2 DEF WriteStep
<1>4. TypeOK'
  <2>1. sessions' \subseteq Runs \X Identities /\ looked' \subseteq looked
    BY <1>1 DEF IInv, TypeOK
  <2>2. QED BY <1>1, <1>2, <2>1 DEF IInv, TypeOK, JobOf
<1>5. LineageSound' /\ DuplicatesAcrossJobs'
  BY <1>1 DEF IInv, LineageSound, DuplicatesAcrossJobs, Sees, JobOf, IsReplay
<1>6. LooksSound' /\ RefersOnce'
  <2>1. LooksSound'
    BY <1>1, <1>2 DEF IInv, LooksSound, TypeOK
  <2>2. RefersOnce'
    BY <1>1 DEF IInv, RefersOnce, Refers, JobOf
  <2>3. QED BY <2>1, <2>2
<1>7. SessionsShared'
  <2>1. \A s \in Runs, k \in Identities : LoggedIn(s, k)' => LoggedIn(s, k) \/ (s = r /\ k = i)
    BY <1>1, <1>2 DEF LoggedIn, Active, Over, JobOf
  <2>2. \A u, k, R : Backs(u, k, R) => Backs(u, k, R)'
    BY <1>1 DEF Backs
  <2>3. Refers' = Refers
    BY <1>1 DEF Refers
  <2>4. ASSUME NEW s \in Runs, NEW k \in Identities, LoggedIn(s, k)' \/ <<s, k, 1>> \in looked'
        PROVE  \E u \in Runs : Backs(u, k, {s})'
    <3>1. CASE LoggedIn(s, k) \/ <<s, k, 1>> \in looked
      BY <2>2, <3>1 DEF IInv, SessionsShared
    <3>2. CASE s = r /\ k = i
      BY <3>2
    <3>3. QED BY <1>1, <2>1, <2>4, <3>1, <3>2
  <2>5. ASSUME NEW s \in Runs, NEW u \in Runs, NEW k \in Identities, LoggedIn(s, k)', LoggedIn(u, k)', s # u
        PROVE  <<s, k>> \in sessions' \/ <<u, k>> \in sessions'
    <3>1. CASE LoggedIn(s, k) /\ LoggedIn(u, k)
      BY <2>5, <3>1 DEF IInv, SessionsShared
    <3>2. CASE s = r /\ k = i
      BY <2>1, <2>5, <3>2
    <3>3. CASE u = r /\ k = i
      BY <2>1, <2>5, <3>3
    <3>4. QED BY <2>1, <2>5, <3>1, <3>2, <3>3
  <2>6. ASSUME NEW s \in Runs, NEW u \in Runs, NEW k \in JobIdentities[JobOf(s)] \cap JobIdentities[JobOf(u)], NEW v \in Values,
               s # u, <<s, <<k, v>>>> \in Refers, <<u, <<k, v>>>> \in Refers
        PROVE  \E p, q \in Runs : p # q /\ Backs(p, k, {s, u})' /\ Backs(q, k, {s, u})'
    BY <2>2, <2>6 DEF IInv, SessionsShared
  <2>7. QED BY <2>3, <2>4, <2>5, <2>6 DEF SessionsShared, JobOf
<1>8. QED BY <1>3, <1>4, <1>5, <1>6, <1>7, WriteKeeps

LEMMA InsertSessionKeeps ==
    ASSUME IInv, NEW r \in Runs, NEW i \in Identities, InsertSession(r, i)
    PROVE  IInv'
<1>1. <<r, i, 0>> \in looked /\ sessions' = sessions \cup {<<r, i>>} /\ LoggedInAs(r, i)
  BY DEF InsertSession
<1>2. <<r, i>> \in sessions' /\ Backs(r, i, {r})'
  BY <1>1 DEF Backs
<1>3. QED BY <1>1, <1>2, LoginKeeps

LEMMA UpdateSessionKeeps ==
    ASSUME IInv, NEW r \in Runs, NEW i \in Identities, UpdateSession(r, i)
    PROVE  IInv'
<1>1. <<r, i, 1>> \in looked /\ sessions' = sessions /\ LoggedInAs(r, i) /\ \A s \in Runs : ~Locks(s, i)
  BY DEF UpdateSession
<1>2. \A s \in Runs : LoggedIn(s, i) => <<s, i>> \in sessions'
  BY <1>1 DEF Locks, LoggedIn
<1>3. \E u \in Runs : Backs(u, i, {r})
  BY <1>1 DEF IInv, SessionsShared
<1>4. \A u : Backs(u, i, {r}) => Backs(u, i, {r})'
  BY <1>1 DEF Backs, LoggedInAs
<1>5. QED BY <1>1, <1>2, <1>3, <1>4, LoginKeeps

\* An endpoint is inserted only if the runs of the job before r have none.
LEMMA UpsertKeepsDuplicates ==
    ASSUME IInv, NEW r \in Runs, Active(r), NEW p \in Paths, NEW n \in 1..2, references' = references,
           \/ endpoints' = endpoints
           \/ /\ \A x \in EndpointsOf(r, p) : x[1] = r \/ JobOf(x[1]) # JobOf(r)
              /\ endpoints' = endpoints \cup {<<r, p, n>>}
    PROVE  /\ DuplicatesAcrossJobs'
           /\ endpoints' \subseteq Runs \X Paths \X (1..2)
           /\ \A x \in endpoints' : x \in endpoints \/ x[1] = r
<1>1. CASE endpoints' = endpoints
  <2>1. DuplicatesAcrossJobs'
    BY <1>1 DEF IInv, DuplicatesAcrossJobs, JobOf
  <2>2. endpoints' \subseteq Runs \X Paths \X (1..2)
    BY <1>1 DEF IInv, TypeOK
  <2>3. QED BY <1>1, <2>1, <2>2
<1>2. CASE /\ \A x \in EndpointsOf(r, p) : x[1] = r \/ JobOf(x[1]) # JobOf(r)
           /\ endpoints' = endpoints \cup {<<r, p, n>>}
  <2>1. ASSUME NEW s \in Runs, JobOf(s) = JobOf(r), NEW m \in 1..2, <<s, p, m>> \in endpoints PROVE s = r
    <3>1. Lasts(s)
      BY <2>1 DEF IInv, RowsOfRuns
    <3>2. Sees(r, s)
      BY <2>1, <3>1, SameJobIsSeen
    <3>3. QED BY <1>2, <2>1, <3>2 DEF EndpointsOf
  <2>2. DuplicatesAcrossJobs'
    BY <1>2, <2>1 DEF IInv, DuplicatesAcrossJobs, JobOf
  <2>3. QED BY <1>2, <2>2 DEF IInv, TypeOK
<1>3. QED BY <1>1, <1>2

\* A crawled response is stored with an endpoint, or a further one.
LEMMA RecordedKeeps ==
    ASSUME IInv, NEW r \in Runs, NEW q \in Requests, NEW i \in Identities, NEW st \in Answers[q][i], NEW n \in 1..2,
           phase[r] = "crawling", traffic' = traffic \cup {Crawled(r, q, i, st)},
           \/ endpoints' = endpoints
           \/ /\ \A x \in EndpointsOf(r, PathOf[q]) : x[1] = r \/ JobOf(x[1]) # JobOf(r)
              /\ endpoints' = endpoints \cup {<<r, PathOf[q], n>>},
           UNCHANGED <<phase, todo, looked, missing, sessions, references, findings>>
    PROVE  IInv'
<1>1. st \in Statuses /\ PathOf[q] \in Paths
  BY ConstantsAssumption
<1> DEFINE x == Crawled(r, q, i, st)
<1>2. x.run = r /\ x.request = q /\ x.identity = i /\ x.status = st /\ x.attack = 0 /\ x.depth = 0
  BY DEF Crawled
<1> HIDE DEF x
<1>3. Active(r) /\ r[2] \in Nat
  BY RunParts DEF Active, Over
<1>4. /\ DuplicatesAcrossJobs' /\ endpoints' \subseteq Runs \X Paths \X (1..2)
      /\ \A y \in endpoints' : y \in endpoints \/ y[1] = r
  BY <1>1, <1>3, UpsertKeepsDuplicates
<1>5. traffic' = traffic \cup {x}
  BY DEF x
<1>6. TypeOK'
  <2>1. 0 \in 0..WorkflowTransition
    BY DEF WorkflowTransition
  <2>2. QED BY <1>1, <1>2, <1>4, <1>5, <2>1 DEF IInv, TypeOK, JobOf
<1>7. LineageSound'
  BY <1>2, <1>5 DEF IInv, LineageSound, Sees, JobOf, IsReplay
<1>8. SessionsShared' /\ LooksSound' /\ RefersOnce'
  BY SameSessions, SameLooks DEF IInv
<1>9. WriteStep(r)
  <2>1. DOMAIN todo' = Runs
    BY DEF IInv, TypeOK
  <2>2. QED BY <1>2, <1>3, <1>4, <1>5, <2>1 DEF WriteStep, IsReplay
<1>10. QED BY <1>4, <1>6, <1>7, <1>8, <1>9, WriteKeeps

LEMMA RecordKeeps ==
    ASSUME IInv, NEW r \in Runs, NEW q \in Requests, NEW i \in Identities, Record(r, q, i)
    PROVE  IInv'
<1>1. /\ phase[r] = "crawling" /\ UpsertEndpoint(r, PathOf[q])
      /\ UNCHANGED <<phase, todo, looked, missing, sessions, references, findings>>
  BY DEF Record
<1>2. PICK st \in Answers[q][i] : traffic' = traffic \cup {Crawled(r, q, i, st)}
  BY DEF Record
<1>3. \/ endpoints' = endpoints
      \/ EndpointsOf(r, PathOf[q]) = {} /\ endpoints' = endpoints \cup {<<r, PathOf[q], 1>>}
  BY <1>1 DEF UpsertEndpoint
<1>4. QED BY <1>1, <1>2, <1>3, RecordedKeeps

LEMMA RecordLateKeeps ==
    ASSUME IInv, NEW r \in Runs, NEW q \in Requests, NEW i \in Identities, RecordLate(r, q, i)
    PROVE  IInv'
<1>1. /\ phase[r] = "crawling"
      /\ \A x \in EndpointsOf(r, PathOf[q]) : x[1] = r \/ JobOf(x[1]) # JobOf(r)
      /\ UNCHANGED <<phase, todo, looked, missing, sessions, references, findings>>
  BY DEF RecordLate
<1>2. PICK st \in Answers[q][i] : traffic' = traffic \cup {Crawled(r, q, i, st)}
  BY DEF RecordLate
<1>3. PICK n \in 1..2 : endpoints' = endpoints \cup {<<r, PathOf[q], n>>}
  BY DEF RecordLate
<1>4. QED BY <1>1, <1>2, <1>3, RecordedKeeps

LEMMA ReplayKeeps ==
    ASSUME IInv, NEW r \in Runs, Replay(r)
    PROVE  IInv'
<1> DEFINE t == NextTarget(r)
<1>1. /\ phase[r] = "authorization_attacks" /\ todo[r] # {}
      /\ UpsertEndpoint(r, PathOf[t[2].request]) /\ Done(r, t)
      /\ UNCHANGED <<phase, looked, missing, sessions, references, findings>>
  BY DEF Replay
<1>2. PICK st \in Answers[t[2].request][t[3]] : traffic' = traffic \cup {Reply(r, st)}
  BY DEF Replay
<1>3. t \in todo[r] /\ t[1] \in Attacks /\ t[2] \in traffic /\ t[3] \in Identities
  BY <1>1, NextTargetIsLeft DEF IInv
<1> DEFINE x == Reply(r, st)
<1>4. /\ x.run = r /\ x.request = t[2].request /\ x.identity = t[3] /\ x.status = st
      /\ x.parent = t[2] /\ x.attack = t[1] /\ x.depth = t[2].depth + 1
  BY DEF Reply, Replayed
<1>5. traffic' = traffic \cup {x}
  BY <1>2
<1> HIDE DEF x, t
<1>6. t[2].request \in Requests /\ t[2].depth \in Nat /\ t[1] \in 1..5
  BY <1>3 DEF IInv, TypeOK, Attacks, BOLA, WorkflowTransition
<1>7. st \in Statuses /\ PathOf[t[2].request] \in Paths
  BY <1>3, <1>6, ConstantsAssumption
<1>8. Active(r) /\ r[2] \in Nat \ {0} /\ Attacked(r)
  BY <1>1, RunParts DEF Active, Over, Attacked
<1>9. /\ t[2].status = "success" /\ t[2].identity # t[3] /\ (t[2].run = r => t[2].attack = 0)
      /\ JobOf(t[2].run) = JobOf(r) /\ Sees(r, t[2].run)
  BY <1>1, <1>3 DEF IInv, TargetsSound, JobTraffic
<1>10. t[2].depth + 1 <= r[2]
  <2>1. CASE t[2].run = r
    <3>1. t[2].depth = 0
      BY <1>3, <1>9, <2>1 DEF IInv, RowsOfRuns, IsReplay
    <3>2. QED BY <1>8, <3>1
  <2>2. CASE t[2].run # r
    <3>1. t[2].run \in Runs /\ t[2].run[2] < r[2]
      BY <1>3, <1>8, <1>9, <2>2, EarlierDeliveries
    <3>2. t[2].depth <= t[2].run[2] /\ t[2].run[2] \in Nat
      BY <1>3, <3>1, RunParts DEF IInv, DepthWithinDeliveries
    <3>3. QED BY <1>6, <1>8, <3>1, <3>2
  <2>3. QED BY <2>1, <2>2
<1>11. /\ DuplicatesAcrossJobs' /\ endpoints' \subseteq Runs \X Paths \X (1..2)
       /\ \A y \in endpoints' : y \in endpoints \/ y[1] = r
  <2> DEFINE p == PathOf[t[2].request]
  <2>1. \/ endpoints' = endpoints
        \/ EndpointsOf(r, p) = {} /\ endpoints' = endpoints \cup {<<r, p, 1>>}
    BY <1>1 DEF UpsertEndpoint
  <2>2. p \in Paths /\ 1 \in 1..2 /\ references' = references
    BY <1>1, <1>7
  <2> HIDE DEF p
  <2>3. QED BY <1>8, <2>1, <2>2, UpsertKeepsDuplicates
<1>12. /\ DOMAIN todo' = Runs /\ todo'[r] = todo[r] \ {t}
       /\ \A s \in Runs : s # r => todo'[s] = todo[s]
       /\ \A s \in Runs : todo'[s] \subseteq todo[s]
  BY <1>1, DoneParts DEF IInv
<1>13. TypeOK'
  <2>1. t[1] \in 0..WorkflowTransition /\ t[2].depth + 1 \in Nat
    BY <1>6 DEF WorkflowTransition
  <2>2. \A y \in traffic' :
          /\ y.run \in Runs /\ y.request \in Requests /\ y.identity \in Identities
          /\ y.status \in Statuses /\ y.attack \in 0..WorkflowTransition /\ y.depth \in Nat
    BY <1>3, <1>4, <1>5, <1>6, <1>7, <2>1 DEF IInv, TypeOK
  <2>3. traffic \subseteq traffic'
    BY <1>5
  <2>4. \A s \in Runs :
          /\ phase[s] = "authenticating" => todo'[s] \subseteq JobIdentities[JobOf(s)]
          /\ phase[s] = "object_discovery" => todo'[s] \subseteq Identities \X Values
          /\ phase[s] = "authorization_attacks" => todo'[s] \subseteq Attacks \X traffic' \X Identities
          /\ phase[s] \notin {"authenticating", "object_discovery", "authorization_attacks"} => todo'[s] = {}
    BY <1>12, <2>3 DEF IInv, TypeOK
  <2>5. QED BY <1>1, <1>11, <1>12, <2>2, <2>3, <2>4 DEF IInv, TypeOK, JobOf
<1>14. LineageSound'
  <2>1. \A s, u : Sees(s, u)' = Sees(s, u)
    BY <1>1 DEF Sees
  <2>2. QED BY <1>3, <1>4, <1>5, <1>9, <2>1 DEF IInv, LineageSound, JobOf, IsReplay
<1>15. SessionsShared' /\ LooksSound' /\ RefersOnce'
  <2>1. \A s \in Runs : phase[s] \in {"authenticating", "object_discovery"} => todo'[s] = todo[s]
    BY <1>1, <1>12
  <2>2. QED BY <1>1, <2>1, SameSessions, SameLooks DEF IInv
<1>16. WriteStep(r)
  BY <1>1, <1>4, <1>5, <1>6, <1>8, <1>10, <1>11, <1>12 DEF WriteStep, IsReplay
<1>17. QED BY <1>11, <1>13, <1>14, <1>15, <1>16, WriteKeeps

\* Two runs that refer to the same thing of k, one of them only now and without
\* seeing the other's row, are both active and have logged k in.
LEMMA MissedIsConcurrent ==
    ASSUME IInv, NEW r \in Runs, phase[r] = "object_discovery", NEW s \in Runs, s # r, NEW key \in Identities \X Values,
           Found(r, references, key) = {}, <<s, key>> \in Refers
    PROVE  Active(r) /\ Active(s) /\ phase[s] # "authenticating"
<1>1. CASE <<s, key>> \in references
  <2>1. Lasts(s) /\ phase[s] # "authenticating"
    BY <1>1 DEF IInv, RowsOfRuns
  <2>2. phase[s] # "committed"
    BY <1>1 DEF Found, Sees
  <2>3. QED BY <2>1, <2>2 DEF Active, Over, Lasts
<1>2. CASE <<s, key>> \in missing
  BY <1>2 DEF IInv, LooksSound, Active, Over
<1>3. QED BY <1>1, <1>2 DEF Refers

LEMMA MissReferenceKeepsSessions ==
    ASSUME IInv, NEW r \in Runs, NEW key \in Identities \X Values, MissReference(r, key)
    PROVE  SessionsShared'
<1>1. /\ phase[r] = "object_discovery" /\ Found(r, references, key) = {}
      /\ Refers' = Refers \cup {<<r, key>>}
      /\ UNCHANGED <<phase, todo, looked, sessions>>
  BY DEF MissReference, Refers
<1>2. PICK k \in Identities, w \in Values : key = <<k, w>>
  OBVIOUS
<1>3. /\ \A s \in Runs, i \in Identities : LoggedIn(s, i)' = LoggedIn(s, i)
      /\ \A u, i, R : Backs(u, i, R)' = Backs(u, i, R)
  BY <1>1 DEF LoggedIn, Active, Over, JobOf, Backs
<1>4. ASSUME NEW s \in Runs, s # r, k \in JobIdentities[JobOf(r)], k \in JobIdentities[JobOf(s)], <<s, key>> \in Refers
      PROVE  \E p, q \in Runs : p # q /\ Backs(p, k, {r, s}) /\ Backs(q, k, {r, s})
  <2>1. Active(r) /\ Active(s) /\ phase[s] # "authenticating"
    BY <1>1, <1>4, MissedIsConcurrent
  <2>2. LoggedIn(s, k) /\ LoggedIn(r, k)
    BY <1>1, <1>4, <2>1 DEF LoggedIn
  <2>3. PICK p \in Runs : Backs(p, k, {s})
    BY <2>2 DEF IInv, SessionsShared
  <2>4. PICK q \in Runs : Backs(q, k, {r})
    BY <2>2 DEF IInv, SessionsShared
  <2>5. p # r /\ q # s
    BY <1>4, <2>1, <2>3, <2>4 DEF Backs, Active, Over
  <2>6. CASE <<r, k>> \in sessions
    BY <2>3, <2>5, <2>6 DEF Backs
  <2>7. CASE <<s, k>> \in sessions
    BY <2>4, <2>5, <2>7 DEF Backs
  <2>8. QED BY <1>4, <2>2, <2>6, <2>7 DEF IInv, SessionsShared
<1>5. ASSUME NEW s \in Runs, NEW u \in Runs, NEW i \in JobIdentities[JobOf(s)] \cap JobIdentities[JobOf(u)], NEW v \in Values,
             s # u, <<s, <<i, v>>>> \in Refers', <<u, <<i, v>>>> \in Refers'
      PROVE  \E p, q \in Runs : p # q /\ Backs(p, i, {s, u}) /\ Backs(q, i, {s, u})
  <2>1. CASE <<s, <<i, v>>>> \in Refers /\ <<u, <<i, v>>>> \in Refers
    BY <1>5, <2>1 DEF IInv, SessionsShared
  <2>2. CASE s = r /\ i = k /\ <<i, v>> = key /\ <<u, <<i, v>>>> \in Refers
    BY <1>4, <1>5, <2>2
  <2>3. CASE u = r /\ i = k /\ <<i, v>> = key /\ <<s, <<i, v>>>> \in Refers
    <3>1. {r, s} = {s, u}
      BY <2>3
    <3>2. QED BY <1>4, <1>5, <2>3, <3>1
  <2>4. QED BY <1>1, <1>2, <1>5, <2>1, <2>2, <2>3
<1>6. QED BY <1>1, <1>3, <1>5 DEF IInv, SessionsShared, JobOf

LEMMA MissReferenceKeeps ==
    ASSUME IInv, NEW r \in Runs, NEW key \in Identities \X Values, MissReference(r, key)
    PROVE  IInv'
<1>1. /\ phase[r] = "object_discovery" /\ key \in todo[r] /\ Found(r, references, key) = {}
      /\ missing' = missing \cup {<<r, key>>}
      /\ UNCHANGED <<phase, todo, looked, sessions, endpoints, traffic, references, findings>>
  BY DEF MissReference
<1>2. WriteStep(r)
  BY <1>1 DEF WriteStep, IInv, TypeOK
<1>3. TypeOK'
  <2>1. missing' \subseteq Runs \X (Identities \X Values)
    BY <1>1 DEF IInv, TypeOK
  <2>2. QED BY <1>1, <2>1 DEF IInv, TypeOK, JobOf
<1>4. LineageSound' /\ DuplicatesAcrossJobs'
  BY <1>1 DEF IInv, LineageSound, DuplicatesAcrossJobs, Sees, JobOf, IsReplay
<1>5. LooksSound'
  BY <1>1 DEF IInv, LooksSound
<1>6. RefersOnce'
  <2>1. ASSUME NEW s \in Runs, s # r, JobOf(s) = JobOf(r), <<s, key>> \in Refers PROVE FALSE
    <3>1. Active(r) /\ Active(s)
      BY <1>1, <2>1, MissedIsConcurrent
    <3>2. Sees(r, s)
      BY <2>1, <3>1, SameJobIsSeen DEF Active, Over, Lasts
    <3>3. QED BY <2>1, <3>1, <3>2 DEF Sees, Active, Over
  <2>2. Refers' = Refers \cup {<<r, key>>}
    BY <1>1 DEF Refers
  <2>3. QED BY <2>1, <2>2 DEF IInv, RefersOnce, JobOf
<1>7. QED BY <1>2, <1>3, <1>4, <1>5, <1>6, MissReferenceKeepsSessions, WriteKeeps

LEMMA InsertReferenceKeeps ==
    ASSUME IInv, NEW r \in Runs, NEW key \in Identities \X Values, InsertReference(r, key)
    PROVE  IInv'
<1>1. /\ <<r, key>> \in missing /\ missing' = missing \ {<<r, key>>} /\ references' = references \cup {<<r, key>>}
      /\ Done(r, key) /\ phase[r] = "object_discovery"
      /\ UNCHANGED <<phase, looked, sessions, endpoints, traffic, findings>>
  BY DEF InsertReference, IInv, LooksSound
<1>2. /\ DOMAIN todo' = Runs /\ todo'[r] = todo[r] \ {key}
      /\ \A s \in Runs : s # r => todo'[s] = todo[s]
      /\ \A s \in Runs : todo'[s] \subseteq todo[s]
  BY <1>1, DoneParts DEF IInv
<1>3. Refers' = Refers
  BY <1>1 DEF Refers
<1>4. WriteStep(r)
  BY <1>1, <1>2 DEF WriteStep
<1>5. TypeOK'
  <2>1. references' \subseteq Runs \X (Identities \X Values) /\ missing' \subseteq Runs \X (Identities \X Values)
    BY <1>1 DEF IInv, TypeOK
  <2>2. QED BY <1>1, <1>2, <2>1 DEF IInv, TypeOK, JobOf
<1>6. LineageSound'
  BY <1>1 DEF IInv, LineageSound, Sees, JobOf, IsReplay
<1>7. RefersOnce'
  BY <1>3 DEF IInv, RefersOnce, JobOf
<1>8. DuplicatesAcrossJobs'
  <2>1. references' \subseteq Refers
    BY <1>1 DEF Refers
  <2>2. \A s, u \in Runs, k \in Identities \X Values :
           JobOf(s) = JobOf(u) /\ <<s, k>> \in references' /\ <<u, k>> \in references' => s = u
    BY <2>1 DEF IInv, RefersOnce
  <2>3. QED BY <1>1, <2>2 DEF IInv, DuplicatesAcrossJobs, JobOf
<1>9. LooksSound'
  <2>1. \A x \in missing' : x \in missing /\ x # <<r, key>> /\ x[1] \in Runs /\ x = <<x[1], x[2]>>
    BY <1>1 DEF IInv, TypeOK
  <2>2. \A x \in missing' : x[2] \in todo'[x[1]]
    BY <1>2, <2>1 DEF IInv, LooksSound
  <2>3. \A x \in looked : x[1] \in Runs /\ x[1] # r
    BY <1>1 DEF IInv, LooksSound, TypeOK
  <2>4. QED BY <1>1, <1>2, <2>1, <2>2, <2>3 DEF IInv, LooksSound
<1>10. SessionsShared'
  <2>1. /\ \A s \in Runs, i \in Identities : LoggedIn(s, i)' = LoggedIn(s, i)
        /\ \A u, i, R : Backs(u, i, R)' = Backs(u, i, R)
    BY <1>1, <1>2 DEF LoggedIn, Active, Over, JobOf, Backs
  <2>2. QED BY <1>1, <1>3, <2>1 DEF IInv, SessionsShared, JobOf
<1>11. QED BY <1>4, <1>5, <1>6, <1>7, <1>8, <1>9, <1>10, WriteKeeps

LEMMA FindReferenceKeeps ==
    ASSUME IInv, NEW r \in Runs, NEW key \in Identities \X Values, FindReference(r, key)
    PROVE  IInv'
<1>1. /\ phase[r] = "object_discovery" /\ Done(r, key) /\ \A x \in missing : x[1] # r
      /\ UNCHANGED <<phase, looked, missing, sessions, endpoints, traffic, references, findings>>
  BY DEF FindReference
<1>2. /\ DOMAIN todo' = Runs /\ todo'[r] = todo[r] \ {key}
      /\ \A s \in Runs : s # r => todo'[s] = todo[s]
      /\ \A s \in Runs : todo'[s] \subseteq todo[s]
  BY <1>1, DoneParts DEF IInv
<1>3. WriteStep(r)
  BY <1>1, <1>2 DEF WriteStep
<1>4. TypeOK'
  BY <1>1, <1>2 DEF IInv, TypeOK, JobOf
<1>5. LineageSound' /\ DuplicatesAcrossJobs'
  BY <1>1 DEF IInv, LineageSound, DuplicatesAcrossJobs, Sees, JobOf, IsReplay
<1>6. LooksSound' /\ RefersOnce'
  <2>1. LooksSound'
    BY <1>1, <1>2 DEF IInv, LooksSound, TypeOK
  <2>2. RefersOnce'
    BY <1>1 DEF IInv, RefersOnce, Refers, JobOf
  <2>3. QED BY <2>1, <2>2
<1>7. SessionsShared'
  <2>1. \A s \in Runs : phase[s] = "authenticating" => todo'[s] = todo[s]
    BY <1>1, <1>2
  <2>2. QED BY <1>1, <2>1, SameSessions DEF IInv
<1>8. QED BY <1>3, <1>4, <1>5, <1>6, <1>7, WriteKeeps

-----------------------------------------------------------------------------
(* A run is rolled back.                                                     *)

LEMMA RollBackKeeps ==
    ASSUME IInv, NEW r \in Runs, Active(r), RollBack(r)
    PROVE  IInv'
<1>1. /\ phase' \in [Runs -> Phase] /\ phase'[r] = "failed"
      /\ \A s \in Runs : s # r => phase'[s] = phase[s]
      /\ DOMAIN todo' = Runs /\ todo'[r] = {}
      /\ \A s \in Runs : s # r => todo'[s] = todo[s]
  BY DEF RollBack, IInv, TypeOK, Phase
<1>2. /\ sessions' = {x \in sessions : x[1] # r}
      /\ endpoints' = {x \in endpoints : x[1] # r}
      /\ references' = {x \in references : x[1] # r}
      /\ traffic' = {x \in traffic : x.run # r}
      /\ findings' = {x \in findings : x[1] # r}
  BY DEF RollBack
<1>2d. /\ looked' = {x \in looked : x[1] # r}
       /\ missing' = {x \in missing : x[1] # r}
       /\ Refers' = {x \in Refers : x[1] # r}
  BY DEF RollBack, Refers
<1>2a. \A x \in traffic : x.run # r <=> x \in traffic'
  BY <1>2
<1>2b. \A x \in traffic' : x \in traffic /\ x.run # r
  BY <1>2
<1>2c. \A f : f \in findings' <=> f \in findings /\ f[1] # r
  BY <1>2
<1>3. phase[r] \notin {"new", "committed", "failed"}
  BY DEF Active, Over
<1>4. /\ \A s \in Runs : phase[s] = "committed" <=> phase'[s] = "committed"
      /\ \A s \in Runs : s # r => Lasts(s)' = Lasts(s) /\ Attacked(s)' = Attacked(s)
      /\ \A s \in Runs : Over(s) => Over(s)'
  BY <1>1, <1>3 DEF Lasts, Attacked, Over
<1>4a. \A s, u \in Runs : s # r => Sees(s, u)' = Sees(s, u)
  BY <1>1, <1>3 DEF Sees
<1>4b. \A s, u \in Runs : s # r /\ Sees(s, u) => u # r
  BY <1>3 DEF Sees
<1>5. \A x \in traffic : x.run \in Runs
  BY DEF IInv, TypeOK
<1>6. \A f \in findings : f[1] \in Runs /\ f[2] \in traffic /\ f[2].run \in Runs /\ Sees(f[1], f[2].run)
  BY DEF IInv, TypeOK, RowsOfRuns
<1>7. \A f \in findings' : f \in findings /\ f[1] # r /\ f[2] \in traffic'
  BY <1>2a, <1>2c, <1>4b, <1>6
<1>8. TargetsSound'
  <2>1. ASSUME NEW s \in Runs, s # r PROVE JobTraffic(s) \subseteq JobTraffic(s)'
    BY <1>2a, <1>4a, <1>4b, <1>5, <2>1 DEF JobTraffic, JobOf
  <2>2. \A s \in Runs : phase'[s] = "authorization_attacks" => s # r
    BY <1>1
  <2>3. QED BY <1>1, <2>1, <2>2 DEF IInv, TargetsSound
<1>9. TypeOK'
  <2>1. ASSUME NEW s \in Runs, s # r, phase[s] = "authorization_attacks"
        PROVE  todo[s] \subseteq Attacks \X traffic' \X Identities
    <3>1. \A t \in todo[s] : t \in Attacks \X traffic \X Identities /\ t[2] \in JobTraffic(s)
      BY <2>1 DEF IInv, TypeOK, TargetsSound
    <3>2. JobTraffic(s) \subseteq traffic'
      BY <1>2a, <1>4b, <1>5, <2>1 DEF JobTraffic
    <3>3. QED BY <3>1, <3>2
  <2>2. findings' \subseteq Runs \X traffic'
    BY <1>7 DEF IInv, TypeOK
  <2>3. \A x \in traffic' :
          /\ x.run \in Runs /\ x.request \in Requests /\ x.identity \in Identities
          /\ x.status \in Statuses /\ x.attack \in 0..WorkflowTransition /\ x.depth \in Nat
    BY <1>2 DEF IInv, TypeOK
  <2>4. /\ sessions' \subseteq Runs \X Identities
        /\ endpoints' \subseteq Runs \X Paths \X (1..2)
        /\ looked' \subseteq Runs \X Identities \X {0, 1}
        /\ missing' \subseteq Runs \X (Identities \X Values)
        /\ references' \subseteq Runs \X (Identities \X Values)
    BY <1>2, <1>2d DEF IInv, TypeOK
  <2>5. \A s \in Runs :
          /\ phase'[s] = "authenticating" => todo'[s] \subseteq JobIdentities[JobOf(s)]
          /\ phase'[s] = "object_discovery" => todo'[s] \subseteq Identities \X Values
          /\ phase'[s] = "authorization_attacks" => todo'[s] \subseteq Attacks \X traffic' \X Identities
          /\ phase'[s] \notin {"authenticating", "object_discovery", "authorization_attacks"} => todo'[s] = {}
    BY <1>1, <2>1 DEF IInv, TypeOK
  <2>6. QED BY <1>1, <2>2, <2>3, <2>4, <2>5 DEF TypeOK, JobOf
<1>10. RunsInOrder'
  <2>1. \A s \in Runs : phase'[s] # "new" => phase[s] # "new"
    BY <1>1, <1>3
  <2>2. QED BY <1>4, <2>1 DEF IInv, RunsInOrder, JobOf
<1>11. RowsOfRuns'
  <2>1. /\ \A x \in sessions' : Lasts(x[1])'
        /\ \A x \in endpoints' : Lasts(x[1])'
    BY <1>2, <1>4 DEF IInv, RowsOfRuns, TypeOK
  <2>1a. \A f \in findings' : Lasts(f[1])' /\ Sees(f[1], f[2].run)'
    <3>1. \A f \in findings : Lasts(f[1])
      BY DEF IInv, RowsOfRuns
    <3>2. QED BY <1>2c, <1>4, <1>4a, <1>6, <3>1
  <2>2. \A x \in references' : Lasts(x[1])' /\ phase'[x[1]] # "authenticating"
    BY <1>1, <1>2, <1>4 DEF IInv, RowsOfRuns, TypeOK
  <2>3. \A x \in traffic' : Lasts(x.run)' /\ IF IsReplay(x) THEN Attacked(x.run)' ELSE x.depth = 0
    <3>1. \A x \in traffic : Lasts(x.run) /\ IF IsReplay(x) THEN Attacked(x.run) ELSE x.depth = 0
      BY DEF IInv, RowsOfRuns
    <3>2. QED BY <1>2b, <1>4, <1>5, <3>1
  <2>4. QED BY <2>1, <2>1a, <2>2, <2>3 DEF RowsOfRuns, IsReplay
<1>12. LineageSound'
  <2>1. ASSUME NEW x \in traffic, x.run # r, IsReplay(x) PROVE x.parent.run # r
    <3>1. x.parent \in traffic /\ Sees(x.run, x.parent.run)
      BY <2>1 DEF IInv, LineageSound
    <3>2. QED BY <1>4b, <1>5, <2>1, <3>1
  <2>2. ASSUME NEW x \in traffic', IsReplay(x)
        PROVE  x \in traffic /\ x.parent \in traffic' /\ Sees(x.run, x.parent.run)'
    <3>1. x \in traffic /\ x.run # r
      BY <1>2b
    <3>2. x.parent \in traffic /\ Sees(x.run, x.parent.run)
      BY <2>2, <3>1 DEF IInv, LineageSound
    <3>3. x.parent \in traffic'
      BY <1>2a, <2>1, <2>2, <3>1, <3>2
    <3>4. Sees(x.run, x.parent.run)'
      BY <1>4a, <1>5, <3>1, <3>2
    <3>5. QED BY <3>1, <3>3, <3>4
  <2>3. QED BY <2>2 DEF IInv, LineageSound, JobOf, IsReplay
<1>13. DepthWithinDeliveries' /\ DuplicatesAcrossJobs'
  BY <1>2 DEF IInv, DepthWithinDeliveries, DuplicatesAcrossJobs, JobOf
<1>14. FindingsExact'
  <2>1. ASSUME NEW s \in Runs, phase'[s] \in {"graph", "committed"}, NEW x \in traffic',
               Exploitable(x), JobOf(x.run) = JobOf(s), x.run[2] <= s[2]
        PROVE  <<s, x>> \in findings'
    <3>1. s # r /\ phase[s] \in {"graph", "committed"} /\ x \in traffic
      BY <1>1, <1>2, <2>1
    <3>2. <<s, x>> \in findings
      BY <2>1, <3>1 DEF IInv, FindingsExact
    <3>3. QED BY <1>2, <3>1, <3>2
  <2>2. QED BY <1>7, <2>1 DEF IInv, FindingsExact, JobOf, Exploitable, IsReplay, Verdict
<1>15. SessionsShared'
  <2>1. \A s \in Runs, i \in Identities : LoggedIn(s, i)' => LoggedIn(s, i) /\ s # r
    BY <1>1 DEF LoggedIn, Active, Over, JobOf
  <2>2. ASSUME NEW u \in Runs, NEW i \in Identities, NEW R, r \notin R, Backs(u, i, R) PROVE Backs(u, i, R)'
    BY <1>2, <1>3, <1>4, <2>2 DEF Backs
  <2>3. ASSUME NEW s \in Runs, NEW i \in Identities, LoggedIn(s, i)' \/ <<s, i, 1>> \in looked'
        PROVE  \E u \in Runs : Backs(u, i, {s})'
    <3>1. s # r /\ (LoggedIn(s, i) \/ <<s, i, 1>> \in looked)
      BY <1>2d, <2>1, <2>3
    <3>1a. \E u \in Runs : Backs(u, i, {s})
      BY <3>1 DEF IInv, SessionsShared
    <3>2. QED BY <2>2, <3>1, <3>1a
  <2>4. ASSUME NEW s \in Runs, NEW u \in Runs, NEW i \in Identities, LoggedIn(s, i)', LoggedIn(u, i)', s # u
        PROVE  <<s, i>> \in sessions' \/ <<u, i>> \in sessions'
    BY <1>2, <2>1, <2>4 DEF IInv, SessionsShared
  <2>5. ASSUME NEW s \in Runs, NEW u \in Runs, NEW i \in JobIdentities[JobOf(s)] \cap JobIdentities[JobOf(u)], NEW v \in Values,
               s # u, <<s, <<i, v>>>> \in Refers', <<u, <<i, v>>>> \in Refers'
        PROVE  \E p, q \in Runs : p # q /\ Backs(p, i, {s, u})' /\ Backs(q, i, {s, u})'
    <3>1. s # r /\ u # r /\ \E p, q \in Runs : p # q /\ Backs(p, i, {s, u}) /\ Backs(q, i, {s, u})
      BY <1>2d, <2>5 DEF IInv, SessionsShared
    <3>2. r \notin {s, u} /\ i \in Identities
      BY <3>1, RunParts, ConstantsAssumption
    <3>3. QED BY <2>2, <3>1, <3>2
  <2>6. QED BY <2>3, <2>4, <2>5 DEF SessionsShared, JobOf
<1>15a. LooksSound' /\ RefersOnce'
  <2>1. RefersOnce'
    BY <1>2d DEF IInv, RefersOnce, JobOf
  <2>2. LooksSound'
    BY <1>1, <1>2d DEF IInv, LooksSound, TypeOK
  <2>3. QED BY <2>1, <2>2
<1>16. QED BY <1>8, <1>9, <1>10, <1>11, <1>12, <1>13, <1>14, <1>15, <1>15a DEF IInv

-----------------------------------------------------------------------------
(* The theorems.                                                             *)

LEMMA InitHolds == Init => IInv
<1> SUFFICES ASSUME Init PROVE IInv
  OBVIOUS
<1>1. \A r \in Runs : phase[r] = "new" /\ todo[r] = {}
  BY DEF Init
<1>2. \A r \in Runs, i \in Identities : ~LoggedIn(r, i)
  BY <1>1 DEF LoggedIn, Active
<1>3. TypeOK
  BY <1>1 DEF Init, TypeOK, Phase
<1>4. RunsInOrder /\ RowsOfRuns /\ TargetsSound /\ LineageSound /\ DepthWithinDeliveries
  BY <1>1 DEF Init, RunsInOrder, RowsOfRuns, TargetsSound, LineageSound, DepthWithinDeliveries
<1>5. FindingsExact /\ DuplicatesAcrossJobs /\ LooksSound /\ RefersOnce
  BY <1>1 DEF Init, FindingsExact, DuplicatesAcrossJobs, LooksSound, RefersOnce, Refers
<1>6. SessionsShared
  BY <1>2 DEF Init, SessionsShared, Refers
<1>7. QED BY <1>3, <1>4, <1>5, <1>6 DEF IInv

LEMMA StepKeeps == ASSUME IInv, NEW r \in Runs, Step(r) PROVE IInv'
<1>1. ASSUME RollBack(r), phase[r] \in {"authenticating", "object_discovery", "authorization_attacks"} PROVE IInv'
  BY <1>1, RollBackKeeps DEF Active, Over
<1>2. ASSUME NEW i \in Identities, SelectSession(r, i) \/ SeveralSessions(r, i) \/ InsertSession(r, i) \/ UpdateSession(r, i)
      PROVE  IInv'
  BY <1>1, <1>2, SelectSessionKeeps, InsertSessionKeeps, UpdateSessionKeeps DEF SeveralSessions
<1>2a. CASE Deadlocked(r)
  <2>1. RollBack(r)
    BY <1>2a DEF Deadlocked
  <2>2. PICK s \in Runs : WaitsFor(r, s)
    BY <1>2a DEF Deadlocked
  <2>3. phase[r] = "authenticating"
    BY <2>2 DEF WaitsFor, IInv, LooksSound
  <2>4. QED BY <1>1, <2>1, <2>3
<1>3. CASE StartCrawl(r) \/ StartDiscovery(r) \/ StartAttacks(r) \/ StartReasoning(r) \/ Reason(r) \/ Commit(r)
  BY <1>3, StartCrawlKeeps, StartDiscoveryKeeps, StartAttacksKeeps, StartReasoningKeeps, ReasonKeeps, CommitKeeps
<1>4. ASSUME NEW q \in Requests, NEW i \in Identities, Record(r, q, i) \/ RecordLate(r, q, i) PROVE IInv'
  BY <1>4, RecordKeeps, RecordLateKeeps
<1>5. ASSUME NEW key \in Identities \X Values, 
             MissReference(r, key) \/ FindReference(r, key) \/ InsertReference(r, key) \/ SeveralReferences(r, key)
      PROVE  IInv'
  BY <1>1, <1>5, MissReferenceKeeps, FindReferenceKeeps, InsertReferenceKeeps DEF SeveralReferences
<1>6. CASE Replay(r)
  BY <1>6, ReplayKeeps
<1>7. CASE SeveralEndpoints(r)
  BY <1>1, <1>7 DEF SeveralEndpoints
<1>8. QED BY <1>2, <1>2a, <1>3, <1>4, <1>5, <1>6, <1>7 DEF Step

LEMMA StutterKeeps == ASSUME IInv, UNCHANGED vars PROVE IInv'
<1>1. /\ phase' = phase /\ todo' = todo /\ looked' = looked /\ missing' = missing
      /\ sessions' = sessions /\ endpoints' = endpoints
      /\ traffic' = traffic /\ references' = references /\ findings' = findings
  BY DEF vars
<1>2. TypeOK' /\ RunsInOrder' /\ RowsOfRuns' /\ TargetsSound'
  BY <1>1 DEF IInv, TypeOK, RunsInOrder, RowsOfRuns, TargetsSound, JobTraffic, Sees, Lasts, Attacked, Over, JobOf, IsReplay
<1>3. LineageSound' /\ DepthWithinDeliveries' /\ FindingsExact' /\ DuplicatesAcrossJobs'
  BY <1>1 DEF IInv, LineageSound, DepthWithinDeliveries, FindingsExact, DuplicatesAcrossJobs, Sees, JobOf,
              IsReplay, Exploitable, Verdict
<1>4. SessionsShared' /\ LooksSound' /\ RefersOnce'
  BY <1>1, SameSessions DEF IInv, LooksSound, RefersOnce, Refers, JobOf
<1>5. QED BY <1>2, <1>3, <1>4 DEF IInv

\* The inductive invariant of the runs holds for any jobs and any faults.
THEOREM Invariance == Spec => []IInv
<1>1. Init => IInv
  BY InitHolds
<1>2. IInv /\ [Next]_vars => IInv'
  <2> SUFFICES ASSUME IInv, [Next]_vars PROVE IInv'
    OBVIOUS
  <2>1. CASE UNCHANGED vars
    BY <2>1, StutterKeeps
  <2>2. ASSUME NEW r \in Runs, StartRun(r) \/ Step(r) \/ FailRun(r) PROVE IInv'
    BY <2>2, StartRunKeeps, StepKeeps, RollBackKeeps DEF FailRun
  <2>3. QED BY <2>1, <2>2 DEF Next
<1>3. QED BY <1>1, <1>2, PTL DEF Spec

\* Rows and work are of their types.
THEOREM TypeCorrect == Spec => []TypeOK
<1>1. IInv => TypeOK
  BY DEF IInv
<1>2. QED BY <1>1, Invariance, PTL

\* Every replay can be traced to the crawl, whatever is rolled back.
THEOREM LineageIsSound == Spec => []LineageSound
<1>1. IInv => LineageSound
  BY DEF IInv
<1>2. QED BY <1>1, Invariance, PTL

\* The depth of a replay is at most the number of the delivery that made it.
THEOREM DepthIsBounded == Spec => []DepthWithinDeliveries
<1>1. IInv => DepthWithinDeliveries
  BY DEF IInv
<1>2. QED BY <1>1, Invariance, PTL

\* A run reports the exploitable attempts of its job, all of them and no others.
THEOREM FindingsAreExact == Spec => []FindingsExact
<1>1. IInv => FindingsExact
  BY DEF IInv
<1>2. QED BY <1>1, Invariance, PTL

\* The runs of one job insert no endpoint and no reference twice.
THEOREM NoDuplicatesInAJob == Spec => []DuplicatesAcrossJobs
<1>1. IInv => DuplicatesAcrossJobs
  BY DEF IInv
<1>2. QED BY <1>1, Invariance, PTL

\* Jobs that share an identity store its references twice only after they have
\* stored its session twice.
THEOREM DuplicatesNeedTwoSessions == Spec => []SharedReferences
<1>1. ASSUME IInv, NEW r \in Runs, NEW s \in Runs, NEW i \in JobIdentities[JobOf(r)] \cap JobIdentities[JobOf(s)],
             NEW v \in Values, r # s, phase[r] = "committed", phase[s] = "committed",
             <<r, <<i, v>>>> \in references, <<s, <<i, v>>>> \in references
      PROVE  \E u, w \in Runs :
                /\ u # w /\ phase[u] = "committed" /\ phase[w] = "committed"
                /\ <<u, i>> \in sessions /\ <<w, i>> \in sessions
  <2>1. PICK u, w \in Runs : u # w /\ Backs(u, i, {r, s}) /\ Backs(w, i, {r, s})
    BY <1>1 DEF IInv, SessionsShared, Refers
  <2>2. QED BY <1>1, <2>1 DEF Backs
<1>2. IInv => SharedReferences
  BY <1>1 DEF SharedReferences
<1>3. QED BY <1>2, Invariance, PTL

-----------------------------------------------------------------------------
(* The runs implement ReportedFlaws.                                         *)

\* Whether an attempt is exploitable depends on nothing but the attempt.
LEMMA ExploitableIsRigid == \A x : Exploitable(x)' = Exploitable(x)
BY DEF Exploitable, IsReplay, Verdict

\* r writes and removes rows of its own.
OwnRowsOnly(r) ==
    /\ \A s \in Runs : s # r => phase'[s] = phase[s]
    /\ \A x \in traffic : x \in traffic' \/ x.run = r
    /\ \A x \in traffic' : x \in traffic \/ x.run = r
    /\ \A f \in findings : f \in findings' \/ f[1] = r
    /\ \A f \in findings' : f \in findings \/ f[1] = r

\* A run that is not committed is hidden from readers.
LEMMA HiddenStep ==
    ASSUME IInv, NEW r \in Runs, OwnRowsOnly(r), phase[r] # "committed", phase'[r] # "committed"
    PROVE  VisibleFlaws' = VisibleFlaws /\ VisibleReports' = VisibleReports
<1>1. /\ \A x \in traffic : x.run \in Runs
      /\ \A f \in findings : f[1] \in Runs
  BY DEF IInv, TypeOK
<1>2. \A x : x \in VisibleFlaws' <=> x \in VisibleFlaws
  BY <1>1, ExploitableIsRigid DEF OwnRowsOnly, VisibleFlaws
<1>3. \A f : f \in VisibleReports' <=> f \in VisibleReports
  BY <1>1 DEF OwnRowsOnly, VisibleReports
<1>4. QED BY <1>2, <1>3 DEF VisibleFlaws, VisibleReports

LEMMA RollBackHidden ==
    ASSUME IInv, NEW r \in Runs, phase[r] # "committed", RollBack(r)
    PROVE  VisibleFlaws' = VisibleFlaws /\ VisibleReports' = VisibleReports
<1>1. OwnRowsOnly(r) /\ phase'[r] = "failed"
  BY DEF RollBack, OwnRowsOnly, IInv, TypeOK
<1>2. QED BY <1>1, HiddenStep

\* The stages of a run before its end.
LEMMA StageHidden ==
    ASSUME IInv, NEW r \in Runs, NEW from \in Phase \ {"committed"}, NEW to \in Phase \ {"committed"}, NEW work,
           Enter(r, from, to, work), traffic' = traffic,
           \A f \in findings : f \in findings' \/ f[1] = r,
           \A f \in findings' : f \in findings \/ f[1] = r
    PROVE  VisibleFlaws' = VisibleFlaws /\ VisibleReports' = VisibleReports
<1>0. TypeOK /\ to \in Phase
  BY DEF IInv
<1>1. phase[r] = from /\ phase'[r] = to /\ \A s \in Runs : s # r => phase'[s] = phase[s]
  BY <1>0 DEF Enter, TypeOK
<1>2. OwnRowsOnly(r)
  BY <1>1 DEF OwnRowsOnly
<1>3. QED BY <1>1, <1>2, HiddenStep

LEMMA StepHidden ==
    ASSUME IInv, NEW r \in Runs, StartRun(r) \/ Step(r) \/ FailRun(r), ~Commit(r)
    PROVE  VisibleFlaws' = VisibleFlaws /\ VisibleReports' = VisibleReports
<1>1. CASE RollBack(r) /\ phase[r] # "committed"
  BY <1>1, RollBackHidden
<1>2. CASE phase' = phase /\ phase[r] # "committed" /\ OwnRowsOnly(r)
  BY <1>2, HiddenStep
<1>3. CASE FailRun(r)
  BY <1>1, <1>3 DEF FailRun, Active, Over
<1>4. CASE StartRun(r)
  BY <1>4, StageHidden DEF StartRun, Phase
<1>5. CASE StartCrawl(r)
  BY <1>5, StageHidden DEF StartCrawl, Phase
<1>6. CASE StartDiscovery(r)
  BY <1>6, StageHidden DEF StartDiscovery, Phase
<1>7. CASE StartAttacks(r)
  <2>1. PICK left \in SUBSET BolaDoubtful(r) :
            Enter(r, "object_discovery", "authorization_attacks", Targets(r, BolaRows(r) \ left))
    BY <1>7 DEF StartAttacks
  <2>2. QED BY <1>7, <2>1, StageHidden DEF StartAttacks, Phase
<1>8. CASE StartReasoning(r)
  BY <1>8, StageHidden DEF StartReasoning, Phase
<1>9. CASE Reason(r)
  BY <1>9, StageHidden DEF Reason, Phase
<1>10. ASSUME NEW i \in Identities,
              SelectSession(r, i) \/ SeveralSessions(r, i) \/ InsertSession(r, i) \/ UpdateSession(r, i)
       PROVE  VisibleFlaws' = VisibleFlaws /\ VisibleReports' = VisibleReports
  <2>1. phase[r] # "committed"
    BY <1>10 DEF SelectSession, SeveralSessions, InsertSession, UpdateSession, IInv, LooksSound
  <2>2. CASE SeveralSessions(r, i)
    BY <1>1, <2>1, <2>2 DEF SeveralSessions
  <2>3. CASE ~SeveralSessions(r, i)
    BY <1>2, <1>10, <2>1, <2>3 DEF SelectSession, InsertSession, UpdateSession, LoggedInAs, OwnRowsOnly
  <2>4. QED BY <2>2, <2>3
<1>11. CASE Deadlocked(r)
  <2>1. RollBack(r)
    BY <1>11 DEF Deadlocked
  <2>2. PICK s \in Runs : WaitsFor(r, s)
    BY <1>11 DEF Deadlocked
  <2>3. phase[r] # "committed"
    BY <2>2 DEF WaitsFor, IInv, LooksSound
  <2>4. QED BY <1>1, <2>1, <2>3
<1>12. ASSUME NEW q \in Requests, NEW i \in Identities, Record(r, q, i) \/ RecordLate(r, q, i)
       PROVE  VisibleFlaws' = VisibleFlaws /\ VisibleReports' = VisibleReports
  <2>1. PICK st : traffic' = traffic \cup {Crawled(r, q, i, st)}
    BY <1>12 DEF Record, RecordLate
  <2>2. Crawled(r, q, i, st).run = r
    BY DEF Crawled
  <2>3. phase' = phase /\ findings' = findings /\ phase[r] # "committed"
    BY <1>12 DEF Record, RecordLate
  <2>4. OwnRowsOnly(r)
    BY <2>1, <2>2, <2>3 DEF OwnRowsOnly
  <2>5. QED BY <1>2, <2>3, <2>4
<1>13. ASSUME NEW key \in Identities \X Values,
              MissReference(r, key) \/ FindReference(r, key) \/ InsertReference(r, key) \/ SeveralReferences(r, key)
       PROVE  VisibleFlaws' = VisibleFlaws /\ VisibleReports' = VisibleReports
  <2>1. phase[r] # "committed"
    BY <1>13 DEF MissReference, FindReference, InsertReference, SeveralReferences, IInv, LooksSound
  <2>2. CASE SeveralReferences(r, key)
    BY <1>1, <2>1, <2>2 DEF SeveralReferences
  <2>3. CASE ~SeveralReferences(r, key)
    BY <1>2, <1>13, <2>1, <2>3 DEF MissReference, FindReference, InsertReference, OwnRowsOnly
  <2>4. QED BY <2>2, <2>3
<1>14. CASE Replay(r)
  <2>1. PICK st : traffic' = traffic \cup {Reply(r, st)}
    BY <1>14 DEF Replay
  <2>2. OwnRowsOnly(r) /\ phase' = phase /\ phase[r] # "committed"
    BY <1>14, <2>1 DEF Replay, Reply, Replayed, OwnRowsOnly
  <2>3. QED BY <1>2, <2>2
<1>15. CASE SeveralEndpoints(r)
  BY <1>1, <1>15 DEF SeveralEndpoints
<1>16. QED BY <1>3, <1>4, <1>5, <1>6, <1>7, <1>8, <1>9, <1>10, <1>11, <1>12, <1>13, <1>14, <1>15 DEF Step

\* What a run has found when it commits is what a reader then sees of its job.
LEMMA CommitPublishes ==
    ASSUME IInv, NEW r \in Runs, Commit(r)
    PROVE  Reader!Publish(r)
<1>1. /\ phase[r] = "graph" /\ phase'[r] = "committed"
      /\ \A s \in Runs : s # r => phase'[s] = phase[s]
      /\ traffic' = traffic /\ findings' = findings
  BY EnterParts DEF Commit, Phase, IInv
<1>2. /\ \A x \in traffic : x.run \in Runs
      /\ \A f \in findings : f[1] \in Runs /\ f[2] \in traffic /\ f = <<f[1], f[2]>>
  BY DEF IInv, TypeOK
<1>3. \A x : x \in VisibleFlaws' <=> x \in VisibleFlaws \/ (x \in traffic /\ Exploitable(x) /\ x.run = r)
  BY <1>1, <1>2, ExploitableIsRigid DEF VisibleFlaws
<1>4. \A f : f \in VisibleReports' <=> f \in VisibleReports \/ (f \in findings /\ f[1] = r)
  BY <1>1, <1>2 DEF VisibleReports
<1>5. ASSUME NEW f \in findings, f[1] = r PROVE f[2] \in VisibleFlaws' /\ f[2].run[1] = r[1]
  <2>1. Exploitable(f[2]) /\ JobOf(f[2].run) = JobOf(f[1]) /\ Sees(r, f[2].run)
    BY <1>5 DEF IInv, FindingsExact, RowsOfRuns
  <2>2. QED BY <1>2, <1>3, <1>5, <2>1 DEF Sees, VisibleFlaws, JobOf
<1>6. ASSUME NEW x \in VisibleFlaws', x.run[1] = r[1] PROVE <<r, x>> \in findings
  <2>1. x \in traffic /\ Exploitable(x) /\ x.run \in Runs /\ (x.run = r \/ phase[x.run] = "committed")
    BY <1>2, <1>3, <1>6 DEF VisibleFlaws
  <2>2. x.run[2] <= r[2]
    <3>1. x.run[2] \in Nat /\ r[2] \in Nat
      BY <2>1, RunParts
    <3>2. ASSUME r[2] < x.run[2] PROVE FALSE
      <4>1. phase[x.run] = "committed"
        BY <2>1, <3>1, <3>2
      <4>2. Over(r)
        BY <1>6, <2>1, <3>2, <4>1 DEF IInv, RunsInOrder, JobOf
      <4>3. QED BY <1>1, <4>2 DEF Over
    <3>3. QED BY <3>1, <3>2
  <2>3. QED BY <1>1, <1>6, <2>1, <2>2 DEF IInv, FindingsExact, JobOf
<1>7. \A x \in VisibleFlaws : x.run # r
  BY <1>1 DEF VisibleFlaws
<1>8. \A f \in VisibleReports : f[1] # r
  BY <1>1 DEF VisibleReports
<1>9. VisibleFlaws \subseteq VisibleFlaws' /\ \A x \in VisibleFlaws' \ VisibleFlaws : x.run = r
  BY <1>3
<1>10. VisibleReports' = VisibleReports \cup {<<r, x>> : x \in {y \in VisibleFlaws' : y.run[1] = r[1]}}
  <2>1. \A f \in VisibleReports' : f \in VisibleReports \/ \E x \in VisibleFlaws' : x.run[1] = r[1] /\ f = <<r, x>>
    BY <1>2, <1>4, <1>5
  <2>2. \A x \in VisibleFlaws' : x.run[1] = r[1] => <<r, x>> \in VisibleReports'
    BY <1>4, <1>6
  <2>3. \A f \in VisibleReports : f \in VisibleReports'
    BY <1>4
  <2>4. QED BY <2>1, <2>2, <2>3
<1>11. QED BY <1>7, <1>8, <1>9, <1>10 DEF Reader!Publish

\* A reader of the findings sees whole runs, whose reports are about exactly
\* the exploitable attempts of the job that it sees.
THEOREM ReaderRefinement == Spec => ReportsMatchFlaws
<1>1. Init => Reader!Init
  BY DEF Init, Reader!Init, VisibleFlaws, VisibleReports
<1>2. IInv /\ [Next]_vars => [Reader!Next]_<<VisibleFlaws, VisibleReports>>
  <2> SUFFICES ASSUME IInv, [Next]_vars
               PROVE  Reader!Next \/ UNCHANGED <<VisibleFlaws, VisibleReports>>
    OBVIOUS
  <2>1. CASE UNCHANGED vars
    BY <2>1, ExploitableIsRigid DEF vars, VisibleFlaws, VisibleReports
  <2>2. ASSUME NEW r \in Runs, StartRun(r) \/ Step(r) \/ FailRun(r)
        PROVE  Reader!Next \/ UNCHANGED <<VisibleFlaws, VisibleReports>>
    <3>1. CASE Commit(r)
      BY <3>1, CommitPublishes DEF Reader!Next
    <3>2. CASE ~Commit(r)
      BY <2>2, <3>2, StepHidden
    <3>3. QED BY <3>1, <3>2
  <2>3. QED BY <2>1, <2>2 DEF Next
<1>3. QED BY <1>1, <1>2, Invariance, PTL DEF Spec, ReportsMatchFlaws, Reader!Spec

=============================================================================
