------------------------- MODULE SharedScanner_proof -------------------------
(* What holds of any number of scans on one ZAP daemon, in whatever order it *)
(* and the applications answer them.                                         *)
EXTENDS SharedScanner, AuthContexts_proof, FiniteSetTheorems

\* The daemon and the validation leave the stored sessions alone.
LEMMA ScansKeepContexts ==
    ASSUME NEW s \in Scans, RunScan(s)
    PROVE  UNCHANGED contextVars
BY DEF RunScan, ClearRules, AddRule, VerifyAccess, SkipBridge, OpenTarget, StartAttack,
       Attack, TakeAlerts, LoadContexts, ValidateFinding, CommitFindings

\* A scanning platform is one whose sessions behave as AuthContexts says: the
\* scans on the daemon do nothing to them.
THEOREM ScansFollowAuthContexts == Spec => AuthSpec
<1>1. Init => AuthInit
  BY DEF Init
<1>2. [Next]_vars => [AuthNext]_contextVars
  BY ScansKeepContexts DEF Next, vars
<1>3. QED BY <1>1, <1>2, PTL DEF Spec, AuthSpec

\* The sessions of the roles stay apart while scans share the daemon.
THEOREM ScansKeepRolesApart ==
    ASSUME SeparateFiles
    PROVE  Spec => []RoleIsolation
BY ScansFollowAuthContexts, SessionsApart, SeparateFiles, PTL

-----------------------------------------------------------------------------
(* Credentials.                                                              *)

\* The variables the credentials of a scan depend on are functions.
Functional ==
    /\ DOMAIN login = Logins /\ DOMAIN context = Logins
    /\ DOMAIN rules = Rules
    /\ DOMAIN phase = Scans

\* A scan that uses the daemon has its context.
ScansAreReady == \A s \in Scans : phase[s] # "waiting" => login[s] = "ready"

\* A scan that was through is through for good.
FormerAreThrough == \A s \in former : s \in Scans /\ Through(s)

Credentials ==
    Functional /\ ScansAreReady /\ FormerAreThrough /\ ClearedNotSent

LEMMA CredentialsAtFirst == Init => Credentials
BY DEF Init, AuthInit, Credentials, Functional, ScansAreReady, FormerAreThrough,
       ClearedNotSent, Injected

\* A login that is over keeps its context.
LEMMA LoginKeepsContexts ==
    ASSUME Functional, AuthNext
    PROVE  /\ DOMAIN login' = Logins /\ DOMAIN context' = Logins
           /\ \A m \in Logins : login[m] = "ready" => login'[m] = "ready" /\ context'[m] = context[m]
<1>1. ASSUME NEW l \in Logins, LogIn(l)
      PROVE  /\ DOMAIN login' = Logins /\ DOMAIN context' = Logins /\ login[l] # "ready"
             /\ \A m \in Logins \ {l} : login'[m] = login[m] /\ context'[m] = context[m]
  <2>1. CASE LookUp(l)
    BY <2>1 DEF LookUp, Go, Functional
  <2>2. CASE OpenBrowser(l)
    BY <2>2 DEF OpenBrowser, Go, Functional
  <2>3. CASE CheckStored(l)
    BY <2>3 DEF CheckStored, Go, Functional
  <2>4. CASE SignIn(l)
    BY <2>4 DEF SignIn, Capture, Go, Functional
  <2>5. CASE CloseSignIn(l) \/ NoForm(l) \/ VerifyContext(l) \/ SaveContext(l)
    BY <2>5 DEF CloseSignIn, NoForm, VerifyContext, SaveContext, Go, Functional
  <2>6. QED BY <1>1, <2>1, <2>2, <2>3, <2>4, <2>5 DEF LogIn
<1>2. ASSUME NEW l \in Logins, Expire(l) PROVE UNCHANGED <<login, context>>
  BY <1>2 DEF Expire
<1>3. QED BY <1>1, <1>2 DEF AuthNext, Functional

\* A step of the logins.
LEMMA LoginKeepsCredentials ==
    ASSUME Credentials, AuthNext, UNCHANGED <<daemonVars, scanVars, former>>
    PROVE  Credentials'
<1>1. \A s \in Scans : s \in Logins
  BY ContextsAssumption
<1>2. Functional' /\ ScansAreReady' /\ FormerAreThrough'
  BY <1>1, LoginKeepsContexts DEF Credentials, Functional, ScansAreReady, FormerAreThrough,
     Through, OnDaemon, daemonVars, scanVars
<1>3. \A s \in Scans : phase[s] # "waiting" => context'[s] = context[s]
  BY <1>1, LoginKeepsContexts DEF Credentials, ScansAreReady
<1>4. ClearedNotSent'
  BY <1>3 DEF Credentials, ClearedNotSent, Injected, daemonVars, scanVars
<1>5. QED BY <1>2, <1>4 DEF Credentials

\* A step in which a scan moves on and no rule is added but its own.
LEMMA MovingKeepsCredentials ==
    ASSUME Credentials, NEW s \in Scans, NEW to, UNCHANGED <<login, context>>,
           phase' = [phase EXCEPT ![s] = to], to # "waiting", login[s] = "ready",
           s \in former => Through(s)',
           DOMAIN rules' = Rules,
           \A n \in Rules : rules'[n] \in {NoSession, rules[n]} \/ (rules'[n] = context[s] /\ s \notin former'),
           former' = former
    PROVE  Credentials'
<1>1. /\ DOMAIN phase' = Scans /\ phase'[s] # "waiting"
      /\ \A t \in Scans \ {s} : phase'[t] = phase[t]
  BY DEF Credentials, Functional
<1>2. Functional' /\ ScansAreReady'
  BY <1>1 DEF Credentials, Functional, ScansAreReady
<1>3. FormerAreThrough'
  BY <1>1 DEF Credentials, FormerAreThrough, Through, OnDaemon
<1>4. ASSUME NEW n \in Rules, rules'[n] # NoSession
      PROVE  \E t \in Scans : phase'[t] # "waiting" /\ t \notin former' /\ rules'[n] = context'[t]
  <2>1. CASE rules'[n] = context[s] /\ s \notin former'
    BY <2>1, <1>1
  <2>2. CASE rules'[n] = rules[n]
    <3>1. rules[n] \in Injected
      BY <2>2, <1>4 DEF Injected
    <3>2. PICK t \in Scans : phase[t] # "waiting" /\ t \notin former /\ rules[n] = context[t]
      BY <3>1 DEF Credentials, ClearedNotSent
    <3>3. QED BY <3>2, <2>2, <1>1
  <2>3. QED BY <1>4, <2>1, <2>2
<1>5. ClearedNotSent'
  BY <1>4 DEF ClearedNotSent, Injected
<1>6. QED BY <1>2, <1>3, <1>5 DEF Credentials

\* The rules are cleared of everyone's.
LEMMA ClearingKeepsCredentials ==
    ASSUME Credentials, NEW s \in Scans, ClearRules(s)
    PROVE  Credentials'
<1>1. /\ login[s] = "ready" /\ phase[s] = "waiting" /\ UNCHANGED <<login, context>>
      /\ phase' = [phase EXCEPT ![s] = "injecting"]
  BY DEF ClearRules, Enter, contextVars
<1>2. CASE rules' = [n \in Rules |-> NoSession] /\ former' = {t \in Scans : Through(t)}
  <2>1. /\ DOMAIN phase' = Scans /\ phase'[s] = "injecting"
        /\ \A t \in Scans \ {s} : phase'[t] = phase[t]
    BY <1>1 DEF Credentials, Functional
  <2>2. Functional' /\ ScansAreReady'
    BY <1>1, <1>2, <2>1 DEF Credentials, Functional, ScansAreReady
  <2>3. FormerAreThrough'
    BY <1>1, <1>2, <2>1 DEF FormerAreThrough, Through, OnDaemon
  <2>4. ClearedNotSent'
    BY <1>2 DEF ClearedNotSent, Injected
  <2>5. QED BY <2>2, <2>3, <2>4 DEF Credentials
<1>3. CASE UNCHANGED <<rules, former>>
  <2>1. s \notin former
    BY <1>1 DEF Credentials, FormerAreThrough, Through
  <2>2. QED BY <1>1, <1>3, <2>1, MovingKeepsCredentials DEF Credentials, Functional
<1>4. QED BY <1>2, <1>3 DEF ClearRules

LEMMA AddRuleKeepsCredentials ==
    ASSUME Credentials, NEW s \in Scans, AddRule(s)
    PROVE  Credentials'
<1>a. \/ phase' = [phase EXCEPT ![s] = "verifying"]
      \/ phase' = [phase EXCEPT ![s] = "injecting"]
  BY DEF AddRule, Enter
<1>1. PICK to : phase' = [phase EXCEPT ![s] = to] /\ to # "waiting"
  <2>1. "verifying" # "waiting" /\ "injecting" # "waiting"
    OBVIOUS
  <2>2. QED BY <1>a, <2>1, Zenon
<1>2. /\ phase[s] = "injecting" /\ UNCHANGED <<login, context, former>>
      /\ rules' = rules \/ rules' = [rules EXCEPT ![Head(todo[s])] = context[s]]
  BY DEF AddRule, Enter, contextVars
<1>3. s \notin former /\ login[s] = "ready"
  BY <1>2 DEF Credentials, FormerAreThrough, Through, OnDaemon, ScansAreReady
<1>4. DOMAIN rules' = Rules /\ \A n \in Rules : rules'[n] \in {rules[n], context[s]}
  BY <1>2 DEF Credentials, Functional
<1>5. QED BY <1>1, <1>2, <1>3, <1>4, MovingKeepsCredentials

\* Every step of a scan.
LEMMA ScanKeepsCredentials ==
    ASSUME Credentials, NEW s \in Scans, RunScan(s)
    PROVE  Credentials'
<1>1. CASE ClearRules(s)
  BY <1>1, ClearingKeepsCredentials
<1>2. CASE AddRule(s)
  BY <1>2, AddRuleKeepsCredentials
<1>3. ASSUME NEW from, NEW to, Enter(s, from, to), to # "waiting",
             from # "waiting" \/ login[s] = "ready",
             from \in {"collected", "validating"} => to \in {"validating", "done"},
             from \in Phase \ {"done", "failed"}, UNCHANGED <<contextVars, rules, former>>
      PROVE  Credentials'
  <2>1. phase[s] = from /\ phase' = [phase EXCEPT ![s] = to] /\ UNCHANGED <<login, context>>
    BY <1>3 DEF Enter, contextVars
  <2>2. login[s] = "ready"
    BY <1>3, <2>1 DEF Credentials, ScansAreReady
  <2>3. s \in former => from \in {"collected", "validating"}
    BY <1>3, <2>1 DEF Credentials, FormerAreThrough, Through, OnDaemon, Phase
  <2>4. phase'[s] = to
    BY <2>1 DEF Credentials, Functional
  <2>5. s \in former => Through(s)'
    BY <1>3, <2>3, <2>4 DEF Through, OnDaemon
  <2>6. QED BY <1>3, <2>1, <2>2, <2>5, MovingKeepsCredentials DEF Credentials, Functional
<1>4. CASE VerifyAccess(s)
  BY <1>4, <1>3 DEF VerifyAccess, Phase
<1>5. CASE SkipBridge(s)
  BY <1>5, <1>3 DEF SkipBridge, Phase, daemonVars
<1>6. CASE OpenTarget(s)
  BY <1>6, <1>3 DEF OpenTarget, Phase
<1>7. CASE StartAttack(s)
  BY <1>7, <1>3 DEF StartAttack, Phase, daemonVars
<1>8. CASE TakeAlerts(s)
  BY <1>8, <1>3 DEF TakeAlerts, Phase, daemonVars
<1>9. CASE LoadContexts(s) \/ CommitFindings(s)
  BY <1>9, <1>3 DEF LoadContexts, CommitFindings, Phase, daemonVars
<1>10. ASSUME UNCHANGED <<login, context, rules, phase, former>> PROVE Credentials'
  BY <1>10 DEF Credentials, Functional, ScansAreReady, FormerAreThrough, Through, OnDaemon,
     ClearedNotSent, Injected
<1>11. CASE Attack(s) \/ \E a \in Apps : ValidateFinding(s, a)
  BY <1>11, <1>10 DEF Attack, ValidateFinding, contextVars, daemonVars
<1>12. QED BY <1>1, <1>2, <1>4, <1>5, <1>6, <1>7, <1>8, <1>9, <1>11 DEF RunScan

\* Once the rules have been cleared, nothing the daemon sends carries credentials
\* of a scan that was through with it by then, however many scans share it and
\* whichever of them add rules, have none or fail to clear
\* (ZAPAuthContextBridge.apply clears before it adds).
THEOREM FormerCredentialsNotSent == Spec => []ClearedNotSent
<1>1. Init => Credentials
  BY CredentialsAtFirst
<1>2. Credentials /\ [Next]_vars => Credentials'
  <2> SUFFICES ASSUME Credentials, [Next]_vars PROVE Credentials'
    OBVIOUS
  <2>1. CASE AuthNext /\ UNCHANGED <<daemonVars, scanVars, former>>
    BY <2>1, LoginKeepsCredentials
  <2>2. ASSUME NEW s \in Scans, RunScan(s) PROVE Credentials'
    BY <2>2, ScanKeepsCredentials
  <2>3. CASE UNCHANGED vars
    BY <2>3 DEF vars, contextVars, daemonVars, scanVars, Credentials, Functional, ScansAreReady,
       FormerAreThrough, Through, OnDaemon, ClearedNotSent, Injected
  <2>4. QED BY <2>1, <2>2, <2>3 DEF Next
<1>3. Credentials => ClearedNotSent
  BY DEF Credentials
<1>4. QED BY <1>1, <1>2, <1>3, PTL DEF Spec

-----------------------------------------------------------------------------
(* Types.                                                                    *)

\* What scan s holds is of its type because of where s is: while it injects it
\* has rules left, while it attacks it has a site, and before it validates it
\* has no verdicts.
ScanTyped(s) ==
    /\ phase[s] \in Phase
    /\ todo[s] \in Seq(Rules) /\ (phase[s] = "injecting" => todo[s] # << >>)
    /\ target[s] \in Apps \cup {NoSite} /\ (phase[s] = "attacking" => target[s] \in Apps)
    /\ found[s] \subseteq Apps
    /\ listed[s] \in Seq(Row)
    /\ DOMAIN verdict[s] \subseteq found[s]
    /\ phase[s] \notin {"validating", "done"} => DOMAIN verdict[s] = {}
    /\ \A a \in DOMAIN verdict[s] : verdict[s][a] \in [page : PagesOf[a], status : FindingStatuses]

ScanFunctions ==
    /\ DOMAIN phase = Scans /\ DOMAIN todo = Scans /\ DOMAIN target = Scans
    /\ DOMAIN found = Scans /\ DOMAIN listed = Scans /\ DOMAIN verdict = Scans

DaemonTyped ==
    /\ rules \in [Rules -> Session]
    /\ sites \subseteq Apps /\ answered \subseteq Apps /\ alerts \subseteq Apps
    /\ former \subseteq Scans

Typed ==
    /\ AuthTypeOK /\ DaemonTyped /\ ScanFunctions
    /\ phase \in [Scans -> Phase]
    /\ \A s \in Scans : ScanTyped(s)

LEMMA TypedIsTypeOK == Typed => TypeOK
<1> SUFFICES ASSUME Typed PROVE TypeOK
  OBVIOUS
<1>1. \A s \in Scans : Range(todo[s]) \subseteq Rules /\ Range(listed[s]) \subseteq Row
  BY DEF Typed, ScanTyped, Range
<1>2. QED BY <1>1 DEF Typed, ScanTyped, DaemonTyped, TypeOK

LEMMA TypedAtFirst == Init => Typed
<1> SUFFICES ASSUME Init PROVE Typed
  OBVIOUS
<1>1. AuthTypeOK
  BY EarlierTyped DEF Init
<1>2. DaemonTyped /\ ScanFunctions /\ phase \in [Scans -> Phase]
  BY DEF Init, Session, Phase, DaemonTyped, ScanFunctions
<1>3. Range(<< >>) = {} /\ DOMAIN << >> = {} /\ << >> \in Seq(Rules) /\ << >> \in Seq(Row)
  BY DEF Range
<1>4. \A s \in Scans : ScanTyped(s)
  BY <1>3 DEF Init, ScanTyped, Phase
<1>5. QED BY <1>1, <1>2, <1>4 DEF Typed

LEMMA RulesTyped ==
    ASSUME NEW s \in Scans
    PROVE  AppOfScan(s) \in Apps /\ RulesOf[AppOfScan(s)] \in Seq(Rules)
<1>1. AppOfScan(s) \in Apps
  BY ContextsAssumption DEF AppOfScan
<1>2. Range(RulesOf[AppOfScan(s)]) \subseteq Rules
  BY <1>1 DEF Rules
<1>3. RulesOf[AppOfScan(s)] \in Seq(Range(RulesOf[AppOfScan(s)]))
  BY <1>1, ScannerAssumption
<1>4. QED BY <1>1, <1>2, <1>3

\* A step of a scan leaves what the others hold as it is.
LEMMA OthersKept ==
    ASSUME ScanFunctions, NEW s \in Scans, RunScan(s)
    PROVE  /\ ScanFunctions'
           /\ phase' = phase \/ \E to : phase' = [phase EXCEPT ![s] = to]
           /\ \A t \in Scans \ {s} :
                /\ phase'[t] = phase[t] /\ todo'[t] = todo[t] /\ target'[t] = target[t]
                /\ found'[t] = found[t] /\ listed'[t] = listed[t] /\ verdict'[t] = verdict[t]
<1> USE DEF ScanFunctions
<1>1. CASE ClearRules(s)
  BY <1>1 DEF ClearRules, Enter
<1>2. CASE AddRule(s)
  BY <1>2 DEF AddRule, Enter
<1>3. CASE VerifyAccess(s)
  BY <1>3 DEF VerifyAccess, Enter
<1>4. CASE SkipBridge(s)
  BY <1>4 DEF SkipBridge, Enter
<1>5. CASE OpenTarget(s)
  BY <1>5 DEF OpenTarget, Enter
<1>6. CASE StartAttack(s)
  BY <1>6 DEF StartAttack, Enter
<1>7. CASE Attack(s)
  BY <1>7 DEF Attack
<1>8. CASE TakeAlerts(s)
  BY <1>8 DEF TakeAlerts, Enter
<1>9. CASE LoadContexts(s)
  <2>1. PICK l : listed' = [listed EXCEPT ![s] = l]
    BY <1>9 DEF LoadContexts
  <2>2. QED BY <1>9, <2>1 DEF LoadContexts, Enter
<1>10. ASSUME NEW a \in Apps, ValidateFinding(s, a)
       PROVE  /\ DOMAIN verdict' = Scans /\ \A t \in Scans \ {s} : verdict'[t] = verdict[t]
              /\ UNCHANGED <<phase, todo, target, found, listed>>
  BY <1>10 DEF ValidateFinding
<1>11. CASE CommitFindings(s)
  BY <1>11 DEF CommitFindings, Enter
<1>12. QED BY <1>1, <1>2, <1>3, <1>4, <1>5, <1>6, <1>7, <1>8, <1>9, <1>10, <1>11 DEF RunScan

\* The contexts a scan lists are rows of its application.
LEMMA ListedRows ==
    ASSUME AuthTypeOK, ScanFunctions, NEW s \in Scans, LoadContexts(s)
    PROVE  /\ listed'[s] \in Seq(Row)
           /\ \A k \in DOMAIN listed'[s] : \E j \in DOMAIN rows :
                listed'[s][k] = rows[j] /\ AppOf[rows[j].role] = AppOfScan(s)
<1> DEFINE own == {k \in DOMAIN rows :
                     /\ AppOf[rows[k].role] = AppOfScan(s)
                     /\ ConfigRoles[AppOfScan(s)] # {} => rows[k].role \in ConfigRoles[AppOfScan(s)]}
<1>1. PICK f \in SetToSeqs(own) : listed' = [listed EXCEPT ![s] = [k \in DOMAIN f |-> rows[f[k]]]]
  BY DEF LoadContexts, ListContexts
<1>2. \A k \in DOMAIN f : f[k] \in own
  BY <1>1 DEF SetToSeqs
<1>3. listed'[s] = [k \in DOMAIN f |-> rows[f[k]]]
  BY <1>1 DEF ScanFunctions
<1>4. \A k \in own : rows[k] \in Row
  BY DEF AuthTypeOK
<1>5. \E n \in Nat : DOMAIN f = 1..n
  <2>1. IsFiniteSet(1..Len(rows)) /\ own \in SUBSET (1..Len(rows))
    BY FS_Interval DEF AuthTypeOK
  <2>2. IsFiniteSet(own)
    BY <2>1, FS_Subset
  <2>3. Cardinality(own) \in Nat
    BY <2>2, FS_CardinalityType
  <2>4. QED BY <1>1, <2>3 DEF SetToSeqs
<1>6. PICK n \in Nat : DOMAIN f = 1..n
  BY <1>5
<1> HIDE DEF own
<1>7. listed'[s] = [k \in 1..n |-> rows[f[k]]] /\ \A k \in 1..n : rows[f[k]] \in Row
  BY <1>2, <1>3, <1>4, <1>6
<1>8. listed'[s] \in Seq(Row)
  BY <1>7
<1>9. \A k \in DOMAIN listed'[s] : \E j \in DOMAIN rows :
         listed'[s][k] = rows[j] /\ AppOf[rows[j].role] = AppOfScan(s)
  BY <1>2, <1>6, <1>7 DEF own
<1>10. QED BY <1>8, <1>9

LEMMA ScanKeepsTypes ==
    ASSUME Typed, NEW s \in Scans, RunScan(s)
    PROVE  Typed'
<1>a. AuthTypeOK'
  <2>1. UNCHANGED contextVars
    BY ScansKeepContexts
  <2>2. QED BY <2>1 DEF contextVars, AuthTypeOK, Typed
<1>b. /\ ScanFunctions'
      /\ \A t \in Scans \ {s} :
           /\ phase'[t] = phase[t] /\ todo'[t] = todo[t] /\ target'[t] = target[t]
           /\ found'[t] = found[t] /\ listed'[t] = listed[t] /\ verdict'[t] = verdict[t]
  BY OthersKept DEF Typed
<1>c. \A t \in Scans \ {s} : ScanTyped(t)'
  BY <1>b DEF Typed, ScanTyped
<1>d. DOMAIN phase = Scans /\ DOMAIN todo = Scans /\ DOMAIN target = Scans
      /\ DOMAIN found = Scans /\ DOMAIN listed = Scans /\ DOMAIN verdict = Scans
  BY DEF Typed, ScanFunctions
<1>e. ScanTyped(s) /\ DaemonTyped
  BY DEF Typed
<1>g. AppOfScan(s) \in Apps
  BY RulesTyped
<1>h. ASSUME ScanTyped(s)', DaemonTyped' PROVE Typed'
  <2>1. phase \in [Scans -> Phase] /\ phase'[s] \in Phase
    BY <1>h DEF Typed, ScanTyped
  <2>2. phase' = phase \/ \E to : phase' = [phase EXCEPT ![s] = to]
    BY OthersKept DEF Typed
  <2>3. phase' \in [Scans -> Phase]
    BY <2>1, <2>2
  <2>4. QED BY <1>a, <1>b, <1>c, <1>h, <2>3 DEF Typed
<1>1. CASE ClearRules(s)
  <2>1. /\ phase'[s] = "injecting" /\ todo'[s] = RulesOf[AppOfScan(s)] /\ phase[s] = "waiting"
        /\ RulesOf[AppOfScan(s)] # << >> /\ rules' \in [Rules -> Session]
        /\ former' \subseteq Scans
        /\ UNCHANGED <<sites, answered, alerts, target, found, listed, verdict>>
    BY <1>1, <1>d, <1>e DEF ClearRules, Enter, HasCredentials, DaemonTyped, Session
  <2>2. ScanTyped(s)' /\ DaemonTyped'
    BY <1>e, <2>1, RulesTyped DEF ScanTyped, DaemonTyped, Phase
  <2>3. QED BY <2>2, <1>h
<1>2. CASE AddRule(s)
  <2>1. /\ phase[s] = "injecting" /\ todo[s] \in Seq(Rules) /\ todo[s] # << >>
        /\ phase'[s] = IF Len(todo[s]) = 1 THEN "verifying" ELSE "injecting"
        /\ todo'[s] = Tail(todo[s])
        /\ UNCHANGED <<sites, answered, alerts, target, found, listed, verdict, former>>
    BY <1>2, <1>d, <1>e DEF AddRule, Enter, ScanTyped
  <2>2. todo'[s] \in Seq(Rules) /\ Head(todo[s]) \in Rules
        /\ (phase'[s] = "injecting" => todo'[s] # << >>)
    <3>1. Tail(todo[s]) \in Seq(Rules) /\ Head(todo[s]) \in Rules
      BY <2>1
    <3>2. Len(todo[s]) # 1 => Tail(todo[s]) # << >>
      <4>1. Len(todo[s]) \in Nat /\ Len(todo[s]) # 0
        BY <2>1
      <4>2. Len(Tail(todo[s])) = Len(todo[s]) - 1
        BY <2>1
      <4>3. Len(<< >>) = 0
        OBVIOUS
      <4>4. Len(Tail(todo[s])) # 0 => Tail(todo[s]) # << >>
        BY <4>3, Zenon
      <4>5. QED BY <4>1, <4>2, <4>4
    <3>3. QED BY <2>1, <3>1, <3>2
  <2>3. context[s] \in Session
    BY ContextsAssumption DEF Typed, AuthTypeOK
  <2>4. rules' \in [Rules -> Session]
    BY <1>2, <1>e, <2>2, <2>3 DEF AddRule, DaemonTyped
  <2>5. ScanTyped(s)'
    BY <1>e, <2>1, <2>2 DEF ScanTyped, Phase
  <2>6. DaemonTyped'
    BY <1>e, <2>1, <2>4 DEF DaemonTyped
  <2>7. QED BY <2>5, <2>6, <1>h
<1>3. CASE VerifyAccess(s)
  <2>1. /\ phase[s] = "verifying" /\ phase'[s] \in {"opening", "failed"}
        /\ answered' \subseteq answered \cup {AppOfScan(s)}
        /\ UNCHANGED <<rules, sites, alerts, todo, target, found, listed, verdict, former>>
    BY <1>3, <1>d DEF VerifyAccess, Enter
  <2>2. ScanTyped(s)' /\ DaemonTyped'
    BY <1>e, <1>g, <2>1 DEF ScanTyped, DaemonTyped, Phase
  <2>3. QED BY <2>2, <1>h
<1>4. CASE SkipBridge(s) \/ TakeAlerts(s) \/ CommitFindings(s)
  <2>1. /\ phase[s] \in {"waiting", "attacking", "validating"}
        /\ phase'[s] \in {"opening", "collected", "done"}
        /\ phase[s] # "validating" => phase'[s] # "done"
        /\ phase[s] = "validating" => phase'[s] = "done"
        /\ found'[s] = IF phase[s] = "attacking" THEN alerts ELSE found[s]
        /\ UNCHANGED <<rules, sites, answered, alerts, todo, target, listed, verdict, former>>
    BY <1>4, <1>d DEF SkipBridge, TakeAlerts, CommitFindings, Enter, daemonVars
  <2>2. ScanTyped(s)' /\ DaemonTyped'
    BY <1>e, <2>1 DEF ScanTyped, DaemonTyped, Phase
  <2>3. QED BY <2>2, <1>h
<1>5. CASE OpenTarget(s)
  <2>1. /\ phase[s] = "opening" /\ phase'[s] = "spidered"
        /\ sites' \subseteq sites \cup {AppOfScan(s)}
        /\ UNCHANGED <<rules, answered, alerts, todo, target, found, listed, verdict, former>>
    BY <1>5, <1>d DEF OpenTarget, Enter
  <2>2. ScanTyped(s)' /\ DaemonTyped'
    BY <1>e, <1>g, <2>1 DEF ScanTyped, DaemonTyped, Phase
  <2>3. QED BY <2>2, <1>h
<1>6. CASE StartAttack(s)
  <2>1. Cardinality(sites) = 1 => (CHOOSE a \in sites : TRUE) \in sites
    <3>1. Cardinality(sites) = 1 => sites # {}
      BY FS_EmptySet
    <3>2. QED BY <3>1
  <2>2. /\ phase[s] = "spidered" /\ phase'[s] \in {"attacking", "failed"}
        /\ target'[s] \in Apps \/ (phase'[s] = "failed" /\ target'[s] = target[s])
        /\ UNCHANGED <<rules, sites, answered, alerts, todo, found, listed, verdict, former>>
    BY <1>6, <1>d, <1>e, <1>g, <2>1 DEF StartAttack, Enter, daemonVars, DaemonTyped
  <2>3. ScanTyped(s)' /\ DaemonTyped'
    BY <1>e, <2>2 DEF ScanTyped, DaemonTyped, Phase
  <2>4. QED BY <2>3, <1>h
<1>7. CASE Attack(s)
  <2>1. /\ phase[s] = "attacking" /\ alerts' \subseteq alerts \cup {target[s]}
       
        /\ UNCHANGED <<rules, sites, answered, phase, todo, target, found, listed, verdict, former>>
    BY <1>7, <1>d DEF Attack
  <2>2. ScanTyped(s)' /\ DaemonTyped'
    BY <1>e, <2>1 DEF ScanTyped, DaemonTyped
  <2>3. QED BY <2>2, <1>h
<1>8. CASE LoadContexts(s)
  <2>1. /\ phase[s] = "collected" /\ phase'[s] = "validating"
        /\ UNCHANGED <<rules, sites, answered, alerts, todo, target, found, verdict, former>>
    BY <1>8, <1>d DEF LoadContexts, Enter, daemonVars
  <2>2. listed'[s] \in Seq(Row)
    BY <1>8, ListedRows DEF Typed
  <2>3. ScanTyped(s)' /\ DaemonTyped'
    BY <1>e, <2>1, <2>2 DEF ScanTyped, DaemonTyped, Phase
  <2>4. QED BY <2>3, <1>h
<1>9. ASSUME NEW a \in Apps, ValidateFinding(s, a) PROVE Typed'
  <2>0. PICK page \in PagesOf[a] : \E status \in Outcomes(a, page, listed[s]) :
           verdict' = [verdict EXCEPT ![s] =
                         [b \in DOMAIN @ \cup {a} |->
                            IF b = a THEN [page |-> page, status |-> status] ELSE @[b]]]
    BY <1>9 DEF ValidateFinding
  <2>1. PICK status \in Outcomes(a, page, listed[s]) :
           verdict' = [verdict EXCEPT ![s] =
                         [b \in DOMAIN @ \cup {a} |->
                            IF b = a THEN [page |-> page, status |-> status] ELSE @[b]]]
    BY <2>0
  <2>2. status \in FindingStatuses
    BY <2>1 DEF Outcomes, FindingStatus, FindingStatuses
  <2>3. verdict'[s] = [b \in DOMAIN verdict[s] \cup {a} |->
           IF b = a THEN [page |-> page, status |-> status] ELSE verdict[s][b]]
    BY <1>d, <2>1
  <2>4. /\ DOMAIN verdict'[s] = DOMAIN verdict[s] \cup {a}
        /\ \A b \in DOMAIN verdict'[s] :
             verdict'[s][b] \in [page : PagesOf[b], status : FindingStatuses]
    <3>1. \A b \in DOMAIN verdict[s] : verdict[s][b] \in [page : PagesOf[b], status : FindingStatuses]
      BY <1>e DEF ScanTyped
    <3>2. [page |-> page, status |-> status] \in [page : PagesOf[a], status : FindingStatuses]
      BY <2>1, <2>2
    <3>3. QED BY <2>3, <3>1, <3>2
  <2>5. /\ phase[s] = "validating" /\ a \in found[s]
        /\ UNCHANGED <<rules, sites, answered, alerts, phase, todo, target, found, listed, former>>
    BY <1>9 DEF ValidateFinding, daemonVars
  <2>6. ScanTyped(s)' /\ DaemonTyped'
    BY <1>e, <2>4, <2>5 DEF ScanTyped, DaemonTyped
  <2>7. QED BY <2>6, <1>h
<1>10. QED BY <1>1, <1>2, <1>3, <1>4, <1>5, <1>6, <1>7, <1>8, <1>9 DEF RunScan

LEMMA StepKeepsTypes == Typed /\ [Next]_vars => Typed'
<1> SUFFICES ASSUME Typed, [Next]_vars PROVE Typed'
  OBVIOUS
<1>1. CASE AuthNext /\ UNCHANGED <<daemonVars, scanVars, former>>
  <2>1. AuthTypeOK'
    BY <1>1, StepTyped DEF Typed
  <2>2. QED BY <1>1, <2>1 DEF Typed, DaemonTyped, ScanFunctions, ScanTyped, daemonVars, scanVars
<1>2. ASSUME NEW s \in Scans, RunScan(s) PROVE Typed'
  BY <1>2, ScanKeepsTypes
<1>3. CASE UNCHANGED vars
  BY <1>3 DEF Typed, AuthTypeOK, DaemonTyped, ScanFunctions, ScanTyped, vars, contextVars,
     daemonVars, scanVars
<1>4. QED BY <1>1, <1>2, <1>3 DEF Next

\* The types of the daemon and of the scans on it, for any number of scans,
\* applications and rules.
THEOREM ScannerTypes == Spec => []TypeOK
<1>1. Init => Typed
  BY TypedAtFirst
<1>2. Typed /\ [Next]_vars => Typed'
  BY StepKeepsTypes
<1>3. Typed => TypeOK
  BY TypedIsTypeOK
<1>4. QED BY <1>1, <1>2, <1>3, PTL DEF Spec

-----------------------------------------------------------------------------
(* Verdicts.                                                                 *)

\* Only what at least 79.5 % of the replays say is confirmed.
LEMMA ConfirmedShare ==
    ASSUME NEW c \in Nat, NEW n \in Nat, n > 0,
           FindingStatus(ReplayStatus(c, n)) = "confirmed"
    PROVE  200 * c >= 159 * n
<1>1. ReplayStatus(c, n) = "confirmed"
  BY DEF FindingStatus
<1>2. Confidence(c, n) >= 80
  BY <1>1 DEF ReplayStatus
<1>3. QED BY <1>2 DEF Confidence

\* What is denied or gets no answer is never suspicious, whatever the baseline.
LEMMA DeniedNotSuspicious ==
    ASSUME NEW baseline
    PROVE  /\ ~Suspicious(baseline, Failed) /\ ~Suspicious(baseline, Challenge)
           /\ ~Suspicious(baseline, Forbidden)
BY DEF Suspicious, AccessGranted, Failed, Challenge, Forbidden

\* The numbers of mutated requests.
LEMMA PagesCounted ==
    ASSUME NEW page \in Pages
    PROVE  page.mutated \in 0..42 /\ page.mutated \in Nat
BY DEF Pages

LEMMA PositiveProduct ==
    ASSUME NEW i \in Nat, NEW j \in Nat, i > 0
    PROVE  i * (1 + j) \in Nat /\ i * (1 + j) > 0
<1>1. \A x, y \in Nat \ {0} : x * y \in Nat /\ x * y > 0
  OBVIOUS
<1>2. QED BY <1>1

LEMMA CountedPairs ==
    ASSUME NEW n \in Nat, NEW m \in Nat, n >= 2, NEW i \in {0, 1}
    PROVE  /\ IsFiniteSet((2..n) \X (i..m))
           /\ Cardinality((2..n) \X (i..m)) = (n - 1) * (m + 1 - i)
<1>1. n \in Int /\ m \in Int /\ i \in Int /\ 2 \in Int
  OBVIOUS
<1>2. IsFiniteSet(2..n) /\ IsFiniteSet(i..m)
  BY <1>1, FS_Interval
<1>3. Cardinality(2..n) = IF 2 > n THEN 0 ELSE n - 2 + 1
  BY <1>1, FS_Interval
<1>4. Cardinality(i..m) = IF i > m THEN 0 ELSE m - i + 1
  BY <1>1, FS_Interval
<1>5. Cardinality(2..n) = n - 1 /\ Cardinality(i..m) = m + 1 - i
  BY <1>3, <1>4
<1>6. QED BY <1>2, <1>5, FS_Product

\* Each context but the baseline's makes the request and its mutations.
LEMMA CountedReplays ==
    ASSUME NEW page \in Pages, NEW contexts \in Seq(Row), Len(contexts) >= 2
    PROVE  /\ IsFiniteSet(Replays(page, contexts))
           /\ Cardinality(Replays(page, contexts)) = (Len(contexts) - 1) * (1 + page.mutated)
<1> DEFINE n == Len(contexts)
           m == page.mutated
<1>1. n \in Nat /\ m \in Nat /\ n >= 2
  BY PagesCounted
<1> HIDE DEF n, m
<1>2. IsFiniteSet((2..n) \X (0..m)) /\ Cardinality((2..n) \X (0..m)) = (n - 1) * (m + 1 - 0)
  BY <1>1, CountedPairs
<1>3. m + 1 - 0 = 1 + m
  BY <1>1
<1>4. QED BY <1>2, <1>3 DEF Replays, n, m

\* A finding is confirmed by comparing at least two contexts, and by a share of
\* their replays that may be suspicious.
LEMMA ConfirmedByReplays ==
    ASSUME NEW a, NEW page \in Pages, NEW contexts \in Seq(Row),
           "confirmed" \in Outcomes(a, page, contexts)
    PROVE  /\ Len(contexts) >= 2
           /\ \E baseline :
                LET may == MaySuspect(a, page, contexts, baseline)
                IN  200 * Cardinality(may) >= 159 * ((Len(contexts) - 1) * (1 + page.mutated))
<1>1. ~(Len(contexts) < 2 \/ a \notin ScopeHosts)
  BY DEF Outcomes
<1>2. PICK status \in Validate(a, page, contexts) : FindingStatus(status) = "confirmed"
  BY <1>1 DEF Outcomes
<1>3. PICK baseline \in Replies(a, page, contexts, 1, 0) :
         status \in {ReplayStatus(n, Cardinality(Replays(page, contexts))) :
                       n \in Cardinality(MustSuspect(a, page, contexts, baseline))
                            ..Cardinality(MaySuspect(a, page, contexts, baseline))}
  BY <1>2 DEF Validate
<1> DEFINE must == MustSuspect(a, page, contexts, baseline)
           may == MaySuspect(a, page, contexts, baseline)
           replays == Replays(page, contexts)
<1>4. PICK n \in Cardinality(must)..Cardinality(may) : status = ReplayStatus(n, Cardinality(replays))
  BY <1>3
<1>5. /\ IsFiniteSet(replays)
      /\ Cardinality(replays) = (Len(contexts) - 1) * (1 + page.mutated)
  BY <1>1, CountedReplays
<1>6. may \subseteq replays /\ must \subseteq replays
  BY DEF MaySuspect, MustSuspect
<1> HIDE DEF may, must, replays
<1>7. IsFiniteSet(may) /\ IsFiniteSet(must)
  BY <1>5, <1>6, FS_Subset
<1>8. Cardinality(may) \in Nat /\ Cardinality(must) \in Nat /\ Cardinality(replays) \in Nat
  BY <1>5, <1>7, FS_CardinalityType
<1>9. n \in Nat /\ n <= Cardinality(may)
  BY <1>8
<1>10. Cardinality(replays) > 0
  <2>1. <<2, 0>> \in replays
    BY <1>1, PagesCounted DEF replays, Replays
  <2>2. replays # {}
    BY <2>1
  <2>3. Cardinality(replays) # 0
    BY <1>5, <2>2, FS_EmptySet
  <2>4. QED BY <1>8, <2>3
<1>11. 200 * n >= 159 * Cardinality(replays)
  BY <1>2, <1>4, <1>8, <1>9, <1>10, ConfirmedShare
<1>12. 200 * Cardinality(may) >= 159 * Cardinality(replays)
  BY <1>8, <1>9, <1>11
<1>13. Len(contexts) >= 2
  BY <1>1
<1>14. QED BY <1>5, <1>12, <1>13 DEF may

\* Who is not signed in to the site of a page that denies is challenged or gets no
\* answer, for the request and its mutations.
LEMMA StrangersDenied ==
    ASSUME NEW a, NEW page \in Pages, page.kind = "denies", NEW contexts \in Seq(Row),
           NEW k, NEW m, \A i \in Senders(page, contexts, k) : ~Accepts(a, i)
    PROVE  Replies(a, page, contexts, k, m) \subseteq {Challenge, Failed}
<1>1. \A i \in Senders(page, contexts, k) :
         Answer(a, page, i) = Challenge /\ MutatedAnswers(a, page, i) = {Challenge}
  <2>1. Refusal["denies"] = Challenge
    BY DEF Refusal
  <2>2. ASSUME NEW i, ~Accepts(a, i)
        PROVE  Answer(a, page, i) = Challenge /\ MutatedAnswers(a, page, i) = {Challenge}
    <3>1. Answer(a, page, i) = Challenge
      BY <2>1, <2>2 DEF Answer
    <3>2. page.kind # "public"
      OBVIOUS
    <3>3. QED BY <2>2, <3>1, <3>2 DEF MutatedAnswers
  <2>3. QED BY <2>2
<1> DEFINE from(i) == IF m = 0 THEN {Answer(a, page, i)} ELSE MutatedAnswers(a, page, i)
           answers == UNION {from(i) : i \in Senders(page, contexts, k)}
<1>2. \A i \in Senders(page, contexts, k) : from(i) = {Challenge}
  BY <1>1
<1>3. Replies(a, page, contexts, k, m) \subseteq answers \cup {Failed}
  BY DEF Replies
<1>4. \A reply \in answers : reply = Challenge
  <2> HIDE DEF from
  <2>1. SUFFICES ASSUME NEW reply \in answers PROVE reply = Challenge
    OBVIOUS
  <2>2. PICK i \in Senders(page, contexts, k) : reply \in from(i)
    BY <2>1
  <2>3. QED BY <1>2, <2>2
<1> HIDE DEF answers
<1>5. QED BY <1>3, <1>4

\* Contexts of other sites are challenged or get no answer, and confirm nothing.
LEMMA ForeignUnconfirmed ==
    ASSUME NEW a, NEW page \in Pages, page.kind = "denies", NEW contexts \in Seq(Row),
           live \subseteq Logins, \A j \in DOMAIN contexts :
               contexts[j].session \in Logins => AppOf[RoleOf[contexts[j].session]] # a
    PROVE  "confirmed" \notin Outcomes(a, page, contexts)
<1> SUFFICES ASSUME "confirmed" \in Outcomes(a, page, contexts) PROVE FALSE
  OBVIOUS
<1>1. Len(contexts) >= 2
  BY ConfirmedByReplays
<1>2. PICK baseline :
         200 * Cardinality(MaySuspect(a, page, contexts, baseline))
             >= 159 * ((Len(contexts) - 1) * (1 + page.mutated))
  BY ConfirmedByReplays
<1>3. ASSUME NEW k \in 2..Len(contexts), NEW i \in Senders(page, contexts, k)
      PROVE  ~Accepts(a, i)
  <2>1. i = NoSession \/ \E j \in DOMAIN contexts : i = contexts[j].session
    BY <1>1, <1>3 DEF Senders
  <2>2. NoSession \notin live
    BY ContextsAssumption
  <2>3. QED BY <2>1, <2>2 DEF Accepts
<1>4. MaySuspect(a, page, contexts, baseline) = {}
  <2>1. ASSUME NEW r \in MaySuspect(a, page, contexts, baseline) PROVE FALSE
    <3>1. r[1] \in 2..Len(contexts)
      BY <2>1 DEF MaySuspect, Replays
    <3>2. PICK reply \in Replies(a, page, contexts, r[1], r[2]) : Suspicious(baseline, reply)
      BY <2>1 DEF MaySuspect
    <3>3. reply \in {Challenge, Failed}
      BY <1>3, <3>1, <3>2, StrangersDenied
    <3>4. QED BY <3>2, <3>3, DeniedNotSuspicious
  <2>2. QED BY <2>1
<1>5. (Len(contexts) - 1) * (1 + page.mutated) > 0
  BY <1>1, PagesCounted, PositiveProduct
<1>6. Cardinality(MaySuspect(a, page, contexts, baseline)) = 0
  BY <1>4, FS_EmptySet
<1>7. (Len(contexts) - 1) * (1 + page.mutated) \in Nat
  BY <1>1, PagesCounted, PositiveProduct
<1>8. QED BY <1>2, <1>5, <1>6, <1>7

\* Of a page that no other session compared may read, only the mutations are
\* answered to the others: at most three in four replays.
LEMMA UnreadUnconfirmed ==
    ASSUME NEW a, NEW page \in Pages, page.kind = "denies", page.mutated <= 3, ~page.cookies,
           NEW contexts \in Seq(Row), live \subseteq Logins, \A k \in 2..Len(contexts) :
               contexts[k].session \in Logins => RoleOf[contexts[k].session] \notin page.readers
    PROVE  "confirmed" \notin Outcomes(a, page, contexts)
<1> SUFFICES ASSUME "confirmed" \in Outcomes(a, page, contexts) PROVE FALSE
  OBVIOUS
<1>1. Len(contexts) >= 2
  BY ConfirmedByReplays
<1>p. PICK baseline :
         200 * Cardinality(MaySuspect(a, page, contexts, baseline))
             >= 159 * ((Len(contexts) - 1) * (1 + page.mutated))
  BY ConfirmedByReplays
<1> DEFINE n == Len(contexts) - 1
           m == page.mutated
           may == MaySuspect(a, page, contexts, baseline)
<1>2. n \in Nat /\ n > 0 /\ m \in 0..3 /\ Len(contexts) \in Nat
  <2>1. m \in Nat /\ m <= 3
    BY PagesCounted
  <2>2. QED BY <1>1, <2>1
<1>3. may \subseteq (2..Len(contexts)) \X (1..m)
  <2>1. ASSUME NEW k \in 2..Len(contexts)
        PROVE  Replies(a, page, contexts, k, 0) \subseteq {Challenge, Forbidden, Failed}
    <3>1. Senders(page, contexts, k) = {contexts[k].session}
      BY DEF Senders
    <3>2. Answer(a, page, contexts[k].session) \in {Challenge, Forbidden}
      <4>1. Refusal["denies"] = Challenge /\ page.kind # "public"
        BY DEF Refusal
      <4>2. Accepts(a, contexts[k].session) => RoleOf[contexts[k].session] \notin page.readers
        BY DEF Accepts
      <4>3. QED BY <4>1, <4>2 DEF Answer
    <3> DEFINE answers == UNION {{Answer(a, page, i)} : i \in Senders(page, contexts, k)}
    <3>3. Replies(a, page, contexts, k, 0) \subseteq answers \cup {Failed}
      BY DEF Replies
    <3>4. \A reply \in answers : reply = Answer(a, page, contexts[k].session)
      BY <3>1
    <3> HIDE DEF answers
    <3>5. QED BY <3>2, <3>3, <3>4
  <2>2. may \subseteq (2..Len(contexts)) \X (0..m)
    BY DEF MaySuspect, Replays
  <2>3. ASSUME NEW r \in may PROVE r[2] # 0
    <3>1. r[1] \in 2..Len(contexts)
      BY <2>2
    <3>2. PICK reply \in Replies(a, page, contexts, r[1], r[2]) : Suspicious(baseline, reply)
      BY DEF MaySuspect
    <3>3. QED BY <2>1, <3>1, <3>2, DeniedNotSuspicious
  <2>4. \A i \in 0..m : i # 0 => i \in 1..m
    BY <1>2
  <2> HIDE DEF may, m
  <2>5. QED BY <2>2, <2>3, <2>4
<1>4. Cardinality(may) \in Nat /\ Cardinality(may) <= n * m
  <2>2. /\ IsFiniteSet((2..Len(contexts)) \X (1..m))
        /\ Cardinality((2..Len(contexts)) \X (1..m)) = n * m
    <3>1. m \in Nat
      BY <1>2
    <3> HIDE DEF m
    <3>2. Cardinality((2..Len(contexts)) \X (1..m)) = n * (m + 1 - 1)
      BY <1>1, <1>2, <3>1, CountedPairs
    <3>3. m + 1 - 1 = m
      BY <3>1
    <3>4. IsFiniteSet((2..Len(contexts)) \X (1..m))
      BY <1>1, <1>2, <3>1, CountedPairs
    <3>5. QED BY <3>2, <3>3, <3>4
  <2>3. may \in SUBSET ((2..Len(contexts)) \X (1..m))
    BY <1>3
  <2> HIDE DEF may, n, m
  <2>4. IsFiniteSet(may) /\ Cardinality(may) <= n * m
    BY <2>2, <2>3, FS_Subset
  <2>5. QED BY <2>4, FS_CardinalityType
<1> DEFINE c == Cardinality(may)
<1>5. 200 * c >= 159 * (n * (1 + m)) /\ c \in Nat /\ c <= n * m
  BY <1>p, <1>4
<1> HIDE DEF c, n, m, may
<1>6. CASE m = 0
  BY <1>2, <1>5, <1>6
<1>7. CASE m = 1
  BY <1>2, <1>5, <1>7
<1>8. CASE m = 2
  BY <1>2, <1>5, <1>8
<1>9. CASE m = 3
  BY <1>2, <1>5, <1>9
<1>10. QED BY <1>2, <1>6, <1>7, <1>8, <1>9

\* What ValidateFinding does to the verdicts of a scan.
LEMMA VerdictOf ==
    ASSUME Typed, NEW s \in Scans, NEW a \in Apps, ValidateFinding(s, a)
    PROVE  /\ UNCHANGED listed
           /\ \A t \in Scans \ {s} : verdict'[t] = verdict[t]
           /\ \E page \in PagesOf[a] : \E status \in Outcomes(a, page, listed[s]) :
                verdict'[s] = [b \in DOMAIN verdict[s] \cup {a} |->
                                 IF b = a THEN [page |-> page, status |-> status] ELSE verdict[s][b]]
BY DEF ValidateFinding, Typed, ScanFunctions

\* The other steps of a scan give no verdicts, and those before it lists its
\* contexts come before it has any.
LEMMA VerdictsKept ==
    ASSUME Typed, NEW s \in Scans, RunScan(s), ~\E a \in Apps : ValidateFinding(s, a)
    PROVE  /\ UNCHANGED verdict
           /\ \A t \in Scans \ {s} : listed'[t] = listed[t]
           /\ listed' = listed \/ DOMAIN verdict[s] = {}
<1>1. CASE LoadContexts(s)
  BY <1>1, OthersKept DEF LoadContexts, Enter, Typed, ScanTyped
<1>2. CASE ~LoadContexts(s)
  BY <1>2 DEF RunScan, ClearRules, AddRule, VerifyAccess, SkipBridge, OpenTarget, StartAttack,
     Attack, TakeAlerts, CommitFindings
<1>3. QED BY <1>1, <1>2

LEMMA StepKeepsReaders == Typed /\ ConfirmedByReader /\ [Next]_vars => ConfirmedByReader'
<1> SUFFICES ASSUME Typed, ConfirmedByReader, [Next]_vars PROVE ConfirmedByReader'
  OBVIOUS
<1> USE DEF ConfirmedByReader, ConfirmedDenials, Readers
<1>1. CASE UNCHANGED <<listed, verdict>>
  BY <1>1
<1>2. ASSUME NEW s \in Scans, RunScan(s), ~\E a \in Apps : ValidateFinding(s, a)
      PROVE  ConfirmedByReader'
  BY <1>2, VerdictsKept
<1>3. ASSUME NEW s \in Scans, NEW a \in Apps, ValidateFinding(s, a)
      PROVE  ConfirmedByReader'
  <2>0. PICK page \in PagesOf[a] : \E status \in Outcomes(a, page, listed[s]) :
           verdict'[s] = [b \in DOMAIN verdict[s] \cup {a} |->
                            IF b = a THEN [page |-> page, status |-> status] ELSE verdict[s][b]]
    BY <1>3, VerdictOf
  <2>1. PICK status \in Outcomes(a, page, listed[s]) :
           verdict'[s] = [b \in DOMAIN verdict[s] \cup {a} |->
                            IF b = a THEN [page |-> page, status |-> status] ELSE verdict[s][b]]
    BY <2>0
  <2>2. UNCHANGED listed /\ \A t \in Scans \ {s} : verdict'[t] = verdict[t]
    BY <1>3, VerdictOf
  <2>3. page \in Pages
    BY ScannerAssumption
  <2>4. ASSUME status = "confirmed", page.kind = "denies", page.mutated <= 3, ~page.cookies
        PROVE  Readers(s, page) # {}
    <3>1. listed[s] \in Seq(Row) /\ live \subseteq Logins
      BY DEF Typed, ScanTyped, AuthTypeOK
    <3>2. "confirmed" \in Outcomes(a, page, listed[s])
      BY <2>1, <2>4
    <3>3. PICK k \in 2..Len(listed[s]) :
             listed[s][k].session \in Logins /\ RoleOf[listed[s][k].session] \in page.readers
      BY <2>3, <2>4, <3>1, <3>2, UnreadUnconfirmed
    <3>4. QED BY <3>3
  <2>5. ASSUME NEW b \in ConfirmedDenials(s)'
        PROVE  LET given == verdict'[s][b].page IN
               given.mutated <= 3 /\ ~given.cookies => Readers(s, given) # {}
    <3>1. CASE b = a
      BY <2>1, <2>4, <3>1
    <3>2. CASE b # a
      BY <2>1, <2>5, <3>2
    <3>3. QED BY <3>1, <3>2
  <2>6. QED BY <2>2, <2>5
<1>4. QED BY <1>1, <1>2, <1>3 DEF Next, vars, scanVars

\* A page that denies those who are not signed in is confirmed as a flaw only
\* where a session was compared that may read it, for any number of contexts and
\* whatever sessions end and replays fail: three mutations for each context cannot
\* make up for a denied replay.  (With a second identifier they can:
\* generate_identifier_mutations makes three for each.)
THEOREM ConfirmedWhereRead == Spec => []ConfirmedByReader
<1>1. Init => Typed /\ ConfirmedByReader
  BY TypedAtFirst DEF Init, ConfirmedByReader, ConfirmedDenials
<1>2. Typed /\ ConfirmedByReader /\ [Next]_vars => (Typed /\ ConfirmedByReader)'
  BY StepKeepsTypes, StepKeepsReaders
<1>3. QED BY <1>1, <1>2, PTL DEF Spec

\* The sessions a scan compares are of its own application.
OwnContexts ==
    \A s \in Scans : \A k \in DOMAIN listed[s] :
        listed[s][k].session \in Logins => AppOf[RoleOf[listed[s][k].session]] = AppOfScan(s)

Owned == OwnContexts /\ ForeignDenialNotConfirmed

LEMMA StepKeepsOwned == Typed /\ RoleIsolation /\ Owned /\ [Next]_vars => Owned'
<1> SUFFICES ASSUME Typed, RoleIsolation, Owned, [Next]_vars PROVE Owned'
  OBVIOUS
<1>1. CASE UNCHANGED <<listed, verdict>>
  BY <1>1 DEF Owned, OwnContexts, ForeignDenialNotConfirmed, ConfirmedDenials, AppOfScan
<1>2. ASSUME NEW s \in Scans, RunScan(s), ~\E a \in Apps : ValidateFinding(s, a)
      PROVE  Owned'
  <2>1. UNCHANGED verdict /\ \A t \in Scans \ {s} : listed'[t] = listed[t]
    BY <1>2, VerdictsKept
  <2>2. ForeignDenialNotConfirmed'
    BY <2>1 DEF Owned, ForeignDenialNotConfirmed, ConfirmedDenials, AppOfScan
  <2>3. ASSUME LoadContexts(s), NEW k \in DOMAIN listed'[s], listed'[s][k].session \in Logins
        PROVE  AppOf[RoleOf[listed'[s][k].session]] = AppOfScan(s)
    <3>1. PICK j \in DOMAIN rows : listed'[s][k] = rows[j] /\ AppOf[rows[j].role] = AppOfScan(s)
      BY <2>3, ListedRows DEF Typed
    <3>2. OfRole(rows[j].session, rows[j].role)
      BY DEF RoleIsolation
    <3>3. rows[j].session # NoSession
      BY <2>3, <3>1, ContextsAssumption
    <3>4. QED BY <3>1, <3>2, <3>3 DEF OfRole
  <2>4. CASE LoadContexts(s)
    <3>1. OwnContexts'
      BY <2>1, <2>3, <2>4 DEF Owned, OwnContexts, AppOfScan
    <3>2. QED BY <2>2, <3>1 DEF Owned
  <2>5. CASE ~LoadContexts(s)
    <3>1. UNCHANGED listed
      BY <1>2, <2>5 DEF RunScan, ClearRules, AddRule, VerifyAccess, SkipBridge, OpenTarget,
         StartAttack, Attack, TakeAlerts, CommitFindings
    <3>2. QED BY <2>1, <3>1, <1>1
  <2>6. QED BY <2>4, <2>5
<1>3. ASSUME NEW s \in Scans, NEW a \in Apps, ValidateFinding(s, a)
      PROVE  Owned'
  <2>0. PICK page \in PagesOf[a] : \E status \in Outcomes(a, page, listed[s]) :
           verdict'[s] = [b \in DOMAIN verdict[s] \cup {a} |->
                            IF b = a THEN [page |-> page, status |-> status] ELSE verdict[s][b]]
    BY <1>3, VerdictOf
  <2>1. PICK status \in Outcomes(a, page, listed[s]) :
           verdict'[s] = [b \in DOMAIN verdict[s] \cup {a} |->
                            IF b = a THEN [page |-> page, status |-> status] ELSE verdict[s][b]]
    BY <2>0
  <2>2. UNCHANGED listed /\ \A t \in Scans \ {s} : verdict'[t] = verdict[t]
    BY <1>3, VerdictOf
  <2>3. page \in Pages
    BY ScannerAssumption
  <2>4. ASSUME status = "confirmed", page.kind = "denies" PROVE a = AppOfScan(s)
    <3>1. listed[s] \in Seq(Row) /\ live \subseteq Logins
      BY DEF Typed, ScanTyped, AuthTypeOK
    <3>2. "confirmed" \in Outcomes(a, page, listed[s])
      BY <2>1, <2>4
    <3>3. ~\A k \in DOMAIN listed[s] :
             listed[s][k].session \in Logins => AppOf[RoleOf[listed[s][k].session]] # a
      BY <2>3, <2>4, <3>1, <3>2, ForeignUnconfirmed
    <3>4. QED BY <3>3 DEF Owned, OwnContexts
  <2>5. ASSUME NEW b \in ConfirmedDenials(s)' PROVE b = AppOfScan(s)
    <3>1. CASE b = a
      BY <2>1, <2>4, <2>5, <3>1 DEF ConfirmedDenials
    <3>2. CASE b # a
      BY <2>1, <2>5, <3>2 DEF ConfirmedDenials, Owned, ForeignDenialNotConfirmed
    <3>3. QED BY <3>1, <3>2
  <2>6. ForeignDenialNotConfirmed'
    BY <2>2, <2>5 DEF Owned, ForeignDenialNotConfirmed, ConfirmedDenials, AppOfScan
  <2>7. QED BY <2>2, <2>6 DEF Owned, OwnContexts, AppOfScan
<1>4. QED BY <1>1, <1>2, <1>3 DEF Next, vars, scanVars

\* Alerts about pages of another site that deny those who are not signed in are
\* never confirmed by replaying them with the sessions of this scan's application,
\* whatever sessions end and replays fail, if no two roles have one browser-state
\* file.  (get_findings takes the alerts of every site.)
THEOREM ForeignDenialsUnconfirmed ==
    ASSUME SeparateFiles
    PROVE  Spec => []ForeignDenialNotConfirmed
<1>1. Init => Typed /\ Owned
  BY TypedAtFirst DEF Init, Owned, OwnContexts, ForeignDenialNotConfirmed, ConfirmedDenials
<1>2. Typed /\ RoleIsolation /\ Owned /\ [Next]_vars => (Typed /\ Owned)'
  BY StepKeepsTypes, StepKeepsOwned
<1>3. Spec => []RoleIsolation
  BY ScansKeepRolesApart, SeparateFiles
<1>4. Owned => ForeignDenialNotConfirmed
  BY DEF Owned
<1>5. QED BY <1>1, <1>2, <1>3, <1>4, PTL DEF Spec

=============================================================================
