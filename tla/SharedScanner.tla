--------------------------- MODULE SharedScanner ---------------------------
(***************************************************************************)
(* Scans on the one ZAP daemon that every worker drives.  A scan gives its *)
(* credentials to the daemon as replacer rules, which apply to everything  *)
(* the daemon sends, whoever asked for it; it attacks its application and  *)
(* takes all alerts of the daemon as its findings, and replays each with   *)
(* the stored sessions of its application.                                 *)
(*                                                                         *)
(* Extends AuthContexts, where the credentials come from.                  *)
(***************************************************************************)
EXTENDS AuthContexts, SequencesExt

CONSTANTS
    RoleOrder,      \* the roles as a SELECT orders them
    RulesOf,        \* the names of an application's headers and cookies, in order
    ConfigRoles,    \* "roles" of an application's configuration, or {}
    PagesOf,        \* the pages of a site that alerts may be about
    ScopeHosts,     \* REPLAY_ALLOWED_HOSTS
    Faults,
    NoSite

PossibleFaults ==
    { "clear_fails",    \* the replacer has no remove_all_rules, or it fails
      "zap_error",      \* ZAP refuses a rule, finds no message or cannot open a page
      "unreachable",    \* ZAP opens the target without recording it in its sites
      "replay_fails" }  \* a replayed request gets no answer

\* A page: who may read it, what it answers to anyone who is not signed in, how
\* many mutated requests there are for it (three for each of up to 14
\* identifiers), and whether its site sets cookies, which the one HTTP client of
\* the replay engine keeps and sends on with every context.
PageKinds == {"denies", "redirects", "form", "public"}

Pages == [kind : PageKinds, readers : SUBSET Roles, mutated : 0..42, cookies : BOOLEAN]

ASSUME ScannerAssumption ==
    /\ \A r \in Roles : \E k \in DOMAIN RoleOrder : RoleOrder[k] = r
    /\ \A a \in Apps : RulesOf[a] \in Seq(Range(RulesOf[a])) /\ IsInjective(RulesOf[a])
    /\ ConfigRoles \in [Apps -> SUBSET Roles]
    /\ PagesOf \in [Apps -> (SUBSET Pages) \ {{}}]
    /\ Faults \subseteq PossibleFaults
    /\ NoSite \notin Apps

Rules == UNION {Range(RulesOf[a]) : a \in Apps}

VARIABLES
    (* the daemon *)
    rules,      \* whose value each replacer rule injects
    sites,      \* its site tree
    answered,   \* the sites with a 200 for a protected path among its messages
    alerts,     \* the sites it has alerts for
    (* the scans *)
    phase,      \* how far the scan has come
    todo,       \* the rules it has still to add
    target,     \* the site it attacks
    found,      \* the alerts it took
    listed,     \* the contexts it replays with
    verdict,    \* the page and the status of each of its findings
    (* for the properties *)
    former      \* the scans that were through when the rules were last cleared

daemonVars == <<rules, sites, answered, alerts>>
scanVars == <<phase, todo, target, found, listed, verdict>>

Phase ==
    { "waiting", "injecting", "verifying", "opening", "spidered", "attacking",
      "collected", "validating", "done", "failed" }

Init ==
    /\ AuthInit
    /\ rules = [n \in Rules |-> NoSession]
    /\ sites = {} /\ answered = {} /\ alerts = {}
    /\ phase = [s \in Scans |-> "waiting"]
    /\ todo = [s \in Scans |-> << >>]
    /\ target = [s \in Scans |-> NoSite]
    /\ found = [s \in Scans |-> {}]
    /\ listed = [s \in Scans |-> << >>]
    /\ verdict = [s \in Scans |-> << >>]
    /\ former = {}

AppOfScan(s) == AppOf[RoleOf[s]]

Enter(s, from, to) ==
    /\ phase[s] = from
    /\ phase' = [phase EXCEPT ![s] = to]

\* Its auth_headers or its cookies are not empty.
HasCredentials(s) == context[s] # NoSession /\ RulesOf[AppOfScan(s)] # << >>

OnDaemon(s) == phase[s] \in {"injecting", "verifying", "opening", "spidered", "attacking"}

Through(s) == phase[s] # "waiting" /\ ~OnDaemon(s)

\* The sessions whose credentials the daemon adds to whatever it sends.
Injected == {rules[n] : n \in Rules} \ {NoSession}

-----------------------------------------------------------------------------
(* The bridge: ZAPAuthContextBridge.                                         *)

\* Mutant: the bridge clears only the names it is going to add.
ClearRules_OwnNames(s) ==
    /\ login[s] = "ready" /\ HasCredentials(s)
    /\ Enter(s, "waiting", "injecting")
    /\ todo' = [todo EXCEPT ![s] = RulesOf[AppOfScan(s)]]
    /\ rules' = [n \in Rules |-> IF n \in Range(RulesOf[AppOfScan(s)]) THEN NoSession ELSE rules[n]]
    /\ former' = {t \in Scans : Through(t)}
    /\ UNCHANGED <<contextVars, sites, answered, alerts, target, found, listed, verdict>>

\* Every rule is removed, if the replacer has remove_all_rules and it succeeds.
ClearRules(s) ==
    /\ login[s] = "ready" /\ HasCredentials(s)
    /\ Enter(s, "waiting", "injecting")
    /\ todo' = [todo EXCEPT ![s] = RulesOf[AppOfScan(s)]]
    /\ \/ /\ rules' = [n \in Rules |-> NoSession]
          /\ former' = {t \in Scans : Through(t)}
       \/ /\ "clear_fails" \in Faults
          /\ UNCHANGED <<rules, former>>
    /\ UNCHANGED <<contextVars, sites, answered, alerts, target, found, listed, verdict>>

\* ZAP refuses a rule with a name it has; the refusal is only logged.
AddRule(s) ==
    /\ Enter(s, "injecting", IF Len(todo[s]) = 1 THEN "verifying" ELSE "injecting")
    /\ todo' = [todo EXCEPT ![s] = Tail(@)]
    /\ \/ /\ rules[Head(todo[s])] = NoSession
          /\ rules' = [rules EXCEPT ![Head(todo[s])] = context[s]]
       \/ /\ rules[Head(todo[s])] # NoSession \/ "zap_error" \in Faults
          /\ UNCHANGED rules
    /\ UNCHANGED <<contextVars, sites, answered, alerts, target, found, listed, verdict, former>>

SignedInTo(a) == \E i \in Injected \cap live : AppOf[RoleOf[i]] = a

\* A 200 counts wherever it is among the daemon's messages.
VerifyAccess(s) ==
    LET a == AppOfScan(s) IN
    /\ \/ /\ SignedInTo(a) \/ "protected_routes_accessible" \in SeenOutside[a]
          /\ answered' = answered \cup {a}
       \/ /\ ~SignedInTo(a) \/ "zap_error" \in Faults
          /\ UNCHANGED answered
    /\ Enter(s, "verifying", IF a \in answered' THEN "opening" ELSE "failed")
    /\ UNCHANGED <<contextVars, rules, sites, alerts, todo, target, found, listed, verdict, former>>

-----------------------------------------------------------------------------
(* The driver: ZAPScanner.                                                   *)

\* A scan without credentials leaves the rules as they are.
SkipBridge(s) ==
    /\ login[s] = "ready" /\ ~HasCredentials(s)
    /\ Enter(s, "waiting", "opening")
    /\ UNCHANGED <<contextVars, daemonVars, todo, target, found, listed, verdict, former>>

\* The target is opened and spidered.
OpenTarget(s) ==
    /\ Enter(s, "opening", "spidered")
    /\ \/ sites' = sites \cup {AppOfScan(s)}
       \/ "unreachable" \in Faults /\ UNCHANGED sites
    /\ UNCHANGED <<contextVars, rules, answered, alerts, todo, target, found, listed, verdict, former>>

\* Where the target is not in the site tree, the only site in it is attacked.
StartAttack(s) ==
    /\ Enter(s, "spidered",
             IF AppOfScan(s) \in sites \/ Cardinality(sites) = 1 THEN "attacking" ELSE "failed")
    /\ target' = [target EXCEPT ![s] =
                    IF AppOfScan(s) \in sites THEN AppOfScan(s)
                    ELSE IF Cardinality(sites) = 1 THEN CHOOSE a \in sites : TRUE ELSE @]
    /\ UNCHANGED <<contextVars, daemonVars, todo, found, listed, verdict, former>>

\* The active scan sends requests and may raise alerts.
Attack(s) ==
    /\ phase[s] = "attacking"
    /\ alerts' \in {alerts, alerts \cup {target[s]}}
    /\ UNCHANGED <<contextVars, rules, sites, answered, phase, todo, target, found, listed, verdict, former>>

\* get_findings asks for the alerts of no site or scan in particular.
TakeAlerts(s) ==
    /\ Enter(s, "attacking", "collected")
    /\ found' = [found EXCEPT ![s] = alerts]
    /\ UNCHANGED <<contextVars, daemonVars, todo, target, listed, verdict, former>>

-----------------------------------------------------------------------------
(* The validation of the findings.                                           *)

\* Of two rows of an application the one whose role comes first is listed
\* first, and of two of one role the newer.
ListedBefore(i, j) ==
    \E m, n \in DOMAIN RoleOrder :
        /\ RoleOrder[m] = rows[i].role /\ RoleOrder[n] = rows[j].role
        /\ m < n \/ (m = n /\ i > j)

\* list_contexts: the rows of application a, by their positions; of the roles
\* its configuration names, if it names any.
ListContexts(a) ==
    LET Rows == {k \in DOMAIN rows :
                   /\ AppOf[rows[k].role] = a
                   /\ ConfigRoles[a] # {} => rows[k].role \in ConfigRoles[a]}
    IN  {f \in SetToSeqs(Rows) : \A i, j \in DOMAIN f : i < j => ListedBefore(f[i], f[j])}

LoadContexts(s) ==
    /\ Enter(s, "collected", "validating")
    /\ \E f \in ListContexts(AppOfScan(s)) :
         listed' = [listed EXCEPT ![s] = [k \in DOMAIN f |-> rows[f[k]]]]
    /\ UNCHANGED <<contextVars, daemonVars, todo, target, found, verdict, former>>

Failed    == [status |-> 0,   body |-> "none",  owners |-> {}]
Page      == [status |-> 200, body |-> "page",  owners |-> {"theirs"}]
OwnObject == [status |-> 200, body |-> "page",  owners |-> {"own"}]
NotFound  == [status |-> 404, body |-> "error", owners |-> {}]
Forbidden == [status |-> 403, body |-> "error", owners |-> {}]
Challenge == [status |-> 401, body |-> "error", owners |-> {}]
Redirect  == [status |-> 302, body |-> "none",  owners |-> {}]
Form      == [status |-> 200, body |-> "form",  owners |-> {}]

Refusal == [denies |-> Challenge, redirects |-> Redirect, form |-> Form, public |-> Page]

\* Site a takes session i for one of its own.
Accepts(a, i) == i \in live /\ AppOf[RoleOf[i]] = a

\* What site a answers to the request of a finding about page, from session i ...
Answer(a, page, i) ==
    IF ~Accepts(a, i) \/ page.kind = "public" THEN Refusal[page.kind]
    ELSE IF RoleOf[i] \in page.readers THEN Page ELSE Forbidden

\* ... and to a mutated one: perhaps an object of the sender's own, or none.
MutatedAnswers(a, page, i) ==
    {Answer(a, page, i)}
    \cup (IF Accepts(a, i) \/ page.kind = "public" THEN {OwnObject, NotFound} ELSE {})

\* The sessions that may speak when the k-th context is replayed: its own, or
\* what the client's cookies say, of any context before or of none.
Senders(page, contexts, k) ==
    {contexts[k].session}
    \cup (IF page.cookies THEN {contexts[j].session : j \in DOMAIN contexts} \cup {NoSession} ELSE {})

\* What may come back when the k-th context replays the request (m = 0) or one of
\* its mutations.
Replies(a, page, contexts, k, m) ==
    (UNION {IF m = 0 THEN {Answer(a, page, i)} ELSE MutatedAnswers(a, page, i) :
              i \in Senders(page, contexts, k)})
    \cup (IF "replay_fails" \in Faults THEN {Failed} ELSE {})

\* Each context but the first replays the request and its mutations.
Replays(page, contexts) == (2..Len(contexts)) \X (0..page.mutated)

\* The replays that may, and those that must, be suspicious beside the baseline.
MaySuspect(a, page, contexts, baseline) ==
    {r \in Replays(page, contexts) :
        \E reply \in Replies(a, page, contexts, r[1], r[2]) : Suspicious(baseline, reply)}

MustSuspect(a, page, contexts, baseline) ==
    {r \in Replays(page, contexts) :
        \A reply \in Replies(a, page, contexts, r[1], r[2]) : Suspicious(baseline, reply)}

\* AuthorizationValidationEngine.validate: the first context is the baseline.
Validate(a, page, contexts) ==
    UNION {{ReplayStatus(n, Cardinality(Replays(page, contexts))) :
              n \in Cardinality(MustSuspect(a, page, contexts, baseline))
                   ..Cardinality(MaySuspect(a, page, contexts, baseline))} :
             baseline \in Replies(a, page, contexts, 1, 0)}

\* A finding stays for review with fewer than two contexts and when the replay
\* engine finds its host out of scope.
Outcomes(a, page, contexts) ==
    IF Len(contexts) < 2 \/ a \notin ScopeHosts THEN {"needs_manual_review"}
    ELSE {FindingStatus(status) : status \in Validate(a, page, contexts)}

ValidateFinding(s, a) ==
    /\ phase[s] = "validating"
    /\ a \in found[s] \ DOMAIN verdict[s]
    /\ \E page \in PagesOf[a] : \E status \in Outcomes(a, page, listed[s]) :
         verdict' = [verdict EXCEPT ![s] =
                       [b \in DOMAIN @ \cup {a} |->
                          IF b = a THEN [page |-> page, status |-> status] ELSE @[b]]]
    /\ UNCHANGED <<contextVars, daemonVars, phase, todo, target, found, listed, former>>

\* The findings and the status are committed.
CommitFindings(s) ==
    /\ found[s] = DOMAIN verdict[s]
    /\ Enter(s, "validating", "done")
    /\ UNCHANGED <<contextVars, daemonVars, todo, target, found, listed, verdict, former>>

-----------------------------------------------------------------------------

RunScan(s) ==
    \/ ClearRules(s)
    \/ AddRule(s)
    \/ VerifyAccess(s)
    \/ SkipBridge(s)
    \/ OpenTarget(s)
    \/ StartAttack(s)
    \/ Attack(s)
    \/ TakeAlerts(s)
    \/ LoadContexts(s)
    \/ \E a \in Apps : ValidateFinding(s, a)
    \/ CommitFindings(s)

Next ==
    \/ AuthNext /\ UNCHANGED <<daemonVars, scanVars, former>>
    \/ \E s \in Scans : RunScan(s)

vars == <<contextVars, daemonVars, scanVars, former>>

Spec == Init /\ [][Next]_vars

-----------------------------------------------------------------------------
(* Properties. *)

TypeOK ==
    /\ AuthTypeOK
    /\ rules \in [Rules -> Session]
    /\ sites \subseteq Apps /\ answered \subseteq Apps /\ alerts \subseteq Apps
    /\ phase \in [Scans -> Phase]
    /\ \A s \in Scans :
         /\ Range(todo[s]) \subseteq Rules
         /\ target[s] \in Apps \cup {NoSite}
         /\ found[s] \subseteq Apps
         /\ Range(listed[s]) \subseteq Row
         /\ DOMAIN verdict[s] \subseteq found[s]
         /\ \A a \in DOMAIN verdict[s] :
              verdict[s][a] \in [page : PagesOf[a], status : FindingStatuses]
    /\ former \subseteq Scans

\* Once a bridge has cleared the rules, nobody's requests carry credentials of a
\* scan that was through with the daemon by then: not those of a scan that adds
\* its rules to another's, that has none of its own, whose rules ZAP refuses or
\* whose own clearing fails.
ClearedNotSent ==
    Injected \subseteq {context[s] : s \in {t \in Scans : phase[t] # "waiting"} \ former}

\* The findings that are confirmed as flaws of pages that deny those who are not
\* signed in.
ConfirmedDenials(s) ==
    {a \in DOMAIN verdict[s] : verdict[s][a].status = "confirmed" /\ verdict[s][a].page.kind = "denies"}

\* The contexts compared with the baseline whose own sessions may read the page.
Readers(s, page) ==
    {k \in 2..Len(listed[s]) : listed[s][k].session \in Logins
                              /\ RoleOf[listed[s][k].session] \in page.readers}

\* A page that denies is confirmed as a flaw only where a session was compared
\* that may read it.  A baseline that has died, replays that fail and mutated
\* requests for what a role may read anyway confirm nothing, as long as the
\* request has one identifier at most and the site sets no cookies.
ConfirmedByReader ==
    \A s \in Scans : \A a \in ConfirmedDenials(s) :
        LET page == verdict[s][a].page IN
        page.mutated <= 3 /\ ~page.cookies => Readers(s, page) # {}

\* A page of another site that denies is never confirmed as a flaw of the
\* scanned application, whatever its identifiers, its cookies and the replays
\* that fail: the alert found its way into the scan, not its sessions.
ForeignDenialNotConfirmed == \A s \in Scans : ConfirmedDenials(s) \subseteq {AppOfScan(s)}

\* The contexts the scan compared with the first, of the same role as that.
SameRole(s) == {k \in 2..Len(listed[s]) : listed[s][k].role = listed[s][1].role}

\* Every comparison is between contexts of two roles.
TwoRolesCompared ==
    \A s \in Scans : DOMAIN verdict[s] # {} /\ Len(listed[s]) > 1 => SameRole(s) = {}

=============================================================================
