---------------------------- MODULE AuthContexts ----------------------------
(***************************************************************************)
(* The sessions the platform signs in with: the rows of auth_sessions, the *)
(* browser-state file of every role and the browsers that load and save    *)
(* it.  A scan reuses the newest row of its role if a browser that loaded  *)
(* the role's file looks signed in, and signs in otherwise; POST           *)
(* /authenticate always signs in.  Nothing locks the file: it is loaded    *)
(* when a browser opens and written back when it closes.                   *)
(*                                                                         *)
(* A session of the application is named by the login that created it.     *)
(***************************************************************************)
EXTENDS Verdicts, Sequences

CONSTANTS
    Logins,         \* the scans and the requests to POST /authenticate
    Scans,
    Anonymous,      \* the scans whose application may need no authentication
    Earlier,        \* the logins that were over before, in order
    Apps, Roles,
    AppOf,          \* a role belongs to one application (of one workspace)
    RoleOf,         \* the role of a login
    Files,
    FileOf,         \* session_state_path: the file of a role
    Carries,        \* the signals in the credentials of an application's sessions
    SeenInside,     \* what a browser that is signed in sees of it
    SeenOutside,    \* what any other browser sees of it
    Expiring,       \* bound: the sessions their application may end
    NoSession

ASSUME ContextsAssumption ==
    /\ Scans \subseteq Logins /\ Anonymous \subseteq Scans
    /\ Earlier \in Seq(Logins \ Scans)
    /\ AppOf \in [Roles -> Apps]
    /\ RoleOf \in [Logins -> Roles]
    /\ FileOf \in [Roles -> Files]
    /\ Carries \in [Apps -> SUBSET Carried]
    /\ SeenInside \in [Apps -> SUBSET Signals]
    /\ SeenOutside \in [Apps -> SUBSET Signals]
    /\ NoSession \notin Logins

VARIABLES
    rows,       \* auth_sessions in the order of created_at
    file,       \* the session each browser-state file holds
    live,       \* the sessions the applications still accept
    login,      \* how far each login has come
    browser,    \* the session its browser holds
    context     \* the session its AuthContext was built from

contextVars == <<rows, file, live, login, browser, context>>

LoginStep ==
    { "start", "stored", "checking", "login", "signing_in", "signed_in",
      "verify", "verifying", "saving", "ready", "failed" }

Session == Logins \cup {NoSession}

Latest(K) == {k \in K : \A j \in K : j <= k}

EarlierOf(f) == {k \in DOMAIN Earlier : FileOf[RoleOf[Earlier[k]]] = f}

AuthInit ==
    /\ rows = [k \in DOMAIN Earlier |-> [role |-> RoleOf[Earlier[k]], session |-> Earlier[k]]]
    /\ file \in [Files -> Session]
    /\ \A f \in Files : IF EarlierOf(f) = {} THEN file[f] = NoSession
                       ELSE \E k \in Latest(EarlierOf(f)) : file[f] = Earlier[k]
    /\ live = {Earlier[k] : k \in DOMAIN Earlier}
    /\ \E N \in SUBSET Anonymous :
         login = [l \in Logins |-> IF l \in N \cup live THEN "ready"
                                  ELSE IF l \in Scans THEN "start" ELSE "login"]
    /\ browser = [l \in Logins |-> NoSession]
    /\ context = [l \in Logins |-> NoSession]

Go(l, from, to) ==
    /\ login[l] = from
    /\ login' = [login EXCEPT ![l] = to]

-----------------------------------------------------------------------------

RowsOf(r) == {k \in DOMAIN rows : rows[k].role = r}

\* Mutant: the role is not in the query.
GetContext_AnyRole(r) == Latest(DOMAIN rows)

\* get_context: the newest active row of the role, if there is one.  No row is
\* ever made inactive or given an expiry.
GetContext(r) == Latest(RowsOf(r))

LookUp(l) ==
    /\ l \in Scans
    /\ \/ /\ GetContext(RoleOf[l]) = {}
          /\ Go(l, "start", "login")
          /\ UNCHANGED context
       \/ \E k \in GetContext(RoleOf[l]) :
            /\ Go(l, "start", "stored")
            /\ context' = [context EXCEPT ![l] = rows[k].session]
    /\ UNCHANGED <<rows, file, live, browser>>

\* A browser opens with what the file holds, before the stored context is
\* checked, before the sign-in and before the new context is verified.
OpenBrowser(l) ==
    /\ \/ Go(l, "stored", "checking")
       \/ Go(l, "login", "signing_in")
       \/ Go(l, "verify", "verifying")
    /\ browser' = [browser EXCEPT ![l] = file[FileOf[RoleOf[l]]]]
    /\ UNCHANGED <<rows, file, live, context>>

\* What a browser may report of an application, signed in to it or not, with
\* the credentials of one of its sessions or with none.  The routes that time
\* out leave signals out.
Reports(a, signedIn, credentials) ==
    LET seen == IF signedIn THEN SeenInside[a] ELSE SeenOutside[a]
        sent == IF credentials THEN Carries[a] ELSE {}
    IN  {R \in SUBSET (seen \cup sent) : sent \subseteq R /\ Consistent(R)}

PossibleLevels ==
    [a \in Apps, signedIn, credentials \in BOOLEAN |->
        {Level[R] : R \in Reports(a, signedIn, credentials)}]

\* The levels the session of l's browser and its context may be given.
Assess(l) == PossibleLevels[AppOf[RoleOf[l]], browser[l] \in live, context[l] # NoSession]

\* The browser closes and its state replaces the file.
SaveFile(l) == file' = [file EXCEPT ![FileOf[RoleOf[l]]] = browser[l]]

\* A page that does not load is a low confidence.
CheckStored(l) ==
    \E level \in Assess(l) \cup {"low"} :
        /\ Go(l, "checking", IF level = "low" THEN "login" ELSE "ready")
        /\ context' = [context EXCEPT ![l] = IF level = "low" THEN NoSession ELSE @]
        /\ SaveFile(l)
        /\ UNCHANGED <<rows, live, browser>>

\* When the page has settled, or after 30 s, the AuthContext is built from what
\* the browser holds by then.
Capture(l) == context' = [context EXCEPT ![l] = browser'[l]]

\* The form is submitted.  If the credentials are refused, the browser keeps
\* the session it came with.
SignIn(l) ==
    /\ Go(l, "signing_in", "signed_in")
    /\ \/ /\ live' = live \cup {l}
          /\ browser' = [browser EXCEPT ![l] = l]
       \/ UNCHANGED <<live, browser>>
    /\ Capture(l)
    /\ UNCHANGED <<rows, file>>

\* The sign-in is accepted at high confidence; accepted or not, the file is saved.
CloseSignIn(l) ==
    \E level \in Assess(l) :
        /\ Go(l, "signed_in",
              IF level \notin {"high", "critical"} THEN "failed"
              ELSE IF l \in Scans THEN "verify" ELSE "saving")
        /\ SaveFile(l)
        /\ UNCHANGED <<rows, live, browser, context>>

\* There is no form to submit, as when the browser is signed in already.
NoForm(l) ==
    /\ Go(l, "signing_in", "failed")
    /\ SaveFile(l)
    /\ UNCHANGED <<rows, live, browser, context>>

\* A scan looks at its new context once more, in a browser of its own.
VerifyContext(l) ==
    \E level \in Assess(l) \cup {"low"} :
        /\ Go(l, "verifying", IF level = "low" THEN "failed" ELSE "saving")
        /\ SaveFile(l)
        /\ UNCHANGED <<rows, live, browser, context>>

\* save_context always inserts.
SaveContext(l) ==
    /\ Go(l, "saving", "ready")
    /\ rows' = Append(rows, [role |-> RoleOf[l], session |-> context[l]])
    /\ UNCHANGED <<file, live, browser, context>>

\* The application ends a session.
Expire(s) ==
    /\ s \in live \cap Expiring
    /\ live' = live \ {s}
    /\ UNCHANGED <<rows, file, login, browser, context>>

-----------------------------------------------------------------------------

LogIn(l) ==
    \/ LookUp(l)
    \/ OpenBrowser(l)
    \/ CheckStored(l)
    \/ SignIn(l)
    \/ CloseSignIn(l)
    \/ NoForm(l)
    \/ VerifyContext(l)
    \/ SaveContext(l)

AuthNext == \E l \in Logins : LogIn(l) \/ Expire(l)

AuthSpec == AuthInit /\ [][AuthNext]_contextVars

-----------------------------------------------------------------------------
(* Properties. *)

Row == [role : Roles, session : Session]

AuthTypeOK ==
    /\ rows \in Seq(Row)
    /\ file \in [Files -> Session]
    /\ live \subseteq Logins
    /\ login \in [Logins -> LoginStep]
    /\ browser \in [Logins -> Session]
    /\ context \in [Logins -> Session]

\* The session was signed in to with the credentials of r.
OfRole(s, r) == s # NoSession => RoleOf[s] = r

\* No two roles have the same browser-state file: session_state_path replaces
\* every character but letters, digits, "-" and "_".
SeparateFiles == \A r, q \in Roles : FileOf[r] = FileOf[q] => r = q

\* However scans and requests interleave, repeat and fail, what is stored or
\* used for a role (its rows, its file, the browsers and the contexts of its
\* logins) only ever holds sessions of that role.
RoleIsolation ==
    /\ \A k \in DOMAIN rows : OfRole(rows[k].session, rows[k].role)
    /\ \A r \in Roles : OfRole(file[FileOf[r]], r)
    /\ \A l \in Logins : OfRole(browser[l], RoleOf[l]) /\ OfRole(context[l], RoleOf[l])

=============================================================================
