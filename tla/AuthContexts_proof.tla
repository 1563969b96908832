------------------------- MODULE AuthContexts_proof -------------------------
(* That the roles' sessions stay apart in AuthContexts, for any number of    *)
(* applications, roles, scans and requests.                                  *)
EXTENDS AuthContexts, TLAPS

LEMMA EarlierTyped ==
    ASSUME AuthInit
    PROVE  AuthTypeOK
<1>1. rows \in Seq(Row)
  <2>1. \A k \in 1..Len(Earlier) :
           [role |-> RoleOf[Earlier[k]], session |-> Earlier[k]] \in Row
    BY ContextsAssumption DEF Row, Session
  <2>2. rows = [k \in 1..Len(Earlier) |-> [role |-> RoleOf[Earlier[k]], session |-> Earlier[k]]]
    BY ContextsAssumption DEF AuthInit
  <2>3. Len(Earlier) \in Nat
    BY ContextsAssumption
  <2>4. QED BY <2>1, <2>2, <2>3
<1>2. live \subseteq Logins
  BY ContextsAssumption DEF AuthInit
<1>3. login \in [Logins -> LoginStep]
  BY DEF AuthInit, LoginStep
<1>4. QED BY <1>1, <1>2, <1>3 DEF AuthInit, AuthTypeOK, Session

\* What the inductive invariant is for: every session a role has, it got from
\* its own rows, its own file or its own logins.
Apart == AuthTypeOK /\ RoleIsolation

LEMMA EarlierApart ==
    ASSUME SeparateFiles, AuthInit
    PROVE  Apart
<1>1. AuthTypeOK
  BY EarlierTyped
<1>2. \A k \in DOMAIN rows : OfRole(rows[k].session, rows[k].role)
  BY DEF AuthInit, OfRole
<1>3. ASSUME NEW r \in Roles PROVE OfRole(file[FileOf[r]], r)
  <2>1. FileOf[r] \in Files
    BY ContextsAssumption
  <2>2. CASE EarlierOf(FileOf[r]) = {}
    BY <2>1, <2>2 DEF AuthInit, OfRole
  <2>3. CASE EarlierOf(FileOf[r]) # {}
    <3>1. PICK k \in Latest(EarlierOf(FileOf[r])) : file[FileOf[r]] = Earlier[k]
      BY <2>1, <2>3 DEF AuthInit
    <3>2. k \in 1..Len(Earlier) /\ FileOf[RoleOf[Earlier[k]]] = FileOf[r]
      BY <3>1, ContextsAssumption DEF Latest, EarlierOf
    <3>3. RoleOf[Earlier[k]] \in Roles
      BY <3>2, ContextsAssumption
    <3>4. QED BY <3>1, <3>2, <3>3, SeparateFiles DEF SeparateFiles, OfRole
  <2>4. QED BY <2>2, <2>3
<1>4. \A l \in Logins : OfRole(browser[l], RoleOf[l]) /\ OfRole(context[l], RoleOf[l])
  BY DEF AuthInit, OfRole
<1>5. QED BY <1>1, <1>2, <1>3, <1>4 DEF Apart, RoleIsolation

\* What saving its browser does to the files.
LEMMA SaveFileApart ==
    ASSUME Apart, SeparateFiles, NEW l \in Logins, SaveFile(l)
    PROVE  /\ file' \in [Files -> Session]
           /\ \A r \in Roles : OfRole(file'[FileOf[r]], r)
<1>1. /\ RoleOf[l] \in Roles
      /\ \A r \in Roles : FileOf[r] \in Files
  BY ContextsAssumption
<1>2. file \in [Files -> Session] /\ browser[l] \in Session
  BY DEF Apart, AuthTypeOK
<1>3. file' \in [Files -> Session]
  BY <1>1, <1>2 DEF SaveFile
<1>4. ASSUME NEW r \in Roles PROVE OfRole(file'[FileOf[r]], r)
  <2>1. CASE r = RoleOf[l]
    BY <2>1, <1>1, <1>2 DEF SaveFile, OfRole, Apart, RoleIsolation
  <2>2. CASE r # RoleOf[l]
    <3>1. FileOf[r] # FileOf[RoleOf[l]]
      BY <2>2, <1>1, SeparateFiles DEF SeparateFiles
    <3>2. file'[FileOf[r]] = file[FileOf[r]]
      BY <3>1, <1>1, <1>2 DEF SaveFile
    <3>3. QED BY <3>2 DEF Apart, RoleIsolation
  <2>3. QED BY <2>1, <2>2
<1>5. QED BY <1>3, <1>4

LEMMA StepApart ==
    ASSUME Apart, SeparateFiles, [AuthNext]_contextVars
    PROVE  Apart'
<1> USE DEF Apart
<1>a. \A l \in Logins : RoleOf[l] \in Roles /\ FileOf[RoleOf[l]] \in Files
  BY ContextsAssumption
<1>1. ASSUME NEW l \in Logins, LookUp(l) PROVE Apart'
  <2>1. login' \in [Logins -> LoginStep]
    BY <1>1 DEF LookUp, Go, AuthTypeOK, LoginStep
  <2>2. context' \in [Logins -> Session] /\ \A m \in Logins : OfRole(context'[m], RoleOf[m])
    <3>1. CASE context' = context
      BY <3>1 DEF AuthTypeOK, RoleIsolation
    <3>2. ASSUME NEW k \in GetContext(RoleOf[l]),
                 context' = [context EXCEPT ![l] = rows[k].session]
          PROVE  context' \in [Logins -> Session] /\ \A m \in Logins : OfRole(context'[m], RoleOf[m])
      <4>1. k \in DOMAIN rows /\ rows[k].role = RoleOf[l]
        BY DEF GetContext, Latest, RowsOf
      <4>2. rows[k] \in Row
        BY <4>1 DEF AuthTypeOK
      <4>3. rows[k].session \in Session /\ OfRole(rows[k].session, RoleOf[l])
        BY <4>1, <4>2 DEF Row, RoleIsolation
      <4>4. QED BY <3>2, <4>3 DEF AuthTypeOK, RoleIsolation
    <3>3. QED BY <1>1, <3>1, <3>2 DEF LookUp
  <2>3. UNCHANGED <<rows, file, live, browser>>
    BY <1>1 DEF LookUp
  <2>4. QED BY <2>1, <2>2, <2>3 DEF AuthTypeOK, RoleIsolation
<1>2. ASSUME NEW l \in Logins, OpenBrowser(l) PROVE Apart'
  <2>1. login' \in [Logins -> LoginStep]
    BY <1>2 DEF OpenBrowser, Go, AuthTypeOK, LoginStep
  <2>2. browser' \in [Logins -> Session] /\ \A m \in Logins : OfRole(browser'[m], RoleOf[m])
    BY <1>2, <1>a DEF OpenBrowser, AuthTypeOK, RoleIsolation
  <2>3. QED BY <1>2, <2>1, <2>2 DEF OpenBrowser, AuthTypeOK, RoleIsolation
<1>3. ASSUME NEW l \in Logins, CheckStored(l) PROVE Apart'
  <2>1. PICK level : /\ Go(l, "checking", IF level = "low" THEN "login" ELSE "ready")
                     /\ context' = [context EXCEPT ![l] = IF level = "low" THEN NoSession ELSE @]
                     /\ SaveFile(l) /\ UNCHANGED <<rows, live, browser>>
    BY <1>3 DEF CheckStored
  <2>2. login' \in [Logins -> LoginStep]
    BY <2>1 DEF Go, AuthTypeOK, LoginStep
  <2>3. context' \in [Logins -> Session] /\ \A m \in Logins : OfRole(context'[m], RoleOf[m])
    BY <2>1 DEF AuthTypeOK, RoleIsolation, OfRole, Session
  <2>4. QED BY <2>1, <2>2, <2>3, SaveFileApart DEF AuthTypeOK, RoleIsolation
<1>4. ASSUME NEW l \in Logins, SignIn(l) PROVE Apart'
  <2>1. login' \in [Logins -> LoginStep]
    BY <1>4 DEF SignIn, Capture, Go, AuthTypeOK, LoginStep
  <2>2. OfRole(l, RoleOf[l]) /\ l \in Session
    BY DEF OfRole, Session
  <2>3. /\ browser' \in [Logins -> Session] /\ \A m \in Logins : OfRole(browser'[m], RoleOf[m])
        /\ context' \in [Logins -> Session] /\ \A m \in Logins : OfRole(context'[m], RoleOf[m])
        /\ live' \subseteq Logins
    BY <1>4, <2>2 DEF SignIn, Capture, AuthTypeOK, RoleIsolation
  <2>4. UNCHANGED <<rows, file>>
    BY <1>4 DEF SignIn, Capture
  <2>5. QED BY <2>1, <2>3, <2>4 DEF AuthTypeOK, RoleIsolation
<1>5. ASSUME NEW l \in Logins, CloseSignIn(l) \/ NoForm(l) \/ VerifyContext(l) PROVE Apart'
  <2>1. login' \in [Logins -> LoginStep]
    BY <1>5 DEF CloseSignIn, NoForm, VerifyContext, Go, AuthTypeOK, LoginStep
  <2>2. SaveFile(l) /\ UNCHANGED <<rows, live, browser, context>>
    BY <1>5 DEF CloseSignIn, NoForm, VerifyContext
  <2>3. QED BY <2>1, <2>2, SaveFileApart DEF AuthTypeOK, RoleIsolation
<1>6. ASSUME NEW l \in Logins, SaveContext(l) PROVE Apart'
  <2> DEFINE row == [role |-> RoleOf[l], session |-> context[l]]
  <2>1. login' \in [Logins -> LoginStep]
    BY <1>6 DEF SaveContext, Go, AuthTypeOK, LoginStep
  <2>2. row \in Row /\ OfRole(row.session, row.role)
    BY <1>a DEF Row, AuthTypeOK, RoleIsolation
  <2>3. rows' = Append(rows, row) /\ UNCHANGED <<file, live, browser, context>>
    BY <1>6 DEF SaveContext
  <2>4. rows \in Seq(Row)
    BY DEF AuthTypeOK
  <2> HIDE DEF row
  <2>5. rows' \in Seq(Row) /\ \A k \in DOMAIN rows' : OfRole(rows'[k].session, rows'[k].role)
    <3>1. rows' \in Seq(Row) /\ Len(rows') = Len(rows) + 1 /\ Len(rows) \in Nat
      BY <2>2, <2>3, <2>4
    <3>2. \A k \in 1..Len(rows) : rows'[k] = rows[k] /\ k \in DOMAIN rows
      BY <2>2, <2>3, <2>4
    <3>3. rows'[Len(rows) + 1] = row
      BY <2>2, <2>3, <2>4
    <3>4. \A k \in DOMAIN rows' : k \in 1..Len(rows) \/ k = Len(rows) + 1
      BY <3>1
    <3>5. QED BY <2>2, <3>1, <3>2, <3>3, <3>4 DEF RoleIsolation
  <2>6. QED BY <2>1, <2>3, <2>5 DEF AuthTypeOK, RoleIsolation
<1>7. ASSUME NEW l \in Logins, Expire(l) PROVE Apart'
  BY <1>7 DEF Expire, AuthTypeOK, RoleIsolation
<1>8. CASE UNCHANGED contextVars
  BY <1>8 DEF contextVars, AuthTypeOK, RoleIsolation, OfRole
<1>9. QED BY <1>1, <1>2, <1>3, <1>4, <1>5, <1>6, <1>7, <1>8 DEF AuthNext, LogIn

\* Where no two roles of the configuration share a browser-state file, nothing
\* that is stored or used for a role ever holds a session of another, for any
\* interleaving of scans and sign-in requests (docs/architecture.md: isolated
\* browser contexts prevent role contamination).
THEOREM SessionsApart ==
    ASSUME SeparateFiles
    PROVE  AuthSpec => []RoleIsolation
<1>1. AuthInit => Apart
  BY EarlierApart, SeparateFiles
<1>2. Apart /\ [AuthNext]_contextVars => Apart'
  BY StepApart, SeparateFiles
<1>3. Apart => RoleIsolation
  BY DEF Apart
<1>4. QED BY <1>1, <1>2, <1>3, PTL DEF AuthSpec

\* No step of a login leaves the types.
LEMMA StepTyped ==
    ASSUME AuthTypeOK, [AuthNext]_contextVars
    PROVE  AuthTypeOK'
<1>a. \A l \in Logins : RoleOf[l] \in Roles /\ FileOf[RoleOf[l]] \in Files
  BY ContextsAssumption
<1>s. \A l \in Logins : SaveFile(l) => file' \in [Files -> Session]
  BY <1>a DEF SaveFile, AuthTypeOK
<1>1. ASSUME NEW l \in Logins, LookUp(l) PROVE AuthTypeOK'
  <2>1. login' \in [Logins -> LoginStep]
    BY <1>1 DEF LookUp, Go, AuthTypeOK, LoginStep
  <2>2. \A k \in GetContext(RoleOf[l]) : rows[k].session \in Session
    <3>1. \A k \in DOMAIN rows : rows[k] \in Row
      BY DEF AuthTypeOK
    <3>2. QED BY <3>1 DEF GetContext, Latest, RowsOf, Row
  <2>3. context' \in [Logins -> Session]
    BY <1>1, <2>2 DEF LookUp, AuthTypeOK
  <2>4. QED BY <1>1, <2>1, <2>3 DEF LookUp, AuthTypeOK
<1>2. ASSUME NEW l \in Logins, OpenBrowser(l) PROVE AuthTypeOK'
  BY <1>2, <1>a DEF OpenBrowser, Go, AuthTypeOK, LoginStep
<1>3. ASSUME NEW l \in Logins, CheckStored(l) PROVE AuthTypeOK'
  <2>1. login' \in [Logins -> LoginStep] /\ context' \in [Logins -> Session]
    BY <1>3 DEF CheckStored, Go, AuthTypeOK, LoginStep, Session
  <2>2. QED BY <1>3, <1>s, <2>1 DEF CheckStored, AuthTypeOK
<1>4. ASSUME NEW l \in Logins, SignIn(l) PROVE AuthTypeOK'
  <2>1. login' \in [Logins -> LoginStep]
    BY <1>4 DEF SignIn, Capture, Go, AuthTypeOK, LoginStep
  <2>2. /\ browser' \in [Logins -> Session] /\ live' \subseteq Logins
        /\ context' \in [Logins -> Session]
    BY <1>4 DEF SignIn, Capture, AuthTypeOK, Session
  <2>3. QED BY <1>4, <2>1, <2>2 DEF SignIn, Capture, AuthTypeOK
<1>5. ASSUME NEW l \in Logins, CloseSignIn(l) \/ NoForm(l) \/ VerifyContext(l) PROVE AuthTypeOK'
  <2>1. login' \in [Logins -> LoginStep]
    BY <1>5 DEF CloseSignIn, NoForm, VerifyContext, Go, AuthTypeOK, LoginStep
  <2>2. SaveFile(l) /\ UNCHANGED <<rows, live, browser, context>>
    BY <1>5 DEF CloseSignIn, NoForm, VerifyContext
  <2>3. QED BY <2>1, <2>2, <1>s DEF AuthTypeOK
<1>6. ASSUME NEW l \in Logins, SaveContext(l) PROVE AuthTypeOK'
  <2>1. login' \in [Logins -> LoginStep]
    BY <1>6 DEF SaveContext, Go, AuthTypeOK, LoginStep
  <2>2. [role |-> RoleOf[l], session |-> context[l]] \in Row
    BY <1>a DEF Row, AuthTypeOK
  <2>3. rows' \in Seq(Row)
    BY <1>6, <2>2 DEF SaveContext, AuthTypeOK
  <2>4. QED BY <1>6, <2>1, <2>3 DEF SaveContext, AuthTypeOK
<1>7. ASSUME NEW l \in Logins, Expire(l) PROVE AuthTypeOK'
  BY <1>7 DEF Expire, AuthTypeOK
<1>8. CASE UNCHANGED contextVars
  BY <1>8 DEF contextVars, AuthTypeOK
<1>9. QED BY <1>1, <1>2, <1>3, <1>4, <1>5, <1>6, <1>7, <1>8 DEF AuthNext, LogIn

\* What is stored has the types of its columns, shared files or not.
THEOREM ContextsTyped == AuthSpec => []AuthTypeOK
<1>1. AuthInit => AuthTypeOK
  BY EarlierTyped
<1>2. AuthTypeOK /\ [AuthNext]_contextVars => AuthTypeOK'
  BY StepTyped
<1>3. QED BY <1>1, <1>2, PTL DEF AuthSpec

=============================================================================
