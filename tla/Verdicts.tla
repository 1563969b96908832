------------------------------ MODULE Verdicts ------------------------------
(***************************************************************************)
(* The two scores the platform decides by: the confidence that a browser   *)
(* is signed in (AuthConfidenceScore), and the confidence that a finding   *)
(* is an authorization flaw (ReplayDiffEngine and                          *)
(* AuthorizationValidationEngine).  Both are kept in percent.              *)
(***************************************************************************)
EXTENDS Integers, FiniteSetsExt

Weight ==
    [ no_login_page                   |-> 20,
      authenticated_dom_markers       |-> 20,
      has_cookies                     |-> 15,
      has_auth_header                 |-> 15,
      has_jwt                         |-> 10,
      api_me_success                  |-> 20,
      protected_routes_accessible     |-> 10,
      role_specific_routes_accessible |-> 10 ]

Signals == DOMAIN Weight

\* What is in the credentials, the rest being what the browser sees.
Carried == {"has_cookies", "has_auth_header", "has_jwt"}

\* The bearer header is built from the token, and whatever else was reached is
\* a protected route too.
Consistent(S) ==
    /\ "has_jwt" \in S <=> "has_auth_header" \in S
    /\ S \cap {"no_login_page", "api_me_success", "role_specific_routes_accessible"} # {}
         => "protected_routes_accessible" \in S

\* The sum is one of floats.  Where a token comes without cookies and a page
\* off the login form without markers (or the reverse), 0.65 and 0.85 come out
\* as 0.6499999999999999 and 0.8499999999999999.
FallsShort(S) ==
    /\ {"has_jwt", "protected_routes_accessible", "role_specific_routes_accessible"} \subseteq S
    /\ Cardinality(S \cap {"no_login_page", "authenticated_dom_markers"}) = 1
    /\ Cardinality(S \cap {"has_cookies", "has_auth_header"}) = 1

Score(S) ==
    LET sum == MapThenSumSet(LAMBDA s : Weight[s], S)
    IN  Min({100, IF FallsShort(S) THEN sum - 1 ELSE sum})

Level ==
    [S \in SUBSET Signals |->
        CASE Score(S) >= 85 -> "critical"
          [] Score(S) \in 65..84 -> "high"
          [] Score(S) \in 35..64 -> "medium"
          [] OTHER -> "low"]

-----------------------------------------------------------------------------
(* A response is a record of its status (0 when the request failed), what    *)
(* its body looks like and the owners it names.                              *)

AccessGranted(replay) == replay.status \in 1..399

BaselineDenied(baseline) == baseline.status \in {401, 403, 404}

\* The bodies have a similarity of at least 0.85.
Alike(baseline, replay) == baseline.body = replay.body

OwnersChanged(baseline, replay) == baseline.owners # replay.owners

\* Mutant: a replay that was denied is compared as one that was granted.
Suspicious_Denied(baseline, replay) ==
    BaselineDenied(baseline) \/ Alike(baseline, replay) \/ OwnersChanged(baseline, replay)

Suspicious(baseline, replay) ==
    /\ AccessGranted(replay)
    /\ BaselineDenied(baseline) \/ Alike(baseline, replay) \/ OwnersChanged(baseline, replay)

\* round(suspicious / total, 2), for a total that 200 does not divide.
Confidence(suspicious, total) ==
    (200 * suspicious + total) \div (2 * total)

\* Mutant: what is likely is confirmed.
ReplayStatus_NoLikely(suspicious, total) ==
    IF total = 0 THEN "false_positive"
    ELSE IF Confidence(suspicious, total) < 60 THEN "needs_manual_review"
    ELSE "confirmed"

\* The status of a validation of which this many of all replays were suspicious.
ReplayStatus(suspicious, total) ==
    IF total = 0 THEN "false_positive"
    ELSE CASE Confidence(suspicious, total) >= 80 -> "confirmed"
           [] Confidence(suspicious, total) \in 60..79 -> "likely"
           [] OTHER -> "needs_manual_review"

\* Mutant: what is not exploitable is stored as a false positive.
FindingStatus_Drops(status) ==
    IF status \in {"confirmed", "likely"} THEN status ELSE "false_positive"

\* The status the finding is stored with.
FindingStatus(status) ==
    IF status \in {"confirmed", "likely"} THEN status ELSE "needs_manual_review"

FindingStatuses == {"confirmed", "likely", "needs_manual_review"}

=============================================================================
