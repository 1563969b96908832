--------------------------- MODULE MCSharedScanner ---------------------------
(* Instances of SharedScanner for TLC. *)
EXTENDS SharedScanner

CONSTANTS s1, s2, p, q, A, B, adminA, userA, adminB

Application == (adminA :> A) @@ (userA :> A) @@ (adminB :> B)

FilePerRole == [r \in Roles |-> r]

Ordered == <<adminA, userA, adminB>>

\* A scan of each application; requests for a second role of A, and for the
\* role that its scan uses.
Assigned ==
    [l \in Logins |-> CASE l = s2 -> adminB [] l = p -> userA [] OTHER -> adminA]

TwoRequests == <<q, p>>

OneRequest == <<q>>

\* A's sessions are a token, B's a token and a cookie.
Credentials ==
    (A :> {"has_auth_header", "has_jwt"})
    @@ (B :> {"has_cookies", "has_auth_header", "has_jwt"})

Names == (A :> <<"Authorization">>) @@ (B :> <<"Authorization", "sid">>)

Inside ==
    [a \in Apps |-> {"no_login_page", "authenticated_dom_markers", "api_me_success",
                     "protected_routes_accessible"}]

Outside == [a \in Apps |-> {}]

\* A's configuration names its roles, B's does not.
Configured == (A :> {adminA, userA}) @@ (B :> {})

\* Pages for administrators; B has a public page too, a login form that is served
\* like any page and a redirect to it, with cookies and with two identifiers.
Pagelist ==
    (A :> {[kind |-> "denies", readers |-> {adminA}, mutated |-> 3, cookies |-> FALSE]})
    @@ (B :> {[kind |-> "denies", readers |-> {adminB}, mutated |-> 6, cookies |-> TRUE],
              [kind |-> "redirects", readers |-> {adminB}, mutated |-> 0, cookies |-> FALSE],
              [kind |-> "form", readers |-> {adminB}, mutated |-> 0, cookies |-> TRUE],
              [kind |-> "public", readers |-> {}, mutated |-> 3, cookies |-> FALSE]})

=============================================================================
