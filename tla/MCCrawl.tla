------------------------------ MODULE MCCrawl ------------------------------
(* An instance of Crawl for TLC: a start page that links to itself and to a  *)
(* page that redirects to an off-site login.                                 *)
EXTENDS Crawl

CONSTANTS home, other, login, pHome, pOther, e1, e2

SiteLands == [u \in Pages |-> IF u = other THEN login ELSE u]
SiteLinks == [u \in Pages |-> {home, other, login}]
SiteResources == [u \in Pages |-> {}]
SitePaths == [u \in Pages |-> IF u = home THEN pHome ELSE pOther]

\* Earlier jobs may have left the page with two endpoints.
Duplicated == [e \in OtherEndpoints |-> pHome]
=============================================================================
