------------------------------- MODULE Crawl -------------------------------
(***************************************************************************)
(* One crawl of an authorization scan: the walk over the pages             *)
(* (AuthenticatedCrawler.crawl and _walk_links) and the response           *)
(* callbacks it sets off, which store traffic through one TrafficStore     *)
(* and so share one AsyncSession with each other and with the rest of the  *)
(* run: the callbacks that the crawl before left, and the stages after it. *)
(*                                                                         *)
(* asyncio runs one coroutine at a time and changes it at an await: an     *)
(* action is what happens between two awaits.  The session allows several  *)
(* coroutines to wait for a statement (they queue for the connection), but *)
(* a flush() while another coroutine's flush is under way is an exception. *)
(* A statement that finds objects not yet flushed, and no flush under way, *)
(* flushes them first (autoflush).                                         *)
(*                                                                         *)
(* A page is loaded under the number of its load: 0 for the first goto,    *)
(* n for the n-th page of the walk.  A callback is the response to one URL *)
(* in one load.                                                            *)
(***************************************************************************)
EXTENDS Naturals, Sequences, FiniteSets, Functions

CONSTANTS
    Pages,          \* URLs the browser may ask for
    Home,           \* application.base_url
    Lands,          \* where a URL lands after redirects
    Links,          \* the a[href] of the page a load lands on
    Resources,      \* what a page fetches besides itself
    InScope,        \* the URLs that start with base_url
    Boundary,       \* the URLs with an auth_boundary_token
    Static,         \* the URLs with a static_token
    PathOf,         \* the method and normalized path of a URL
    MaxPages,       \* the values config["max_pages"] may have
    OtherEndpoints, \* the endpoint rows that others insert for the application
    OtherPath,      \* the method and normalized path of such a row
    Faults,         \* what the environment may do, see PossibleFaults
    Rest,           \* the rest of the run, as a user of the session
    NoCall

PossibleFaults ==
    { "load_fails",         \* goto, or reading the links, raises
      "response_gone",      \* the browser has dropped a response: text() raises
      "late_callbacks" }    \* the crawl before this one has left callbacks

Calls == (0..Cardinality(Pages)) \X Pages
Url(c) == c[2]

ASSUME ConstantsAssumption ==
    /\ IsFiniteSet(Pages) /\ Home \in Pages
    /\ Lands \in [Pages -> Pages]
    /\ Links \in [Pages -> SUBSET Pages]
    /\ Resources \in [Pages -> SUBSET Pages]
    /\ MaxPages \subseteq Nat
    /\ Faults \subseteq PossibleFaults
    /\ OtherEndpoints \cap (Calls \cup {Rest, NoCall}) = {}
    /\ {Rest, NoCall} \cap Calls = {} /\ Rest # NoCall

VARIABLES
    (* the walk *)
    walk,           \* where it is
    maxPages,       \* the crawler's max_pages
    visited,        \* URLs found so far
    queue,          \* URLs to load
    history,        \* URLs the loop has loaded, in order
    (* the callbacks *)
    step,           \* where each one is
    linked,         \* the endpoint it stores its traffic under: its creator, or its name
    overlapped,     \* history: while a callback was in record(), another was, or the
                    \* rest of the run had a flush under way
    (* the session *)
    pending,        \* objects added and not flushed
    written,        \* rows the transaction sees
    flushing,       \* the callback whose flush is under way, or Rest
    batch           \* what that flush writes

walkVars == <<walk, maxPages, visited, queue, history>>
sessionVars == <<pending, written, flushing, batch>>
vars == <<walkVars, step, linked, overlapped, sessionVars>>

WalkStep == {"home", "next", "load", "closed", "done", "failed"}

\* The awaits of TrafficStore.record, in their order.
Storing == {"select", "absent", "flush_endpoint", "refresh_endpoint",
            "present", "flush_traffic", "refresh_traffic"}
CallStep == Storing \cup {"none", "sent", "body", "headers", "ignored", "dropped", "recorded", "lost"}

Objects == Calls \X {"endpoint", "traffic"}

\* An endpoint goes by the callback that created it, or by a name.
Endpoints == Calls \cup OtherEndpoints

Path(e) == IF e \in OtherEndpoints THEN OtherPath[e] ELSE PathOf[Url(e)]

\* The callback runs and has its next step before it.
Active(c) == step[c] \in Storing \cup {"body", "headers"}

BrowserOpen == walk \in {"home", "next", "load"}

Redirects(u) == Lands[u] # u
Skipped(u) == u \in Boundary \/ u \in Static
Followed(u) == u \in InScope /\ ~Skipped(u)

\* The links of the page u lands on that the loop follows.
LinksFrom(u) == IF Skipped(Lands[u]) THEN {} ELSE {h \in Links[Lands[u]] : Followed(h)}

\* The requests one load of u makes.
Requests(u) == {u, Lands[u]} \cup Resources[Lands[u]]

Load(n, u) ==
    step' = [c \in Calls |-> IF c[1] = n /\ Url(c) \in Requests(u) THEN "sent" ELSE step[c]]

\* networkidle: no request of the page is waiting for its response.
NetworkIdle == \A c \in Calls : step[c] # "sent"

\* The orders in which the links of a page can stand in it.
Orderings(S) == Bijection(1..Cardinality(S), S)

\* The SELECT for an endpoint is over all rows of the application: those of
\* earlier jobs, and those of the identities crawled before, duplicates included.
Init ==
    /\ walk = "home"
    /\ maxPages \in MaxPages
    /\ visited = {}
    /\ queue = << >>
    /\ history = << >>
    /\ step = [c \in Calls |-> IF c[1] = 0 /\ Url(c) \in Requests(Home) THEN "sent" ELSE "none"]
    /\ linked = [c \in Calls |-> NoCall]
    /\ overlapped = FALSE
    /\ pending = {}
    /\ \E E \in SUBSET OtherEndpoints : written = E \X {"endpoint"}
    /\ flushing = NoCall
    /\ batch = {}

-----------------------------------------------------------------------------
(* The walk.                                                                 *)

\* The first goto is over: the walk starts where it landed.
HomeLoaded ==
    /\ walk = "home"
    /\ NetworkIdle
    /\ walk' = "next"
    /\ visited' = {Lands[Home]}
    /\ queue' = <<Lands[Home]>>
    /\ UNCHANGED <<maxPages, history, step, linked, overlapped, sessionVars>>

\* Mutant: the test of the loop counts the page to come.
MayGoOn_Early == queue # << >> /\ Cardinality(visited) + 1 < maxPages

MayGoOn == queue # << >> /\ Cardinality(visited) < maxPages

LoadNext ==
    /\ walk = "next"
    /\ MayGoOn
    /\ walk' = "load"
    /\ queue' = Tail(queue)
    /\ history' = Append(history, Head(queue))
    /\ Load(Len(history) + 1, Head(queue))
    /\ UNCHANGED <<maxPages, visited, linked, overlapped, sessionVars>>

\* The hrefs of the page: a page past a boundary, or a static one, has none.
NewLinks == LinksFrom(history[Len(history)]) \ visited

PageLoaded ==
    /\ walk = "load"
    /\ NetworkIdle
    /\ walk' = "next"
    /\ \E s \in Orderings(NewLinks) : queue' = queue \o s
    /\ visited' = visited \cup NewLinks
    /\ UNCHANGED <<maxPages, history, step, linked, overlapped, sessionVars>>

\* In the loop the handler of the exception raises another: the module has no
\* logger.  Either way crawl() raises, and the transaction is rolled back.
LoadFails ==
    /\ "load_fails" \in Faults
    /\ walk \in {"home", "load"}
    /\ walk' = "failed"
    /\ UNCHANGED <<maxPages, visited, queue, history, step, linked, overlapped, sessionVars>>

Close ==
    /\ walk = "next"
    /\ ~MayGoOn
    /\ walk' = "closed"
    /\ UNCHANGED <<maxPages, visited, queue, history, step, linked, overlapped, sessionVars>>

\* The engine goes on: to the crawl of the next identity, or to its next stage.
NextStage ==
    /\ walk = "closed"
    /\ walk' = "done"
    /\ UNCHANGED <<maxPages, visited, queue, history, step, linked, overlapped, sessionVars>>

Walk == HomeLoaded \/ LoadNext \/ PageLoaded \/ LoadFails \/ Close \/ NextStage

-----------------------------------------------------------------------------
(* A response callback.  Its exceptions end it and nothing else.             *)

Goto(c, from, to) ==
    /\ walk # "failed"
    /\ step[c] = from
    /\ step' = [step EXCEPT ![c] = to]

\* on_response is called.
Respond(c) ==
    /\ Goto(c, "sent", IF Url(c) \in InScope THEN "body" ELSE "ignored")
    /\ UNCHANGED <<walkVars, linked, overlapped, sessionVars>>

ReadBody(c) ==
    /\ BrowserOpen
    /\ ~Redirects(Url(c))
    /\ Goto(c, "body", "headers")
    /\ UNCHANGED <<walkVars, linked, overlapped, sessionVars>>

\* The handler of the exception raises again, the module has no logger: the
\* response is not stored.
BodyFails(c) ==
    /\ Redirects(Url(c)) \/ ~BrowserOpen \/ "response_gone" \in Faults
    /\ Goto(c, "body", "dropped")
    /\ UNCHANGED <<walkVars, linked, overlapped, sessionVars>>

ReadHeaders(c) ==
    /\ BrowserOpen
    /\ Goto(c, "headers", "select")
    /\ overlapped' = (overlapped \/ flushing = Rest \/ \E d \in Calls : step[d] \in Storing)
    /\ UNCHANGED <<walkVars, linked, sessionVars>>

HeadersFail(c) ==
    /\ ~BrowserOpen \/ "response_gone" \in Faults
    /\ Goto(c, "headers", "dropped")
    /\ UNCHANGED <<walkVars, linked, overlapped, sessionVars>>

\* The callback is at a statement that autoflush precedes.
Reading(c) == step[c] \in {"select", "refresh_endpoint", "refresh_traffic"}

AutoFlush(c) ==
    /\ walk # "failed"
    /\ Reading(c)
    /\ flushing = NoCall /\ pending # {}
    /\ flushing' = c
    /\ batch' = pending
    /\ UNCHANGED <<walkVars, step, linked, overlapped, pending, written>>

Readable == flushing # NoCall \/ pending = {}

AfterFlush == [flush_endpoint |-> "refresh_endpoint", flush_traffic |-> "refresh_traffic"]

\* Mutant: the session does not see that the flush is over.
FlushEnds_StaysOpen(c) ==
    /\ walk # "failed"
    /\ flushing = c
    /\ written' = written \cup batch
    /\ pending' = pending \ batch
    /\ batch' = {}
    /\ step' = IF step[c] \in DOMAIN AfterFlush THEN [step EXCEPT ![c] = AfterFlush[step[c]]]
                                               ELSE step
    /\ UNCHANGED <<walkVars, linked, overlapped, flushing>>

\* Mutant: what was flushed is kept as the batch.
FlushEnds_KeepsBatch(c) ==
    /\ walk # "failed"
    /\ flushing = c
    /\ written' = written \cup batch
    /\ pending' = pending \ batch
    /\ flushing' = NoCall
    /\ step' = IF step[c] \in DOMAIN AfterFlush THEN [step EXCEPT ![c] = AfterFlush[step[c]]]
                                               ELSE step
    /\ UNCHANGED <<walkVars, linked, overlapped, batch>>

\* The INSERTs are done.
FlushEnds(c) ==
    /\ walk # "failed"
    /\ flushing = c
    /\ written' = written \cup batch
    /\ pending' = pending \ batch
    /\ flushing' = NoCall
    /\ batch' = {}
    /\ step' = IF step[c] \in DOMAIN AfterFlush THEN [step EXCEPT ![c] = AfterFlush[step[c]]]
                                               ELSE step
    /\ UNCHANGED <<walkVars, linked, overlapped>>

\* Mutant: the endpoints that are flushed already are not found.
EndpointsFor_Unflushed(c) ==
    {e \in Endpoints : <<e, "endpoint">> \in pending /\ Path(e) = Path(c)}

EndpointsFor(c) == {e \in Endpoints : <<e, "endpoint">> \in written /\ Path(e) = Path(c)}

\* select(Endpoint), by its result: none, one, or scalar_one_or_none raises.
SelectNone(c) ==
    /\ Readable /\ flushing # c
    /\ EndpointsFor(c) = {}
    /\ Goto(c, "select", "absent")
    /\ UNCHANGED <<walkVars, linked, overlapped, sessionVars>>

SelectOne(c) ==
    /\ Readable /\ flushing # c
    /\ \E e \in EndpointsFor(c) :
          /\ EndpointsFor(c) = {e}
          /\ linked' = [linked EXCEPT ![c] = e]
    /\ Goto(c, "select", "present")
    /\ UNCHANGED <<walkVars, overlapped, sessionVars>>

\* Mutant: a row that is there is an error.
SelectSeveral_One(c) ==
    /\ Readable /\ flushing # c
    /\ EndpointsFor(c) # {}
    /\ Goto(c, "select", "lost")
    /\ UNCHANGED <<walkVars, linked, overlapped, sessionVars>>

SelectSeveral(c) ==
    /\ Readable /\ flushing # c
    /\ \E e, f \in EndpointsFor(c) : e # f
    /\ Goto(c, "select", "lost")
    /\ UNCHANGED <<walkVars, linked, overlapped, sessionVars>>

\* add() and flush(): the object stays in the session if flush() raises.
Add(c, kind, from, to) ==
    /\ Goto(c, from, IF flushing = NoCall THEN to ELSE "lost")
    /\ pending' = pending \cup {<<c, kind>>}
    /\ flushing' = IF flushing = NoCall THEN c ELSE flushing
    /\ batch' = IF flushing = NoCall THEN pending' ELSE batch
    /\ UNCHANGED <<walkVars, linked, overlapped, written>>

\* Mutant: the endpoint is not flushed, so it has no id when it is used.
AddEndpoint_NoFlush(c) ==
    /\ Goto(c, "absent", "present")
    /\ pending' = pending \cup {<<c, "endpoint">>}
    /\ UNCHANGED <<walkVars, linked, overlapped, written, flushing, batch>>

AddEndpoint(c) == Add(c, "endpoint", "absent", "flush_endpoint")

RefreshEndpoint(c) ==
    /\ Readable /\ flushing # c
    /\ Goto(c, "refresh_endpoint", "present")
    /\ linked' = [linked EXCEPT ![c] = c]
    /\ UNCHANGED <<walkVars, overlapped, sessionVars>>

AddTraffic(c) == Add(c, "traffic", "present", "flush_traffic")

RefreshTraffic(c) ==
    /\ Readable /\ flushing # c
    /\ Goto(c, "refresh_traffic", "recorded")
    /\ UNCHANGED <<walkVars, linked, overlapped, sessionVars>>

OnResponse(c) ==
    \/ ReadBody(c) \/ BodyFails(c) \/ ReadHeaders(c) \/ HeadersFail(c)
    \/ AutoFlush(c) \/ FlushEnds(c)
    \/ SelectNone(c) \/ SelectOne(c) \/ SelectSeveral(c)
    \/ AddEndpoint(c) \/ RefreshEndpoint(c) \/ AddTraffic(c) \/ RefreshTraffic(c)

-----------------------------------------------------------------------------
(* The rest of the run, and the other runs of the application.               *)

\* Other users of the session are there once the crawl is over (the engine, the
\* callbacks of the next crawl), and before that if a crawl has left callbacks.
SessionShared == walk = "done" \/ (walk # "failed" /\ "late_callbacks" \in Faults)

RestFlushes ==
    /\ SessionShared
    /\ flushing = NoCall
    /\ flushing' = Rest
    /\ batch' = pending
    /\ overlapped' = (overlapped \/ \E c \in Calls : step[c] \in Storing)
    /\ UNCHANGED <<walkVars, step, linked, pending, written>>

RestFlushEnds ==
    /\ walk # "failed"
    /\ flushing = Rest
    /\ written' = written \cup batch
    /\ pending' = pending \ batch
    /\ flushing' = NoCall
    /\ batch' = {}
    /\ UNCHANGED <<walkVars, step, linked, overlapped>>

\* A flush() of the engine that meets another ends the run.
EngineRaises ==
    /\ walk = "done"
    /\ flushing # NoCall
    /\ walk' = "failed"
    /\ UNCHANGED <<maxPages, visited, queue, history, step, linked, overlapped, sessionVars>>

\* Another crawl of the run, or a commit of another run, has added an endpoint.
OthersInsert ==
    /\ walk # "failed"
    /\ \E e \in OtherEndpoints : written' = written \cup {<<e, "endpoint">>}
    /\ UNCHANGED <<walkVars, step, linked, overlapped, pending, flushing, batch>>

Others == RestFlushes \/ RestFlushEnds \/ EngineRaises \/ OthersInsert

-----------------------------------------------------------------------------

Next == Walk \/ Others \/ \E c \in Calls : Respond(c) \/ OnResponse(c)

Spec == Init /\ [][Next]_vars

\* The event loop goes on as long as a coroutine can.  Which one it takes is not
\* assumed, nor that a request is answered: goto then ends with its timeout.
\* Nor does the crawl rely on what the others do.
EventLoop == Walk \/ \E c \in Calls : OnResponse(c)
LiveSpec == Spec /\ WF_vars(EventLoop)

-----------------------------------------------------------------------------
(* The variables keep their types.                                           *)
TypeOK ==
    /\ walk \in WalkStep
    /\ maxPages \in Nat
    /\ visited \subseteq Pages
    /\ queue \in Seq(Pages)
    /\ history \in Seq(Pages)
    /\ step \in [Calls -> CallStep]
    /\ linked \in [Calls -> Endpoints \cup {NoCall}]
    /\ overlapped \in BOOLEAN
    /\ pending \subseteq Objects
    /\ written \subseteq Objects \cup (OtherEndpoints \X {"endpoint"})
    /\ flushing \in Calls \cup {Rest, NoCall}
    /\ batch \subseteq pending

\* The pages of the loop, loaded and to load.
Walked == history \o queue

Loaded == Range(history)

(* No page is loaded by the loop twice, and every URL it has found is loaded *)
(* or waits in the queue (engine.py:85-117).                                 *)
NoPageTwice == IsInjective(Walked) /\ visited = Range(Walked)

(* max_pages bounds the pages the browser loads, the first one included,     *)
(* although the test counts the URLs that are found (engine.py:89).          *)
LoadsWithinMax == history = << >> \/ Len(history) + 1 <= maxPages

(* The walk goes where the links lead and nowhere else: every URL it found   *)
(* in a page is linked from a page it loaded, follows the filter, and the    *)
(* links of every page it is done with are found (engine.py:93-117).         *)
WalkFollowsLinks ==
    /\ \A u \in visited \ {Lands[Home]} : \E v \in Loaded : u \in LinksFrom(v)
    /\ \A i \in DOMAIN history :
          walk \notin {"load", "failed"} \/ i < Len(history) => LinksFrom(history[i]) \subseteq visited

(* A walk that is over and has not used up max_pages has loaded every page   *)
(* that can be reached (engine.py:89).                                       *)
WalkIsComplete ==
    walk \in {"closed", "done"} /\ Cardinality(visited) < maxPages =>
        /\ visited = Loaded
        /\ \A u \in visited : LinksFrom(u) \subseteq visited

(* A stored response belongs to a stored endpoint of its own path, whatever  *)
(* the callbacks and the rest of the run do to each other                    *)
(* (traffic_store.py:27).                                                    *)
RowsLinked ==
    \A c \in Calls : <<c, "traffic">> \in written =>
        /\ <<linked[c], "endpoint">> \in written
        /\ Path(linked[c]) = Path(c)

(* The crawl gives a path a second endpoint only if a callback was in        *)
(* record() with another, or during a flush of the rest of the run           *)
(* (traffic_store.py:55-76).                                                 *)
DuplicatesNeedOverlap ==
    \A c, d \in Calls :
        /\ <<c, "endpoint">> \in written /\ <<d, "endpoint">> \in written
        /\ Path(c) = Path(d)
        => c = d \/ overlapped

(* record() raises only if a callback was in it with another, or during a    *)
(* flush of the rest of the run, or if others gave the path an endpoint: a   *)
(* callback that has the session to itself meets no flush, and two endpoints *)
(* only where not both are of this crawl (engine.py:57-75,                   *)
(* traffic_store.py:17-78).                                                  *)
LossNeedsOverlap ==
    \A c \in Calls : step[c] = "lost" =>
        \/ overlapped
        \/ \E e \in OtherEndpoints : e \in EndpointsFor(c) /\ EndpointsFor(c) # {e}

-----------------------------------------------------------------------------
(* The inductive invariant of the proofs.                                    *)

\* Where the walk has got to.
WalkStage ==
    /\ walk = "home" => visited = {} /\ queue = << >> /\ history = << >>
    /\ walk = "load" => history # << >>
    /\ walk \in {"closed", "done"} => ~MayGoOn
    /\ IsFiniteSet(visited)
    /\ Cardinality(visited) = Len(history) + Len(queue)

\* A callback that is there belongs to a load that has begun.
LoadsNumbered == \A c \in Calls : step[c] # "none" => c[1] <= Len(history)

\* Whose flush it is, and what it writes.
FlushStage ==
    /\ flushing = NoCall => batch = {}
    /\ \A c \in Calls :
          /\ step[c] = "flush_endpoint" => flushing = c /\ <<c, "endpoint">> \in batch
          /\ step[c] = "flush_traffic" => flushing = c

Named(c) ==
    /\ linked[c] \in Endpoints
    /\ <<linked[c], "endpoint">> \in written
    /\ Path(linked[c]) = Path(c)

\* What each await of record() may rely on.
StoreStage ==
    \A c \in Calls :
        /\ step[c] = "refresh_endpoint" => <<c, "endpoint">> \in written
        /\ step[c] = "present" => Named(c)
        /\ <<c, "traffic">> \in pending \cup written =>
              /\ Named(c)
              /\ step[c] \in {"flush_traffic", "refresh_traffic", "recorded", "lost"}

\* One user of the session at a time: no flush finds another's, and the crawl
\* gives no path two endpoints.
Serial ==
    ~overlapped =>
        /\ \A c, d \in Calls : step[c] \in Storing /\ step[d] \in Storing => c = d
        /\ pending = batch
        /\ \A c \in Calls : flushing = c => step[c] \in {"flush_endpoint", "flush_traffic"}
        /\ flushing = Rest => \A c \in Calls : step[c] \notin Storing
        /\ \A c, d \in Calls :
              /\ <<c, "endpoint">> \in pending \cup written
              /\ <<d, "endpoint">> \in pending \cup written
              /\ Path(c) = Path(d)
              => c = d
        /\ \A c, d \in Calls :
              step[c] = "absent" /\ <<d, "endpoint">> \in pending \cup written
              => Path(d) # Path(c)

IInv ==
    /\ TypeOK
    /\ NoPageTwice /\ WalkStage /\ LoadsWithinMax /\ WalkFollowsLinks
    /\ LoadsNumbered /\ FlushStage /\ StoreStage /\ Serial /\ LossNeedsOverlap

-----------------------------------------------------------------------------
(* The crawl ends and so does every callback: the queue is finite, a page    *)
(* that does not load ends the walk, and no callback leaves a flush behind   *)
(* that would block the others (engine.py:40-117).                           *)
CrawlSettles == <>(walk = "failed" \/ (walk = "done" /\ \A c \in Calls : ~Active(c)))
=============================================================================
