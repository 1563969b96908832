---------------------------- MODULE Crawl_proof ----------------------------
(* What Crawl guarantees for every site, every max_pages, every set of       *)
(* faults, any number of callbacks and whatever others do to the session and  *)
(* to the endpoints of the application.                                      *)
EXTENDS Crawl, TLAPS, FiniteSetTheorems, SequenceTheorems

\* The parts of a callback's name.
LEMMA CallParts ==
    /\ Cardinality(Pages) \in Nat
    /\ \A c \in Calls : c[1] \in Nat /\ Url(c) \in Pages /\ c \notin {Rest, NoCall}
BY ConstantsAssumption, FS_CardinalityType DEF Calls, Url

\* An order of a finite set of pages is a sequence without repetition.
LEMMA OrderingIsSeq ==
    ASSUME NEW S \in SUBSET Pages, NEW s \in Orderings(S)
    PROVE  /\ IsFiniteSet(S) /\ Cardinality(S) \in Nat
           /\ s \in Seq(Pages) /\ Len(s) = Cardinality(S)
           /\ IsInjective(s) /\ Range(s) = S
<1>1. IsFiniteSet(S) /\ Cardinality(S) \in Nat
  BY ConstantsAssumption, FS_Subset, FS_CardinalityType
<1>2. /\ s \in [1..Cardinality(S) -> S] /\ IsInjective(s)
      /\ \A x \in S : \E i \in 1..Cardinality(S) : s[i] = x
  BY DEF Orderings, Bijection, Injection, Surjection
<1>3. s \in Seq(Pages) /\ Len(s) = Cardinality(S)
  BY <1>1, <1>2
<1>4. Range(s) = S
  BY <1>2 DEF Range
<1>5. QED BY <1>1, <1>2, <1>3, <1>4

\* The links the loop has still to follow are pages.
LEMMA LinksArePages ==
    /\ \A u \in Pages : LinksFrom(u) \in SUBSET Pages
    /\ TypeOK /\ history # << >> => NewLinks \in SUBSET Pages
<1>1. \A u \in Pages : LinksFrom(u) \in SUBSET Pages
  BY ConstantsAssumption DEF LinksFrom
<1>2. ASSUME TypeOK, history # << >> PROVE history[Len(history)] \in Pages
  BY <1>2 DEF TypeOK
<1>3. QED BY <1>1, <1>2 DEF NewLinks

\* The variables have their types in the initial state.
LEMMA TypeInit == Init => TypeOK
<1> SUFFICES ASSUME Init PROVE TypeOK
  OBVIOUS
<1>1. step \in [Calls -> CallStep] /\ linked \in [Calls -> Endpoints \cup {NoCall}]
  BY DEF Init, CallStep
<1>2. queue \in Seq(Pages) /\ history \in Seq(Pages) /\ maxPages \in Nat
  BY ConstantsAssumption DEF Init
<1>3. walk \in WalkStep /\ overlapped \in BOOLEAN /\ flushing \in Calls \cup {Rest, NoCall}
  BY DEF Init, WalkStep
<1>4. /\ visited \subseteq Pages /\ pending \subseteq Objects /\ batch \subseteq pending
      /\ written \subseteq Objects \cup (OtherEndpoints \X {"endpoint"})
  BY DEF Init
<1>5. QED BY <1>1, <1>2, <1>3, <1>4 DEF TypeOK

\* The walk keeps the types.
LEMMA TypeWalk ==
    ASSUME TypeOK, WalkStage, Walk
    PROVE  TypeOK'
<1>1. CASE HomeLoaded
  BY <1>1, ConstantsAssumption DEF TypeOK, HomeLoaded, WalkStep, sessionVars
<1>2. CASE LoadNext
  <2>1. Head(queue) \in Pages /\ Tail(queue) \in Seq(Pages)
    BY <1>2 DEF TypeOK, LoadNext, MayGoOn
  <2>2. step' \in [Calls -> CallStep]
    BY <1>2 DEF TypeOK, LoadNext, Load, CallStep
  <2>3. QED BY <1>2, <2>1, <2>2 DEF TypeOK, LoadNext, WalkStep, sessionVars
<1>3. CASE PageLoaded
  <2>1. NewLinks \in SUBSET Pages
    BY <1>3, LinksArePages DEF PageLoaded, WalkStage
  <2>2. PICK s \in Orderings(NewLinks) : queue' = queue \o s
    BY <1>3 DEF PageLoaded
  <2>3. s \in Seq(Pages)
    BY <2>1, OrderingIsSeq
  <2>4. queue' \in Seq(Pages)
    BY <2>2, <2>3 DEF TypeOK
  <2>5. QED BY <1>3, <2>1, <2>4 DEF TypeOK, PageLoaded, WalkStep, sessionVars
<1>4. CASE LoadFails \/ Close \/ NextStage
  BY <1>4 DEF TypeOK, LoadFails, Close, NextStage, WalkStep, sessionVars
<1>5. QED BY <1>1, <1>2, <1>3, <1>4 DEF Walk

\* The others keep the types.
LEMMA TypeOthers == TypeOK /\ Others => TypeOK'
<1> SUFFICES ASSUME TypeOK, Others PROVE TypeOK'
  OBVIOUS
<1>1. CASE RestFlushes
  BY <1>1 DEF TypeOK, RestFlushes, walkVars
<1>2. CASE RestFlushEnds
  BY <1>2 DEF TypeOK, RestFlushEnds, walkVars
<1>3. CASE EngineRaises
  BY <1>3 DEF TypeOK, EngineRaises, WalkStep, sessionVars
<1>4. CASE OthersInsert
  <2>1. written' \subseteq Objects \cup (OtherEndpoints \X {"endpoint"})
    BY <1>4 DEF TypeOK, OthersInsert
  <2>2. UNCHANGED <<walkVars, step, linked, overlapped, pending, flushing, batch>>
    BY <1>4 DEF OthersInsert
  <2>3. QED BY <2>1, <2>2 DEF TypeOK, walkVars
<1>5. QED BY <1>1, <1>2, <1>3, <1>4 DEF Others

\* A callback keeps the types.
LEMMA TypeCall ==
    ASSUME TypeOK, NEW c \in Calls, Respond(c) \/ OnResponse(c)
    PROVE  TypeOK'
<1> USE DEF TypeOK, Goto, CallStep, Storing, walkVars, sessionVars
<1>1. CASE Respond(c) \/ ReadBody(c) \/ BodyFails(c) \/ ReadHeaders(c) \/ HeadersFail(c)
  BY <1>1 DEF Respond, ReadBody, BodyFails, ReadHeaders, HeadersFail
<1>2. CASE SelectNone(c) \/ SelectOne(c) \/ SelectSeveral(c) \/ RefreshEndpoint(c) \/ RefreshTraffic(c)
  BY <1>2 DEF SelectNone, SelectOne, SelectSeveral, RefreshEndpoint, RefreshTraffic, EndpointsFor, Endpoints
<1>3. CASE AutoFlush(c)
  BY <1>3 DEF AutoFlush
<1>4. CASE FlushEnds(c)
  BY <1>4 DEF FlushEnds, AfterFlush
<1>5. ASSUME NEW kind \in {"endpoint", "traffic"}, NEW from \in CallStep, NEW to \in CallStep,
             Add(c, kind, from, to)
      PROVE  TypeOK'
  <2>1. <<c, kind>> \in Objects
    BY DEF Objects
  <2>2. pending' \subseteq Objects
    BY <1>5, <2>1 DEF Add
  <2>3. batch' \subseteq pending' /\ flushing' \in Calls \cup {Rest, NoCall}
    BY <1>5 DEF Add
  <2>4. QED BY <1>5, <2>2, <2>3 DEF Add
<1>6. CASE AddEndpoint(c) \/ AddTraffic(c)
  BY <1>5, <1>6 DEF AddEndpoint, AddTraffic
<1>7. QED BY <1>1, <1>2, <1>3, <1>4, <1>6 DEF OnResponse

\* A callback leaves the walk alone.
LEMMA CallFrame ==
    ASSUME NEW c \in Calls, Respond(c) \/ OnResponse(c)
    PROVE  UNCHANGED walkVars
BY DEF OnResponse, Respond, ReadBody, BodyFails, ReadHeaders, HeadersFail, AutoFlush, FlushEnds,
    SelectNone, SelectOne, SelectSeveral, Add, AddEndpoint, RefreshEndpoint, AddTraffic, RefreshTraffic

-----------------------------------------------------------------------------
(* The walk.                                                                 *)

WalkInv == NoPageTwice /\ WalkStage /\ LoadsWithinMax /\ WalkFollowsLinks

\* The walk's part of the invariant depends on nothing else.
LEMMA WalkStutter == WalkInv /\ UNCHANGED walkVars => WalkInv'
BY DEF WalkInv, NoPageTwice, WalkStage, LoadsWithinMax, WalkFollowsLinks, Walked, Loaded, MayGoOn, walkVars

\* The others leave it alone, or end the run.
LEMMA WalkOthers == WalkInv /\ Others => WalkInv'
<1>1. WalkInv /\ EngineRaises => WalkInv'
  BY DEF EngineRaises, WalkInv, NoPageTwice, WalkStage, LoadsWithinMax, WalkFollowsLinks, Walked, Loaded
<1>2. RestFlushes \/ RestFlushEnds \/ OthersInsert => UNCHANGED walkVars
  BY DEF RestFlushes, RestFlushEnds, OthersInsert
<1>3. QED BY <1>1, <1>2, WalkStutter DEF Others

\* It holds before the first page.
LEMMA WalkInit == Init => WalkInv
<1> SUFFICES ASSUME Init PROVE WalkInv
  OBVIOUS
<1>1. Walked = << >> /\ Loaded = {}
  BY DEF Init, Walked, Loaded, Range
<1>2. Cardinality(visited) = 0 /\ IsFiniteSet(visited)
  BY FS_EmptySet DEF Init
<1>3. NoPageTwice
  BY <1>1 DEF Init, NoPageTwice, IsInjective, Range
<1>4. QED BY <1>1, <1>2, <1>3 DEF Init, WalkInv, WalkStage, LoadsWithinMax, WalkFollowsLinks

\* The walk begins at the page where the first load landed.
LEMMA WalkHome ==
    ASSUME TypeOK, WalkInv, HomeLoaded
    PROVE  WalkInv'
<1>1. history = << >> /\ history' = << >> /\ queue' = <<Lands[Home]>> /\ visited' = {Lands[Home]}
  BY DEF HomeLoaded, WalkInv, WalkStage
<1>2. Walked' = <<Lands[Home]>>
  BY <1>1 DEF Walked
<1>3. NoPageTwice'
  <2>1. DOMAIN Walked' = {1} /\ Walked'[1] = Lands[Home]
    BY <1>2
  <2>2. QED BY <1>1, <2>1 DEF NoPageTwice, IsInjective, Range
<1>4. IsFiniteSet(visited') /\ Cardinality(visited') = 1
  BY <1>1, FS_Singleton
<1>5. Loaded' = {}
  BY <1>1 DEF Loaded, Range
<1>6. QED BY <1>1, <1>3, <1>4, <1>5 DEF HomeLoaded, WalkInv, WalkStage, LoadsWithinMax, WalkFollowsLinks

\* Moving the head of the queue to the history changes nothing in between.
LEMMA MoveHead ==
    ASSUME NEW S, NEW h \in Seq(S), NEW q \in Seq(S), q # << >>
    PROVE  Append(h, Head(q)) \o Tail(q) = h \o q
OBVIOUS

\* Loading a page keeps the order of the walk, and the limit is not passed.
LEMMA WalkLoad ==
    ASSUME TypeOK, WalkInv, LoadNext
    PROVE  WalkInv'
<1>1. /\ history \in Seq(Pages) /\ queue \in Seq(Pages) /\ queue # << >>
      /\ history' = Append(history, Head(queue)) /\ queue' = Tail(queue)
      /\ visited' = visited /\ maxPages' = maxPages /\ maxPages \in Nat
      /\ walk = "next" /\ walk' = "load"
  BY DEF TypeOK, LoadNext, MayGoOn
<1>2. /\ Len(history') = Len(history) + 1 /\ Len(queue') = Len(queue) - 1
      /\ Len(history) \in Nat /\ Len(queue) \in Nat \ {0}
      /\ \A i \in 1..Len(history) : history'[i] = history[i]
  BY <1>1
<1>3. Walked' = Walked
  BY <1>1, MoveHead DEF Walked
<1>4. NoPageTwice'
  BY <1>1, <1>3 DEF WalkInv, NoPageTwice
<1>5. WalkStage'
  BY <1>1, <1>2 DEF WalkInv, WalkStage
<1>6. LoadsWithinMax'
  BY <1>1, <1>2 DEF WalkInv, WalkStage, LoadNext, MayGoOn, LoadsWithinMax
<1>7. Loaded \subseteq Loaded'
  <2>1. \A i \in DOMAIN history : i \in DOMAIN history' /\ history'[i] = history[i]
    BY <1>1, <1>2
  <2>2. QED BY <2>1 DEF Loaded, Range
<1>8. WalkFollowsLinks'
  BY <1>1, <1>2, <1>7 DEF WalkInv, WalkFollowsLinks
<1>9. QED BY <1>4, <1>5, <1>6, <1>8 DEF WalkInv

\* Two sequences without repetition and with nothing in common make one.
LEMMA ConcatInjective ==
    ASSUME NEW S, NEW w \in Seq(S), NEW s \in Seq(S),
           IsInjective(w), IsInjective(s), Range(w) \cap Range(s) = {}
    PROVE  IsInjective(w \o s) /\ Range(w \o s) = Range(w) \cup Range(s)
<1>1. /\ Len(w) \in Nat /\ Len(s) \in Nat
      /\ DOMAIN w = 1..Len(w) /\ DOMAIN s = 1..Len(s)
      /\ DOMAIN (w \o s) = 1..(Len(w) + Len(s))
      /\ \A i \in 1..(Len(w) + Len(s)) :
            (w \o s)[i] = IF i <= Len(w) THEN w[i] ELSE s[i - Len(w)]
  OBVIOUS
<1>2. \A i \in DOMAIN w : i \in DOMAIN (w \o s) /\ (w \o s)[i] = w[i]
  BY <1>1
<1>3. \A i \in DOMAIN s : i + Len(w) \in DOMAIN (w \o s) /\ (w \o s)[i + Len(w)] = s[i]
  BY <1>1
<1>4. \A i \in DOMAIN (w \o s) :
         \/ i \in DOMAIN w /\ (w \o s)[i] = w[i]
         \/ i - Len(w) \in DOMAIN s /\ (w \o s)[i] = s[i - Len(w)]
  BY <1>1
<1>5. IsInjective(w \o s)
  <2>1. \A i \in DOMAIN w, k \in DOMAIN s : w[i] # s[k]
    BY DEF Range
  <2>2. \A i, k \in DOMAIN w : w[i] = w[k] => i = k
    BY DEF IsInjective
  <2>3. \A i, k \in DOMAIN s : s[i] = s[k] => i = k
    BY DEF IsInjective
  <2>4. \A i, k \in DOMAIN (w \o s) : (w \o s)[i] = (w \o s)[k] => i = k
    BY <1>1, <1>4, <2>1, <2>2, <2>3
  <2>5. QED BY <2>4 DEF IsInjective
<1>6. Range(w \o s) \subseteq Range(w) \cup Range(s)
  BY <1>4 DEF Range
<1>7. Range(w) \subseteq Range(w \o s)
  BY <1>2 DEF Range
<1>8. Range(s) \subseteq Range(w \o s)
  BY <1>3 DEF Range
<1>9. QED BY <1>5, <1>6, <1>7, <1>8

\* Adding an ordering of new links to a walk keeps it without repetition.
LEMMA QueueLinks ==
    ASSUME NEW w \in Seq(Pages), NEW new \in SUBSET Pages, NEW s \in Orderings(new),
           IsInjective(w), Range(w) \cap new = {},
           IsFiniteSet(Range(w)), Cardinality(Range(w)) \in Nat
    PROVE  /\ IsInjective(w \o s)
           /\ Range(w \o s) = Range(w) \cup new
           /\ IsFiniteSet(Range(w) \cup new)
           /\ Cardinality(Range(w) \cup new) = Cardinality(Range(w)) + Len(s)
<1>1. /\ IsFiniteSet(new) /\ Cardinality(new) \in Nat
      /\ s \in Seq(Pages) /\ Len(s) = Cardinality(new)
      /\ IsInjective(s) /\ Range(s) = new
  BY OrderingIsSeq
<1>2. IsInjective(w \o s) /\ Range(w \o s) = Range(w) \cup Range(s)
  BY <1>1, ConcatInjective
<1>3. Cardinality(Range(w) \cap new) = 0
  BY FS_EmptySet
<1>4. /\ IsFiniteSet(Range(w) \cup new)
      /\ Cardinality(Range(w) \cup new) = Cardinality(Range(w)) + Cardinality(new) - Cardinality(Range(w) \cap new)
  BY <1>1, FS_Union
<1>5. QED BY <1>1, <1>2, <1>3, <1>4

\* The links of a page that were not known are queued once each.
LEMMA WalkPage ==
    ASSUME TypeOK, WalkInv, PageLoaded
    PROVE  WalkInv'
<1>1. /\ history \in Seq(Pages) /\ queue \in Seq(Pages) /\ history # << >>
      /\ history' = history /\ maxPages' = maxPages /\ walk = "load" /\ walk' = "next"
      /\ visited' = visited \cup NewLinks /\ NewLinks \in SUBSET Pages /\ visited \cap NewLinks = {}
  BY LinksArePages DEF TypeOK, WalkInv, WalkStage, PageLoaded, NewLinks
<1>2. PICK s \in Orderings(NewLinks) : queue' = queue \o s
  BY DEF PageLoaded
<1>3. /\ Walked \in Seq(Pages) /\ IsInjective(Walked) /\ visited = Range(Walked)
      /\ IsFiniteSet(visited) /\ Cardinality(visited) = Len(history) + Len(queue)
      /\ Cardinality(visited) \in Nat
  BY <1>1, FS_CardinalityType, ConcatProperties DEF WalkInv, NoPageTwice, Walked, WalkStage
<1>4. /\ IsInjective(Walked \o s) /\ Range(Walked \o s) = visited \cup NewLinks
      /\ IsFiniteSet(visited \cup NewLinks)
      /\ Cardinality(visited \cup NewLinks) = Cardinality(visited) + Len(s)
  <2>1. Range(Walked) \cap NewLinks = {} /\ NewLinks \in SUBSET Pages
    BY <1>1, <1>3
  <2>2. IsFiniteSet(Range(Walked)) /\ Cardinality(Range(Walked)) \in Nat
    BY <1>3
  <2>3. /\ IsInjective(Walked \o s) /\ Range(Walked \o s) = Range(Walked) \cup NewLinks
        /\ IsFiniteSet(Range(Walked) \cup NewLinks)
        /\ Cardinality(Range(Walked) \cup NewLinks) = Cardinality(Range(Walked)) + Len(s)
    BY <1>3, <2>1, <2>2, QueueLinks
  <2>4. QED BY <1>3, <2>3
<1>5. s \in Seq(Pages) /\ Len(s) \in Nat /\ Len(queue') = Len(queue) + Len(s)
  <2>1. s \in Seq(Pages)
    BY <1>1, OrderingIsSeq
  <2>2. QED BY <1>1, <1>2, <2>1
<1>6. Walked' = Walked \o s
  BY <1>1, <1>2, <1>5, ConcatAssociative DEF Walked
<1>7. NoPageTwice'
  BY <1>1, <1>4, <1>6 DEF NoPageTwice
<1>8. WalkStage'
  BY <1>1, <1>3, <1>4, <1>5 DEF WalkStage
<1>9. LoadsWithinMax'
  BY <1>1 DEF WalkInv, LoadsWithinMax
<1>10. WalkFollowsLinks'
  <2>1. /\ Loaded' = Loaded /\ Len(history) \in DOMAIN history
        /\ history[Len(history)] \in Loaded /\ DOMAIN history = 1..Len(history)
    BY <1>1 DEF Loaded, Range
  <2>2. NewLinks = LinksFrom(history[Len(history)]) \ visited
    BY DEF NewLinks
  <2>3. \A u \in visited' \ {Lands[Home]} : \E v \in Loaded' : u \in LinksFrom(v)
    BY <1>1, <2>1, <2>2 DEF WalkInv, WalkFollowsLinks
  <2>4. \A i \in DOMAIN history : LinksFrom(history[i]) \subseteq visited'
    <3> SUFFICES ASSUME NEW i \in DOMAIN history PROVE LinksFrom(history[i]) \subseteq visited'
      OBVIOUS
    <3>1. CASE i < Len(history)
      BY <1>1, <3>1 DEF WalkInv, WalkFollowsLinks
    <3>2. CASE i = Len(history)
      BY <1>1, <2>2, <3>2
    <3>3. QED BY <1>1, <2>1, <3>1, <3>2
  <2>5. QED BY <1>1, <2>3, <2>4 DEF WalkFollowsLinks
<1>11. QED BY <1>9, <1>10, <1>7, <1>8 DEF WalkInv

\* The steps of the walk keep its invariant.
LEMMA WalkPreserved ==
    ASSUME TypeOK, WalkInv, Walk
    PROVE  WalkInv'
<1>1. CASE LoadFails \/ Close \/ NextStage
  BY <1>1 DEF WalkInv, NoPageTwice, WalkStage, LoadsWithinMax, WalkFollowsLinks, Walked, Loaded,
     MayGoOn, LoadFails, Close, NextStage
<1>2. QED BY <1>1, WalkHome, WalkLoad, WalkPage DEF Walk

-----------------------------------------------------------------------------
(* The callbacks.                                                            *)

CallInv == LoadsNumbered /\ FlushStage /\ StoreStage /\ Serial /\ LossNeedsOverlap

\* It holds when only the first page is being loaded.
LEMMA CallInit == Init => CallInv
<1> SUFFICES ASSUME Init PROVE CallInv
  OBVIOUS
<1>1. \A c \in Calls : step[c] \in {"none", "sent"} /\ (step[c] # "none" => c[1] = 0)
  BY DEF Init
<1>2. /\ history = << >> /\ pending = {} /\ batch = {} /\ flushing = NoCall
      /\ \A c \in Calls : <<c, "endpoint">> \notin written /\ <<c, "traffic">> \notin written
  BY ConstantsAssumption DEF Init
<1>3. LoadsNumbered
  BY <1>1, <1>2 DEF LoadsNumbered
<1>4. FlushStage /\ StoreStage /\ LossNeedsOverlap
  BY <1>1, <1>2 DEF FlushStage, StoreStage, LossNeedsOverlap
<1>5. Serial
  BY <1>1, <1>2, CallParts, ConstantsAssumption DEF Serial, Storing
<1>6. QED BY <1>3, <1>4, <1>5 DEF CallInv

\* A callback that is lost stays so for the same reason: no endpoint goes away.
LEMMA LossKept ==
    ASSUME LossNeedsOverlap, overlapped => overlapped', written \subseteq written',
           \A c \in Calls : step'[c] = "lost" => step[c] = "lost" \/ overlapped'
    PROVE  LossNeedsOverlap'
<1>1. ASSUME NEW c \in Calls, NEW e \in OtherEndpoints, e \in EndpointsFor(c), EndpointsFor(c) # {e}
      PROVE  e \in EndpointsFor(c)' /\ EndpointsFor(c)' # {e}
  BY <1>1 DEF EndpointsFor, Path, Url
<1>2. QED BY <1>1 DEF LossNeedsOverlap

\* The callbacks' part of the invariant depends on nothing else.
LEMMA SameSession ==
    CallInv /\ UNCHANGED <<history, step, linked, overlapped, pending, written, flushing, batch>> => CallInv'
<1> SUFFICES ASSUME CallInv, UNCHANGED <<history, step, linked, overlapped, pending, written, flushing, batch>>
             PROVE  CallInv'
  OBVIOUS
<1>1. LossNeedsOverlap'
  BY LossKept DEF CallInv
<1>2. LoadsNumbered' /\ FlushStage' /\ StoreStage' /\ Serial'
  BY DEF CallInv, LoadsNumbered, FlushStage, StoreStage, Named, Serial
<1>3. QED BY <1>1, <1>2 DEF CallInv

\* A page load starts callbacks that were not there.
LEMMA CallWalk ==
    ASSUME TypeOK, CallInv, Walk
    PROVE  CallInv'
<1> USE DEF CallInv
<1>1. CASE HomeLoaded \/ PageLoaded \/ LoadFails \/ Close \/ NextStage
  <2>1. UNCHANGED <<history, step, linked, overlapped, pending, written, flushing, batch>>
    BY <1>1 DEF HomeLoaded, PageLoaded, LoadFails, Close, NextStage, sessionVars
  <2>2. QED BY <2>1, SameSession
<1>2. CASE LoadNext
  <2>1. /\ UNCHANGED <<linked, overlapped, pending, written, flushing, batch>>
        /\ Len(history) \in Nat /\ Len(history') = Len(history) + 1
    BY <1>2 DEF LoadNext, sessionVars, TypeOK, MayGoOn
  <2>2. \A c \in Calls : \/ step'[c] = step[c]
                         \/ step[c] = "none" /\ step'[c] = "sent" /\ c[1] = Len(history')
    BY <1>2, <2>1 DEF LoadNext, Load, LoadsNumbered
  <2>3. LoadsNumbered'
    BY <2>1, <2>2, CallParts DEF LoadsNumbered
  <2>4. FlushStage' /\ LossNeedsOverlap'
    BY <2>1, <2>2, LossKept DEF FlushStage
  <2>5. StoreStage'
    BY <2>1, <2>2 DEF StoreStage, Named
  <2>6. Serial'
    BY <2>1, <2>2 DEF Serial, Storing
  <2>7. QED BY <2>3, <2>4, <2>5, <2>6
<1>3. QED BY <1>1, <1>2 DEF Walk

\* One callback moves, and the load it belongs to has begun.
LEMMA CallNumbered ==
    ASSUME TypeOK, LoadsNumbered, NEW c \in Calls, Respond(c) \/ OnResponse(c)
    PROVE  LoadsNumbered'
<1>1. UNCHANGED history
  BY CallFrame DEF walkVars
<1>2. \A d \in Calls : step[d] = "none" => step'[d] = "none"
  BY DEF TypeOK, OnResponse, Respond, ReadBody, BodyFails, ReadHeaders, HeadersFail, AutoFlush, FlushEnds, AfterFlush,
     SelectNone, SelectOne, SelectSeveral, Add, AddEndpoint, RefreshEndpoint, AddTraffic, RefreshTraffic, Goto
<1>3. QED BY <1>1, <1>2 DEF LoadsNumbered

\* A callback moves, and the session stays as it is.
Moves(c, from, to) ==
    /\ step \in [Calls -> CallStep] /\ step[c] = from
    /\ step' = [step EXCEPT ![c] = to]
    /\ UNCHANGED <<pending, written, flushing, batch>>

\* Before record(), a callback touches nothing that is stored.
LEMMA CallReads ==
    ASSUME TypeOK, CallInv, NEW c \in Calls,
           Respond(c) \/ ReadBody(c) \/ BodyFails(c) \/ HeadersFail(c)
    PROVE  FlushStage' /\ StoreStage' /\ Serial' /\ LossNeedsOverlap'
<1>1. PICK from \in {"sent", "body", "headers"}, to \in {"body", "ignored", "headers", "dropped"} :
        Moves(c, from, to)
  BY DEF Respond, ReadBody, BodyFails, HeadersFail, Goto, Moves, TypeOK, sessionVars
<1>2. UNCHANGED <<linked, overlapped>>
  BY DEF Respond, ReadBody, BodyFails, HeadersFail
<1>3. \A d \in Calls : step'[d] = step[d] \/ (d = c /\ step[d] = from /\ step'[d] = to)
  BY <1>1 DEF Moves
<1>4. FlushStage' /\ LossNeedsOverlap'
  BY <1>1, <1>2, <1>3, LossKept DEF CallInv, FlushStage, Moves
<1>5. StoreStage'
  BY <1>1, <1>2, <1>3 DEF CallInv, StoreStage, Named, Moves
<1>6. Serial'
  BY <1>1, <1>2, <1>3 DEF CallInv, Serial, Storing, Moves
<1>7. QED BY <1>4, <1>5, <1>6

\* Entering record() records whether another callback is in it.
LEMMA CallEnters ==
    ASSUME TypeOK, CallInv, NEW c \in Calls, ReadHeaders(c)
    PROVE  FlushStage' /\ StoreStage' /\ Serial' /\ LossNeedsOverlap'
<1>1. /\ Moves(c, "headers", "select") /\ UNCHANGED linked
      /\ overlapped' = (overlapped \/ flushing = Rest \/ \E d \in Calls : step[d] \in Storing)
  BY DEF ReadHeaders, Goto, Moves, TypeOK, sessionVars
<1>2. \A d \in Calls : step'[d] = step[d] \/ (d = c /\ step[d] = "headers" /\ step'[d] = "select")
  BY <1>1 DEF Moves
<1>3. FlushStage'
  BY <1>1, <1>2 DEF CallInv, FlushStage, Moves
<1>4. LossNeedsOverlap'
  BY <1>1, <1>2, LossKept DEF CallInv, Moves
<1>5. StoreStage'
  <2>1. UNCHANGED <<linked, pending, written>>
    BY <1>1 DEF Moves
  <2>2. QED BY <1>2, <2>1 DEF CallInv, StoreStage, Named
<1>6. ~overlapped' => ~overlapped /\ flushing # Rest /\ \A d \in Calls : step[d] \notin Storing
  BY <1>1
<1>7. Serial'
  <2> SUFFICES ASSUME ~overlapped' PROVE Serial'
    BY DEF Serial
  <2>1. \A d \in Calls : step'[d] \in Storing => d = c /\ step'[d] = "select"
    BY <1>2, <1>6
  <2>2. ~overlapped /\ UNCHANGED <<pending, written, flushing, batch>>
    BY <1>1, <1>6 DEF Moves
  <2>3. \A d \in Calls : flushing # d
    BY <1>6, <2>2 DEF CallInv, Serial, Storing
  <2>4. QED BY <1>6, <2>1, <2>2, <2>3 DEF CallInv, Serial, Storing
<1>8. QED BY <1>3, <1>4, <1>5, <1>7

\* A callback that is alone with the session has no other's flush before it.
LEMMA AloneNotFlushing ==
    ASSUME TypeOK, CallInv, ~overlapped, NEW c \in Calls, step[c] \in Storing,
           step[c] \notin {"flush_endpoint", "flush_traffic"}
    PROVE  /\ flushing = NoCall /\ pending = {} /\ batch = {}
           /\ \A d \in Calls : step[d] \in Storing => d = c
<1>1. /\ \A d \in Calls : step[d] \in Storing => d = c
      /\ pending = batch
      /\ \A d \in Calls : flushing = d => step[d] \in {"flush_endpoint", "flush_traffic"}
  BY DEF CallInv, Serial
<1>2. \A d \in Calls : flushing # d
  BY <1>1 DEF Storing
<1>3. flushing = NoCall
  BY <1>2 DEF TypeOK, CallInv, Serial
<1>4. QED BY <1>1, <1>3 DEF CallInv, FlushStage

\* Autoflush writes what it finds, and finds something only after an overlap.
LEMMA CallAutoFlush ==
    ASSUME TypeOK, CallInv, NEW c \in Calls, AutoFlush(c)
    PROVE  FlushStage' /\ StoreStage' /\ Serial' /\ LossNeedsOverlap'
<1>1. /\ flushing = NoCall /\ pending # {} /\ flushing' = c /\ batch' = pending
      /\ UNCHANGED <<step, linked, overlapped, pending, written>>
      /\ step[c] \in {"select", "refresh_endpoint", "refresh_traffic"}
  BY DEF AutoFlush, Reading
<1>2. overlapped
  BY <1>1, AloneNotFlushing DEF Storing
<1>3. FlushStage'
  BY <1>1, CallParts DEF CallInv, FlushStage
<1>4. StoreStage' /\ LossNeedsOverlap'
  BY <1>1, LossKept DEF CallInv, StoreStage, Named
<1>5. Serial'
  BY <1>1, <1>2 DEF Serial
<1>6. QED BY <1>3, <1>4, <1>5

\* The end of a flush moves its objects, and the callback that waited for it.
LEMMA CallFlushEnds ==
    ASSUME TypeOK, CallInv, NEW c \in Calls, FlushEnds(c)
    PROVE  FlushStage' /\ StoreStage' /\ Serial' /\ LossNeedsOverlap'
<1>1. /\ flushing = c /\ written' = written \cup batch /\ pending' = pending \ batch
      /\ flushing' = NoCall /\ batch' = {} /\ UNCHANGED <<linked, overlapped>>
      /\ batch \subseteq pending
      /\ pending' \cup written' = pending \cup written
  BY DEF FlushEnds, TypeOK
<1>2. /\ step[c] = "flush_endpoint" => step'[c] = "refresh_endpoint"
      /\ step[c] = "flush_traffic" => step'[c] = "refresh_traffic"
      /\ step[c] \notin {"flush_endpoint", "flush_traffic"} => step'[c] = step[c]
      /\ \A d \in Calls : d # c => step'[d] = step[d]
  BY DEF FlushEnds, AfterFlush, TypeOK
<1>3. FlushStage'
  BY <1>1, <1>2 DEF CallInv, FlushStage
<1>4. LossNeedsOverlap'
  <2>1. \A d \in Calls : step'[d] = "lost" => step[d] = "lost"
    BY <1>2
  <2>2. QED BY <1>1, <2>1, LossKept DEF CallInv
<1>5. StoreStage'
  <2>1. \A d \in Calls : Named(d) => Named(d)'
    BY <1>1 DEF Named
  <2>2. \A d \in Calls : step'[d] = "refresh_endpoint" => <<d, "endpoint">> \in written'
    BY <1>1, <1>2 DEF CallInv, FlushStage, StoreStage
  <2>3. \A d \in Calls : step'[d] = "present" => step[d] = "present"
    BY <1>2
  <2>4. \A d \in Calls : step[d] \in {"flush_traffic", "refresh_traffic", "recorded", "lost"}
                         => step'[d] \in {"flush_traffic", "refresh_traffic", "recorded", "lost"}
    BY <1>2
  <2>5. QED BY <1>1, <2>1, <2>2, <2>3, <2>4 DEF CallInv, StoreStage
<1>6. Serial'
  <2> SUFFICES ASSUME ~overlapped PROVE Serial'
    BY <1>1 DEF Serial
  <2>1. \A d \in Calls : step'[d] \in Storing => step[d] \in Storing
    BY <1>2 DEF Storing
  <2>2. pending' = {}
    BY <1>1 DEF CallInv, Serial
  <2>3. flushing' # Rest /\ \A d \in Calls : flushing' # d
    BY <1>1, CallParts, ConstantsAssumption
  <2>4. \A d \in Calls : step'[d] = "absent" => step[d] = "absent"
    BY <1>2
  <2>5. QED BY <1>1, <2>1, <2>2, <2>3, <2>4 DEF CallInv, Serial
<1>7. QED BY <1>3, <1>4, <1>5, <1>6

\* A statement that is answered leaves the session as it is.
LEMMA CallQueries ==
    ASSUME TypeOK, CallInv, NEW c \in Calls,
           SelectNone(c) \/ SelectOne(c) \/ SelectSeveral(c) \/ RefreshEndpoint(c) \/ RefreshTraffic(c)
    PROVE  FlushStage' /\ StoreStage' /\ Serial' /\ LossNeedsOverlap'
<1>1. PICK from \in {"select", "refresh_endpoint", "refresh_traffic"},
           to \in {"absent", "present", "lost", "recorded"} :
        Moves(c, from, to)
  BY DEF SelectNone, SelectOne, SelectSeveral, RefreshEndpoint, RefreshTraffic, Goto, Moves, TypeOK, sessionVars
<1>2. \A d \in Calls : step'[d] = step[d] \/ (d = c /\ step[d] = from /\ step'[d] = to)
  BY <1>1 DEF Moves
<1>3. /\ UNCHANGED <<overlapped, pending, written, flushing, batch>>
      /\ \A d \in Calls : d # c => linked'[d] = linked[d]
  BY <1>1 DEF Moves, SelectNone, SelectOne, SelectSeveral, RefreshEndpoint, RefreshTraffic, TypeOK
<1>4. FlushStage'
  BY <1>2, <1>3 DEF CallInv, FlushStage
<1>5. step'[c] = "absent" => EndpointsFor(c) = {}
  BY DEF SelectNone, SelectOne, SelectSeveral, RefreshEndpoint, RefreshTraffic, Goto, TypeOK
<1>6. ASSUME step'[c] = "lost", ~overlapped
      PROVE  \E e \in OtherEndpoints : e \in EndpointsFor(c) /\ EndpointsFor(c) # {e}
  <2>1. SelectSeveral(c)
    BY <1>6 DEF SelectNone, SelectOne, RefreshEndpoint, RefreshTraffic, Goto, TypeOK
  <2>2. PICK e \in Endpoints, f \in Endpoints : e # f /\ e \in EndpointsFor(c) /\ f \in EndpointsFor(c)
    BY <2>1 DEF SelectSeveral, EndpointsFor
  <2>3. e \in OtherEndpoints \/ f \in OtherEndpoints
    BY <1>6, <2>2 DEF EndpointsFor, CallInv, Serial, Endpoints
  <2>4. QED BY <2>2, <2>3
<1>7. step'[c] = "present" => Named(c)'
  <2>1. CASE SelectOne(c)
    <3>1. PICK e \in EndpointsFor(c) : linked' = [linked EXCEPT ![c] = e]
      BY <2>1 DEF SelectOne
    <3>2. e \in Endpoints /\ <<e, "endpoint">> \in written /\ Path(e) = Path(c) /\ linked'[c] = e
      BY <3>1 DEF EndpointsFor, TypeOK
    <3>3. QED BY <1>3, <3>2 DEF Named
  <2>2. CASE RefreshEndpoint(c)
    <3>1. linked'[c] = c /\ <<c, "endpoint">> \in written
      BY <2>2 DEF RefreshEndpoint, Goto, CallInv, StoreStage, TypeOK
    <3>2. QED BY <1>3, <3>1 DEF Named, Endpoints
  <2>3. QED BY <2>1, <2>2 DEF SelectNone, SelectSeveral, RefreshTraffic, Goto, TypeOK
<1>8. StoreStage'
  <2>1. \A d \in Calls : <<d, "traffic">> \in pending \cup written => Named(d)'
                         /\ step'[d] \in {"flush_traffic", "refresh_traffic", "recorded", "lost"}
    <3> SUFFICES ASSUME NEW d \in Calls, <<d, "traffic">> \in pending \cup written
                 PROVE  Named(d)' /\ step'[d] \in {"flush_traffic", "refresh_traffic", "recorded", "lost"}
      OBVIOUS
    <3>1. Named(d) /\ step[d] \in {"flush_traffic", "refresh_traffic", "recorded", "lost"}
      BY DEF CallInv, StoreStage
    <3>2. CASE d # c
      BY <1>2, <1>3, <3>1, <3>2 DEF Named
    <3>3. CASE d = c
      BY <1>3, <3>1, <3>3 DEF SelectNone, SelectOne, SelectSeveral, RefreshEndpoint, RefreshTraffic, Goto, TypeOK, Named
    <3>4. QED BY <3>2, <3>3
  <2>2. \A d \in Calls : step'[d] = "present" => Named(d)'
    BY <1>2, <1>3, <1>7 DEF CallInv, StoreStage, Named
  <2>3. \A d \in Calls : step'[d] = "refresh_endpoint" => <<d, "endpoint">> \in written'
    BY <1>2, <1>3 DEF CallInv, StoreStage
  <2>4. QED BY <1>3, <2>1, <2>2, <2>3 DEF StoreStage
<1>9. LossNeedsOverlap'
  <2>1. \A d \in Calls : EndpointsFor(d)' = EndpointsFor(d)
    BY <1>3 DEF EndpointsFor, Path, Url
  <2>2. QED BY <1>2, <1>3, <1>6, <2>1 DEF CallInv, LossNeedsOverlap
<1>10. Serial'
  <2> SUFFICES ASSUME ~overlapped PROVE Serial'
    BY <1>3 DEF Serial
  <2>1. step[c] = from /\ from \in Storing /\ from \notin {"flush_endpoint", "flush_traffic"}
    BY <1>1 DEF Moves, Storing
  <2>2. /\ flushing = NoCall /\ pending = {} /\ batch = {}
        /\ \A d \in Calls : step[d] \in Storing => d = c
    BY <2>1, AloneNotFlushing
  <2>3. \A d \in Calls : step'[d] \in Storing => d = c
    BY <1>2, <2>1, <2>2
  <2>4. flushing' # Rest /\ \A d \in Calls : flushing' # d
    BY <1>3, <2>2, CallParts, ConstantsAssumption
  <2>5. \A d \in Calls : step'[d] = "absent" => d = c /\ EndpointsFor(c) = {}
    BY <1>5, <2>3 DEF Storing
  <2>6. \A d \in Calls : EndpointsFor(c) = {} /\ <<d, "endpoint">> \in written => Path(d) # Path(c)
    BY DEF EndpointsFor, Endpoints
  <2>7. QED BY <1>3, <2>2, <2>3, <2>4, <2>5, <2>6 DEF CallInv, Serial
<1>11. QED BY <1>4, <1>8, <1>9, <1>10

\* What add() and flush() do: the flush begins, or it raises in another's flush.
LEMMA AddParts ==
    ASSUME TypeOK, CallInv, NEW c \in Calls, NEW kind, NEW from \in Storing, NEW to \in Storing,
           from \notin {"flush_endpoint", "flush_traffic"}, Add(c, kind, from, to)
    PROVE  /\ step[c] = from /\ pending' = pending \cup {<<c, kind>>}
           /\ UNCHANGED <<linked, overlapped, written>>
           /\ \A d \in Calls : d # c => step'[d] = step[d]
           /\ \/ flushing = NoCall /\ step'[c] = to /\ flushing' = c /\ batch' = pending'
              \/ flushing # NoCall /\ step'[c] = "lost" /\ UNCHANGED <<flushing, batch>> /\ overlapped
<1>1. step[c] = from /\ pending' = pending \cup {<<c, kind>>} /\ UNCHANGED <<linked, overlapped, written>>
  BY DEF Add, Goto
<1>2. \A d \in Calls : d # c => step'[d] = step[d]
  BY DEF Add, Goto, TypeOK
<1>3. \/ flushing = NoCall /\ step'[c] = to /\ flushing' = c /\ batch' = pending'
      \/ flushing # NoCall /\ step'[c] = "lost" /\ UNCHANGED <<flushing, batch>>
  BY DEF Add, Goto, TypeOK
<1>4. flushing # NoCall => overlapped
  BY <1>1, AloneNotFlushing
<1>5. QED BY <1>1, <1>2, <1>3, <1>4

\* The select found no endpoint: one is added.
LEMMA CallAddEndpoint ==
    ASSUME TypeOK, CallInv, NEW c \in Calls, AddEndpoint(c)
    PROVE  FlushStage' /\ StoreStage' /\ Serial' /\ LossNeedsOverlap'
<1>1. /\ step[c] = "absent" /\ pending' = pending \cup {<<c, "endpoint">>}
      /\ UNCHANGED <<linked, overlapped, written>>
      /\ \A d \in Calls : d # c => step'[d] = step[d]
      /\ \/ flushing = NoCall /\ step'[c] = "flush_endpoint" /\ flushing' = c /\ batch' = pending'
         \/ flushing # NoCall /\ step'[c] = "lost" /\ UNCHANGED <<flushing, batch>> /\ overlapped
  BY AddParts DEF AddEndpoint, Storing
<1>2. FlushStage'
  BY <1>1, CallParts DEF CallInv, FlushStage
<1>3. LossNeedsOverlap'
  <2>1. \A d \in Calls : step'[d] = "lost" => step[d] = "lost" \/ overlapped'
    BY <1>1
  <2>2. QED BY <1>1, <2>1, LossKept DEF CallInv
<1>4. StoreStage'
  <2>1. \A d \in Calls : <<d, "traffic">> \in pending' \cup written' => <<d, "traffic">> \in pending \cup written /\ d # c
    BY <1>1 DEF CallInv, StoreStage
  <2>2. \A d \in Calls : Named(d)' <=> Named(d)
    BY <1>1 DEF Named
  <2>3. QED BY <1>1, <2>1, <2>2 DEF CallInv, StoreStage
<1>5. Serial'
  <2> SUFFICES ASSUME ~overlapped PROVE Serial'
    BY <1>1 DEF Serial
  <2>1. \A d \in Calls : step[d] \in Storing => d = c
    BY <1>1, AloneNotFlushing DEF Storing
  <2>2. /\ \A d \in Calls : step'[d] \in Storing => d = c
        /\ step'[c] = "flush_endpoint" /\ flushing' = c /\ batch' = pending'
    BY <1>1, <2>1
  <2>3. \A d \in Calls : <<d, "endpoint">> \in pending' \cup written'
                         => d = c \/ <<d, "endpoint">> \in pending \cup written
    BY <1>1
  <2>4. \A d \in Calls : <<d, "endpoint">> \in pending \cup written => Path(d) # Path(c)
    BY <1>1 DEF CallInv, Serial
  <2>5. \A d, e \in Calls :
           /\ <<d, "endpoint">> \in pending' \cup written' /\ <<e, "endpoint">> \in pending' \cup written'
           /\ Path(d) = Path(e)
           => d = e
    BY <2>3, <2>4 DEF CallInv, Serial
  <2>6. \A d \in Calls : step'[d] # "absent"
    BY <2>2 DEF Storing
  <2>7. flushing' # Rest
    BY <2>2, CallParts
  <2>8. QED BY <2>2, <2>5, <2>6, <2>7 DEF Serial
<1>6. QED BY <1>2, <1>3, <1>4, <1>5

\* The response is added under the endpoint that was found or made.
LEMMA CallAddTraffic ==
    ASSUME TypeOK, CallInv, NEW c \in Calls, AddTraffic(c)
    PROVE  FlushStage' /\ StoreStage' /\ Serial' /\ LossNeedsOverlap'
<1>1. /\ step[c] = "present" /\ pending' = pending \cup {<<c, "traffic">>}
      /\ UNCHANGED <<linked, overlapped, written>>
      /\ \A d \in Calls : d # c => step'[d] = step[d]
      /\ \/ flushing = NoCall /\ step'[c] = "flush_traffic" /\ flushing' = c /\ batch' = pending'
         \/ flushing # NoCall /\ step'[c] = "lost" /\ UNCHANGED <<flushing, batch>> /\ overlapped
  BY AddParts DEF AddTraffic, Storing
<1>2. FlushStage'
  BY <1>1, CallParts DEF CallInv, FlushStage
<1>3. LossNeedsOverlap'
  <2>1. \A d \in Calls : step'[d] = "lost" => step[d] = "lost" \/ overlapped'
    BY <1>1
  <2>2. QED BY <1>1, <2>1, LossKept DEF CallInv
<1>4. StoreStage'
  <2>1. \A d \in Calls : <<d, "traffic">> \in pending' \cup written' => d = c \/ <<d, "traffic">> \in pending \cup written
    BY <1>1
  <2>2. Named(c) /\ \A d \in Calls : Named(d)' <=> Named(d)
    BY <1>1 DEF CallInv, StoreStage, Named
  <2>3. step'[c] \in {"flush_traffic", "lost"}
    BY <1>1
  <2>4. QED BY <1>1, <2>1, <2>2, <2>3 DEF CallInv, StoreStage
<1>5. Serial'
  <2> SUFFICES ASSUME ~overlapped PROVE Serial'
    BY <1>1 DEF Serial
  <2>1. \A d \in Calls : step[d] \in Storing => d = c
    BY <1>1, AloneNotFlushing DEF Storing
  <2>2. /\ \A d \in Calls : step'[d] \in Storing => d = c
        /\ step'[c] = "flush_traffic" /\ flushing' = c /\ batch' = pending'
    BY <1>1, <2>1
  <2>3. \A d \in Calls : <<d, "endpoint">> \in pending' \cup written' => <<d, "endpoint">> \in pending \cup written
    BY <1>1
  <2>4. \A d \in Calls : step'[d] # "absent"
    BY <2>2 DEF Storing
  <2>5. flushing' # Rest
    BY <2>2, CallParts
  <2>6. QED BY <2>2, <2>3, <2>4, <2>5 DEF CallInv, Serial
<1>6. QED BY <1>2, <1>3, <1>4, <1>5

\* Every step of a callback keeps the callbacks' part of the invariant.
LEMMA CallPreserved ==
    ASSUME TypeOK, CallInv, NEW c \in Calls, Respond(c) \/ OnResponse(c)
    PROVE  CallInv'
<1>1. LoadsNumbered'
  BY CallNumbered DEF CallInv
<1>2. FlushStage' /\ StoreStage' /\ Serial' /\ LossNeedsOverlap'
  BY CallReads, CallEnters, CallAutoFlush, CallFlushEnds, CallQueries, CallAddEndpoint, CallAddTraffic DEF OnResponse
<1>3. QED BY <1>1, <1>2 DEF CallInv

\* So do the steps of the others.
LEMMA CallOthers ==
    ASSUME TypeOK, CallInv, Others
    PROVE  CallInv'
<1>1. UNCHANGED <<history, step, linked>> /\ written \subseteq written'
  BY DEF Others, RestFlushes, RestFlushEnds, EngineRaises, OthersInsert, walkVars, sessionVars
<1>2. LoadsNumbered'
  BY <1>1 DEF CallInv, LoadsNumbered
<1>3. LossNeedsOverlap'
  <2>1. overlapped => overlapped'
    BY DEF Others, RestFlushes, RestFlushEnds, EngineRaises, OthersInsert, walkVars, sessionVars
  <2>2. QED BY <1>1, <2>1, LossKept DEF CallInv
<1>4. CASE RestFlushes
  <2>1. /\ flushing = NoCall /\ flushing' = Rest /\ batch' = pending /\ UNCHANGED <<pending, written>>
        /\ overlapped' = (overlapped \/ \E c \in Calls : step[c] \in Storing)
    BY <1>4 DEF RestFlushes
  <2>2. FlushStage'
    BY <1>1, <2>1, ConstantsAssumption, CallParts DEF CallInv, FlushStage
  <2>3. StoreStage'
    BY <1>1, <2>1 DEF CallInv, StoreStage, Named
  <2>4. Serial'
    BY <1>1, <2>1, CallParts DEF CallInv, Serial
  <2>5. QED BY <1>2, <1>3, <2>2, <2>3, <2>4 DEF CallInv
<1>5. CASE RestFlushEnds
  <2>1. /\ flushing = Rest /\ flushing' = NoCall /\ batch' = {} /\ UNCHANGED overlapped
        /\ pending' = pending \ batch /\ written' = written \cup batch
        /\ pending' \cup written' = pending \cup written
    BY <1>5 DEF RestFlushEnds, TypeOK
  <2>2. FlushStage'
    BY <1>1, <2>1, CallParts DEF CallInv, FlushStage
  <2>3. StoreStage'
    BY <1>1, <2>1 DEF CallInv, StoreStage, Named
  <2>4. Serial'
    BY <1>1, <2>1, CallParts DEF CallInv, Serial
  <2>5. QED BY <1>2, <1>3, <2>2, <2>3, <2>4 DEF CallInv
<1>6. CASE EngineRaises
  BY <1>6, SameSession DEF EngineRaises, sessionVars
<1>7. CASE OthersInsert
  <2>1. PICK e \in OtherEndpoints : written' = written \cup {<<e, "endpoint">>}
    BY <1>7 DEF OthersInsert
  <2>2. UNCHANGED <<overlapped, pending, flushing, batch>>
    BY <1>7 DEF OthersInsert
  <2>3. /\ \A c \in Calls : <<c, "endpoint">> \in written' => <<c, "endpoint">> \in written
        /\ \A c \in Calls : <<c, "traffic">> \in written' => <<c, "traffic">> \in written
    BY <2>1, ConstantsAssumption
  <2>4. FlushStage'
    BY <1>1, <2>2 DEF CallInv, FlushStage
  <2>5. StoreStage'
    BY <1>1, <2>2, <2>3 DEF CallInv, StoreStage, Named
  <2>6. Serial'
    BY <1>1, <2>2, <2>3 DEF CallInv, Serial
  <2>7. QED BY <1>2, <1>3, <2>4, <2>5, <2>6 DEF CallInv
<1>8. QED BY <1>4, <1>5, <1>6, <1>7 DEF Others

-----------------------------------------------------------------------------
(* The theorems.                                                             *)

\* The invariant's two parts.
LEMMA Parts == IInv <=> TypeOK /\ WalkInv /\ CallInv
BY DEF IInv, WalkInv, CallInv

(* The walk and the session keep to the inductive invariant of Crawl in     *)
(* every crawl, whatever the callbacks do to each other.                    *)
THEOREM Invariance == Spec => []IInv
<1>1. Init => IInv
  BY TypeInit, WalkInit, CallInit, Parts
<1>2. IInv /\ [Next]_vars => IInv'
  <2> SUFFICES ASSUME IInv, [Next]_vars PROVE IInv'
    OBVIOUS
  <2>1. TypeOK /\ WalkInv /\ CallInv
    BY Parts
  <2>2. CASE Walk
    <3>1. TypeOK'
      BY <2>1, <2>2, TypeWalk DEF WalkInv
    <3>2. WalkInv' /\ CallInv'
      BY <2>1, <2>2, WalkPreserved, CallWalk
    <3>3. QED BY <3>1, <3>2 DEF IInv, WalkInv, CallInv
  <2>3. ASSUME NEW c \in Calls, Respond(c) \/ OnResponse(c) PROVE IInv'
    <3>1. TypeOK' /\ CallInv'
      BY <2>1, <2>3, TypeCall, CallPreserved
    <3>2. WalkInv'
      BY <2>1, <2>3, CallFrame, WalkStutter
    <3>3. QED BY <3>1, <3>2 DEF IInv, WalkInv, CallInv
  <2>4. CASE Others
    BY <2>1, <2>4, TypeOthers, WalkOthers, CallOthers, Parts DEF IInv, WalkInv, CallInv
  <2>5. CASE UNCHANGED vars
    <3>1. TypeOK'
      BY <2>1, <2>5 DEF vars, walkVars, sessionVars, TypeOK
    <3>2. WalkInv' /\ CallInv'
      BY <2>1, <2>5, WalkStutter, SameSession DEF vars, walkVars, sessionVars
    <3>3. QED BY <3>1, <3>2 DEF IInv, WalkInv, CallInv
  <2>6. QED BY <2>2, <2>3, <2>4, <2>5 DEF Next
<1>3. QED BY <1>1, <1>2, PTL DEF Spec

(* The variables keep their types.                                          *)
THEOREM TypeCorrect == Spec => []TypeOK
<1>1. IInv => TypeOK
  BY DEF IInv
<1>2. QED BY <1>1, Invariance, PTL

(* No page is loaded twice by the loop of _walk_links, and every URL it has *)
(* found is loaded or queued.                                               *)
THEOREM WalkIsSimple == Spec => []NoPageTwice
<1>1. IInv => NoPageTwice
  BY DEF IInv
<1>2. QED BY <1>1, Invariance, PTL

(* The browser loads at most max_pages pages, the first goto included.      *)
THEOREM LoadLimit == Spec => []LoadsWithinMax
<1>1. IInv => LoadsWithinMax
  BY DEF IInv
<1>2. QED BY <1>1, Invariance, PTL

(* The walk is closed under the links it may follow, and finds nothing else. *)
THEOREM FollowsLinks == Spec => []WalkFollowsLinks
<1>1. IInv => WalkFollowsLinks
  BY DEF IInv
<1>2. QED BY <1>1, Invariance, PTL

(* A walk that ends below max_pages has loaded everything that can be       *)
(* reached: the queue is empty, so all it found is loaded.                  *)
THEOREM Completeness == Spec => []WalkIsComplete
<1>1. IInv => WalkIsComplete
  <2> SUFFICES ASSUME IInv, walk \in {"closed", "done"}, Cardinality(visited) < maxPages
               PROVE  visited = Loaded /\ \A u \in visited : LinksFrom(u) \subseteq visited
    BY DEF WalkIsComplete
  <2>1. queue = << >> /\ history \in Seq(Pages)
    BY DEF IInv, TypeOK, WalkStage, MayGoOn
  <2>2. Walked = history
    BY <2>1 DEF Walked
  <2>3. visited = Loaded
    BY <2>2 DEF IInv, NoPageTwice, Loaded
  <2>4. \A i \in DOMAIN history : LinksFrom(history[i]) \subseteq visited
    BY DEF IInv, WalkFollowsLinks
  <2>5. QED BY <2>3, <2>4 DEF Loaded, Range
<1>2. QED BY <1>1, Invariance, PTL

(* A stored response has a stored endpoint of its own path.                 *)
THEOREM RowsKeepEndpoints == Spec => []RowsLinked
<1>1. IInv => RowsLinked
  BY DEF IInv, StoreStage, Named, RowsLinked
<1>2. QED BY <1>1, Invariance, PTL

(* A crawl whose callbacks have the session to themselves, one at a time,   *)
(* gives no path two endpoints.                                             *)
THEOREM SerialCallbacksAgree == Spec => []DuplicatesNeedOverlap
<1>1. IInv => DuplicatesNeedOverlap
  BY DEF IInv, Serial, DuplicatesNeedOverlap
<1>2. QED BY <1>1, Invariance, PTL

(* A callback that has the session to itself is stored, unless others have  *)
(* given its path an endpoint and it is not the only one.                   *)
THEOREM SerialCallbacksStore == Spec => []LossNeedsOverlap
<1>1. IInv => LossNeedsOverlap
  BY DEF IInv
<1>2. QED BY <1>1, Invariance, PTL
=============================================================================
