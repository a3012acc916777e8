--------------------------------- MODULE Http ---------------------------------
(***************************************************************************)
(* $http of angular.js with its cache, the requests of $httpBackend and    *)
(* their timeouts, $timeout, and the count of $browser of what is under    *)
(* way.  Requests are answered in any order; those for something that is   *)
(* asked for already wait for the first one.  Callers learn of an outcome  *)
(* in a digest, and may ask for more there.  A digest that does not come   *)
(* to an end gives up and throws.                                          *)
(***************************************************************************)
EXTENDS Integers, Sequences, FiniteSets

CONSTANTS Urls, MaxRequests

VARIABLES requests,     \* requests and timeouts made so far
          cached,       \* the cache: of each url nothing, a response or the number of a request
          pending,      \* $http.pendingRequests
          timers,       \* requests whose timeout runs
          outstanding,  \* outstandingRequestCount
          idle,         \* callbacks that wait for nothing to be outstanding
          early,        \* they were called, and something is under way after all
          lost          \* requests that were never counted out, their digest gave up

htVars == <<requests, cached, pending, timers, outstanding, idle, early, lost>>

Absent == 0
Response == -1
Kinds == {"get", "cached", "jsonp", "timeout"}

HtInit ==
  /\ requests = <<>> /\ cached = [u \in Urls |-> Absent] /\ pending = {} /\ timers = {}
  /\ outstanding = 0 /\ idle = 0 /\ early = FALSE /\ lost = 0

Now == [requests |-> requests, cached |-> cached, pending |-> pending, timers |-> timers,
        outstanding |-> outstanding, idle |-> idle, lost |-> lost]

Running(b) == {i \in DOMAIN b.requests : b.requests[i].runs}

Become(b) ==
  /\ requests' = b.requests /\ cached' = b.cached /\ pending' = b.pending /\ timers' = b.timers
  /\ outstanding' = b.outstanding /\ idle' = b.idle /\ lost' = b.lost
  /\ early' = (early \/ (idle > 0 /\ b.idle = 0 /\ Running(b) \cup b.timers # {}))

-----------------------------------------------------------------------------
(* Asking *)

Request(kind, url) == [kind |-> kind, url |-> url, runs |-> FALSE, source |-> 0,
                       outcome |-> "none", told |-> 0]

\* The request goes to the backend, with a timeout if it is given one.
ToBackend(b, request, timed) ==
  LET i == Len(b.requests) + 1
  IN [b EXCEPT !.requests = Append(@, [request EXCEPT !.runs = TRUE, !.source = i]),
               !.timers = IF timed THEN @ \cup {i} ELSE @,
               !.outstanding = @ + (IF timed THEN 2 ELSE 1)]

\* It does not: it has its outcome, or waits for another one.
Kept(b, request) == [b EXCEPT !.requests = Append(@, request)]

\* A request is in the cache while it is under way.
Cached(b, url, i) == [b EXCEPT !.cached[url] = i]

\* sendReq(): what is cached is given out, be it a response or a request that is
\* under way; what is not is asked for, and cached from then on.
Send(b, kind, url, timed) ==
  LET i == Len(b.requests) + 1
      request == Request(kind, url)
      c == [b EXCEPT !.pending = @ \cup {i}]
  IN CASE kind = "jsonp" -> ToBackend(c, request, FALSE)
       [] kind = "get" -> ToBackend(c, request, timed)
       [] kind = "cached" /\ b.cached[url] = Absent ->
            ToBackend(Cached(c, url, i), request, timed)
       [] kind = "cached" /\ b.cached[url] = Response ->
            Kept(c, [request EXCEPT !.outcome = "success"])
       [] OTHER -> Kept(c, [request EXCEPT !.source = b.cached[url]])

\* $timeout()
SetTimeout(b) == ToBackend(b, Request("timeout", "none"), FALSE)

-----------------------------------------------------------------------------
(* Answering *)

\* The deferred is resolved or rejected, for all that wait for it.
Resolve(b, i, outcome) ==
  [b EXCEPT !.requests = [k \in DOMAIN @ |->
     IF @[k].source = i /\ @[k].outcome = "none" THEN [@[k] EXCEPT !.outcome = outcome]
     ELSE @[k]]]

Ready(b) == {k \in DOMAIN b.requests : b.requests[k].outcome # "none" /\ b.requests[k].told = 0}

\* Callers are called back (transformResponse, interceptors, success and error).
TellReady(b) ==
  [b EXCEPT !.requests = [k \in DOMAIN @ |->
              IF k \in Ready(b) THEN [@[k] EXCEPT !.told = 1] ELSE @[k]],
            !.pending = @ \ Ready(b)]

\* A digest, in which one of those called back or a watcher may ask for something else; it
\* may give up after the pass in which that was asked for.
Digest(b, more, gaveUp) ==
  LET told == TellReady(b) IN
  IF Ready(b) = {} \/ more = "nothing" \/ Len(b.requests) = MaxRequests THEN told
  ELSE IF gaveUp THEN Send(told, "cached", more, FALSE)
  ELSE TellReady(Send(told, "cached", more, FALSE))

\* Mutant: what failed stays in the cache, with the promise that failed.
CacheNoFailure(b, i, outcome) ==
  IF b.requests[i].kind # "cached" \/ outcome = "error" THEN b
  ELSE [b EXCEPT !.cached[b.requests[i].url] = Response]

\* done(): a response replaces in the cache what was there for its url.
Cache(b, i, outcome) ==
  IF b.requests[i].kind # "cached" THEN b
  ELSE [b EXCEPT !.cached[b.requests[i].url] = IF outcome = "success" THEN Response ELSE Absent]

\* $$completeOutstandingRequest(): the last one calls those who wait for it.
CountDown(b) ==
  [b EXCEPT !.outstanding = @ - 1, !.idle = IF b.outstanding = 1 THEN 0 ELSE @]

\* Mutant: the request is counted out before its callers are called.
CountedOutFirst(b, i, outcome, more, gaveUp) ==
  Digest(Resolve(Cache(CountDown([b EXCEPT !.requests[i].runs = FALSE]), i, outcome), i, outcome),
         more, gaveUp)

\* completeRequest(): when the digest gives up, the request is not counted out.
Completed(b, i, outcome, more, gaveUp) ==
  LET d == Digest(Resolve(Cache([b EXCEPT !.requests[i].runs = FALSE], i, outcome), i, outcome),
                  more, gaveUp)
  IN IF gaveUp THEN [d EXCEPT !.lost = @ + 1] ELSE CountDown(d)

\* readyState 4, or the script of a JSONP request is loaded
Complete(i, outcome, more, gaveUp) ==
  /\ requests[i].runs /\ requests[i].kind # "timeout"
  /\ Become(Completed(Now, i, outcome, more, gaveUp))

\* The timeout of a request goes off, and is counted out in any case: the request is aborted
\* if it still runs.
Abort(i, more, gaveUp) ==
  /\ i \in timers
  /\ LET b == [Now EXCEPT !.timers = @ \ {i}] IN
     Become(CountDown(IF requests[i].runs THEN Completed(b, i, "error", more, gaveUp) ELSE b))

\* A timeout of $timeout goes off, and is counted out in any case; its function may throw,
\* and the digest be skipped or give up.
GoOff(i, outcome, invokeApply, more, gaveUp) ==
  /\ requests[i].runs /\ requests[i].kind = "timeout"
  /\ LET b == Resolve([Now EXCEPT !.requests[i].runs = FALSE], i, outcome)
     IN Become(CountDown(IF invokeApply THEN Digest(b, more, gaveUp) ELSE b))

\* Mutant: a timeout that is cancelled still counts.
CancelledOnly(b, i) == Resolve([b EXCEPT !.requests[i].runs = FALSE], i, "error")
\* $timeout.cancel()
Cancelled(b, i) == CountDown(Resolve([b EXCEPT !.requests[i].runs = FALSE], i, "error"))

Cancel(i) ==
  /\ requests[i].runs /\ requests[i].kind = "timeout"
  /\ Become(Cancelled(Now, i))

-----------------------------------------------------------------------------
(* The page *)

Ask(kind, url, timed) ==
  /\ Len(requests) < MaxRequests
  /\ Become(IF kind = "timeout" THEN SetTimeout(Now) ELSE Send(Now, kind, url, timed))

\* Something else leads to a digest.
OtherDigest(more, gaveUp) == Ready(Now) # {} /\ Become(Digest(Now, more, gaveUp))

\* The page removes something from the cache, be it under way or not.
Forget(url) ==
  /\ cached[url] # Absent
  /\ cached' = [cached EXCEPT ![url] = Absent]
  /\ UNCHANGED <<requests, pending, timers, outstanding, idle, early, lost>>

\* notifyWhenNoOutstandingRequests()
NotifyWhenIdle ==
  /\ outstanding > 0 /\ idle = 0 /\ idle' = 1
  /\ UNCHANGED <<requests, cached, pending, timers, outstanding, early, lost>>

More == Urls \cup {"nothing"}

HtNext ==
  \/ \E kind \in Kinds, url \in Urls, timed \in BOOLEAN : Ask(kind, url, timed)
  \/ \E i \in DOMAIN requests, more \in More, gaveUp \in BOOLEAN :
       \/ \E outcome \in {"success", "error"} : Complete(i, outcome, more, gaveUp)
       \/ Abort(i, more, gaveUp)
       \/ \E outcome \in {"success", "error"}, apply \in BOOLEAN :
            GoOff(i, outcome, apply, more, gaveUp)
  \/ \E i \in DOMAIN requests : Cancel(i)
  \/ \E more \in More, gaveUp \in BOOLEAN : OtherDigest(more, gaveUp)
  \/ \E url \in Urls : Forget(url)
  \/ NotifyWhenIdle

HtSpec == HtInit /\ [][HtNext]_htVars

-----------------------------------------------------------------------------
(* Properties *)

HtTypeOK ==
  /\ \A i \in DOMAIN requests :
       /\ requests[i].kind \in Kinds /\ requests[i].runs \in BOOLEAN
       /\ requests[i].source \in 0 .. i
       /\ requests[i].outcome \in {"none", "success", "error"} /\ requests[i].told \in 0 .. 1
  /\ \A u \in Urls : cached[u] \in {Absent, Response} \cup DOMAIN requests
  /\ timers \subseteq DOMAIN requests /\ idle \in 0 .. 1 /\ early \in BOOLEAN /\ lost \in Nat

\* Who has not been told an outcome has one coming: it waits for a digest only, or
\* what it waits for is under way.  Until then its request is listed as pending.
NobodyIsForgotten ==
  \A i \in DOMAIN requests :
    /\ requests[i].told = 0 /\ requests[i].outcome = "none" => requests[requests[i].source].runs
    /\ (i \in pending) = (requests[i].told = 0 /\ requests[i].kind # "timeout")

\* Who finds a request in the cache has found one that is still under way: no
\* caller is given the failure of a request that had ended before it asked.
CachedIsUnderWay ==
  \A u \in Urls : \A i \in DOMAIN requests : cached[u] = i => requests[i].runs

\* Each request and each timeout is counted as long as it runs, and one whose digest gave up
\* for good.  Those who wait for the last to end are called when it has, and not while
\* others run that were begun on the way; after a digest that gave up while a request was
\* completed they are not called any more.
IdleIsIdle ==
  /\ outstanding = Cardinality(Running(Now)) + Cardinality(timers) + lost
  /\ idle > 0 => outstanding > 0
  /\ ~early

=============================================================================
