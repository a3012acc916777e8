--------------------------- MODULE ServicesProofs ---------------------------
(***************************************************************************)
(* Proofs about what the pages of the store ask through, the requests,     *)
(* caches, addresses and routes of angular.js (in MCPages), for any number *)
(* of requests, addresses, keys, templates and parameters.                 *)
(*                                                                         *)
(* The services share no state.  Each has an invariant, and lemmas that    *)
(* say that it holds at first, that each step preserves it, and what it    *)
(* shows; PagesProofs puts them together with the pages.                   *)
(***************************************************************************)
EXTENDS MCPages, FiniteSetTheorems, SequenceTheorems, WellFoundedInduction, TLAPS

-----------------------------------------------------------------------------
(* Least and greatest numbers *)

\* Every non-empty set of natural numbers has a least element.
LEMMA LeastOfAny ==
  ASSUME NEW S \in SUBSET Nat, S # {}
  PROVE  \E m \in S : \A k \in S : m <= k
<1> DEFINE A == {0 .. n : n \in S}
           R == StrictSubsetOrdering(Nat)
<1>1. IsWellFoundedOn(R, FiniteSubsetsOf(Nat))
  BY FS_StrictSubsetOrderingWellFounded, Zenon
<1>2. A \subseteq FiniteSubsetsOf(Nat) /\ A # {}
  <2>1. \A n \in Nat : 0 .. n \in FiniteSubsetsOf(Nat)
    BY FS_Interval DEF FiniteSubsetsOf
  <2> QED
    BY <2>1
<1> HIDE DEF R
<1>3. PICK x \in A : \A y \in A : ~ (<<y, x>> \in R)
  BY <1>1, <1>2, WFMin
<1>4. PICK m \in S : x = 0 .. m
  OBVIOUS
<1>5. ASSUME NEW k \in S, k < m PROVE FALSE
  <2>1. 0 .. k \subseteq 0 .. m /\ 0 .. k # 0 .. m /\ 0 .. k \subseteq Nat /\ 0 .. m \subseteq Nat
    BY <1>5
  <2>2. <<0 .. k, 0 .. m>> \in R
    BY <2>1 DEF R, StrictSubsetOrdering
  <2> QED
    BY <1>3, <1>4, <2>2
<1> QED
  BY <1>5

-----------------------------------------------------------------------------
(* Requests *)

\* Requests, as records.  Who waits does so for a request that runs; what the cache has of
\* a request, runs; and each that runs and each timeout is counted, up to k that have ended
\* and are still to be counted out.
RequestT ==
  [kind : Rq!Kinds, url : Sites \cup {"none"}, runs : BOOLEAN, source : Nat,
   outcome : {"none", "success", "error"}, told : {0, 1}]
HttpT ==
  [requests : Seq(RequestT), cached : [Sites -> Int], pending : SUBSET Nat,
   timers : SUBSET Nat, outstanding : Int, idle : {0, 1}, lost : Nat]

Asker(b, i) ==
  /\ b.requests[i].source \in 0 .. i
  /\ b.requests[i].runs => b.requests[i].source = i /\ b.requests[i].outcome = "none"
  /\ b.requests[i].outcome = "none" =>
       /\ b.requests[i].told = 0 /\ b.requests[i].source # 0
       /\ b.requests[b.requests[i].source].runs
  /\ i \in b.pending <=> b.requests[i].told = 0 /\ b.requests[i].kind # "timeout"

InCache(b, u) ==
  \/ b.cached[u] \in {0, -1}
  \/ /\ b.cached[u] \in DOMAIN b.requests /\ b.requests[b.cached[u]].runs
     /\ b.requests[b.cached[u]].kind = "cached" /\ b.requests[b.cached[u]].url = u

Counted(b, k) ==
  /\ b.outstanding = Cardinality(Rq!Running(b)) + Cardinality(b.timers) + b.lost + k
  /\ b.idle = 1 => b.outstanding > 0

HttpHolds(b, k) ==
  /\ b \in HttpT /\ b.pending \subseteq DOMAIN b.requests /\ b.timers \subseteq DOMAIN b.requests
  /\ \A i \in DOMAIN b.requests : Asker(b, i)
  /\ \A u \in Sites : InCache(b, u)
  /\ Counted(b, k)

RequestsInv == HttpHolds(Rq!Now, 0) /\ early = FALSE

\* What runs and what has a timeout are finitely many requests.
LEMMA RunningIs ==
  ASSUME NEW b \in HttpT, b.timers \subseteq DOMAIN b.requests
  PROVE  /\ Rq!Running(b) \subseteq DOMAIN b.requests
         /\ \A i \in DOMAIN b.requests : i \in Rq!Running(b) <=> b.requests[i].runs
         /\ IsFiniteSet(Rq!Running(b)) /\ IsFiniteSet(b.timers)
         /\ Cardinality(Rq!Running(b)) \in Nat /\ Cardinality(b.timers) \in Nat
<1>1. b.requests \in Seq(RequestT) /\ Len(b.requests) \in Nat
      /\ DOMAIN b.requests = 1 .. Len(b.requests)
  BY DEF HttpT
<1>2. IsFiniteSet(DOMAIN b.requests)
  <2>1. 1 \in Int /\ Len(b.requests) \in Int
    BY <1>1
  <2>2. IsFiniteSet(1 .. Len(b.requests))
    BY <2>1, FS_Interval
  <2> QED
    BY <1>1, <2>2
<1>3. Rq!Running(b) \subseteq DOMAIN b.requests
      /\ \A i \in DOMAIN b.requests : i \in Rq!Running(b) <=> b.requests[i].runs
  BY DEF Rq!Running
<1> QED
  BY <1>2, <1>3, FS_Subset, FS_CardinalityType

\* c is b with one more request or timeout r, which runs, or has its outcome, or waits for one
\* that runs.
Asks(b, c, r, i, timed) ==
  /\ i = Len(b.requests) + 1 /\ c.requests = Append(b.requests, r) /\ c.idle = b.idle
  /\ c.lost = b.lost
  /\ r.told = 0
  /\ c.pending = IF r.kind = "timeout" THEN b.pending ELSE b.pending \cup {i}
  /\ c.timers = IF timed THEN b.timers \cup {i} ELSE b.timers
  /\ r.runs =>
       /\ r.source = i /\ r.outcome = "none"
       /\ c.outstanding = b.outstanding + (IF timed THEN 2 ELSE 1)
       /\ \/ c.cached = b.cached
          \/ r.kind = "cached" /\ r.url \in Sites /\ c.cached = [b.cached EXCEPT ![r.url] = i]
  /\ ~r.runs =>
       /\ ~timed /\ c.outstanding = b.outstanding /\ c.cached = b.cached
       /\ IF r.outcome = "none"
          THEN r.source \in DOMAIN b.requests /\ b.requests[r.source].runs
          ELSE r.source = 0

LEMMA AskedHolds ==
  ASSUME NEW k \in Nat, NEW b, HttpHolds(b, k), NEW r \in RequestT, NEW i,
         NEW timed \in BOOLEAN, NEW c \in HttpT, Asks(b, c, r, i, timed)
  PROVE  HttpHolds(c, k) /\ c.outstanding >= b.outstanding
<1> USE DEF Asks
<1>1. /\ b \in HttpT /\ b.requests \in Seq(RequestT) /\ Len(b.requests) \in Nat
      /\ DOMAIN b.requests = 1 .. Len(b.requests) /\ i \in Nat /\ i \notin DOMAIN b.requests
      /\ b.cached \in [Sites -> Int] /\ b.outstanding \in Int /\ b.lost \in Nat
  BY DEF HttpHolds, HttpT
<1>2. /\ DOMAIN c.requests = 1 .. i /\ Len(c.requests) = i
      /\ \A j \in DOMAIN b.requests : c.requests[j] = b.requests[j]
      /\ c.requests[i] = r
  BY <1>1
<1>3. c.pending \subseteq DOMAIN c.requests /\ c.timers \subseteq DOMAIN c.requests
  BY <1>1, <1>2 DEF HttpHolds
<1>4. ASSUME NEW j \in DOMAIN c.requests PROVE Asker(c, j)
  <2>1. CASE j = i
    BY <1>1, <1>2, <2>1 DEF Asker, RequestT, HttpHolds
  <2>2. CASE j # i
    <3>1. j \in DOMAIN b.requests /\ Asker(b, j) /\ c.requests[j] = b.requests[j]
      BY <1>1, <1>2, <2>2 DEF HttpHolds
    <3>2. j \in c.pending <=> j \in b.pending
      BY <2>2
    <3>3. b.requests[j].outcome = "none" =>
            /\ b.requests[j].source \in DOMAIN b.requests
            /\ c.requests[b.requests[j].source] = b.requests[b.requests[j].source]
      BY <1>1, <1>2, <3>1 DEF Asker
    <3> QED
      BY <3>1, <3>2, <3>3 DEF Asker
  <2> QED
    BY <2>1, <2>2
<1>5. ASSUME NEW u \in Sites PROVE InCache(c, u)
  <2>1. CASE c.cached[u] = b.cached[u]
    BY <1>1, <1>2, <2>1 DEF InCache, HttpHolds
  <2>2. CASE c.cached[u] # b.cached[u]
    <3>1. r.runs /\ r.kind = "cached" /\ u = r.url /\ c.cached[u] = i
      BY <1>1, <2>2
    <3> QED
      BY <1>1, <1>2, <3>1 DEF InCache
  <2> QED
    BY <2>1, <2>2
<1>6. Rq!Running(c) = IF r.runs THEN Rq!Running(b) \cup {i} ELSE Rq!Running(b)
  BY <1>1, <1>2 DEF Rq!Running
<1> HIDE DEF Asks
<1>7. /\ IsFiniteSet(Rq!Running(b)) /\ IsFiniteSet(b.timers)
      /\ Cardinality(Rq!Running(b)) \in Nat /\ Cardinality(b.timers) \in Nat
      /\ i \notin Rq!Running(b) /\ i \notin b.timers
  BY <1>1, RunningIs DEF HttpHolds
<1>8. /\ Cardinality(Rq!Running(b) \cup {i}) = Cardinality(Rq!Running(b)) + 1
      /\ Cardinality(b.timers \cup {i}) = Cardinality(b.timers) + 1
  BY <1>7, FS_AddElement
<1>9. Counted(b, k)
  BY DEF HttpHolds
<1>10. Counted(c, k) /\ c.outstanding >= b.outstanding
  <2>1. CASE r.runs
    <3>1. c.outstanding = b.outstanding + (IF timed THEN 2 ELSE 1) /\ c.idle = b.idle
          /\ Cardinality(Rq!Running(c)) = Cardinality(Rq!Running(b)) + 1 /\ c.lost = b.lost
      BY <1>6, <1>8, <2>1 DEF Asks
    <3>2. Cardinality(c.timers) = Cardinality(b.timers) + (IF timed THEN 1 ELSE 0)
      BY <1>7, <1>8 DEF Asks
    <3>3. c.outstanding = Cardinality(Rq!Running(c)) + Cardinality(c.timers) + c.lost + k
      <4>1. CASE timed
        BY <1>1, <1>7, <1>9, <3>1, <3>2, <4>1 DEF Counted
      <4>2. CASE ~timed
        BY <1>1, <1>7, <1>9, <3>1, <3>2, <4>2 DEF Counted
      <4> QED
        BY <4>1, <4>2
    <3>4. c.outstanding > b.outstanding
      BY <1>1, <3>1
    <3> QED
      BY <1>1, <1>9, <3>1, <3>3, <3>4 DEF Counted
  <2>2. CASE ~r.runs
    BY <1>1, <1>6, <1>7, <1>9, <2>2 DEF Counted, Asks
  <2> QED
    BY <2>1, <2>2
<1> QED
  BY <1>3, <1>4, <1>5, <1>10 DEF HttpHolds

\* c is b with what is noted of a request r before it goes.
Goes(b, c, r) ==
  /\ r.told = 0 /\ r.outcome = "none"
  /\ c.requests = b.requests /\ c.idle = b.idle /\ c.timers = b.timers
  /\ c.outstanding = b.outstanding /\ c.lost = b.lost
  /\ c.pending = IF r.kind = "timeout" THEN b.pending ELSE b.pending \cup {Len(b.requests) + 1}
  /\ \/ c.cached = b.cached
     \/ /\ r.kind = "cached" /\ r.url \in Sites
        /\ c.cached = [b.cached EXCEPT ![r.url] = Len(b.requests) + 1]

LEMMA ToBackendHolds ==
  ASSUME NEW k \in Nat, NEW b, HttpHolds(b, k), NEW r \in RequestT, NEW timed \in BOOLEAN,
         NEW c \in HttpT, Goes(b, c, r)
  PROVE  /\ HttpHolds(Rq!ToBackend(c, r, timed), k)
         /\ Rq!ToBackend(c, r, timed).idle = b.idle
<1>1. /\ b.requests \in Seq(RequestT) /\ b.timers \in SUBSET Nat
      /\ b.outstanding \in Int
  BY DEF HttpHolds, HttpT
<1>2. PICK i \in Nat : i = Len(b.requests) + 1
  BY <1>1
<1>3. PICK s : s = [r EXCEPT !.runs = TRUE, !.source = i]
  OBVIOUS
<1>4. /\ s \in RequestT /\ s.told = 0 /\ s.kind = r.kind /\ s.url = r.url /\ s.runs
      /\ s.source = i /\ s.outcome = "none"
  BY <1>2, <1>3 DEF RequestT, Goes
<1>5. PICK q \in Seq(RequestT) : q = Append(b.requests, s)
  <2>1. Append(b.requests, s) \in Seq(RequestT)
    BY <1>1, <1>4
  <2> QED
    BY <2>1
<1>6. PICK t \in SUBSET Nat : t = IF timed THEN b.timers \cup {i} ELSE b.timers
  BY <1>1, <1>2
<1>7. PICK n \in Int : n = b.outstanding + (IF timed THEN 2 ELSE 1)
  BY <1>1
<1>8. PICK e : e = [c EXCEPT !.requests = q, !.timers = t, !.outstanding = n]
  OBVIOUS
<1>9. e = Rq!ToBackend(c, r, timed)
  BY <1>2, <1>3, <1>5, <1>6, <1>7, <1>8 DEF Rq!ToBackend, Goes
<1>10. /\ e \in HttpT /\ e.requests = q /\ e.pending = c.pending /\ e.idle = c.idle
      /\ e.timers = t /\ e.cached = c.cached /\ e.outstanding = n
      /\ e.lost = c.lost
  BY <1>8 DEF HttpT
<1>11. Asks(b, e, s, i, timed)
  BY <1>2, <1>4, <1>5, <1>6, <1>7, <1>10 DEF Asks, Goes
<1>12. c.idle = b.idle /\ c.lost = b.lost
  BY DEF Goes
<1> QED
  BY <1>4, <1>9, <1>10, <1>11, <1>12, AskedHolds

LEMMA KeptHolds ==
  ASSUME NEW k \in Nat, NEW b, HttpHolds(b, k), NEW r \in RequestT, NEW i, i = Len(b.requests) + 1,
         r.told = 0, ~r.runs, r.kind # "timeout",
         IF r.outcome = "none" THEN r.source \in DOMAIN b.requests /\ b.requests[r.source].runs
         ELSE r.source = 0,
         NEW c \in HttpT, c.requests = b.requests, c.idle = b.idle, c.timers = b.timers,
         c.outstanding = b.outstanding, c.pending = b.pending \cup {i}, c.cached = b.cached,
         c.lost = b.lost
  PROVE  HttpHolds(Rq!Kept(c, r), k) /\ Rq!Kept(c, r).idle = b.idle
<1>1. b.requests \in Seq(RequestT)
  BY DEF HttpHolds, HttpT
<1>2. PICK q \in Seq(RequestT) : q = Append(b.requests, r)
  <2>1. Append(b.requests, r) \in Seq(RequestT)
    BY <1>1
  <2> QED
    BY <2>1
<1>3. PICK e : e = [c EXCEPT !.requests = q]
  OBVIOUS
<1>4. e = Rq!Kept(c, r)
  BY <1>2, <1>3 DEF Rq!Kept
<1>5. /\ e \in HttpT /\ e.requests = q /\ e.pending = c.pending /\ e.idle = c.idle
      /\ e.timers = c.timers /\ e.cached = c.cached /\ e.outstanding = c.outstanding
      /\ e.lost = c.lost
  BY <1>3 DEF HttpT
<1>6. PICK no \in BOOLEAN : no = FALSE
  OBVIOUS
<1>7. Asks(b, e, r, i, no)
  BY <1>2, <1>5, <1>6 DEF Asks
<1> QED
  BY <1>4, <1>5, <1>7, AskedHolds

LEMMA SendHolds ==
  ASSUME NEW k \in Nat, NEW b, HttpHolds(b, k), NEW kind \in Rq!Kinds, kind # "timeout",
         NEW url \in Sites, NEW timed \in BOOLEAN
  PROVE  /\ HttpHolds(Rq!Send(b, kind, url, timed), k)
         /\ Rq!Send(b, kind, url, timed).idle = b.idle
<1>1. PICK r \in RequestT : r = Rq!Request(kind, url)
  BY DEF Rq!Request, RequestT
<1>2. r.told = 0 /\ r.kind = kind /\ r.url = url /\ ~r.runs /\ r.source = 0 /\ r.outcome = "none"
  BY <1>1 DEF Rq!Request
<1>3. /\ b \in HttpT /\ b.requests \in Seq(RequestT) /\ b.cached \in [Sites -> Int]
      /\ b.pending \in SUBSET Nat
  BY DEF HttpHolds, HttpT
<1>4. PICK i \in Nat : i = Len(b.requests) + 1
  BY <1>3
<1>5. PICK c : c = [b EXCEPT !.pending = b.pending \cup {i}]
  OBVIOUS
<1>6. /\ c \in HttpT /\ c.requests = b.requests /\ c.pending = b.pending \cup {i}
      /\ c.timers = b.timers /\ c.cached = b.cached
      /\ c.outstanding = b.outstanding /\ c.idle = b.idle /\ c.lost = b.lost
  BY <1>3, <1>4, <1>5 DEF HttpT
<1>7. InCache(b, url)
  BY DEF HttpHolds
<1> DEFINE d == Rq!Send(b, kind, url, timed)
<1>8. CASE kind = "jsonp"
  <2>1. PICK no \in BOOLEAN : no = FALSE
    OBVIOUS
  <2>2. d = Rq!ToBackend(c, r, no)
    BY <1>1, <1>4, <1>5, <1>8, <2>1 DEF Rq!Send
  <2>3. Goes(b, c, r)
    BY <1>2, <1>4, <1>6, <1>8 DEF Goes
  <2> QED
    BY <1>6, <2>2, <2>3, ToBackendHolds
<1>9. CASE kind = "get"
  <2>1. d = Rq!ToBackend(c, r, timed)
    BY <1>1, <1>4, <1>5, <1>9 DEF Rq!Send
  <2>2. Goes(b, c, r)
    BY <1>2, <1>4, <1>6, <1>9 DEF Goes
  <2> QED
    BY <1>6, <2>1, <2>2, ToBackendHolds
<1>10. CASE kind = "cached" /\ b.cached[url] = 0
  <2>1. PICK f : f = [c EXCEPT !.cached[url] = i]
    OBVIOUS
  <2>2. d = Rq!ToBackend(f, r, timed)
    <3>1. /\ kind # "jsonp" /\ kind # "get" /\ b.cached[url] = Rq!Absent
          /\ b.cached[url] # Rq!Response
      BY <1>10 DEF Rq!Absent, Rq!Response
    <3>2. d = Rq!ToBackend(Rq!Cached(c, url, i), r, timed)
      BY <1>1, <1>4, <1>5, <1>10, <3>1 DEF Rq!Send
    <3> QED
      BY <2>1, <3>2 DEF Rq!Cached
  <2>3. PICK m : m = [b.cached EXCEPT ![url] = i]
    OBVIOUS
  <2>4. m \in [Sites -> Int] /\ f = [c EXCEPT !.cached = m]
    BY <1>3, <1>4, <1>6, <2>1, <2>3
  <2>5. /\ f \in HttpT /\ f.requests = c.requests /\ f.pending = c.pending /\ f.idle = c.idle
        /\ f.timers = c.timers /\ f.outstanding = c.outstanding /\ f.cached = m
        /\ f.lost = c.lost
    BY <1>6, <2>4 DEF HttpT
  <2>6. Goes(b, f, r)
    BY <1>2, <1>4, <1>6, <1>10, <2>3, <2>5 DEF Goes
  <2> QED
    BY <2>2, <2>5, <2>6, ToBackendHolds
<1>11. CASE kind = "cached" /\ b.cached[url] = -1
  <2>1. PICK s : s = [r EXCEPT !.outcome = "success"]
    OBVIOUS
  <2>2. d = Rq!Kept(c, s)
    BY <1>1, <1>4, <1>5, <1>11, <2>1 DEF Rq!Send, Rq!Absent, Rq!Response
  <2>3. /\ s \in RequestT /\ s.told = 0 /\ s.kind = kind /\ ~s.runs
        /\ s.outcome = "success" /\ s.source = 0
    BY <1>2, <2>1 DEF RequestT
  <2> QED
    BY <1>4, <1>6, <1>11, <2>2, <2>3, KeptHolds
<1>12. CASE kind = "cached" /\ b.cached[url] # 0 /\ b.cached[url] # -1
  <2>1. /\ b.cached[url] \in DOMAIN b.requests /\ b.requests[b.cached[url]].runs
        /\ b.cached[url] \in Nat
    BY <1>3, <1>7, <1>12 DEF InCache
  <2>2. PICK s : s = [r EXCEPT !.source = b.cached[url]]
    OBVIOUS
  <2>3. d = Rq!Kept(c, s)
    BY <1>1, <1>4, <1>5, <1>12, <2>2 DEF Rq!Send, Rq!Absent, Rq!Response
  <2>4. /\ s \in RequestT /\ s.told = 0 /\ s.kind = kind /\ ~s.runs
        /\ s.outcome = "none" /\ s.source = b.cached[url]
    BY <1>2, <2>1, <2>2 DEF RequestT
  <2> QED
    BY <1>4, <1>6, <1>12, <2>1, <2>3, <2>4, KeptHolds
<1> QED
  BY <1>8, <1>9, <1>10, <1>11, <1>12 DEF Rq!Kinds

LEMMA SetTimeoutHolds ==
  ASSUME NEW k \in Nat, NEW b, HttpHolds(b, k)
  PROVE  HttpHolds(Rq!SetTimeout(b), k) /\ Rq!SetTimeout(b).idle = b.idle
<1>1. PICK r \in RequestT : r = Rq!Request("timeout", "none")
  BY DEF Rq!Request, RequestT, Rq!Kinds
<1>2. r.told = 0 /\ r.outcome = "none" /\ r.kind = "timeout"
  BY <1>1 DEF Rq!Request
<1>3. Goes(b, b, r) /\ b \in HttpT
  BY <1>2 DEF Goes, HttpHolds
<1>4. PICK no \in BOOLEAN : no = FALSE
  OBVIOUS
<1>5. Rq!SetTimeout(b) = Rq!ToBackend(b, r, no)
  BY <1>1, <1>4 DEF Rq!SetTimeout
<1> QED
  BY <1>3, <1>5, ToBackendHolds

\* Those that have an outcome are told it.
LEMMA TellHolds ==
  ASSUME NEW k \in Nat, NEW b, HttpHolds(b, k)
  PROVE  HttpHolds(Rq!TellReady(b), k) /\ Rq!TellReady(b).idle = b.idle
<1>1. /\ b \in HttpT /\ b.requests \in Seq(RequestT) /\ DOMAIN b.requests = 1 .. Len(b.requests)
      /\ Len(b.requests) \in Nat /\ b.pending \in SUBSET Nat
  BY DEF HttpHolds, HttpT
<1> DEFINE Said(j) == IF j \in Rq!Ready(b) THEN [b.requests[j] EXCEPT !.told = 1] ELSE b.requests[j]
<1>2. \A j \in DOMAIN b.requests :
        /\ Said(j) \in RequestT /\ Said(j).kind = b.requests[j].kind /\ Said(j).url = b.requests[j].url
        /\ Said(j).runs = b.requests[j].runs /\ Said(j).source = b.requests[j].source
        /\ Said(j).outcome = b.requests[j].outcome
        /\ Said(j).told = IF j \in Rq!Ready(b) THEN 1 ELSE b.requests[j].told
  <2>1. \A j \in DOMAIN b.requests : b.requests[j] \in RequestT
    BY <1>1
  <2> QED
    BY <2>1 DEF RequestT
<1>3. PICK q : q = [j \in DOMAIN b.requests |-> Said(j)]
  OBVIOUS
<1>4. q \in Seq(RequestT) /\ DOMAIN q = DOMAIN b.requests /\ \A j \in DOMAIN q : q[j] = Said(j)
  BY <1>1, <1>2, <1>3
<1>5. PICK p : p = b.pending \ Rq!Ready(b)
  OBVIOUS
<1>6. PICK c : c = [b EXCEPT !.requests = q, !.pending = p]
  OBVIOUS
<1>7. c = Rq!TellReady(b)
  BY <1>3, <1>5, <1>6 DEF Rq!TellReady
<1> HIDE DEF Said
<1>8. /\ c \in HttpT /\ c.requests = q /\ c.pending = p /\ c.idle = b.idle
      /\ c.timers = b.timers /\ c.cached = b.cached /\ c.outstanding = b.outstanding
      /\ c.lost = b.lost
  BY <1>1, <1>4, <1>5, <1>6 DEF HttpT
<1>9. ASSUME NEW j \in DOMAIN c.requests PROVE Asker(c, j)
  <2>1. Asker(b, j) /\ j \in DOMAIN b.requests
    BY <1>4, <1>8 DEF HttpHolds
  <2>2. b.requests[j].outcome = "none" => b.requests[j].source \in DOMAIN b.requests
    BY <1>1, <2>1 DEF Asker
  <2>3. j \in Rq!Ready(b) <=> b.requests[j].outcome # "none" /\ b.requests[j].told = 0
    BY <2>1 DEF Rq!Ready
  <2> QED
    BY <1>2, <1>4, <1>5, <1>8, <2>1, <2>2, <2>3 DEF Asker
<1>10. \A u \in Sites : InCache(c, u)
  BY <1>2, <1>4, <1>8 DEF InCache, HttpHolds
<1>11. Rq!Running(c) = Rq!Running(b)
  BY <1>2, <1>4, <1>8 DEF Rq!Running
<1>12. Counted(c, k)
  BY <1>8, <1>11 DEF Counted, HttpHolds
<1>13. c.pending \subseteq DOMAIN c.requests /\ c.timers \subseteq DOMAIN c.requests
  BY <1>4, <1>5, <1>8 DEF HttpHolds
<1> QED
  BY <1>7, <1>8, <1>9, <1>10, <1>12, <1>13 DEF HttpHolds

LEMMA DigestHolds ==
  ASSUME NEW k \in Nat, NEW b, HttpHolds(b, k), NEW more \in Rq!More, NEW gaveUp \in BOOLEAN
  PROVE  /\ HttpHolds(Rq!Digest(b, more, gaveUp), k)
         /\ Rq!Digest(b, more, gaveUp).idle = b.idle
<1>1. PICK c : c = Rq!TellReady(b)
  OBVIOUS
<1>2. HttpHolds(c, k) /\ c.idle = b.idle
  BY <1>1, TellHolds
<1>3. CASE Rq!Ready(b) = {} \/ more = "nothing" \/ Len(b.requests) = MaxAsked
  BY <1>1, <1>2, <1>3 DEF Rq!Digest
<1>4. CASE ~(Rq!Ready(b) = {} \/ more = "nothing" \/ Len(b.requests) = MaxAsked)
  <2>1. PICK no \in BOOLEAN : no = FALSE
    OBVIOUS
  <2>2. more \in Sites /\ "cached" \in Rq!Kinds
    BY <1>4 DEF Rq!More, Rq!Kinds
  <2>3. PICK d : d = Rq!Send(c, "cached", more, no)
    OBVIOUS
  <2>4. HttpHolds(d, k) /\ d.idle = b.idle
    BY <1>2, <2>2, <2>3, SendHolds
  <2>5. CASE gaveUp
    <3>1. Rq!Digest(b, more, gaveUp) = d
      BY <1>1, <1>4, <2>1, <2>3, <2>5 DEF Rq!Digest
    <3> QED
      BY <2>4, <3>1
  <2>6. CASE ~gaveUp
    <3>1. Rq!Digest(b, more, gaveUp) = Rq!TellReady(d)
      BY <1>1, <1>4, <2>1, <2>3, <2>6 DEF Rq!Digest
    <3> QED
      BY <2>4, <3>1, TellHolds
  <2> QED
    BY <2>5, <2>6
<1> QED
  BY <1>3, <1>4

Stopped(b, i) == [b EXCEPT !.requests[i].runs = FALSE]

\* Request i, which ran, has ended: what the cache has of it goes, all that wait for it have the
\* outcome, and it is still to be counted out.
LEMMA EndedHolds ==
  ASSUME NEW k \in Nat, NEW b, HttpHolds(b, k), NEW i \in DOMAIN b.requests, b.requests[i].runs,
         NEW outcome \in {"success", "error"}, NEW e, e = Stopped(b, i),
         NEW c, c = Rq!Resolve(Rq!Cache(e, i, outcome), i, outcome)
  PROVE  HttpHolds(c, k + 1) /\ c.idle = b.idle
<1>1. /\ b \in HttpT /\ b.requests \in Seq(RequestT) /\ DOMAIN b.requests = 1 .. Len(b.requests)
      /\ Len(b.requests) \in Nat /\ b.cached \in [Sites -> Int]
  BY DEF HttpHolds, HttpT
<1>2. \A j \in DOMAIN b.requests : b.requests[j] \in RequestT
  BY <1>1
<1> DEFINE E(j) == IF j = i THEN [b.requests[j] EXCEPT !.runs = FALSE] ELSE b.requests[j]
           O(j) == IF E(j).source = i /\ E(j).outcome = "none"
                   THEN [E(j) EXCEPT !.outcome = outcome] ELSE E(j)
<1>3. \A j \in DOMAIN b.requests :
        /\ E(j) \in RequestT /\ E(j).kind = b.requests[j].kind /\ E(j).url = b.requests[j].url
        /\ (E(j).runs <=> j # i /\ b.requests[j].runs) /\ E(j).source = b.requests[j].source
        /\ E(j).outcome = b.requests[j].outcome /\ E(j).told = b.requests[j].told
  BY <1>2 DEF RequestT
<1>4. \A j \in DOMAIN b.requests :
        /\ O(j) \in RequestT /\ O(j).kind = b.requests[j].kind /\ O(j).url = b.requests[j].url
        /\ (O(j).runs <=> j # i /\ b.requests[j].runs) /\ O(j).source = b.requests[j].source
        /\ O(j).outcome = (IF b.requests[j].source = i /\ b.requests[j].outcome = "none"
                           THEN outcome ELSE b.requests[j].outcome)
        /\ O(j).told = b.requests[j].told
  <2> HIDE DEF E
  <2> QED
    BY <1>3 DEF RequestT
<1>5. PICK q : q = [j \in DOMAIN b.requests |-> E(j)]
  OBVIOUS
<1>6. q \in Seq(RequestT) /\ DOMAIN q = DOMAIN b.requests /\ \A j \in DOMAIN q : q[j] = E(j)
  <2> HIDE DEF E
  <2> QED
    BY <1>1, <1>3, <1>5
<1>7. q = [b.requests EXCEPT ![i] = [b.requests[i] EXCEPT !.runs = FALSE]]
  BY <1>1, <1>5
<1>8. e = [b EXCEPT !.requests = q]
  BY <1>7 DEF Stopped
<1>9. /\ e \in HttpT /\ e.requests = q /\ e.pending = b.pending /\ e.idle = b.idle
      /\ e.timers = b.timers /\ e.cached = b.cached /\ e.outstanding = b.outstanding
      /\ e.lost = b.lost
  <2> HIDE DEF E
  <2> QED
    BY <1>1, <1>6, <1>8 DEF HttpT
<1> HIDE DEF E
<1>10. PICK d : d = Rq!Cache(e, i, outcome)
  OBVIOUS
<1>11. /\ d \in HttpT /\ d.requests = q /\ d.pending = b.pending /\ d.idle = b.idle
       /\ d.timers = b.timers /\ d.outstanding = b.outstanding /\ d.lost = b.lost
       /\ \A u \in Sites :
            \/ d.cached[u] = b.cached[u] /\ b.cached[u] # i
            \/ d.cached[u] \in {0, -1}
  <2>1. \A u \in Sites : b.cached[u] = i => b.requests[i].kind = "cached" /\ b.requests[i].url = u
    BY <1>1 DEF InCache, HttpHolds
  <2>2. e.requests[i].kind = b.requests[i].kind /\ e.requests[i].url = b.requests[i].url
    BY <1>3, <1>6, <1>9
  <2>3. CASE b.requests[i].kind # "cached"
    BY <1>9, <1>10, <2>1, <2>2, <2>3 DEF Rq!Cache
  <2>4. CASE b.requests[i].kind = "cached"
    <3>1. PICK v \in {0, -1} : v = IF outcome = "success" THEN Rq!Response ELSE Rq!Absent
      BY DEF Rq!Response, Rq!Absent
    <3>2. PICK m : m = [b.cached EXCEPT ![b.requests[i].url] = v]
      OBVIOUS
    <3>3. d = [e EXCEPT !.cached = m]
      BY <1>9, <1>10, <2>2, <2>4, <3>1, <3>2 DEF Rq!Cache
    <3>4. m \in [Sites -> Int]
      <4>1. v \in Int
        BY <3>1
      <4> QED
        BY <1>1, <3>2, <4>1
    <3>5. \A u \in Sites : \/ m[u] = b.cached[u] /\ b.cached[u] # i
                           \/ m[u] \in {0, -1}
      BY <1>1, <2>1, <3>2
    <3>6. /\ d \in HttpT /\ d.requests = e.requests /\ d.pending = e.pending /\ d.idle = e.idle
          /\ d.timers = e.timers /\ d.outstanding = e.outstanding /\ d.cached = m
          /\ d.lost = e.lost
      BY <1>9, <3>3, <3>4 DEF HttpT
    <3> QED
      BY <1>9, <3>5, <3>6
  <2> QED
    BY <2>3, <2>4
<1>12. PICK p : p = [j \in DOMAIN b.requests |-> O(j)]
  OBVIOUS
<1>13. p \in Seq(RequestT) /\ DOMAIN p = DOMAIN b.requests /\ \A j \in DOMAIN p : p[j] = O(j)
  <2> HIDE DEF O
  <2> QED
    BY <1>1, <1>4, <1>12
<1>14. c = [d EXCEPT !.requests = p]
  <2>1. d.requests = q
    BY <1>11
  <2> DEFINE G(j) == IF q[j].source = i /\ q[j].outcome = "none"
                     THEN [q[j] EXCEPT !.outcome = outcome] ELSE q[j]
  <2>2. c = [d EXCEPT !.requests = [j \in DOMAIN q |-> G(j)]]
    BY <1>10, <2>1 DEF Rq!Resolve
  <2>3. \A j \in DOMAIN q : G(j) = O(j)
    BY <1>6
  <2> HIDE DEF G, O
  <2>4. [j \in DOMAIN q |-> G(j)] = p
    BY <1>6, <1>12, <2>3
  <2> QED
    BY <2>2, <2>4
<1> HIDE DEF O
<1>15. /\ c \in HttpT /\ c.requests = p /\ c.pending = b.pending /\ c.idle = b.idle
       /\ c.timers = b.timers /\ c.cached = d.cached /\ c.outstanding = b.outstanding
       /\ c.lost = b.lost
  BY <1>11, <1>13, <1>14 DEF HttpT
<1>16. ASSUME NEW j \in DOMAIN c.requests PROVE Asker(c, j)
  <2>1. Asker(b, j) /\ j \in DOMAIN b.requests
    BY <1>13, <1>15 DEF HttpHolds
  <2>2. b.requests[j].outcome = "none" => b.requests[j].source \in DOMAIN b.requests
    BY <1>1, <2>1 DEF Asker
  <2>3. b.requests[j].runs /\ b.requests[j].source = i => j = i
    BY <2>1 DEF Asker
  <2>4. c.requests[j] = O(j) /\ (j \in c.pending <=> j \in b.pending)
    BY <1>13, <1>15
  <2>5. b.requests[j].outcome = "none" => c.requests[b.requests[j].source] = O(b.requests[j].source)
    BY <1>13, <1>15, <2>2
  <2> QED
    BY <1>4, <2>1, <2>2, <2>3, <2>4, <2>5 DEF Asker
<1>17. ASSUME NEW u \in Sites PROVE InCache(c, u)
  <2>1. InCache(b, u)
    BY DEF HttpHolds
  <2>2. CASE c.cached[u] = b.cached[u] /\ b.cached[u] # i /\ b.cached[u] \notin {0, -1}
    <3>1. PICK j \in DOMAIN b.requests : j = b.cached[u]
      BY <2>1, <2>2 DEF InCache
    <3>2. j # i /\ c.requests[j] = O(j) /\ j \in DOMAIN c.requests /\ c.cached[u] = j
      BY <1>13, <1>15, <2>2, <3>1
    <3> QED
      BY <1>4, <2>1, <2>2, <3>1, <3>2 DEF InCache
  <2> QED
    BY <1>11, <1>15, <2>2 DEF InCache
<1>18. /\ IsFiniteSet(Rq!Running(b)) /\ i \in Rq!Running(b) /\ b.lost \in Nat
       /\ Cardinality(Rq!Running(b)) \in Nat /\ Cardinality(b.timers) \in Nat
  BY RunningIs DEF HttpHolds, HttpT
<1>19. Rq!Running(c) = Rq!Running(b) \ {i}
  BY <1>4, <1>13, <1>15 DEF Rq!Running
<1>20. Cardinality(Rq!Running(c)) = Cardinality(Rq!Running(b)) - 1
  BY <1>18, <1>19, FS_RemoveElement
<1>21. Counted(c, k + 1)
  BY <1>15, <1>18, <1>20 DEF Counted, HttpHolds
<1> QED
  BY <1>13, <1>15, <1>16, <1>17, <1>21 DEF HttpHolds

\* One that has ended is counted out: those who wait are called when nothing is left.
LEMMA CountDownHolds ==
  ASSUME NEW k \in Nat, NEW b, HttpHolds(b, k + 1), NEW c, c = Rq!CountDown(b)
  PROVE  HttpHolds(c, k) /\ (c.idle # b.idle => c.outstanding = 0)
<1>1. b \in HttpT /\ b.outstanding \in Int /\ b.idle \in {0, 1} /\ b.lost \in Nat
  BY DEF HttpHolds, HttpT
<1>2. PICK n \in Int : n = b.outstanding - 1
  BY <1>1
<1>3. PICK x \in {0, 1} : x = IF b.outstanding = 1 THEN 0 ELSE b.idle
  BY <1>1
<1>4. c = [b EXCEPT !.outstanding = n, !.idle = x]
  BY <1>2, <1>3 DEF Rq!CountDown
<1>5. /\ c \in HttpT /\ c.requests = b.requests /\ c.pending = b.pending /\ c.idle = x
      /\ c.timers = b.timers /\ c.cached = b.cached /\ c.outstanding = n
      /\ c.lost = b.lost
  BY <1>1, <1>4 DEF HttpT
<1>6. Rq!Running(c) = Rq!Running(b)
  BY <1>5 DEF Rq!Running
<1>7. Cardinality(Rq!Running(b)) \in Nat /\ Cardinality(b.timers) \in Nat /\ Counted(b, k + 1)
  BY RunningIs DEF HttpHolds
<1>8. Counted(c, k) /\ (c.idle # b.idle => c.outstanding = 0)
  <2>1. /\ b.outstanding = Cardinality(Rq!Running(b)) + Cardinality(b.timers) + b.lost + (k + 1)
        /\ b.idle = 1 => b.outstanding > 0
    BY <1>7 DEF Counted
  <2>2. n = Cardinality(Rq!Running(b)) + Cardinality(b.timers) + b.lost + k
    <3>1. PICK r \in Nat : r = Cardinality(Rq!Running(b))
      BY <1>7
    <3>2. PICK t \in Nat : t = Cardinality(b.timers)
      BY <1>7
    <3>3. PICK l \in Nat : l = b.lost
      BY <1>1
    <3>4. b.outstanding = r + t + l + (k + 1)
      BY <2>1, <3>1, <3>2, <3>3
    <3>5. n = r + t + l + k
      BY <1>2, <3>4
    <3> QED
      BY <3>1, <3>2, <3>3, <3>5
  <2>3. x = 1 => n > 0
    BY <1>1, <1>2, <1>3, <2>1
  <2>4. x # b.idle => n = 0
    BY <1>1, <1>2, <1>3
  <2> QED
    BY <1>5, <1>6, <2>2, <2>3, <2>4 DEF Counted
<1>9. \A i \in DOMAIN c.requests : Asker(c, i)
  BY <1>5 DEF Asker, HttpHolds
<1>10. \A u \in Sites : InCache(c, u)
  BY <1>5 DEF InCache, HttpHolds
<1> QED
  BY <1>5, <1>8, <1>9, <1>10 DEF HttpHolds

\* One that has ended and is never counted out is lost.
LEMMA LostHolds ==
  ASSUME NEW k \in Nat, NEW b, HttpHolds(b, k + 1), NEW c, c = [b EXCEPT !.lost = @ + 1]
  PROVE  HttpHolds(c, k) /\ c.idle = b.idle
<1>1. b \in HttpT /\ b.outstanding \in Int /\ b.lost \in Nat
  BY DEF HttpHolds, HttpT
<1>2. PICK n \in Nat : n = b.lost + 1
  BY <1>1
<1>3. c = [b EXCEPT !.lost = n]
  BY <1>2
<1>4. /\ c \in HttpT /\ c.requests = b.requests /\ c.pending = b.pending /\ c.idle = b.idle
      /\ c.timers = b.timers /\ c.cached = b.cached /\ c.outstanding = b.outstanding
      /\ c.lost = n
  BY <1>1, <1>3 DEF HttpT
<1>5. Rq!Running(c) = Rq!Running(b)
  BY <1>4 DEF Rq!Running
<1>6. Cardinality(Rq!Running(b)) \in Nat /\ Cardinality(b.timers) \in Nat /\ Counted(b, k + 1)
  BY RunningIs DEF HttpHolds
<1>7. Counted(c, k)
  BY <1>1, <1>2, <1>4, <1>5, <1>6 DEF Counted
<1>8. \A i \in DOMAIN c.requests : Asker(c, i)
  BY <1>4 DEF Asker, HttpHolds
<1>9. \A u \in Sites : InCache(c, u)
  BY <1>4 DEF InCache, HttpHolds
<1> QED
  BY <1>4, <1>7, <1>8, <1>9 DEF HttpHolds

\* A request that ran is answered: its callers are told, and it is counted out or lost.
LEMMA CompletedHolds ==
  ASSUME NEW k \in Nat, NEW b, HttpHolds(b, k), NEW i \in DOMAIN b.requests, b.requests[i].runs,
         NEW outcome \in {"success", "error"}, NEW more \in Rq!More, NEW gaveUp \in BOOLEAN,
         NEW c, c = Rq!Completed(b, i, outcome, more, gaveUp)
  PROVE  HttpHolds(c, k) /\ (c.idle # b.idle => c.outstanding = 0)
<1>1. PICK e : e = Stopped(b, i)
  OBVIOUS
<1>2. PICK d : d = Rq!Resolve(Rq!Cache(e, i, outcome), i, outcome)
  OBVIOUS
<1>3. PICK f : f = Rq!Digest(d, more, gaveUp)
  OBVIOUS
<1>4. HttpHolds(d, k + 1) /\ d.idle = b.idle
  BY <1>1, <1>2, EndedHolds
<1>5. HttpHolds(f, k + 1) /\ f.idle = b.idle
  BY <1>3, <1>4, DigestHolds
<1>6. CASE ~gaveUp
  <2>1. c = Rq!CountDown(f)
    BY <1>1, <1>2, <1>3, <1>6 DEF Rq!Completed, Stopped
  <2> QED
    BY <1>5, <2>1, CountDownHolds
<1>7. CASE gaveUp
  <2>1. c = [f EXCEPT !.lost = @ + 1]
    BY <1>1, <1>2, <1>3, <1>7 DEF Rq!Completed, Stopped
  <2> QED
    BY <1>5, <2>1, LostHolds
<1> QED
  BY <1>6, <1>7

\* A timeout that ran has gone off, or is cancelled.
LEMMA TimedOutHolds ==
  ASSUME NEW b, HttpHolds(b, 0), NEW i \in DOMAIN b.requests, b.requests[i].runs,
         b.requests[i].kind = "timeout", NEW outcome \in {"success", "error"},
         NEW d, d = Rq!Resolve(Stopped(b, i), i, outcome)
  PROVE  HttpHolds(d, 0 + 1) /\ d.idle = b.idle
<1>1. PICK e : e = Stopped(b, i)
  OBVIOUS
<1>2. b \in HttpT /\ b.requests \in Seq(RequestT)
  BY DEF HttpHolds, HttpT
<1>3. PICK q : q = [b.requests EXCEPT ![i] = [b.requests[i] EXCEPT !.runs = FALSE]]
  OBVIOUS
<1>4. e = [b EXCEPT !.requests = q]
  BY <1>1, <1>3 DEF Stopped
<1>5. e.requests = q
  BY <1>2, <1>4 DEF HttpT
<1>6. e.requests[i].kind = "timeout"
  BY <1>2, <1>3, <1>5 DEF RequestT
<1>7. Rq!Cache(e, i, outcome) = e
  BY <1>6 DEF Rq!Cache
<1> QED
  BY <1>1, <1>7, EndedHolds

\* What a handler leaves is the next state.
LEMMA BecomeHolds ==
  ASSUME RequestsInv, NEW b, HttpHolds(b, 0), b.idle # idle => b.outstanding = 0, Rq!Become(b)
  PROVE  RequestsInv'
<1>1. b \in HttpT /\ b.lost \in Nat
  BY DEF HttpHolds, HttpT
<1>2. Rq!Now' = b
  BY <1>1 DEF Rq!Now, Rq!Become, HttpT
<1>3. HttpHolds(Rq!Now, 0)'
  BY <1>2
<1>4. /\ IsFiniteSet(Rq!Running(b)) /\ IsFiniteSet(b.timers)
      /\ Cardinality(Rq!Running(b)) \in Nat /\ Cardinality(b.timers) \in Nat
  BY RunningIs DEF HttpHolds
<1>5. idle \in {0, 1} /\ early = FALSE
  BY DEF RequestsInv, HttpHolds, HttpT, Rq!Now
<1>6. idle > 0 /\ b.idle = 0 => Rq!Running(b) = {} /\ b.timers = {}
  <2>1. SUFFICES ASSUME idle > 0 /\ b.idle = 0 PROVE Rq!Running(b) = {} /\ b.timers = {}
    OBVIOUS
  <2>2. b.outstanding = 0
    BY <1>5, <2>1
  <2>3. Cardinality(Rq!Running(b)) = 0 /\ Cardinality(b.timers) = 0
    <3>1. Counted(b, 0)
      BY DEF HttpHolds
    <3>2. Cardinality(Rq!Running(b)) + Cardinality(b.timers) + b.lost + 0 = 0
      BY <2>2, <3>1 DEF Counted
    <3>3. PICK r \in Nat : r = Cardinality(Rq!Running(b))
      BY <1>4
    <3>4. PICK t \in Nat : t = Cardinality(b.timers)
      BY <1>4
    <3>5. PICK l \in Nat : l = b.lost
      BY <1>1
    <3>6. r + t + l + 0 = 0
      BY <3>2, <3>3, <3>4, <3>5
    <3>7. r = 0 /\ t = 0
      BY <3>6
    <3> QED
      BY <3>3, <3>4, <3>7
  <2> QED
    BY <1>4, <2>3, FS_EmptySet
<1>7. early' = FALSE
  BY <1>5, <1>6 DEF Rq!Become
<1> QED
  BY <1>3, <1>7 DEF RequestsInv

\* Every step of the requests keeps the invariant.
LEMMA RequestsBegin == Rq!HtInit => RequestsInv
<1>1. SUFFICES ASSUME Rq!HtInit PROVE RequestsInv
  OBVIOUS
<1>2. PICK b : b = Rq!Now
  OBVIOUS
<1>3. /\ b.requests = <<>> /\ b.cached = [u \in Sites |-> 0] /\ b.pending = {} /\ b.timers = {}
      /\ b.outstanding = 0 /\ b.idle = 0 /\ b.lost = 0 /\ b \in HttpT
  <2>1. <<>> \in Seq(RequestT) /\ [u \in Sites |-> 0] \in [Sites -> Int]
    OBVIOUS
  <2> QED
    BY <1>1, <1>2, <2>1 DEF Rq!Now, Rq!HtInit, Rq!Absent, HttpT
<1>4. DOMAIN b.requests = {}
  BY <1>3
<1>5. Rq!Running(b) = {}
  BY <1>4 DEF Rq!Running
<1>6. Cardinality(Rq!Running(b)) = 0 /\ Cardinality(b.timers) = 0
  BY <1>3, <1>5, FS_EmptySet
<1>7. HttpHolds(b, 0)
  BY <1>3, <1>4, <1>6 DEF HttpHolds, InCache, Counted
<1> QED
  BY <1>1, <1>2, <1>7 DEF RequestsInv, Rq!HtInit

LEMMA RequestsNow ==
  ASSUME RequestsInv
  PROVE  /\ HttpHolds(Rq!Now, 0) /\ Rq!Now.requests = requests /\ Rq!Now.cached = cached
         /\ Rq!Now.pending = pending /\ Rq!Now.timers = httpTimers
         /\ Rq!Now.outstanding = outstanding /\ Rq!Now.idle = idle /\ Rq!Now.lost = lost
BY DEF RequestsInv, Rq!Now

LEMMA CompleteKeeps ==
  ASSUME RequestsInv, NEW i \in DOMAIN requests, NEW more \in Rq!More,
         NEW outcome \in {"success", "error"}, NEW gaveUp \in BOOLEAN,
         Rq!Complete(i, outcome, more, gaveUp)
  PROVE  RequestsInv'
<1>1. PICK b : b = Rq!Now
  OBVIOUS
<1>2. HttpHolds(b, 0) /\ i \in DOMAIN b.requests /\ b.requests[i].runs /\ b.idle = idle
  BY <1>1, RequestsNow DEF Rq!Complete
<1>3. PICK c : c = Rq!Completed(b, i, outcome, more, gaveUp)
  OBVIOUS
<1>4. Rq!Become(c)
  BY <1>1, <1>3 DEF Rq!Complete
<1> QED
  BY <1>2, <1>3, <1>4, CompletedHolds, BecomeHolds

LEMMA AbortKeeps ==
  ASSUME RequestsInv, NEW i \in DOMAIN requests, NEW more \in Rq!More, NEW gaveUp \in BOOLEAN,
         Rq!Abort(i, more, gaveUp)
  PROVE  RequestsInv'
<1>1. PICK a : a = Rq!Now
  OBVIOUS
<1>2. /\ HttpHolds(a, 0) /\ i \in DOMAIN a.requests /\ a.idle = idle /\ a.requests = requests
      /\ i \in a.timers
  BY <1>1, RequestsNow DEF Rq!Abort
<1>3. PICK t : t = a.timers \ {i}
  OBVIOUS
<1>4. PICK b : b = [a EXCEPT !.timers = t]
  OBVIOUS
<1>5. /\ b \in HttpT /\ b.requests = a.requests /\ b.cached = a.cached /\ b.pending = a.pending
      /\ b.timers = t /\ b.outstanding = a.outstanding /\ b.idle = a.idle
      /\ b.lost = a.lost /\ a.lost \in Nat
  <2>1. a \in HttpT /\ t \in SUBSET Nat
    BY <1>2, <1>3 DEF HttpHolds, HttpT
  <2> QED
    BY <1>4, <2>1 DEF HttpT
<1>6. HttpHolds(b, 1)
  <2>1. /\ IsFiniteSet(a.timers) /\ Cardinality(a.timers) \in Nat
        /\ Cardinality(Rq!Running(a)) \in Nat
    BY <1>2, RunningIs DEF HttpHolds
  <2>2. Cardinality(t) = Cardinality(a.timers) - 1
    BY <1>2, <1>3, <2>1, FS_RemoveElement
  <2>3. Rq!Running(b) = Rq!Running(a)
    BY <1>5 DEF Rq!Running
  <2>4. Counted(b, 1)
    <3>1. Counted(a, 0)
      BY <1>2 DEF HttpHolds
    <3> QED
      BY <1>5, <2>1, <2>2, <2>3, <3>1 DEF Counted
  <2>5. \A j \in DOMAIN b.requests : Asker(b, j)
    BY <1>2, <1>5 DEF Asker, HttpHolds
  <2>6. \A u \in Sites : InCache(b, u)
    BY <1>2, <1>5 DEF InCache, HttpHolds
  <2>7. b.pending \subseteq DOMAIN b.requests /\ b.timers \subseteq DOMAIN b.requests
    BY <1>2, <1>3, <1>5 DEF HttpHolds
  <2> QED
    BY <1>5, <2>4, <2>5, <2>6, <2>7 DEF HttpHolds
<1>7. PICK e \in {"success", "error"} : e = "error"
  OBVIOUS
<1>8. PICK c : c = IF b.requests[i].runs THEN Rq!Completed(b, i, e, more, gaveUp) ELSE b
  OBVIOUS
<1>9. HttpHolds(c, 1) /\ c.idle = b.idle
  <2>1. CASE b.requests[i].runs
    <3>1. HttpHolds(c, 1) /\ (c.idle # b.idle => c.outstanding = 0)
      BY <1>2, <1>5, <1>6, <1>8, <2>1, CompletedHolds
    <3>2. Cardinality(Rq!Running(c)) \in Nat /\ Cardinality(c.timers) \in Nat /\ c.lost \in Nat
      BY <3>1, RunningIs DEF HttpHolds, HttpT
    <3>3. c.outstanding # 0
      BY <3>1, <3>2 DEF HttpHolds, Counted
    <3> QED
      BY <3>1, <3>3
  <2> QED
    BY <1>6, <1>8, <2>1
<1>10. PICK d : d = Rq!CountDown(c)
  OBVIOUS
<1>11. HttpHolds(d, 0) /\ (d.idle # c.idle => d.outstanding = 0)
  BY <1>9, <1>10, CountDownHolds
<1>12. Rq!Become(d)
  BY <1>1, <1>2, <1>3, <1>4, <1>5, <1>7, <1>8, <1>10 DEF Rq!Abort
<1> QED
  BY <1>2, <1>5, <1>9, <1>11, <1>12, BecomeHolds

LEMMA GoOffKeeps ==
  ASSUME RequestsInv, NEW i \in DOMAIN requests, NEW more \in Rq!More,
         NEW outcome \in {"success", "error"}, NEW apply \in BOOLEAN, NEW gaveUp \in BOOLEAN,
         Rq!GoOff(i, outcome, apply, more, gaveUp)
  PROVE  RequestsInv'
<1>1. PICK b : b = Rq!Now
  OBVIOUS
<1>2. /\ HttpHolds(b, 0) /\ i \in DOMAIN b.requests /\ b.requests[i].runs /\ b.idle = idle
      /\ b.requests[i].kind = "timeout"
  BY <1>1, RequestsNow DEF Rq!GoOff
<1>3. PICK c : c = Rq!Resolve(Stopped(b, i), i, outcome)
  OBVIOUS
<1>4. HttpHolds(c, 0 + 1) /\ c.idle = b.idle
  BY <1>2, <1>3, TimedOutHolds
<1>5. PICK d : d = IF apply THEN Rq!Digest(c, more, gaveUp) ELSE c
  OBVIOUS
<1>6. HttpHolds(d, 0 + 1) /\ d.idle = b.idle
  BY <1>4, <1>5, DigestHolds
<1>7. PICK e : e = Rq!CountDown(d)
  OBVIOUS
<1>8. HttpHolds(e, 0) /\ (e.idle # d.idle => e.outstanding = 0)
  BY <1>6, <1>7, CountDownHolds
<1>9. Rq!Become(e)
  BY <1>1, <1>3, <1>5, <1>7 DEF Rq!GoOff, Stopped
<1> QED
  BY <1>2, <1>6, <1>8, <1>9, BecomeHolds

LEMMA CancelKeeps ==
  ASSUME RequestsInv, NEW i \in DOMAIN requests, Rq!Cancel(i)
  PROVE  RequestsInv'
<1>1. PICK b : b = Rq!Now
  OBVIOUS
<1>2. /\ HttpHolds(b, 0) /\ i \in DOMAIN b.requests /\ b.requests[i].runs /\ b.idle = idle
      /\ b.requests[i].kind = "timeout"
  BY <1>1, RequestsNow DEF Rq!Cancel
<1>3. PICK o \in {"success", "error"} : o = "error"
  OBVIOUS
<1>4. PICK c : c = Rq!Resolve(Stopped(b, i), i, o)
  OBVIOUS
<1>5. HttpHolds(c, 0 + 1) /\ c.idle = b.idle
  BY <1>2, <1>4, TimedOutHolds
<1>6. PICK d : d = Rq!CountDown(c)
  OBVIOUS
<1>7. HttpHolds(d, 0) /\ (d.idle # c.idle => d.outstanding = 0)
  BY <1>5, <1>6, CountDownHolds
<1>8. Rq!Become(d)
  BY <1>1, <1>3, <1>4, <1>6 DEF Rq!Cancel, Rq!Cancelled, Stopped
<1> QED
  BY <1>2, <1>5, <1>7, <1>8, BecomeHolds

LEMMA AskKeeps ==
  ASSUME RequestsInv, NEW kind \in Rq!Kinds, NEW url \in Sites, NEW timed \in BOOLEAN,
         Rq!Ask(kind, url, timed)
  PROVE  RequestsInv'
<1>1. PICK b : b = Rq!Now
  OBVIOUS
<1>2. HttpHolds(b, 0) /\ b.idle = idle
  BY <1>1, RequestsNow
<1>3. PICK c : c = IF kind = "timeout" THEN Rq!SetTimeout(b) ELSE Rq!Send(b, kind, url, timed)
  OBVIOUS
<1>4. HttpHolds(c, 0) /\ c.idle = b.idle
  BY <1>2, <1>3, SetTimeoutHolds, SendHolds
<1>5. Rq!Become(c)
  BY <1>1, <1>3 DEF Rq!Ask
<1> QED
  BY <1>2, <1>4, <1>5, BecomeHolds

LEMMA OtherDigestKeeps ==
  ASSUME RequestsInv, NEW more \in Rq!More, NEW gaveUp \in BOOLEAN, Rq!OtherDigest(more, gaveUp)
  PROVE  RequestsInv'
<1>1. PICK b : b = Rq!Now
  OBVIOUS
<1>2. HttpHolds(b, 0) /\ b.idle = idle
  BY <1>1, RequestsNow
<1>3. PICK c : c = Rq!Digest(b, more, gaveUp)
  OBVIOUS
<1>4. HttpHolds(c, 0) /\ c.idle = b.idle
  BY <1>2, <1>3, DigestHolds
<1>5. Rq!Become(c)
  BY <1>1, <1>3 DEF Rq!OtherDigest
<1> QED
  BY <1>2, <1>4, <1>5, BecomeHolds

LEMMA ForgetKeeps ==
  ASSUME RequestsInv, NEW url \in Sites, Rq!Forget(url)
  PROVE  RequestsInv'
<1>1. PICK b : b = Rq!Now
  OBVIOUS
<1>2. HttpHolds(b, 0) /\ early = FALSE /\ b.cached = cached
  BY <1>1, RequestsNow DEF RequestsInv
<1>3. PICK m : m = [b.cached EXCEPT ![url] = 0]
  OBVIOUS
<1>4. PICK c : c = [b EXCEPT !.cached = m]
  OBVIOUS
<1>5. /\ c \in HttpT /\ c.requests = b.requests /\ c.cached = m /\ c.pending = b.pending
      /\ c.timers = b.timers /\ c.outstanding = b.outstanding /\ c.idle = b.idle
      /\ c.lost = b.lost
  <2>1. b \in HttpT /\ m \in [Sites -> Int]
    BY <1>2, <1>3 DEF HttpHolds, HttpT
  <2> QED
    BY <1>4, <2>1 DEF HttpT
<1>6. Rq!Now' = c /\ early' = FALSE
  <2>1. /\ requests' = b.requests /\ cached' = m /\ pending' = b.pending
        /\ httpTimers' = b.timers /\ outstanding' = b.outstanding /\ idle' = b.idle /\ early' = FALSE
        /\ lost' = b.lost
    BY <1>1, <1>2, <1>3, RequestsNow DEF Rq!Forget, Rq!Absent
  <2> QED
    BY <1>5, <2>1 DEF Rq!Now, HttpT
<1>7. \A j \in DOMAIN c.requests : Asker(c, j)
  BY <1>2, <1>5 DEF Asker, HttpHolds
<1>8. \A u \in Sites : InCache(c, u)
  <2>1. b.cached \in [Sites -> Int]
    BY <1>2 DEF HttpHolds, HttpT
  <2> QED
    BY <1>2, <1>3, <1>5, <2>1 DEF InCache, HttpHolds
<1>9. Rq!Running(c) = Rq!Running(b)
  BY <1>5 DEF Rq!Running
<1>10. HttpHolds(c, 0)
  BY <1>2, <1>5, <1>7, <1>8, <1>9 DEF HttpHolds, Counted
<1> QED
  BY <1>6, <1>10 DEF RequestsInv

LEMMA AwaitIdleKeeps ==
  ASSUME RequestsInv, Rq!NotifyWhenIdle
  PROVE  RequestsInv'
<1>1. PICK b : b = Rq!Now
  OBVIOUS
<1>2. HttpHolds(b, 0) /\ early = FALSE /\ b.outstanding > 0
  BY <1>1, RequestsNow DEF RequestsInv, Rq!NotifyWhenIdle
<1>3. PICK c : c = [b EXCEPT !.idle = 1]
  OBVIOUS
<1>4. /\ c \in HttpT /\ c.requests = b.requests /\ c.cached = b.cached /\ c.pending = b.pending
      /\ c.timers = b.timers /\ c.outstanding = b.outstanding /\ c.idle = 1
      /\ c.lost = b.lost
  <2>1. b \in HttpT
    BY <1>2 DEF HttpHolds
  <2> QED
    BY <1>3, <2>1 DEF HttpT
<1>5. Rq!Now' = c /\ early' = FALSE
  <2>1. /\ requests' = b.requests /\ cached' = b.cached /\ pending' = b.pending
        /\ httpTimers' = b.timers /\ outstanding' = b.outstanding /\ idle' = 1 /\ early' = FALSE
        /\ lost' = b.lost
    BY <1>1, <1>2, RequestsNow DEF Rq!NotifyWhenIdle
  <2> QED
    BY <1>4, <2>1 DEF Rq!Now, HttpT
<1>6. \A j \in DOMAIN c.requests : Asker(c, j)
  BY <1>2, <1>4 DEF Asker, HttpHolds
<1>7. \A u \in Sites : InCache(c, u)
  BY <1>2, <1>4 DEF InCache, HttpHolds
<1>8. Rq!Running(c) = Rq!Running(b)
  BY <1>4 DEF Rq!Running
<1>9. HttpHolds(c, 0)
  BY <1>2, <1>4, <1>6, <1>7, <1>8 DEF HttpHolds, Counted
<1> QED
  BY <1>5, <1>9 DEF RequestsInv

LEMMA RequestsStep ==
  ASSUME RequestsInv, Rq!HtNext PROVE RequestsInv'
<1>1. CASE \E kind \in Rq!Kinds, url \in Sites, timed \in BOOLEAN : Rq!Ask(kind, url, timed)
  BY <1>1, AskKeeps
<1>2. ASSUME NEW i \in DOMAIN requests, NEW more \in Rq!More, NEW gaveUp \in BOOLEAN,
             \/ \E outcome \in {"success", "error"} : Rq!Complete(i, outcome, more, gaveUp)
             \/ Rq!Abort(i, more, gaveUp)
             \/ \E outcome \in {"success", "error"}, apply \in BOOLEAN :
                  Rq!GoOff(i, outcome, apply, more, gaveUp)
      PROVE  RequestsInv'
  BY <1>2, CompleteKeeps, AbortKeeps, GoOffKeeps
<1>3. CASE \E i \in DOMAIN requests : Rq!Cancel(i)
  BY <1>3, CancelKeeps
<1>4. CASE \E more \in Rq!More, gaveUp \in BOOLEAN : Rq!OtherDigest(more, gaveUp)
  BY <1>4, OtherDigestKeeps
<1>5. CASE \E url \in Sites : Rq!Forget(url)
  BY <1>5, ForgetKeeps
<1>6. CASE Rq!NotifyWhenIdle
  BY <1>6, AwaitIdleKeeps
<1> QED
  BY <1>1, <1>2, <1>3, <1>4, <1>5, <1>6 DEF Rq!HtNext

LEMMA RequestsStutter ==
  ASSUME RequestsInv, UNCHANGED requestVars PROVE RequestsInv'
<1>1. Rq!Now' = Rq!Now /\ early' = early
  BY DEF requestVars, Rq!Now
<1> QED
  BY <1>1 DEF RequestsInv

LEMMA RequestsShow ==
  ASSUME RequestsInv
  PROVE  Rq!HtTypeOK /\ Rq!NobodyIsForgotten /\ Rq!CachedIsUnderWay /\ Rq!IdleIsIdle
<1>1. PICK b : b = Rq!Now
  OBVIOUS
<1>2. /\ HttpHolds(b, 0) /\ early = FALSE /\ b.requests = requests /\ b.cached = cached
      /\ b.pending = pending /\ b.timers = httpTimers /\ b.outstanding = outstanding
      /\ b.idle = idle /\ b.lost = lost
  BY <1>1, RequestsNow DEF RequestsInv
<1>3. /\ b \in HttpT /\ requests \in Seq(RequestT) /\ cached \in [Sites -> Int]
      /\ DOMAIN requests = 1 .. Len(requests) /\ Len(requests) \in Nat
      /\ idle \in {0, 1} /\ lost \in Nat
  BY <1>2 DEF HttpHolds, HttpT
<1>4. \A i \in DOMAIN requests : Asker(b, i) /\ requests[i] \in RequestT
  BY <1>2, <1>3 DEF HttpHolds
<1>5. Rq!HtTypeOK
  <2>1. ASSUME NEW i \in DOMAIN requests
        PROVE  /\ requests[i].kind \in Rq!Kinds /\ requests[i].runs \in BOOLEAN
               /\ requests[i].source \in 0 .. i
               /\ requests[i].outcome \in {"none", "success", "error"}
               /\ requests[i].told \in 0 .. 1
    BY <1>2, <1>4 DEF RequestT, Asker
  <2>2. \A u \in Sites : cached[u] \in {Rq!Absent, Rq!Response} \cup DOMAIN requests
    BY <1>2 DEF HttpHolds, InCache, Rq!Absent, Rq!Response
  <2>3. httpTimers \subseteq DOMAIN requests /\ idle \in 0 .. 1 /\ early \in BOOLEAN
        /\ lost \in Nat
    <3>1. httpTimers \subseteq DOMAIN requests
      BY <1>2 DEF HttpHolds
    <3>2. idle \in 0 .. 1
      BY <1>3
    <3>3. early \in BOOLEAN
      BY <1>2
    <3> QED
      BY <1>3, <3>1, <3>2, <3>3
  <2> QED
    BY <2>1, <2>2, <2>3 DEF Rq!HtTypeOK
<1>6. Rq!NobodyIsForgotten
  BY <1>2, <1>4 DEF Rq!NobodyIsForgotten, Asker
<1>7. Rq!CachedIsUnderWay
  BY <1>2, <1>3 DEF Rq!CachedIsUnderWay, HttpHolds, InCache
<1>8. Rq!IdleIsIdle
  <2>1. \A S : Rq!Cardinality(S) = Cardinality(S)
    BY DEF Rq!Cardinality, Cardinality
  <2>2. Counted(b, 0)
    BY <1>2 DEF HttpHolds
  <2>3. Cardinality(Rq!Running(b)) \in Nat /\ Cardinality(b.timers) \in Nat
    BY <1>2, RunningIs DEF HttpHolds
  <2>4. outstanding = Rq!Cardinality(Rq!Running(b)) + Rq!Cardinality(httpTimers) + lost
    BY <1>2, <1>3, <2>1, <2>2, <2>3 DEF Counted
  <2>5. Rq!Running(b) = Rq!Running(Rq!Now)
    BY <1>1
  <2>6. idle > 0 => outstanding > 0
    BY <1>2, <1>3, <2>2 DEF Counted
  <2> QED
    BY <1>2, <2>4, <2>5, <2>6 DEF Rq!IdleIsIdle
<1> QED
  BY <1>5, <1>6, <1>7, <1>8

-----------------------------------------------------------------------------
(* A cache *)

Links == Keys \cup {NoKey}
CacheT ==
  [data : SUBSET Keys, lruHash : SUBSET Keys, p : [Keys -> Links], n : [Keys -> Links],
   freshEnd : Links, staleEnd : Links, size : Int, used : Seq(Keys)]

\* The entry at j of u is linked to those before and after it.
LinkedAt(b, u, j) ==
  /\ b.n[u[j]] = IF j = 1 THEN NoKey ELSE u[j - 1]
  /\ b.p[u[j]] = IF j = Len(u) THEN NoKey ELSE u[j + 1]

\* The entries of b are linked as u says, the one used last in front.
Chained(b, u) ==
  /\ b \in CacheT /\ u \in Seq(Keys) /\ Ca!IsInjective(u)
  /\ u = <<>> => b.freshEnd = NoKey /\ b.staleEnd = NoKey
  /\ u # <<>> => b.freshEnd = u[1] /\ b.staleEnd = u[Len(u)]
  /\ \A j \in DOMAIN u : LinkedAt(b, u, j)

CacheHolds(b) ==
  Chained(b, b.used) /\ Ca!Range(b.used) = b.lruHash /\ b.data \subseteq b.lruHash

\* Something undefined that goes is counted out, and something undefined that comes is not
\* counted in: how far that goes is bounded by how often it is put.
Sized(b, strange) ==
  /\ b.size <= Cardinality(b.data)
  /\ b.size >= Cardinality(b.lruHash) - MaxUndefined - Cardinality(Keys)
  /\ ~strange => b.data = b.lruHash /\ b.size = Cardinality(b.data) /\ b.size <= Capacity

CacheInv == CacheHolds(Ca!Now) /\ Sized(Ca!Now, odd) /\ odd \in BOOLEAN

CutOut(s, k) == SubSeq(s, 1, k - 1) \o SubSeq(s, k + 1, Len(s))

\* What is left of a list that one member is cut out of.
LEMMA CutOutIs ==
  ASSUME NEW X, NEW s \in Seq(X), NEW k \in DOMAIN s
  PROVE  /\ CutOut(s, k) \in Seq(X) /\ Len(CutOut(s, k)) = Len(s) - 1 /\ Len(s) - 1 \in Nat
         /\ \A j \in 1 .. Len(s) - 1 : CutOut(s, k)[j] = IF j < k THEN s[j] ELSE s[j + 1]
<1> DEFINE a == SubSeq(s, 1, k - 1)
           b == SubSeq(s, k + 1, Len(s))
<1>1. a \in Seq(X) /\ Len(a) = k - 1 /\ \A j \in 1 .. k - 1 : a[j] = s[j]
  OBVIOUS
<1>2. b \in Seq(X) /\ Len(b) = Len(s) - k /\ \A j \in 1 .. Len(s) - k : b[j] = s[k + j]
  OBVIOUS
<1>3. CutOut(s, k) = a \o b
  BY DEF CutOut
<1>4. Len(s) \in Nat /\ k \in 1 .. Len(s) /\ Len(s) - 1 \in Nat
  OBVIOUS
<1> HIDE DEF a, b
<1>5. a \o b \in Seq(X) /\ Len(a \o b) = Len(s) - 1
  <2>1. a \o b \in Seq(X) /\ Len(a \o b) = Len(a) + Len(b)
    BY <1>1, <1>2, ConcatProperties
  <2> QED
    BY <1>1, <1>2, <1>4, <2>1
<1>6. ASSUME NEW j \in 1 .. Len(s) - 1
      PROVE  (a \o b)[j] = IF j < k THEN s[j] ELSE s[j + 1]
  <2>1. (a \o b)[j] = IF j < k THEN a[j] ELSE b[j - (k - 1)]
    BY <1>1, <1>2, ConcatProperties
  <2>2. j >= k => j - (k - 1) \in 1 .. Len(s) - k /\ b[j - (k - 1)] = s[j + 1]
    BY <1>2
  <2> QED
    BY <1>1, <2>1, <2>2
<1> QED
  BY <1>3, <1>4, <1>5, <1>6

LEMMA CutOutKeeps ==
  ASSUME NEW X, NEW s \in Seq(X), Ca!IsInjective(s), NEW k \in DOMAIN s
  PROVE  /\ Ca!IsInjective(CutOut(s, k))
         /\ Ca!Range(CutOut(s, k)) = Ca!Range(s) \ {s[k]}
<1>1. PICK r : r = CutOut(s, k)
  OBVIOUS
<1>2. /\ r \in Seq(X) /\ Len(r) = Len(s) - 1 /\ DOMAIN r = 1 .. Len(s) - 1
      /\ \A j \in 1 .. Len(s) - 1 : r[j] = IF j < k THEN s[j] ELSE s[j + 1]
  BY <1>1, CutOutIs
<1>3. Len(s) \in Nat /\ DOMAIN s = 1 .. Len(s) /\ k \in 1 .. Len(s)
  OBVIOUS
<1>4. \A i, j \in DOMAIN s : s[i] = s[j] => i = j
  BY DEF Ca!IsInjective
<1>5. Ca!IsInjective(r)
  <2> SUFFICES ASSUME NEW i \in DOMAIN r, NEW j \in DOMAIN r, r[i] = r[j] PROVE i = j
    BY DEF Ca!IsInjective
  <2> DEFINE v == IF i < k THEN i ELSE i + 1
             w == IF j < k THEN j ELSE j + 1
  <2>1. v \in DOMAIN s /\ w \in DOMAIN s /\ r[i] = s[v] /\ r[j] = s[w]
    BY <1>2, <1>3
  <2>2. v = w
    BY <1>4, <2>1
  <2> QED
    BY <1>2, <1>3, <2>2
<1>6. \A j \in DOMAIN r : \E i \in DOMAIN s : i # k /\ r[j] = s[i]
  BY <1>2, <1>3
<1>7. \A i \in DOMAIN s : i # k => \E j \in DOMAIN r : r[j] = s[i]
  <2> SUFFICES ASSUME NEW i \in DOMAIN s, i # k PROVE \E j \in DOMAIN r : r[j] = s[i]
    OBVIOUS
  <2>1. CASE i < k
    BY <1>2, <1>3, <2>1
  <2>2. CASE i > k
    <3>1. i - 1 \in DOMAIN r /\ r[i - 1] = s[i]
      BY <1>2, <1>3, <2>2
    <3> QED
      BY <3>1
  <2> QED
    BY <1>3, <2>1, <2>2
<1>8. Ca!Range(r) = {r[j] : j \in DOMAIN r} /\ Ca!Range(s) = {s[i] : i \in DOMAIN s}
  BY DEF Ca!Range
<1>9. Ca!Range(r) = Ca!Range(s) \ {s[k]}
  BY <1>4, <1>6, <1>7, <1>8
<1> QED
  BY <1>1, <1>5, <1>9

LEMMA OthersAre ==
  ASSUME NEW s \in Seq(Keys), Ca!IsInjective(s), NEW key \in Keys
  PROVE  /\ key \notin Ca!Range(s) => Ca!Without(s, key) = s
         /\ \A k \in DOMAIN s : s[k] = key => Ca!Without(s, key) = CutOut(s, k)
<1>1. key \notin Ca!Range(s) => Ca!Without(s, key) = s
  BY DEF Ca!Without
<1>2. ASSUME NEW k \in DOMAIN s, s[k] = key PROVE Ca!Without(s, key) = CutOut(s, k)
  <2>1. key \in Ca!Range(s)
    BY <1>2 DEF Ca!Range
  <2>2. (CHOOSE j \in DOMAIN s : s[j] = key) = k
    BY <1>2 DEF Ca!IsInjective
  <2> QED
    BY <2>1, <2>2 DEF Ca!Without, CutOut
<1> QED
  BY <1>1, <1>2

\* What link() does.
LEMMA LinkedIs ==
  ASSUME NoKey \notin Keys, NEW c \in CacheT, NEW next \in Links, NEW prev \in Links,
         next = prev => next = NoKey, NEW d, d = Ca!Linked(c, next, prev)
  PROVE  /\ d \in CacheT /\ d.data = c.data /\ d.lruHash = c.lruHash /\ d.size = c.size
         /\ d.used = c.used /\ d.freshEnd = c.freshEnd /\ d.staleEnd = c.staleEnd
         /\ \A k \in Keys : /\ d.p[k] = (IF k = next THEN prev ELSE c.p[k])
                            /\ d.n[k] = (IF k = prev THEN next ELSE c.n[k])
<1>1. CASE next = prev
  BY <1>1 DEF Ca!Linked
<1>2. CASE next # prev
  <2>1. c.p \in [Keys -> Links] /\ c.n \in [Keys -> Links]
    BY DEF CacheT
  <2>2. PICK x : x = IF next = NoKey THEN c.p ELSE [c.p EXCEPT ![next] = prev]
    OBVIOUS
  <2>3. PICK y : y = IF prev = NoKey THEN c.n ELSE [c.n EXCEPT ![prev] = next]
    OBVIOUS
  <2>4. /\ x \in [Keys -> Links] /\ y \in [Keys -> Links]
        /\ \A k \in Keys : /\ x[k] = (IF k = next THEN prev ELSE c.p[k])
                           /\ y[k] = (IF k = prev THEN next ELSE c.n[k])
    BY <2>1, <2>2, <2>3 DEF Links
  <2>5. d = [c EXCEPT !.p = x, !.n = y]
    BY <1>2, <2>2, <2>3 DEF Ca!Linked
  <2>6. /\ d \in CacheT /\ d.data = c.data /\ d.lruHash = c.lruHash /\ d.size = c.size
        /\ d.used = c.used /\ d.freshEnd = c.freshEnd /\ d.staleEnd = c.staleEnd
        /\ d.p = x /\ d.n = y
    BY <2>4, <2>5 DEF CacheT
  <2> QED
    BY <2>4, <2>6
<1> QED
  BY <1>1, <1>2

\* The entry at i is taken out of the list: those beside it are linked.
TakenOut(b, c, u, i) ==
  /\ c.p = b.p /\ c.n = b.n
  /\ c.freshEnd = IF u[i] = b.freshEnd THEN b.p[u[i]] ELSE b.freshEnd
  /\ c.staleEnd = IF u[i] = b.staleEnd THEN b.n[u[i]] ELSE b.staleEnd

LEMMA TakenOutIs ==
  ASSUME NoKey \notin Keys, NEW b, NEW u, Chained(b, u), NEW i \in DOMAIN u,
         NEW c \in CacheT, TakenOut(b, c, u, i),
         NEW d, d = Ca!Linked(c, b.n[u[i]], b.p[u[i]])
  PROVE  /\ Chained(d, CutOut(u, i)) /\ d.data = c.data /\ d.lruHash = c.lruHash
         /\ d.size = c.size /\ d.used = c.used
<1>1. /\ b \in CacheT /\ u \in Seq(Keys) /\ Len(u) \in Nat /\ DOMAIN u = 1 .. Len(u)
      /\ u # <<>> /\ \A j, k \in DOMAIN u : u[j] = u[k] => j = k
  BY DEF Chained, Ca!IsInjective
<1>2. \A j \in DOMAIN u : u[j] \in Keys /\ LinkedAt(b, u, j)
  BY <1>1 DEF Chained
<1>3. PICK next \in Links : next = IF i = 1 THEN NoKey ELSE u[i - 1]
  BY <1>1, <1>2 DEF Links
<1>4. PICK prev \in Links : prev = IF i = Len(u) THEN NoKey ELSE u[i + 1]
  BY <1>1, <1>2 DEF Links
<1>5. b.n[u[i]] = next /\ b.p[u[i]] = prev
  BY <1>2, <1>3, <1>4 DEF LinkedAt
<1>6. next = prev => next = NoKey
  BY <1>1, <1>2, <1>3, <1>4
<1>7. /\ d \in CacheT /\ d.data = c.data /\ d.lruHash = c.lruHash /\ d.size = c.size
      /\ d.used = c.used /\ d.freshEnd = c.freshEnd /\ d.staleEnd = c.staleEnd
      /\ \A k \in Keys : /\ d.p[k] = (IF k = next THEN prev ELSE c.p[k])
                         /\ d.n[k] = (IF k = prev THEN next ELSE c.n[k])
  BY <1>5, <1>6, LinkedIs
<1>8. PICK v : v = CutOut(u, i)
  OBVIOUS
<1>9. /\ v \in Seq(Keys) /\ Len(v) = Len(u) - 1 /\ Ca!IsInjective(v)
      /\ \A j \in 1 .. Len(u) - 1 : v[j] = IF j < i THEN u[j] ELSE u[j + 1]
  <2>1. Ca!IsInjective(u)
    BY DEF Chained
  <2>2. Ca!IsInjective(CutOut(u, i))
    BY <1>1, <2>1, CutOutKeeps
  <2>3. /\ CutOut(u, i) \in Seq(Keys) /\ Len(CutOut(u, i)) = Len(u) - 1
        /\ \A j \in 1 .. Len(u) - 1 : CutOut(u, i)[j] = IF j < i THEN u[j] ELSE u[j + 1]
    <3>1. u \in Seq(Keys)
      BY <1>1
    <3> QED
      BY <3>1, CutOutIs
  <2> QED
    BY <1>8, <2>2, <2>3
<1>10. c.p = b.p /\ c.n = b.n
  BY DEF TakenOut
<1>11. ASSUME NEW j \in DOMAIN v PROVE LinkedAt(d, v, j)
  <2>1. j \in 1 .. Len(u) - 1
    BY <1>9
  <2>2. PICK k \in DOMAIN u : k = IF j < i THEN j ELSE j + 1
    BY <1>1, <2>1
  <2>3. /\ v[j] = u[k] /\ u[k] \in Keys /\ k # i
        /\ b.n[u[k]] = (IF k = 1 THEN NoKey ELSE u[k - 1])
        /\ b.p[u[k]] = (IF k = Len(u) THEN NoKey ELSE u[k + 1])
    BY <1>2, <1>9, <2>1, <2>2 DEF LinkedAt
  <2>4. d.n[u[k]] = IF j = 1 THEN NoKey ELSE v[j - 1]
    <3>1. CASE k = i + 1
      <4>1. u[k] = prev /\ j = i
        BY <1>1, <1>4, <2>2, <3>1
      <4> QED
        BY <1>1, <1>3, <1>7, <1>9, <2>1, <2>3, <4>1
    <3>2. CASE k # i + 1
      <4>1. u[k] # prev
        BY <1>1, <1>2, <1>4, <2>3, <3>2
      <4>2. d.n[u[k]] = b.n[u[k]]
        BY <1>7, <1>10, <2>3, <4>1
      <4>3. CASE j < i
        <5>1. k = j
          BY <2>2, <4>3
        <5>2. j # 1 => v[j - 1] = u[j - 1]
          BY <1>1, <1>9, <2>1, <4>3
        <5> QED
          BY <2>3, <4>2, <5>1, <5>2
      <4>4. CASE ~(j < i)
        <5>1. k = j + 1 /\ k # 1 /\ k - 1 = j
          BY <1>1, <2>1, <2>2, <4>4
        <5>2. ~(j - 1 < i) /\ j # 1 /\ j - 1 \in 1 .. Len(u) - 1 /\ (j - 1) + 1 = j
          BY <1>1, <2>1, <3>2, <4>4, <5>1
        <5>3. v[j - 1] = u[j]
          BY <1>9, <5>2
        <5> QED
          BY <2>3, <4>2, <5>1, <5>2, <5>3
      <4> QED
        BY <4>3, <4>4
    <3> QED
      BY <3>1, <3>2
  <2>5. d.p[u[k]] = IF j = Len(v) THEN NoKey ELSE v[j + 1]
    <3>1. CASE k = i - 1
      <4>1. u[k] = next /\ j = k
        BY <1>1, <1>3, <2>1, <2>2, <3>1
      <4> QED
        BY <1>1, <1>4, <1>7, <1>9, <2>1, <2>3, <3>1, <4>1
    <3>2. CASE k # i - 1
      <4>1. u[k] # next
        BY <1>1, <1>2, <1>3, <2>3, <3>2
      <4>2. d.p[u[k]] = b.p[u[k]]
        BY <1>7, <1>10, <2>3, <4>1
      <4>3. CASE j < i
        <5>1. k = j /\ j + 1 < i /\ j < Len(v)
          BY <1>1, <1>9, <2>1, <2>2, <3>2, <4>3
        <5>2. v[j + 1] = u[j + 1]
          BY <1>1, <1>9, <2>1, <5>1
        <5> QED
          BY <1>1, <1>9, <2>1, <2>3, <4>2, <5>1, <5>2
      <4>4. CASE ~(j < i)
        <5>1. k = j + 1
          BY <2>2, <4>4
        <5>2. j < Len(v) => v[j + 1] = u[k + 1]
          BY <1>1, <1>9, <2>1, <4>4, <5>1
        <5> QED
          BY <1>1, <1>9, <2>1, <2>3, <4>2, <5>1, <5>2
      <4> QED
        BY <4>3, <4>4
    <3> QED
      BY <3>1, <3>2
  <2> QED
    BY <2>3, <2>4, <2>5 DEF LinkedAt
<1>12. b.freshEnd = u[1] /\ b.staleEnd = u[Len(u)] /\ 1 \in DOMAIN u /\ Len(u) \in DOMAIN u
  BY <1>1 DEF Chained
<1>13. /\ d.freshEnd = (IF i = 1 THEN prev ELSE u[1])
       /\ d.staleEnd = (IF i = Len(u) THEN next ELSE u[Len(u)])
  BY <1>1, <1>5, <1>7, <1>12 DEF TakenOut
<1>14. v = <<>> => d.freshEnd = NoKey /\ d.staleEnd = NoKey
  <2>1. v = <<>> => Len(u) = 1 /\ i = 1
    <3>1. v = <<>> => Len(v) = 0
      OBVIOUS
    <3>2. i \in 1 .. Len(u) /\ Len(v) = Len(u) - 1
      BY <1>1, <1>9
    <3>3. \A m \in Nat : \A k \in 1 .. m : m - 1 = 0 => m = 1 /\ k = 1
      OBVIOUS
    <3>4. Len(u) - 1 = 0 => Len(u) = 1 /\ i = 1
      BY <1>1, <3>2, <3>3
    <3> QED
      BY <3>1, <3>2, <3>4
  <2> QED
    BY <1>3, <1>4, <1>13, <2>1
<1>15. v # <<>> => d.freshEnd = v[1] /\ d.staleEnd = v[Len(v)]
  <2>1. v # <<>> => Len(u) > 1
    BY <1>1, <1>9
  <2> QED
    BY <1>1, <1>3, <1>4, <1>9, <1>13, <2>1
<1>16. Chained(d, v)
  BY <1>7, <1>9, <1>11, <1>14, <1>15 DEF Chained
<1> QED
  BY <1>7, <1>8, <1>16

\* The entry of key, which is in no list, is put in front of one.
PutInFront(b, c, key) ==
  /\ c.p = b.p /\ c.n = b.n /\ c.freshEnd = b.freshEnd
  /\ c.staleEnd = IF b.staleEnd = NoKey THEN key ELSE b.staleEnd

LEMMA InFrontIs ==
  ASSUME NoKey \notin Keys, NEW b, NEW u, Chained(b, u), NEW key \in Keys,
         \A j \in DOMAIN u : u[j] # key, NEW c \in CacheT, PutInFront(b, c, key),
         NEW e, e = Ca!InFront(c, key)
  PROVE  /\ Chained(e, <<key>> \o u) /\ e.data = c.data /\ e.lruHash = c.lruHash
         /\ e.size = c.size /\ e.used = c.used
<1>1. /\ b \in CacheT /\ u \in Seq(Keys) /\ Len(u) \in Nat /\ DOMAIN u = 1 .. Len(u)
      /\ \A j, k \in DOMAIN u : u[j] = u[k] => j = k
  BY DEF Chained, Ca!IsInjective
<1>2. \A j \in DOMAIN u : u[j] \in Keys /\ LinkedAt(b, u, j)
  BY <1>1 DEF Chained
<1>3. /\ c.freshEnd = (IF u = <<>> THEN NoKey ELSE u[1])
      /\ c.staleEnd = (IF u = <<>> THEN key ELSE u[Len(u)])
      /\ c.p = b.p /\ c.n = b.n
  <2>1. u # <<>> => u[Len(u)] \in Keys
    BY <1>1
  <2> QED
    BY <2>1 DEF PutInFront, Chained
<1>4. PICK f \in Links : f = c.freshEnd
  BY DEF CacheT
<1>5. f # key
  BY <1>1, <1>3, <1>4
<1>6. PICK d : d = Ca!Linked(c, key, f)
  OBVIOUS
<1>7. /\ d \in CacheT /\ d.data = c.data /\ d.lruHash = c.lruHash /\ d.size = c.size
      /\ d.used = c.used /\ d.freshEnd = c.freshEnd /\ d.staleEnd = c.staleEnd
      /\ \A k \in Keys : /\ d.p[k] = (IF k = key THEN f ELSE c.p[k])
                         /\ d.n[k] = (IF k = f THEN key ELSE c.n[k])
  <2>1. key \in Links /\ (key = f => key = NoKey)
    BY <1>5 DEF Links
  <2> QED
    BY <1>6, <2>1, LinkedIs
<1>8. PICK m : m = [d.n EXCEPT ![key] = NoKey]
  OBVIOUS
<1>9. e = [d EXCEPT !.freshEnd = key, !.n = m]
  BY <1>4, <1>6, <1>8 DEF Ca!InFront
<1>10. /\ m \in [Keys -> Links]
       /\ \A k \in Keys : m[k] = IF k = key THEN NoKey ELSE d.n[k]
  BY <1>7, <1>8 DEF CacheT, Links
<1>11. /\ e \in CacheT /\ e.data = d.data /\ e.lruHash = d.lruHash /\ e.size = d.size
       /\ e.used = d.used /\ e.freshEnd = key /\ e.staleEnd = d.staleEnd /\ e.p = d.p /\ e.n = m
  BY <1>7, <1>9, <1>10 DEF CacheT, Links
<1>12. PICK v : v = <<key>> \o u
  OBVIOUS
<1>13. /\ v \in Seq(Keys) /\ Len(v) = Len(u) + 1 /\ v[1] = key
       /\ DOMAIN v = 1 .. Len(u) + 1
       /\ \A j \in 1 .. Len(u) : v[j + 1] = u[j]
       /\ \A j \in 2 .. Len(u) + 1 : j - 1 \in 1 .. Len(u) /\ v[j] = u[j - 1]
  BY <1>1, <1>12
<1>14. Ca!IsInjective(v)
  <2> SUFFICES ASSUME NEW j \in DOMAIN v, NEW k \in DOMAIN v, v[j] = v[k] PROVE j = k
    BY DEF Ca!IsInjective
  <2>1. j = 1 \/ j \in 2 .. Len(u) + 1
    BY <1>13
  <2>2. k = 1 \/ k \in 2 .. Len(u) + 1
    BY <1>13
  <2>3. ASSUME NEW x \in 2 .. Len(u) + 1 PROVE v[x] # key
    <3>1. x - 1 \in DOMAIN u /\ v[x] = u[x - 1]
      BY <1>1, <1>13
    <3> QED
      BY <3>1
  <2>4. \A x \in 2 .. Len(u) + 1 : v[x] # key
    BY <2>3
  <2>5. j \in 2 .. Len(u) + 1 /\ k \in 2 .. Len(u) + 1 => j - 1 = k - 1
    BY <1>1, <1>13
  <2> QED
    BY <1>13, <2>1, <2>2, <2>3, <2>4, <2>5
<1>15. ASSUME NEW j \in DOMAIN v PROVE LinkedAt(e, v, j)
  <2>1. CASE j = 1
    <3>1. e.n[key] = NoKey /\ e.p[key] = f
      BY <1>7, <1>10, <1>11
    <3>2. f = IF 1 = Len(v) THEN NoKey ELSE v[2]
      <4>1. CASE u = <<>>
        BY <1>3, <1>4, <1>13, <4>1
      <4>2. CASE u # <<>>
        <5>1. Len(u) >= 1
          BY <1>1, <4>2
        <5>2. v[1 + 1] = u[1] /\ Len(v) # 1
          BY <1>1, <1>13, <5>1
        <5> QED
          BY <1>3, <1>4, <4>2, <5>2
      <4> QED
        BY <4>1, <4>2
    <3> QED
      BY <1>13, <2>1, <3>1, <3>2 DEF LinkedAt
  <2>2. CASE j # 1
    <3>1. PICK k \in DOMAIN u : k = j - 1
      BY <1>1, <1>13, <2>2
    <3>2. /\ v[j] = u[k] /\ u[k] \in Keys /\ u[k] # key /\ j \in 2 .. Len(u) + 1
          /\ b.n[u[k]] = (IF k = 1 THEN NoKey ELSE u[k - 1])
          /\ b.p[u[k]] = (IF k = Len(u) THEN NoKey ELSE u[k + 1])
      BY <1>1, <1>2, <1>13, <2>2, <3>1 DEF LinkedAt
    <3>3. e.p[u[k]] = IF j = Len(v) THEN NoKey ELSE v[j + 1]
      <4>1. e.p[u[k]] = b.p[u[k]]
        BY <1>3, <1>7, <1>11, <3>2
      <4>2. j # Len(v) => v[j + 1] = u[k + 1] /\ k # Len(u)
        BY <1>1, <1>13, <3>1, <3>2
      <4>3. j = Len(v) => k = Len(u)
        BY <1>1, <1>13, <3>1, <3>2
      <4> QED
        BY <3>2, <4>1, <4>2, <4>3
    <3>4. e.n[u[k]] = v[j - 1]
      <4>1. e.n[u[k]] = IF u[k] = f THEN key ELSE b.n[u[k]]
        BY <1>3, <1>7, <1>10, <1>11, <3>2
      <4>2. u # <<>> /\ f = u[1] /\ 1 \in DOMAIN u
        BY <1>1, <1>3, <1>4
      <4>3. CASE k = 1
        BY <1>13, <3>1, <3>2, <4>1, <4>2, <4>3
      <4>4. CASE k # 1
        <5>1. u[k] # f
          BY <1>1, <4>2, <4>4
        <5>2. j - 1 \in 2 .. Len(u) + 1 /\ (j - 1) - 1 = k - 1
          BY <1>1, <3>1, <3>2, <4>4
        <5> QED
          BY <1>13, <3>2, <4>1, <4>4, <5>1, <5>2
      <4> QED
        BY <4>3, <4>4
    <3> QED
      BY <2>2, <3>2, <3>3, <3>4 DEF LinkedAt
  <2> QED
    BY <2>1, <2>2
<1>16. v # <<>> /\ e.freshEnd = v[1]
  BY <1>11, <1>13
<1>17. e.staleEnd = v[Len(v)]
  <2>1. CASE u = <<>>
    BY <1>3, <1>7, <1>11, <1>13, <2>1
  <2>2. CASE u # <<>>
    <3>1. Len(u) \in 1 .. Len(u)
      BY <1>1, <2>2
    <3>2. v[Len(u) + 1] = u[Len(u)]
      BY <1>13, <3>1
    <3> QED
      BY <1>3, <1>7, <1>11, <1>13, <2>2, <3>2
  <2> QED
    BY <2>1, <2>2
<1>18. Chained(e, v)
  BY <1>11, <1>13, <1>14, <1>15, <1>16, <1>17 DEF Chained
<1> QED
  BY <1>7, <1>11, <1>12, <1>18

\* A list of which the first one is cut out and put in front again.
LEMMA FrontPutBack ==
  ASSUME NEW X, NEW s \in Seq(X), 1 \in DOMAIN s
  PROVE  <<s[1]>> \o CutOut(s, 1) = s
<1>1. PICK w \in Seq(X) : w = CutOut(s, 1)
  <2>1. CutOut(s, 1) \in Seq(X)
    BY CutOutIs
  <2> QED
    BY <2>1
<1>2. Len(w) = Len(s) - 1 /\ Len(s) - 1 \in Nat
  BY <1>1, CutOutIs
<1>3. \A j \in 1 .. Len(s) - 1 : w[j] = s[j + 1]
  <2>1. \A j \in 1 .. Len(s) - 1 : w[j] = IF j < 1 THEN s[j] ELSE s[j + 1]
    BY <1>1, CutOutIs
  <2> QED
    BY <2>1
<1>4. PICK v \in Seq(X) : v = <<s[1]>> \o w
  <2>1. <<s[1]>> \in Seq(X)
    OBVIOUS
  <2>2. <<s[1]>> \o w \in Seq(X)
    BY <2>1
  <2> QED
    BY <2>2
<1>5. Len(v) = Len(s)
  BY <1>2, <1>4
<1>6. \A j \in 1 .. Len(s) : v[j] = s[j]
  <2> SUFFICES ASSUME NEW j \in 1 .. Len(s) PROVE v[j] = s[j]
    OBVIOUS
  <2>1. CASE j = 1
    BY <1>4, <2>1
  <2>2. CASE j # 1
    <3>1. j - 1 \in 1 .. Len(s) - 1 /\ (j - 1) + 1 = j
      BY <2>2
    <3>2. v[j] = w[j - 1]
      BY <1>2, <1>4, <3>1
    <3> QED
      BY <1>3, <3>1, <3>2
  <2> QED
    BY <2>1, <2>2
<1>7. v = s
  BY <1>5, <1>6, SeqEqual
<1> QED
  BY <1>1, <1>4, <1>7

\* refresh() puts an entry in front, whether it was in the list or is new.
LEMMA RefreshedIs ==
  ASSUME NoKey \notin Keys, NEW b, NEW u, Chained(b, u), NEW key \in Keys,
         (\A j \in DOMAIN u : u[j] # key) => b.p[key] = NoKey /\ b.n[key] = NoKey,
         NEW d, d = Ca!Refreshed(b, key)
  PROVE  /\ Chained(d, <<key>> \o Ca!Without(u, key)) /\ d.data = b.data /\ d.lruHash = b.lruHash
         /\ d.size = b.size /\ d.used = b.used
<1>1. /\ b \in CacheT /\ u \in Seq(Keys) /\ Len(u) \in Nat /\ DOMAIN u = 1 .. Len(u)
      /\ Ca!IsInjective(u)
  BY DEF Chained
<1>2. /\ u = <<>> => b.freshEnd = NoKey /\ b.staleEnd = NoKey
      /\ u # <<>> => b.freshEnd = u[1] /\ b.staleEnd = u[Len(u)] /\ 1 \in DOMAIN u
                     /\ Len(u) \in DOMAIN u /\ u[Len(u)] \in Keys
  BY <1>1 DEF Chained
<1>3. CASE key = b.freshEnd
  <2>1. u # <<>> /\ u[1] = key /\ 1 \in DOMAIN u
    BY <1>2, <1>3
  <2>2. Ca!Without(u, key) = CutOut(u, 1)
    BY <1>1, <2>1, OthersAre
  <2>3. u \in Seq(Keys)
    BY <1>1
  <2>4. <<key>> \o CutOut(u, 1) = u
    BY <2>1, <2>3, FrontPutBack
  <2>9. d = b
    BY <1>3 DEF Ca!Refreshed
  <2> QED
    BY <2>2, <2>4, <2>9
<1>4. CASE key # b.freshEnd
  <2>1. PICK s \in Links : s = IF b.staleEnd = NoKey THEN key
                               ELSE IF b.staleEnd = key THEN b.n[key] ELSE b.staleEnd
    BY <1>1 DEF CacheT, Links
  <2>2. PICK c : c = Ca!Restaled(b, key)
    OBVIOUS
  <2>3. /\ c \in CacheT /\ c.data = b.data /\ c.lruHash = b.lruHash /\ c.size = b.size
        /\ c.used = b.used /\ c.freshEnd = b.freshEnd /\ c.staleEnd = s /\ c.p = b.p /\ c.n = b.n
    <3>1. c = [b EXCEPT !.staleEnd = s]
      BY <2>1, <2>2 DEF Ca!Restaled
    <3> QED
      BY <1>1, <3>1 DEF CacheT
  <2>4. PICK x : x = Ca!Linked(c, b.n[key], b.p[key])
    OBVIOUS
  <2>5. d = Ca!InFront(x, key)
    BY <1>4, <2>2, <2>4 DEF Ca!Refreshed
  <2>6. CASE \E i \in DOMAIN u : u[i] = key
    <3>1. PICK i \in DOMAIN u : u[i] = key
      BY <2>6
    <3>2. u # <<>>
      BY <1>1, <3>1
    <3>3. TakenOut(b, c, u, i)
      BY <1>2, <1>4, <2>1, <2>3, <3>1, <3>2 DEF TakenOut
    <3>4. x = Ca!Linked(c, b.n[u[i]], b.p[u[i]])
      BY <2>3, <2>4, <3>1
    <3>5. PICK w : w = CutOut(u, i)
      OBVIOUS
    <3>6. /\ Chained(x, w) /\ x.data = c.data /\ x.lruHash = c.lruHash /\ x.size = c.size
          /\ x.used = c.used
      BY <2>3, <3>3, <3>4, <3>5, TakenOutIs
    <3>7. x \in CacheT /\ w # <<>> /\ x.staleEnd # NoKey
      <4>1. i # 1
        BY <1>2, <1>4, <3>1, <3>2
      <4>2. Len(w) = Len(u) - 1
        <5>1. u \in Seq(Keys)
          BY <1>1
        <5> QED
          BY <3>5, <5>1, CutOutIs
      <4>3. Len(w) # 0 /\ w \in Seq(Keys) /\ x \in CacheT
        BY <1>1, <3>6, <4>1, <4>2 DEF Chained
      <4>4. w # <<>> /\ w[Len(w)] \in Keys
        BY <4>3
      <4> QED
        BY <3>6, <4>3, <4>4 DEF Chained
    <3>8. PutInFront(x, x, key)
      BY <3>7 DEF PutInFront
    <3>9. \A j \in DOMAIN w : w[j] # key
      <4>1. Ca!Range(w) = Ca!Range(u) \ {u[i]}
        BY <1>1, <3>5, CutOutKeeps
      <4> QED
        BY <3>1, <4>1 DEF Ca!Range
    <3>10. Ca!Without(u, key) = w
      BY <1>1, <3>1, <3>5, OthersAre
    <3>11. /\ Chained(d, <<key>> \o w) /\ d.data = x.data /\ d.lruHash = x.lruHash
           /\ d.size = x.size /\ d.used = x.used
      BY <2>5, <3>6, <3>7, <3>8, <3>9, InFrontIs
    <3> QED
      BY <2>3, <3>6, <3>10, <3>11
  <2>7. CASE \A i \in DOMAIN u : u[i] # key
    <3>1. b.p[key] = NoKey /\ b.n[key] = NoKey
      BY <2>7
    <3>2. x = c
      BY <2>3, <2>4, <3>1 DEF Ca!Linked
    <3>3. b.staleEnd # key
      BY <1>2, <2>7
    <3>4. PutInFront(b, c, key)
      BY <2>1, <2>3, <3>3 DEF PutInFront
    <3>5. Ca!Without(u, key) = u
      <4>1. key \notin Ca!Range(u)
        BY <2>7 DEF Ca!Range
      <4> QED
        BY <1>1, <4>1, OthersAre
    <3>6. /\ Chained(d, <<key>> \o u) /\ d.data = c.data /\ d.lruHash = c.lruHash
          /\ d.size = c.size /\ d.used = c.used
      BY <2>3, <2>5, <2>7, <3>2, <3>4, InFrontIs
    <3> QED
      BY <2>3, <3>5, <3>6
  <2> QED
    BY <2>6, <2>7
<1> QED
  BY <1>3, <1>4

\* What is used is in front, and nothing else has changed.
LEMMA UseIs ==
  ASSUME NoKey \notin Keys, NEW b, Chained(b, b.used), NEW key \in Keys,
         (\A j \in DOMAIN b.used : b.used[j] # key) => b.p[key] = NoKey /\ b.n[key] = NoKey,
         Ca!Range(b.used) \cup {key} = b.lruHash, b.data \subseteq b.lruHash,
         NEW d, d = Ca!Use(b, key)
  PROVE  /\ CacheHolds(d) /\ d.data = b.data /\ d.lruHash = b.lruHash /\ d.size = b.size
         /\ d.used # <<>>
<1>1. PICK c : c = Ca!Refreshed(b, key)
  OBVIOUS
<1>2. PICK u : u = b.used
  OBVIOUS
<1>3. PICK w : w = Ca!Without(u, key)
  OBVIOUS
<1>4. PICK v : v = <<key>> \o w
  OBVIOUS
<1>5. u \in Seq(Keys) /\ Ca!IsInjective(u)
  BY <1>2 DEF Chained
<1>6. /\ Chained(c, v) /\ c.data = b.data /\ c.lruHash = b.lruHash /\ c.size = b.size
      /\ c.used = b.used
  BY <1>1, <1>2, <1>3, <1>4, RefreshedIs
<1>7. w \in Seq(Keys) /\ Ca!Range(w) = Ca!Range(u) \ {key}
  <2>1. CASE key \in Ca!Range(u)
    <3>1. PICK i \in DOMAIN u : u[i] = key
      BY <2>1 DEF Ca!Range
    <3>2. w = CutOut(u, i)
      BY <1>3, <1>5, <3>1, OthersAre
    <3>3. CutOut(u, i) \in Seq(Keys)
      BY <1>5, CutOutIs
    <3>4. Ca!Range(CutOut(u, i)) = Ca!Range(u) \ {u[i]}
      BY <1>5, CutOutKeeps
    <3> QED
      BY <3>1, <3>2, <3>3, <3>4
  <2>2. CASE key \notin Ca!Range(u)
    BY <1>3, <1>5, <2>2, OthersAre
  <2> QED
    BY <2>1, <2>2
<1>8. v \in Seq(Keys) /\ v # <<>> /\ Ca!Range(v) = Ca!Range(w) \cup {key}
  <2>1. v \in Seq(Keys) /\ Len(v) = Len(w) + 1 /\ v[1] = key /\ Len(w) \in Nat
        /\ \A j \in 1 .. Len(w) : v[j + 1] = w[j]
    BY <1>4, <1>7
  <2>2. \A j \in 2 .. Len(w) + 1 : j - 1 \in 1 .. Len(w) /\ v[j] = w[j - 1]
    BY <1>4, <1>7
  <2>3. /\ DOMAIN v = 1 .. Len(w) + 1 /\ DOMAIN w = 1 .. Len(w)
        /\ \A j \in DOMAIN v : j = 1 \/ j \in 2 .. Len(w) + 1
        /\ 1 \in DOMAIN v /\ \A j \in DOMAIN w : j + 1 \in DOMAIN v
    BY <1>7, <2>1
  <2>4. Ca!Range(v) = {v[j] : j \in DOMAIN v} /\ Ca!Range(w) = {w[j] : j \in DOMAIN w}
    BY DEF Ca!Range
  <2>5. \A j \in DOMAIN v : v[j] \in Ca!Range(w) \cup {key}
    BY <2>1, <2>2, <2>3, <2>4
  <2>6. \A j \in DOMAIN w : w[j] \in Ca!Range(v)
    BY <2>1, <2>3, <2>4
  <2>7. key \in Ca!Range(v) /\ v # <<>>
    BY <2>1, <2>3, <2>4
  <2> QED
    BY <2>1, <2>4, <2>5, <2>6, <2>7
<1>9. d = [c EXCEPT !.used = v]
  BY <1>1, <1>2, <1>3, <1>4, <1>6 DEF Ca!Use
<1>10. /\ d \in CacheT /\ d.data = c.data /\ d.lruHash = c.lruHash /\ d.size = c.size
       /\ d.used = v /\ d.p = c.p /\ d.n = c.n /\ d.freshEnd = c.freshEnd
       /\ d.staleEnd = c.staleEnd
  <2>1. c \in CacheT
    BY <1>6 DEF Chained
  <2> QED
    BY <1>8, <1>9, <2>1 DEF CacheT
<1>11. Chained(d, v)
  BY <1>6, <1>10 DEF Chained, LinkedAt
<1>12. Ca!Range(v) = b.lruHash
  BY <1>2, <1>7, <1>8
<1> QED
  BY <1>6, <1>8, <1>10, <1>11, <1>12 DEF CacheHolds

\* What is removed is in no list any more.
LEMMA TakenIs ==
  ASSUME NoKey \notin Keys, NEW b, CacheHolds(b), NEW key \in b.lruHash,
         NEW d, d = Ca!Removed(b, key)
  PROVE  /\ CacheHolds(d) /\ d.data = b.data \ {key} /\ d.lruHash = b.lruHash \ {key}
         /\ d.size = b.size - 1
<1>1. PICK u : u = b.used
  OBVIOUS
<1>2. /\ b \in CacheT /\ Chained(b, u) /\ Ca!Range(u) = b.lruHash /\ b.data \subseteq b.lruHash
      /\ u \in Seq(Keys) /\ Ca!IsInjective(u)
  BY <1>1 DEF CacheHolds, Chained
<1>3. PICK i \in DOMAIN u : u[i] = key
  BY <1>2 DEF Ca!Range
<1>4. key \in Keys
  BY <1>2 DEF CacheT
<1>5. PICK f \in Links : f = IF b.freshEnd = key THEN b.p[key] ELSE b.freshEnd
  BY <1>2, <1>4 DEF CacheT
<1>6. PICK s \in Links : s = IF b.staleEnd = key THEN b.n[key] ELSE b.staleEnd
  BY <1>2, <1>4 DEF CacheT
<1>7. PICK c : c = Ca!Unended(b, key)
  OBVIOUS
<1>8. /\ c \in CacheT /\ c.data = b.data /\ c.lruHash = b.lruHash /\ c.size = b.size
      /\ c.used = b.used /\ c.freshEnd = f /\ c.staleEnd = s /\ c.p = b.p /\ c.n = b.n
  <2>1. c = [b EXCEPT !.freshEnd = f, !.staleEnd = s]
    BY <1>5, <1>6, <1>7 DEF Ca!Unended
  <2> QED
    BY <1>2, <2>1 DEF CacheT
<1>9. TakenOut(b, c, u, i)
  BY <1>3, <1>5, <1>6, <1>8 DEF TakenOut
<1>10. PICK x : x = Ca!Unlinked(b, key)
  OBVIOUS
<1>11. x = Ca!Linked(c, b.n[u[i]], b.p[u[i]])
  BY <1>3, <1>7, <1>10 DEF Ca!Unlinked
<1>12. PICK w : w = CutOut(u, i)
  OBVIOUS
<1>13. /\ Chained(x, w) /\ x.data = c.data /\ x.lruHash = c.lruHash /\ x.size = c.size
       /\ x.used = c.used
  BY <1>2, <1>8, <1>9, <1>11, <1>12, TakenOutIs
<1>14. w \in Seq(Keys)
  BY <1>13 DEF Chained
<1>15. Ca!Range(w) = b.lruHash \ {key}
  <2>1. Ca!Range(CutOut(u, i)) = Ca!Range(u) \ {u[i]}
    BY <1>2, CutOutKeeps
  <2> QED
    BY <1>2, <1>3, <1>12, <2>1
<1>16. w = Ca!Without(u, key)
  BY <1>2, <1>3, <1>4, <1>12, OthersAre
<1>17. PICK h : h = b.lruHash \ {key}
  OBVIOUS
<1>18. PICK t : t = b.data \ {key}
  OBVIOUS
<1>19. PICK z \in Int : z = b.size - 1
  BY <1>2 DEF CacheT
<1>20. x \in CacheT /\ x.p \in [Keys -> Links] /\ x.n \in [Keys -> Links]
  BY <1>13 DEF Chained, CacheT
<1>21. PICK q : q = [x.p EXCEPT ![key] = NoKey]
  OBVIOUS
<1>22. PICK m : m = [x.n EXCEPT ![key] = NoKey]
  OBVIOUS
<1>23. /\ q \in [Keys -> Links] /\ m \in [Keys -> Links]
       /\ \A k \in Keys : k # key => q[k] = x.p[k] /\ m[k] = x.n[k]
  BY <1>20, <1>21, <1>22 DEF Links
<1>24. d = [x EXCEPT !.lruHash = h, !.data = t, !.size = z, !.p = q, !.n = m, !.used = w]
  BY <1>1, <1>8, <1>10, <1>13, <1>16, <1>17, <1>18, <1>19, <1>21, <1>22 DEF Ca!Removed
<1>25. /\ d \in CacheT /\ d.lruHash = h /\ d.data = t /\ d.size = z /\ d.used = w /\ d.p = q
       /\ d.n = m /\ d.freshEnd = x.freshEnd /\ d.staleEnd = x.staleEnd
  <2>1. h \in SUBSET Keys /\ t \in SUBSET Keys
    BY <1>2, <1>17, <1>18 DEF CacheT
  <2> QED
    BY <1>14, <1>20, <1>23, <1>24, <2>1 DEF CacheT
<1>26. Chained(d, w)
  <2>1. ASSUME NEW j \in DOMAIN w PROVE LinkedAt(d, w, j)
    <3>1. w[j] \in Keys /\ w[j] # key
      BY <1>14, <1>15 DEF Ca!Range
    <3>2. LinkedAt(x, w, j)
      BY <1>13 DEF Chained
    <3>3. d.p[w[j]] = x.p[w[j]] /\ d.n[w[j]] = x.n[w[j]]
      BY <1>23, <1>25, <3>1
    <3> QED
      BY <3>2, <3>3 DEF LinkedAt
  <2> QED
    BY <1>13, <1>25, <2>1 DEF Chained
<1>27. t \subseteq h
  BY <1>2, <1>17, <1>18
<1> QED
  BY <1>15, <1>17, <1>18, <1>19, <1>25, <1>26, <1>27 DEF CacheHolds

LEMMA SizesAre ==
  ASSUME IsFiniteSet(Keys), NEW b \in CacheT
  PROVE  /\ IsFiniteSet(b.data) /\ IsFiniteSet(b.lruHash) /\ Cardinality(b.data) \in Nat
         /\ Cardinality(b.lruHash) \in Nat /\ Cardinality(Keys) \in Nat
         /\ Cardinality(b.data) <= Cardinality(Keys)
         /\ Cardinality(b.lruHash) <= Cardinality(Keys)
<1>1. b.data \subseteq Keys /\ b.lruHash \subseteq Keys
  BY DEF CacheT
<1> QED
  BY <1>1, FS_Subset, FS_CardinalityType

\* Before a key is used, it has an entry.
LEMMA WithEntryIs ==
  ASSUME NoKey \notin Keys, CacheHolds(Ca!Now), NEW key \in Keys,
         NEW b, b = Ca!WithEntry(key)
  PROVE  /\ Chained(b, b.used) /\ b.used = used /\ b.data = data /\ b.size = cacheSize
         /\ b.lruHash = lruHash \cup {key} /\ Ca!Range(b.used) \cup {key} = b.lruHash
         /\ b.data \subseteq b.lruHash
         /\ (\A j \in DOMAIN b.used : b.used[j] # key) => b.p[key] = NoKey /\ b.n[key] = NoKey
<1>1. PICK a : a = Ca!Now
  OBVIOUS
<1>2. /\ a.used = used /\ a.data = data /\ a.size = cacheSize /\ a.lruHash = lruHash
      /\ CacheHolds(a)
  BY <1>1 DEF Ca!Now
<1>3. /\ a \in CacheT /\ a.used \in Seq(Keys) /\ Ca!Range(a.used) = a.lruHash
      /\ a.data \subseteq a.lruHash
  BY <1>2 DEF CacheHolds, Chained
<1>4. CASE key \in lruHash
  <2>1. b = a
    BY <1>1, <1>4 DEF Ca!WithEntry
  <2>2. \E j \in DOMAIN a.used : a.used[j] = key
    BY <1>2, <1>3, <1>4 DEF Ca!Range
  <2> QED
    BY <1>2, <1>3, <1>4, <2>1, <2>2 DEF CacheHolds
<1>5. CASE key \notin lruHash
  <2>1. PICK h : h = a.lruHash \cup {key}
    OBVIOUS
  <2>2. PICK q : q = [a.p EXCEPT ![key] = NoKey]
    OBVIOUS
  <2>3. PICK m : m = [a.n EXCEPT ![key] = NoKey]
    OBVIOUS
  <2>4. b = [a EXCEPT !.lruHash = h, !.p = q, !.n = m]
    BY <1>1, <1>5, <2>1, <2>2, <2>3 DEF Ca!WithEntry
  <2>5. /\ h \in SUBSET Keys /\ q \in [Keys -> Links] /\ m \in [Keys -> Links]
        /\ \A k \in Keys : k # key => q[k] = a.p[k] /\ m[k] = a.n[k]
        /\ q[key] = NoKey /\ m[key] = NoKey
    BY <1>3, <2>1, <2>2, <2>3 DEF CacheT, Links
  <2>6. /\ b \in CacheT /\ b.lruHash = h /\ b.p = q /\ b.n = m /\ b.data = a.data
        /\ b.size = a.size /\ b.used = a.used /\ b.freshEnd = a.freshEnd
        /\ b.staleEnd = a.staleEnd
    BY <1>3, <2>4, <2>5 DEF CacheT
  <2>7. ASSUME NEW j \in DOMAIN b.used PROVE LinkedAt(b, b.used, j)
    <3>1. a.used[j] \in Keys /\ a.used[j] # key
      BY <1>2, <1>3, <1>5, <2>6 DEF Ca!Range
    <3>2. LinkedAt(a, a.used, j)
      BY <1>2, <2>6 DEF CacheHolds, Chained
    <3> QED
      BY <2>5, <2>6, <3>1, <3>2 DEF LinkedAt
  <2>8. Chained(b, b.used)
    BY <1>2, <2>6, <2>7 DEF CacheHolds, Chained
  <2> QED
    BY <1>2, <1>3, <2>1, <2>5, <2>6, <2>8
<1> QED
  BY <1>4, <1>5

\* What an operation leaves is the next state.
LEMMA CacheBecomes ==
  ASSUME NEW b, CacheHolds(b), Ca!Become(b)
  PROVE  Ca!Now' = b
<1>1. b \in CacheT
  BY DEF CacheHolds, Chained
<1> QED
  BY <1>1 DEF Ca!Now, Ca!Become, CacheT

LEMMA CacheIs ==
  ASSUME CacheInv, NEW a, a = Ca!Now
  PROVE  /\ a \in CacheT /\ CacheHolds(a) /\ Sized(a, odd) /\ odd \in BOOLEAN /\ a.data = data
         /\ a.lruHash = lruHash /\ a.size = cacheSize /\ a.used = used /\ cacheSize \in Int
<1>1. a \in CacheT
  BY DEF CacheInv, CacheHolds, Chained
<1>2. a.data = data /\ a.lruHash = lruHash /\ a.size = cacheSize /\ a.used = used
  BY DEF Ca!Now
<1> QED
  BY <1>1, <1>2 DEF CacheInv, CacheT

\* The entry at the stale end makes room.
LEMMA RoomIs ==
  ASSUME IsFiniteSet(Keys), NoKey \notin Keys, Capacity \in Nat, MaxUndefined \in Nat,
         NEW b, CacheHolds(b), b.used # <<>>, NEW strange \in BOOLEAN,
         b.size <= Cardinality(b.data),
         b.size >= Cardinality(b.lruHash) - MaxUndefined - Cardinality(Keys),
         ~strange => b.data = b.lruHash /\ b.size = Cardinality(b.data) /\ b.size <= Capacity + 1,
         NEW c, c = Ca!MakeRoom(b)
  PROVE  CacheHolds(c) /\ Sized(c, strange)
<1>1. b \in CacheT /\ b.size \in Int /\ b.data \subseteq b.lruHash
  BY DEF CacheHolds, Chained, CacheT
<1>2. CASE ~(b.size > Capacity)
  BY <1>1, <1>2 DEF Sized, Ca!MakeRoom
<1>3. CASE b.size > Capacity
  <2>1. PICK key \in b.lruHash : key = b.staleEnd
    <3>1. b.used \in Seq(Keys) /\ b.staleEnd = b.used[Len(b.used)]
      BY DEF CacheHolds, Chained
    <3>2. Len(b.used) \in DOMAIN b.used
      BY <3>1
    <3>3. b.staleEnd \in b.lruHash
      BY <3>1, <3>2 DEF CacheHolds, Ca!Range
    <3> QED
      BY <3>3
  <2>2. c = Ca!Removed(b, key)
    BY <1>3, <2>1 DEF Ca!MakeRoom
  <2>3. /\ CacheHolds(c) /\ c.data = b.data \ {key} /\ c.lruHash = b.lruHash \ {key}
        /\ c.size = b.size - 1
    BY <2>2, TakenIs
  <2>4. Sized(c, strange)
    <3>1. /\ IsFiniteSet(b.data) /\ IsFiniteSet(b.lruHash) /\ Cardinality(b.data) \in Nat
          /\ Cardinality(b.lruHash) \in Nat /\ Cardinality(Keys) \in Nat
      BY <1>1, SizesAre
    <3>2. Cardinality(c.lruHash) = Cardinality(b.lruHash) - 1
      <4>1. Cardinality(b.lruHash \ {key}) = Cardinality(b.lruHash) - 1
        BY <3>1, FS_RemoveElement
      <4> QED
        BY <2>3, <4>1
    <3>3. Cardinality(c.data) = IF key \in b.data THEN Cardinality(b.data) - 1
                                ELSE Cardinality(b.data)
      <4>1. Cardinality(b.data \ {key}) = IF key \in b.data THEN Cardinality(b.data) - 1
                                          ELSE Cardinality(b.data)
        BY <3>1, FS_RemoveElement
      <4> QED
        BY <2>3, <4>1
    <3> QED
      BY <1>1, <2>1, <2>3, <3>1, <3>2, <3>3 DEF Sized
  <2> QED
    BY <2>3, <2>4
<1> QED
  BY <1>2, <1>3

LEMMA PutKeeps ==
  ASSUME IsFiniteSet(Keys), NoKey \notin Keys, Capacity \in Nat, MaxUndefined \in Nat,
         CacheInv, NEW key \in Keys, Ca!Put(key)
  PROVE  CacheInv'
<1>1. PICK a : a = Ca!Now
  OBVIOUS
<1>2. /\ a \in CacheT /\ CacheHolds(a) /\ Sized(a, odd) /\ odd \in BOOLEAN /\ a.data = data
      /\ a.lruHash = lruHash /\ a.size = cacheSize /\ cacheSize \in Int
  BY <1>1, CacheIs
<1>3. PICK e : e = Ca!WithEntry(key)
  OBVIOUS
<1>4. /\ Chained(e, e.used) /\ e.data = data /\ e.size = cacheSize
      /\ e.lruHash = lruHash \cup {key} /\ Ca!Range(e.used) \cup {key} = e.lruHash
      /\ e.data \subseteq e.lruHash
      /\ (\A j \in DOMAIN e.used : e.used[j] # key) => e.p[key] = NoKey /\ e.n[key] = NoKey
  BY <1>1, <1>2, <1>3, WithEntryIs
<1>5. PICK d : d = Ca!Use(e, key)
  OBVIOUS
<1>6. /\ CacheHolds(d) /\ d.data = e.data /\ d.lruHash = e.lruHash /\ d.size = e.size
      /\ d.used # <<>>
  BY <1>4, <1>5, UseIs
<1>7. PICK t : t = d.data \cup {key}
  OBVIOUS
<1>8. PICK z \in Int : z = IF key \in data THEN d.size ELSE d.size + 1
  BY <1>2, <1>4, <1>6
<1>9. PICK b : b = [d EXCEPT !.data = t, !.size = z]
  OBVIOUS
<1>10. /\ b \in CacheT /\ b.data = t /\ b.size = z /\ b.lruHash = d.lruHash /\ b.used = d.used
       /\ b.p = d.p /\ b.n = d.n /\ b.freshEnd = d.freshEnd /\ b.staleEnd = d.staleEnd
  <2>1. d \in CacheT
    BY <1>6 DEF CacheHolds, Chained
  <2>2. t \in SUBSET Keys
    BY <1>7, <2>1 DEF CacheT
  <2> QED
    BY <1>9, <2>1, <2>2 DEF CacheT
<1>11. CacheHolds(b)
  <2>1. Chained(b, b.used)
    BY <1>6, <1>10 DEF CacheHolds, Chained, LinkedAt
  <2> QED
    BY <1>4, <1>6, <1>7, <1>10, <2>1 DEF CacheHolds
<1>12. PICK c : c = Ca!MakeRoom(b)
  OBVIOUS
<1>13. CacheHolds(c) /\ Sized(c, odd)
  <2>1. /\ IsFiniteSet(a.data) /\ IsFiniteSet(a.lruHash) /\ Cardinality(a.data) \in Nat
        /\ Cardinality(a.lruHash) \in Nat /\ Cardinality(Keys) \in Nat
    BY <1>2, SizesAre
  <2>2. t = a.data \cup {key} /\ b.lruHash = a.lruHash \cup {key}
    BY <1>2, <1>4, <1>6, <1>7, <1>10
  <2>3. Cardinality(t) = IF key \in data THEN Cardinality(a.data) ELSE Cardinality(a.data) + 1
    BY <1>2, <2>1, <2>2, FS_AddElement
  <2>4. Cardinality(b.lruHash) = IF key \in lruHash THEN Cardinality(a.lruHash)
                                 ELSE Cardinality(a.lruHash) + 1
    BY <1>2, <2>1, <2>2, FS_AddElement
  <2>5. key \in data => key \in lruHash
    BY <1>2 DEF CacheHolds
  <2>6. z = IF key \in data THEN a.size ELSE a.size + 1
    BY <1>2, <1>4, <1>6, <1>8
  <2>7. b.size <= Cardinality(b.data)
    BY <1>2, <1>10, <2>1, <2>3, <2>6 DEF Sized
  <2>8. b.size >= Cardinality(b.lruHash) - MaxUndefined - Cardinality(Keys)
    BY <1>2, <1>10, <2>1, <2>4, <2>5, <2>6 DEF Sized
  <2>9. ~odd => b.data = b.lruHash /\ b.size = Cardinality(b.data) /\ b.size <= Capacity + 1
    BY <1>2, <1>10, <2>1, <2>2, <2>3, <2>6 DEF Sized
  <2>10. b.used # <<>>
    BY <1>6, <1>10
  <2> QED
    BY <1>2, <1>11, <1>12, <2>7, <2>8, <2>9, <2>10, RoomIs
<1>14. Ca!Become(c) /\ odd' = odd
  <2>1. c = Ca!MakeRoom([Ca!Use(Ca!WithEntry(key), key) EXCEPT
                           !.data = @ \cup {key}, !.size = IF key \in data THEN @ ELSE @ + 1])
    BY <1>3, <1>5, <1>7, <1>8, <1>9, <1>12
  <2> QED
    BY <2>1 DEF Ca!Put
<1>15. Ca!Now' = c
  BY <1>13, <1>14, CacheBecomes
<1> QED
  BY <1>2, <1>13, <1>14, <1>15 DEF CacheInv

LEMMA PutUndefinedKeeps ==
  ASSUME IsFiniteSet(Keys), NoKey \notin Keys, MaxUndefined \in Nat, CacheInv, NEW key \in Keys,
         Ca!PutUndefined(key)
  PROVE  CacheInv'
<1>1. PICK a : a = Ca!Now
  OBVIOUS
<1>2. /\ a \in CacheT /\ CacheHolds(a) /\ Sized(a, odd) /\ odd \in BOOLEAN /\ a.data = data
      /\ a.lruHash = lruHash /\ a.size = cacheSize /\ cacheSize \in Int
  BY <1>1, CacheIs
<1>3. PICK e : e = Ca!WithEntry(key)
  OBVIOUS
<1>4. /\ Chained(e, e.used) /\ e.data = data /\ e.size = cacheSize
      /\ e.lruHash = lruHash \cup {key} /\ Ca!Range(e.used) \cup {key} = e.lruHash
      /\ e.data \subseteq e.lruHash
      /\ (\A j \in DOMAIN e.used : e.used[j] # key) => e.p[key] = NoKey /\ e.n[key] = NoKey
  BY <1>1, <1>2, <1>3, WithEntryIs
<1>5. PICK d : d = Ca!Use(e, key)
  OBVIOUS
<1>6. CacheHolds(d) /\ d.data = e.data /\ d.lruHash = e.lruHash /\ d.size = e.size
  BY <1>4, <1>5, UseIs
<1>7. cacheSize > -MaxUndefined /\ Ca!Become(d) /\ odd' = TRUE
  BY <1>3, <1>5 DEF Ca!PutUndefined
<1>8. d \in CacheT /\ Cardinality(d.lruHash) \in Nat /\ Cardinality(Keys) \in Nat
      /\ Cardinality(d.lruHash) <= Cardinality(Keys)
  <2>1. d \in CacheT
    BY <1>6 DEF CacheHolds, Chained
  <2> QED
    BY <2>1, SizesAre
<1>9. Sized(d, TRUE)
  BY <1>2, <1>4, <1>6, <1>7, <1>8 DEF Sized
<1>10. Ca!Now' = d
  BY <1>6, <1>7, CacheBecomes
<1> QED
  BY <1>6, <1>7, <1>9, <1>10 DEF CacheInv

LEMMA GetKeeps ==
  ASSUME NoKey \notin Keys, CacheInv, NEW key \in Keys, Ca!Get(key)
  PROVE  CacheInv'
<1>1. PICK a : a = Ca!Now
  OBVIOUS
<1>2. /\ CacheHolds(a) /\ Sized(a, odd) /\ odd \in BOOLEAN /\ key \in a.lruHash
  BY <1>1, CacheIs DEF Ca!Get
<1>3. /\ Chained(a, a.used) /\ Ca!Range(a.used) \cup {key} = a.lruHash /\ a.data \subseteq a.lruHash
      /\ \E j \in DOMAIN a.used : a.used[j] = key
  BY <1>2 DEF CacheHolds, Ca!Range
<1>4. PICK d : d = Ca!Use(a, key)
  OBVIOUS
<1>5. CacheHolds(d) /\ d.data = a.data /\ d.lruHash = a.lruHash /\ d.size = a.size
  BY <1>3, <1>4, UseIs
<1>6. Ca!Become(d) /\ odd' = odd
  BY <1>1, <1>4 DEF Ca!Get
<1>7. Sized(d, odd)
  BY <1>2, <1>5 DEF Sized
<1>8. Ca!Now' = d
  BY <1>5, <1>6, CacheBecomes
<1> QED
  BY <1>2, <1>5, <1>6, <1>7, <1>8 DEF CacheInv

LEMMA DeleteKeeps ==
  ASSUME IsFiniteSet(Keys), NoKey \notin Keys, Capacity \in Nat, MaxUndefined \in Nat,
         CacheInv, NEW key \in Keys, Ca!Delete(key)
  PROVE  CacheInv'
<1>1. PICK a : a = Ca!Now
  OBVIOUS
<1>2. /\ a \in CacheT /\ CacheHolds(a) /\ Sized(a, odd) /\ odd \in BOOLEAN /\ key \in a.lruHash
      /\ a.size \in Int /\ a.data \subseteq a.lruHash
  BY <1>1, CacheIs DEF Ca!Delete, CacheHolds
<1>3. PICK d : d = Ca!Removed(a, key)
  OBVIOUS
<1>4. /\ CacheHolds(d) /\ d.data = a.data \ {key} /\ d.lruHash = a.lruHash \ {key}
      /\ d.size = a.size - 1
  BY <1>2, <1>3, TakenIs
<1>5. Ca!Become(d) /\ odd' = odd
  BY <1>1, <1>3 DEF Ca!Delete
<1>6. Sized(d, odd)
  <2>1. /\ IsFiniteSet(a.data) /\ IsFiniteSet(a.lruHash) /\ Cardinality(a.data) \in Nat
        /\ Cardinality(a.lruHash) \in Nat /\ Cardinality(Keys) \in Nat
    BY <1>2, SizesAre
  <2>2. Cardinality(d.lruHash) = Cardinality(a.lruHash) - 1
    <3>1. Cardinality(a.lruHash \ {key}) = Cardinality(a.lruHash) - 1
      BY <1>2, <2>1, FS_RemoveElement
    <3> QED
      BY <1>4, <3>1
  <2>3. Cardinality(d.data) = IF key \in a.data THEN Cardinality(a.data) - 1
                              ELSE Cardinality(a.data)
    BY <1>4, <2>1, FS_RemoveElement
  <2> QED
    BY <1>2, <1>4, <2>1, <2>2, <2>3 DEF Sized
<1>7. Ca!Now' = d
  BY <1>4, <1>5, CacheBecomes
<1> QED
  BY <1>2, <1>4, <1>5, <1>6, <1>7 DEF CacheInv

\* A cache that is empty.
LEMMA EmptyCache ==
  ASSUME IsFiniteSet(Keys), MaxUndefined \in Nat, Capacity \in Nat, NEW b,
         b = [data |-> {}, lruHash |-> {}, p |-> [k \in Keys |-> NoKey], n |-> [k \in Keys |-> NoKey],
              freshEnd |-> NoKey, staleEnd |-> NoKey, size |-> 0, used |-> <<>>]
  PROVE  CacheHolds(b) /\ Sized(b, FALSE)
<1>1. <<>> \in Seq(Keys) /\ [k \in Keys |-> NoKey] \in [Keys -> Links] /\ NoKey \in Links
  BY DEF Links
<1>2. b \in CacheT
  BY <1>1 DEF CacheT
<1>3. DOMAIN b.used = {} /\ Ca!Range(b.used) = {} /\ Ca!IsInjective(b.used)
  BY DEF Ca!Range, Ca!IsInjective
<1>4. Chained(b, b.used)
  BY <1>1, <1>2, <1>3 DEF Chained
<1>5. Cardinality(b.data) = 0 /\ Cardinality(b.lruHash) = 0 /\ Cardinality(Keys) \in Nat
  BY FS_EmptySet, FS_CardinalityType
<1> QED
  BY <1>3, <1>4, <1>5 DEF CacheHolds, Sized

LEMMA CacheInit ==
  ASSUME IsFiniteSet(Keys), MaxUndefined \in Nat, Capacity \in Nat, Ca!CfInit
  PROVE  CacheInv
<1>1. PICK b : b = Ca!Now
  OBVIOUS
<1>2. b = [data |-> {}, lruHash |-> {}, p |-> [k \in Keys |-> NoKey], n |-> [k \in Keys |-> NoKey],
           freshEnd |-> NoKey, staleEnd |-> NoKey, size |-> 0, used |-> <<>>]
  BY <1>1 DEF Ca!CfInit, Ca!Now
<1>3. CacheHolds(b) /\ Sized(b, FALSE)
  BY <1>2, EmptyCache
<1> QED
  BY <1>1, <1>3 DEF CacheInv, Ca!CfInit

LEMMA RemoveAllKeeps ==
  ASSUME IsFiniteSet(Keys), MaxUndefined \in Nat, Capacity \in Nat, Ca!RemoveAll
  PROVE  CacheInv'
<1>1. PICK b : b = Ca!Now'
  OBVIOUS
<1>2. b = [data |-> {}, lruHash |-> {}, p |-> [k \in Keys |-> NoKey], n |-> [k \in Keys |-> NoKey],
           freshEnd |-> NoKey, staleEnd |-> NoKey, size |-> 0, used |-> <<>>]
  BY <1>1 DEF Ca!RemoveAll, Ca!Now
<1>3. CacheHolds(b) /\ Sized(b, FALSE)
  BY <1>2, EmptyCache
<1> QED
  BY <1>1, <1>3 DEF CacheInv, Ca!RemoveAll

LEMMA CacheStep ==
  ASSUME IsFiniteSet(Keys), NoKey \notin Keys, Capacity \in Nat, MaxUndefined \in Nat,
         CacheInv, Ca!CfNext
  PROVE  CacheInv'
<1>1. ASSUME NEW key \in Keys, Ca!Put(key) PROVE CacheInv'
  BY <1>1, PutKeeps
<1>2. ASSUME NEW key \in Keys, Ca!PutUndefined(key) PROVE CacheInv'
  BY <1>2, PutUndefinedKeeps
<1>3. ASSUME NEW key \in Keys, Ca!Get(key) PROVE CacheInv'
  BY <1>3, GetKeeps
<1>4. ASSUME NEW key \in Keys, Ca!Delete(key) PROVE CacheInv'
  BY <1>4, DeleteKeeps
<1>5. CASE Ca!RemoveAll
  BY <1>5, RemoveAllKeeps
<1> QED
  BY <1>1, <1>2, <1>3, <1>4, <1>5 DEF Ca!CfNext

LEMMA CacheStutter ==
  ASSUME CacheInv, UNCHANGED cacheVars PROVE CacheInv'
<1>1. Ca!Now' = Ca!Now /\ odd' = odd
  BY DEF cacheVars, Ca!Now
<1> QED
  BY <1>1 DEF CacheInv

LEMMA CacheShows ==
  ASSUME IsFiniteSet(Keys), MaxUndefined \in Nat, CacheInv
  PROVE  Ca!CfTypeOK /\ Ca!ListIsByUse /\ Ca!CapacityIsKept
<1>1. PICK a : a = Ca!Now
  OBVIOUS
<1>2. /\ a \in CacheT /\ CacheHolds(a) /\ Sized(a, odd) /\ odd \in BOOLEAN /\ a.data = data
      /\ a.lruHash = lruHash /\ a.size = cacheSize /\ a.used = used /\ cacheSize \in Int
  BY <1>1, CacheIs
<1>3. a.p = staler /\ a.n = fresher /\ a.freshEnd = freshEnd /\ a.staleEnd = staleEnd
  BY <1>1 DEF Ca!Now
<1>4. \A S : Ca!Cardinality(S) = Cardinality(S)
  BY DEF Ca!Cardinality, Cardinality
<1>5. /\ Cardinality(data) \in Nat /\ Cardinality(lruHash) \in Nat /\ Cardinality(Keys) \in Nat
      /\ Cardinality(data) <= Cardinality(Keys)
  BY <1>2, SizesAre
<1>6. Ca!CfTypeOK
  <2>1. /\ data \subseteq lruHash /\ lruHash \subseteq Keys /\ staler \in [Keys -> Links]
        /\ fresher \in [Keys -> Links] /\ freshEnd \in Links /\ staleEnd \in Links
    BY <1>2, <1>3 DEF CacheT, CacheHolds
  <2>2. cacheSize \in -MaxUndefined - Cardinality(Keys) .. Cardinality(Keys)
    BY <1>2, <1>5 DEF Sized
  <2>3. cacheSize \in -MaxUndefined - Ca!Cardinality(Keys) .. Ca!Cardinality(Keys)
    BY <1>4, <2>2
  <2> QED
    BY <1>2, <2>1, <2>3 DEF Ca!CfTypeOK, Links
<1>7. Ca!ListIsByUse
  <2>1. /\ Chained(a, used) /\ Ca!Range(used) = lruHash /\ used \in Seq(Keys)
        /\ Ca!IsInjective(used) /\ DOMAIN used = 1 .. Len(used)
    BY <1>2 DEF CacheHolds, Chained
  <2>2. IF used = <<>> THEN freshEnd = NoKey /\ staleEnd = NoKey
        ELSE freshEnd = Head(used) /\ staleEnd = used[Len(used)]
    BY <1>3, <2>1 DEF Chained
  <2>3. \A i \in 1 .. Len(used) :
          /\ fresher[used[i]] = IF i = 1 THEN NoKey ELSE used[i - 1]
          /\ staler[used[i]] = IF i = Len(used) THEN NoKey ELSE used[i + 1]
    <3> SUFFICES ASSUME NEW i \in DOMAIN used
                 PROVE  /\ fresher[used[i]] = IF i = 1 THEN NoKey ELSE used[i - 1]
                        /\ staler[used[i]] = IF i = Len(used) THEN NoKey ELSE used[i + 1]
      BY <2>1
    <3>1. LinkedAt(a, used, i)
      BY <2>1 DEF Chained
    <3> QED
      BY <1>3, <3>1 DEF LinkedAt
  <2>4. Ca!Range(used) = lruHash /\ Ca!IsInjective(used)
    BY <2>1
  <2> QED
    BY <2>2, <2>3, <2>4, Zenon DEF Ca!ListIsByUse
<1>8. Ca!CapacityIsKept
  BY <1>2, <1>4 DEF Ca!CapacityIsKept, Sized
<1> QED
  BY <1>6, <1>7, <1>8

-----------------------------------------------------------------------------
(* The address *)

\* Addresses, as records: the browser's are in any form, those of $location are plain.
UrlT ==
  [path : OpenedPaths \cup AppPaths, search : AppSearches, hash : Hashes,
   form : {"plain", "raw", "bad"}]
PlainT == {u \in UrlT : u.form = "plain"}
JobT == [kind : {"event", "watch"}, url : UrlT, replace : BOOLEAN]

LocationT ==
  /\ hasHistory \in BOOLEAN /\ history \in Seq(UrlT) /\ at \in DOMAIN history
  /\ event \in BOOLEAN /\ seen \in UrlT /\ replaced \in PlainT \cup {Lo!Nowhere}
  /\ location \in [url : PlainT, replace : BOOLEAN] /\ asyncQueue \in Seq(JobT)
  /\ counter \in [value : Nat, last : Int] /\ counter.last <= counter.value
  /\ digest \in [on : BOOLEAN, stage : {"async", "others"}, dirty : BOOLEAN, ttl : 0 .. Passes]
  /\ announced \in PlainT \cup {Lo!Nowhere} /\ changes \in Nat /\ entry \in BOOLEAN
  /\ trouble \subseteq {"aborted", "overtaken"}
  /\ hasHistory => replaced = Lo!Nowhere

EventIsNext == asyncQueue # <<>> /\ asyncQueue[1].kind = "event"

\* Between digests nothing waits, and only a change the browser has yet to tell of sets
\* its address apart from that of $location.
Rests ==
  /\ asyncQueue = <<>> /\ seen = location.url
  /\ ~event => Lo!Told = seen
  /\ announced # Lo!Nowhere => announced = location.url

\* In a digest, one expression at most waits, and it is about the address the browser
\* tells; behind the watcher, the addresses agree unless there is another pass to come.
Digests ==
  /\ digest.stage = "others" => seen = Lo!Told /\ ~EventIsNext
  /\ digest.stage = "others" /\ ~digest.dirty => location.url = Lo!Told
  /\ asyncQueue # <<>> => Len(asyncQueue) = 1 /\ asyncQueue[1].url = Lo!Told /\ seen = Lo!Told
  /\ announced # Lo!Nowhere /\ seen = Lo!Told /\ ~EventIsNext =>
       Lo!Throws(Lo!Told) \/ Lo!Parsed(Lo!Told) = announced
  /\ ~entry /\ location.url # seen =>
       IF asyncQueue = <<>> THEN location.replace
       ELSE asyncQueue[1].kind = "event" \/ asyncQueue[1].replace

Calm ==
  /\ digest.on => Digests
  /\ ~digest.on => Rests
  /\ ~entry => Lo!Told.form = "plain"

LocationInv == LocationT /\ (trouble = {} => Calm)

\* What the step of a digest may not do to the history.
EntryOnlyIfAsked == digest.on /\ announced # Lo!Nowhere /\ trouble = {} /\ at' > at => entry

LEMMA ToldIs ==
  ASSUME LocationT
  PROVE  /\ Lo!Told \in UrlT /\ history[at] \in UrlT /\ Lo!Nowhere \notin UrlT
         /\ hasHistory => Lo!Told = history[at]
<1>1. Lo!Nowhere \notin UrlT
  <2>1. Lo!Nowhere.form = "none"
    BY DEF Lo!Nowhere
  <2>2. \A u \in UrlT : u.form # "none"
    BY DEF UrlT
  <2> QED
    BY <2>1, <2>2
<1>2. history[at] \in UrlT /\ (replaced = Lo!Nowhere \/ replaced \in UrlT)
  BY DEF LocationT, PlainT
<1> QED
  BY <1>1, <1>2 DEF LocationT, Lo!Told, Lo!Href

LEMMA BrowserUrlIs ==
  ASSUME LocationT, NEW replace \in BOOLEAN, NEW now \in UrlT, NEW told \in BOOLEAN,
         hasHistory' = hasHistory, Lo!BrowserUrl(location.url, replace, now, told)
  PROVE  /\ history' \in Seq(UrlT) /\ at' \in DOMAIN history' /\ event' \in BOOLEAN
         /\ seen' = location.url /\ replaced' \in PlainT \cup {Lo!Nowhere}
         /\ hasHistory => replaced' = Lo!Nowhere
         /\ now = location.url => UNCHANGED <<history, at, replaced>> /\ event' = told
         /\ now # location.url => Lo!Told' = location.url
         /\ at' > at => ~replace /\ now # location.url
<1>1. /\ history \in Seq(UrlT) /\ at \in DOMAIN history /\ at \in 1 .. Len(history)
      /\ Len(history) \in Nat
      /\ location.url \in PlainT /\ location.url \in UrlT /\ location.url # Lo!Nowhere
  BY DEF LocationT, PlainT, UrlT, Lo!Nowhere
<1>2. CASE now = location.url
  BY <1>1, <1>2 DEF Lo!BrowserUrl, LocationT
<1>3. CASE now # location.url /\ replace
  <2>1. history' = [history EXCEPT ![at] = location.url] /\ at' = at /\ seen' = location.url
        /\ event' = (told \/ ~hasHistory)
        /\ replaced' = IF ~hasHistory THEN location.url ELSE replaced
    BY <1>3 DEF Lo!BrowserUrl
  <2>2. history' \in Seq(UrlT) /\ DOMAIN history' = DOMAIN history /\ history'[at'] = location.url
    BY <1>1, <2>1
  <2> QED
    BY <1>1, <1>3, <2>1, <2>2 DEF LocationT, Lo!Told, Lo!Href
<1>4. CASE now # location.url /\ ~replace
  <2>1. history' = Append(SubSeq(history, 1, at), location.url) /\ at' = at + 1
        /\ seen' = location.url /\ event' = (told \/ ~hasHistory)
        /\ replaced' = IF hasHistory THEN replaced ELSE Lo!Nowhere
    BY <1>4 DEF Lo!BrowserUrl
  <2>2. history' \in Seq(UrlT) /\ at' \in DOMAIN history' /\ history'[at'] = location.url
    BY <1>1, <2>1
  <2> QED
    BY <1>1, <1>4, <2>1, <2>2 DEF LocationT, Lo!Told, Lo!Href
<1> QED
  BY <1>2, <1>3, <1>4

\* The application makes another plain address of the one it has.
LEMMA ChangedIs ==
  ASSUME NEW now \in [url : PlainT, replace : BOOLEAN], NEW replace \in BOOLEAN,
         changes \in Nat, Lo!Change(now, replace)
  PROVE  /\ location' \in [url : PlainT, replace : BOOLEAN] /\ changes' \in Nat
         /\ location'.replace = (now.replace \/ replace) /\ location'.url # now.url
<1>1. PICK url \in Lo!Changed(now.url) \ {now.url} :
        location' = [url |-> url, replace |-> now.replace \/ replace]
  BY DEF Lo!Change
<1>2. url \in PlainT
  <2>1. PICK u : u = now.url
    OBVIOUS
  <2>2. u \in UrlT /\ u.form = "plain" /\ u \in PlainT
    BY <2>1 DEF PlainT
  <2>3. \A p \in AppPaths : Lo!Path(u, p) \in PlainT
    BY <2>2 DEF Lo!Path, UrlT, PlainT
  <2>4. \A t \in AppSearches : Lo!Search(u, t) \in PlainT
    BY <2>2 DEF Lo!Search, UrlT, PlainT
  <2>5. \A h \in Hashes : Lo!Hash(u, h) \in PlainT
    BY <2>2 DEF Lo!Hash, UrlT, PlainT
  <2>6. ASSUME NEW p \in AppPaths, NEW t \in AppSearches, NEW h \in Hashes
        PROVE  Lo!SetUrl(u, p, t, h) \in PlainT
    BY <2>2 DEF Lo!SetUrl, UrlT, PlainT
  <2>7. url \in Lo!Changed(u)
    BY <1>1, <2>1
  <2> QED
    BY <2>3, <2>4, <2>5, <2>6, <2>7 DEF Lo!Changed
<1> QED
  BY <1>1, <1>2 DEF Lo!Change

\* A plain address is told, which the location has then, or had when it was changed again.
LEMMA SucceedIs ==
  ASSUME location \in [url : PlainT, replace : BOOLEAN], changes \in Nat,
         NEW url \in PlainT, Lo!Succeed(url)
  PROVE  /\ location' \in [url : PlainT, replace : BOOLEAN] /\ changes' \in Nat
         /\ announced' = url
         /\ location'.url = url \/ location'.replace
<1>1. CASE location' = [location EXCEPT !.url = url] /\ UNCHANGED changes
  BY <1>1 DEF Lo!Succeed
<1>2. CASE Lo!Change([location EXCEPT !.url = url], TRUE)
  <2>1. [location EXCEPT !.url = url] \in [url : PlainT, replace : BOOLEAN]
    OBVIOUS
  <2> QED
    BY <1>2, <2>1, ChangedIs DEF Lo!Succeed
<1> QED
  BY <1>1, <1>2 DEF Lo!Succeed

LEMMA ParsedIs ==
  ASSUME NEW u \in UrlT
  PROVE  Lo!Parsed(u) \in PlainT /\ (u.form = "plain" => Lo!Parsed(u) = u)
BY DEF Lo!Parsed, UrlT, PlainT

LEMMA LocationBegins == Lo!LoInit => LocationInv
<1> SUFFICES ASSUME Lo!LoInit PROVE LocationInv
  OBVIOUS
<1>1. PICK url \in OpenedUrls :
        /\ history = <<Lo!Parsed(url)>> /\ seen = Lo!Parsed(url)
        /\ replaced = IF hasHistory \/ url = Lo!Parsed(url) THEN Lo!Nowhere ELSE Lo!Parsed(url)
        /\ event = (~hasHistory /\ url # Lo!Parsed(url))
        /\ location = [url |-> Lo!Parsed(url), replace |-> FALSE]
  BY DEF Lo!LoInit
<1>2. url \in UrlT
  BY DEF OpenedUrls, UrlT
<1>3. PICK u \in PlainT : u = Lo!Parsed(url)
  BY <1>2, ParsedIs
<1>4. u \in UrlT /\ u.form = "plain"
  BY DEF PlainT
<1>5. /\ at = 1 /\ asyncQueue = <<>> /\ counter = [value |-> 0, last |-> -1]
      /\ digest = Lo!Running /\ announced = Lo!Nowhere /\ changes = 0 /\ entry = FALSE
      /\ trouble = {} /\ hasHistory \in BOOLEAN
  BY DEF Lo!LoInit
<1>6. history \in Seq(UrlT) /\ at \in DOMAIN history /\ history[at] = u
  BY <1>1, <1>3, <1>4, <1>5
<1>7. digest \in [on : BOOLEAN, stage : {"async", "others"}, dirty : BOOLEAN, ttl : 0 .. Passes]
      /\ digest.on /\ digest.stage = "async"
  BY <1>5, PagesAssumption DEF Lo!Running
<1>8. LocationT
  <2>1. event \in BOOLEAN
    BY <1>1
  <2>2. replaced \in PlainT \cup {Lo!Nowhere} /\ (hasHistory => replaced = Lo!Nowhere)
    BY <1>1, <1>3
  <2>3. seen = u /\ location = [url |-> u, replace |-> FALSE]
    BY <1>1, <1>3
  <2>4. counter \in [value : Nat, last : Int] /\ counter.last <= counter.value
    BY <1>5
  <2>5. location \in [url : PlainT, replace : BOOLEAN] /\ asyncQueue \in Seq(JobT)
    BY <1>5, <2>3
  <2> QED
    BY <1>4, <1>5, <1>6, <1>7, <2>1, <2>2, <2>3, <2>4, <2>5 DEF LocationT
<1>9. Calm
  BY <1>1, <1>3, <1>4, <1>5, <1>6, <1>7 DEF Calm, Digests, EventIsNext, Lo!Told, Lo!Href
<1> QED
  BY <1>8, <1>9 DEF LocationInv

LEMMA LocationStutter ==
  ASSUME LocationInv, UNCHANGED locationVars
  PROVE  LocationInv'
<1>1. LocationT'
  BY DEF LocationInv, LocationT, locationVars
<1>2. Lo!Told' = Lo!Told
  BY DEF locationVars, Lo!Told, Lo!Href
<1>3. trouble' = {} => Calm'
  BY <1>2 DEF LocationInv, Calm, Digests, Rests, EventIsNext, locationVars
<1> QED
  BY <1>1, <1>3 DEF LocationInv

\* The user goes elsewhere, which the browser is yet to tell.
LEMMA GoKeeps ==
  ASSUME LocationInv, NEW to \in DOMAIN history, Lo!Go(to)
  PROVE  LocationInv' /\ EntryOnlyIfAsked
<1>1. LocationT /\ ~digest.on
  BY DEF LocationInv, Lo!Go
<1>2. LocationT'
  BY <1>1 DEF LocationT, Lo!Go
<1>3. ASSUME trouble = {} PROVE Calm'
  <2>1. Rests /\ (~entry => Lo!Told.form = "plain")
    BY <1>1, <1>3 DEF LocationInv, Calm
  <2>2. Rests' /\ ~digest'.on
    BY <1>1, <2>1 DEF Rests, Lo!Go
  <2>3. Lo!Told' = IF replaced # Lo!Nowhere THEN replaced ELSE history[to]
    BY DEF Lo!Go, Lo!Told, Lo!Href
  <2>4. replaced # Lo!Nowhere => replaced.form = "plain"
    BY <1>1 DEF LocationT, PlainT
  <2>5. ~entry' => history[to].form = "plain"
    BY DEF Lo!Go
  <2> QED
    BY <2>2, <2>3, <2>4, <2>5 DEF Calm
<1> QED
  BY <1>1, <1>2, <1>3 DEF LocationInv, EntryOnlyIfAsked, Lo!Go

LEMMA OpenUrlKeeps ==
  ASSUME LocationInv, NEW url \in OpenedUrls, Lo!Open(url)
  PROVE  LocationInv' /\ EntryOnlyIfAsked
<1>1. LocationT /\ ~digest.on /\ url \in UrlT
  BY DEF LocationInv, Lo!Open, OpenedUrls, UrlT
<1>2. /\ history' = Append(SubSeq(history, 1, at), url) /\ at' = at + 1
      /\ history \in Seq(UrlT) /\ at \in 1 .. Len(history) /\ Len(history) \in Nat
  BY <1>1 DEF LocationT, Lo!Open
<1>3. history' \in Seq(UrlT) /\ at' \in DOMAIN history' /\ history'[at'] = url
  BY <1>1, <1>2
<1>4. LocationT'
  BY <1>1, <1>3 DEF LocationT, Lo!Open
<1>5. ASSUME trouble = {} PROVE Calm'
  <2>1. Rests /\ (~entry => Lo!Told.form = "plain")
    BY <1>1, <1>5 DEF LocationInv, Calm
  <2>2. Rests' /\ ~digest'.on
    BY <1>1, <2>1 DEF Rests, Lo!Open
  <2>3. Lo!Told' = IF replaced # Lo!Nowhere THEN replaced ELSE url
    BY <1>3 DEF Lo!Open, Lo!Told, Lo!Href
  <2>4. replaced # Lo!Nowhere => replaced.form = "plain"
    BY <1>1 DEF LocationT, PlainT
  <2>5. ~entry' => url.form = "plain"
    BY DEF Lo!Open
  <2> QED
    BY <2>2, <2>3, <2>4, <2>5 DEF Calm
<1> QED
  BY <1>1, <1>4, <1>5 DEF LocationInv, EntryOnlyIfAsked, Lo!Open

\* The browser tells: the change is prevented, or $location is to take it over.
LEMMA UrlChangedKeeps ==
  ASSUME LocationInv, Lo!UrlChanged
  PROVE  LocationInv' /\ EntryOnlyIfAsked
<1>1. /\ LocationT /\ ~digest.on /\ Lo!Told \in UrlT
      /\ UNCHANGED <<hasHistory, location, counter, announced, changes, entry, trouble>>
  BY ToldIs DEF LocationInv, Lo!UrlChanged
<1>2. trouble = {} => Rests /\ (~entry => Lo!Told.form = "plain")
  BY <1>1 DEF LocationInv, Calm
<1>3. CASE seen = Lo!Told \/ Lo!Told = location.url
  <2>1. seen' = Lo!Told /\ event' = FALSE /\ UNCHANGED <<history, at, replaced, asyncQueue, digest>>
    BY <1>3 DEF Lo!UrlChanged, Lo!Remembered
  <2>2. LocationT' /\ Lo!Told' = Lo!Told
    BY <1>1, <2>1 DEF LocationT, Lo!Told, Lo!Href
  <2>3. trouble' = {} => Calm'
    BY <1>1, <1>2, <1>3, <2>1, <2>2 DEF Calm, Rests
  <2> QED
    BY <1>1, <2>2, <2>3 DEF LocationInv, EntryOnlyIfAsked
<1>4. CASE /\ ~(seen = Lo!Told \/ Lo!Told = location.url)
           /\ Lo!BrowserUrl(location.url, FALSE, Lo!Told, FALSE)
           /\ UNCHANGED <<asyncQueue, digest>>
  <2>1. /\ history' \in Seq(UrlT) /\ at' \in DOMAIN history' /\ event' \in BOOLEAN
        /\ seen' = location.url /\ replaced' \in PlainT \cup {Lo!Nowhere}
        /\ hasHistory => replaced' = Lo!Nowhere
        /\ Lo!Told' = location.url
    BY <1>1, <1>4, BrowserUrlIs
  <2>2. location.url \in UrlT /\ location.url.form = "plain"
    BY <1>1 DEF LocationT, PlainT
  <2>3. LocationT'
    BY <1>1, <1>4, <2>1, <2>2 DEF LocationT
  <2>4. trouble' = {} => Calm'
    BY <1>1, <1>2, <1>4, <2>1, <2>2 DEF Calm, Rests
  <2> QED
    BY <1>1, <2>3, <2>4 DEF LocationInv, EntryOnlyIfAsked
<1>5. CASE /\ ~(seen = Lo!Told \/ Lo!Told = location.url) /\ seen' = Lo!Told /\ event' = FALSE
           /\ asyncQueue' = Append(asyncQueue,
                                   [kind |-> "event", url |-> Lo!Told, replace |-> FALSE])
           /\ digest' = Lo!Running /\ UNCHANGED <<history, at, replaced>>
  <2>1. [kind |-> "event", url |-> Lo!Told, replace |-> FALSE] \in JobT
    BY <1>1 DEF JobT
  <2>2. /\ asyncQueue' \in Seq(JobT) /\ asyncQueue' # <<>>
        /\ asyncQueue = <<>> => /\ Len(asyncQueue') = 1
                               /\ asyncQueue'[1] =
                                    [kind |-> "event", url |-> Lo!Told, replace |-> FALSE]
    BY <1>1, <1>5, <2>1 DEF LocationT
  <2>3. digest' \in [on : BOOLEAN, stage : {"async", "others"}, dirty : BOOLEAN, ttl : 0 .. Passes]
        /\ digest'.on /\ digest'.stage = "async"
    BY <1>5, PagesAssumption DEF Lo!Running
  <2>4. LocationT' /\ Lo!Told' = Lo!Told
    BY <1>1, <1>5, <2>2, <2>3 DEF LocationT, Lo!Told, Lo!Href
  <2>5. trouble' = {} => Calm'
    BY <1>1, <1>2, <1>5, <2>2, <2>3, <2>4 DEF Calm, Rests, Digests, EventIsNext
  <2> QED
    BY <1>1, <2>4, <2>5 DEF LocationInv, EntryOnlyIfAsked
<1> QED
  BY <1>3, <1>4, <1>5 DEF Lo!UrlChanged, Lo!Remembered

\* A digest begins: the application has changed the address, or something else.
LEMMA ApplyChangeKeeps ==
  ASSUME LocationInv, NEW replace \in BOOLEAN, Lo!ApplyChange(replace)
  PROVE  LocationInv' /\ EntryOnlyIfAsked
<1>1. /\ LocationT /\ ~digest.on /\ Lo!Change(location, replace) /\ digest' = Lo!Running
      /\ entry' = (entry \/ ~replace)
      /\ UNCHANGED <<hasHistory, history, at, event, seen, replaced, asyncQueue, counter,
                     announced, trouble>>
  BY DEF LocationInv, Lo!ApplyChange
<1>2. location \in [url : PlainT, replace : BOOLEAN] /\ changes \in Nat /\ entry \in BOOLEAN
  BY <1>1 DEF LocationT
<1>3. /\ location' \in [url : PlainT, replace : BOOLEAN] /\ changes' \in Nat
      /\ location'.replace = (location.replace \/ replace)
  BY <1>1, <1>2, ChangedIs
<1>4. digest' \in [on : BOOLEAN, stage : {"async", "others"}, dirty : BOOLEAN, ttl : 0 .. Passes]
      /\ digest'.on /\ digest'.stage = "async"
  BY <1>1, PagesAssumption DEF Lo!Running
<1>5. LocationT' /\ Lo!Told' = Lo!Told
  <2>1. entry' \in BOOLEAN
    BY <1>1, <1>2
  <2> QED
    BY <1>1, <1>3, <1>4, <2>1 DEF LocationT, Lo!Told, Lo!Href
<1>6. ASSUME trouble = {} PROVE Calm'
  <2>1. Rests /\ (~entry => Lo!Told.form = "plain")
    BY <1>1, <1>6 DEF LocationInv, Calm
  <2>2. ~entry' => ~entry /\ location'.replace
    BY <1>1, <1>3
  <2>3. announced # Lo!Nowhere /\ seen = Lo!Told => Lo!Parsed(Lo!Told) = announced
    <3>1. location.url \in UrlT /\ location.url.form = "plain"
      BY <1>2 DEF PlainT
    <3> QED
      BY <2>1, <3>1, ParsedIs DEF Rests
  <2> QED
    BY <1>1, <1>4, <1>5, <2>1, <2>2, <2>3 DEF Calm, Rests, Digests, EventIsNext
<1> QED
  BY <1>1, <1>5, <1>6 DEF LocationInv, EntryOnlyIfAsked

LEMMA ApplyKeeps ==
  ASSUME LocationInv, Lo!Apply
  PROVE  LocationInv' /\ EntryOnlyIfAsked
<1>1. /\ LocationT /\ ~digest.on /\ digest' = Lo!Running
      /\ UNCHANGED <<hasHistory, history, at, event, seen, replaced, location, asyncQueue, counter,
                     announced, changes, entry, trouble>>
  BY DEF LocationInv, Lo!Apply
<1>2. digest' \in [on : BOOLEAN, stage : {"async", "others"}, dirty : BOOLEAN, ttl : 0 .. Passes]
      /\ digest'.on /\ digest'.stage = "async"
  BY <1>1, PagesAssumption DEF Lo!Running
<1>3. LocationT' /\ Lo!Told' = Lo!Told
  BY <1>1, <1>2 DEF LocationT, Lo!Told, Lo!Href
<1>4. ASSUME trouble = {} PROVE Calm'
  <2>1. Rests /\ (~entry => Lo!Told.form = "plain")
    BY <1>1, <1>4 DEF LocationInv, Calm
  <2>2. announced # Lo!Nowhere /\ seen = Lo!Told => Lo!Parsed(Lo!Told) = announced
    <3>1. location.url \in UrlT /\ location.url.form = "plain"
      BY <1>1 DEF LocationT, PlainT
    <3> QED
      BY <2>1, <3>1, ParsedIs DEF Rests
  <2> QED
    BY <1>1, <1>2, <1>3, <2>1, <2>2 DEF Calm, Rests, Digests, EventIsNext
<1> QED
  BY <1>1, <1>3, <1>4 DEF LocationInv, EntryOnlyIfAsked

LEMMA NoEntryYet ==
  ASSUME LocationT, at' = at
  PROVE  EntryOnlyIfAsked
BY DEF LocationT, EntryOnlyIfAsked

\* A watcher behind that of $location changes the address: another pass is to come.
LEMMA WatcherKeeps ==
  ASSUME LocationInv, NEW replace \in BOOLEAN, Lo!WatcherChanges(replace)
  PROVE  LocationInv' /\ EntryOnlyIfAsked
<1>1. /\ LocationT /\ digest.on /\ digest.stage = "others" /\ Lo!Change(location, replace)
      /\ digest' = [digest EXCEPT !.dirty = TRUE] /\ entry' = TRUE
      /\ UNCHANGED <<hasHistory, history, at, event, seen, replaced, asyncQueue, counter,
                     announced, trouble>>
  BY DEF LocationInv, Lo!WatcherChanges
<1>2. location \in [url : PlainT, replace : BOOLEAN] /\ changes \in Nat
  BY <1>1 DEF LocationT
<1>3. location' \in [url : PlainT, replace : BOOLEAN] /\ changes' \in Nat
  BY <1>1, <1>2, ChangedIs
<1>4. digest' \in [on : BOOLEAN, stage : {"async", "others"}, dirty : BOOLEAN, ttl : 0 .. Passes]
      /\ digest'.on /\ digest'.stage = "others" /\ digest'.dirty
  BY <1>1 DEF LocationT
<1>5. LocationT' /\ Lo!Told' = Lo!Told
  BY <1>1, <1>3, <1>4 DEF LocationT, Lo!Told, Lo!Href
<1>6. ASSUME trouble = {} PROVE Calm'
  <2>1. Digests
    BY <1>1, <1>6 DEF LocationInv, Calm
  <2> QED
    BY <1>1, <1>4, <1>5, <2>1 DEF Calm, Digests, EventIsNext
<1> QED
  BY <1>1, <1>5, <1>6, NoEntryYet DEF LocationInv

\* The expression of the event: what the browser told is the address, and announced.
LEMMA ParseEventKeeps ==
  ASSUME LocationInv, digest.on, digest.stage = "async", asyncQueue # <<>>,
         asyncQueue' = Tail(asyncQueue), Lo!ParseEvent(Head(asyncQueue)),
         UNCHANGED <<hasHistory, counter, digest, trouble>>
  PROVE  LocationInv' /\ at' = at
<1>1. PICK job : job = Head(asyncQueue)
  OBVIOUS
<1>2. /\ LocationT /\ job \in JobT /\ job = asyncQueue[1] /\ job.kind = "event"
      /\ asyncQueue' \in Seq(JobT) /\ (Len(asyncQueue) = 1 => asyncQueue' = <<>>)
      /\ UNCHANGED <<history, at, event, seen, replaced, entry>>
  BY <1>1 DEF LocationInv, LocationT, Lo!ParseEvent
<1>3. /\ job.url \in UrlT /\ Lo!Parsed(job.url) \in PlainT
      /\ job.url.form = "plain" => Lo!Parsed(job.url) = job.url
      /\ location \in [url : PlainT, replace : BOOLEAN] /\ changes \in Nat
  BY <1>2, ParsedIs DEF JobT, LocationT
<1>4. CASE Lo!Throws(job.url)
  <2>1. UNCHANGED <<announced, location, changes>>
    BY <1>1, <1>4 DEF Lo!ParseEvent
  <2>2. LocationT' /\ Lo!Told' = Lo!Told
    BY <1>2, <2>1 DEF LocationT, Lo!Told, Lo!Href
  <2>3. ASSUME trouble = {} PROVE Calm'
    <3>1. Digests /\ (~entry => Lo!Told.form = "plain")
      BY <2>3 DEF LocationInv, Calm
    <3>2. job.url = Lo!Told /\ seen = Lo!Told /\ asyncQueue' = <<>> /\ Lo!Told.form = "bad"
      BY <1>2, <1>4, <3>1 DEF Digests, Lo!Throws
    <3> QED
      BY <1>2, <2>1, <2>2, <3>1, <3>2 DEF Calm, Digests, EventIsNext, Lo!Throws
  <2> QED
    BY <1>2, <2>2, <2>3 DEF LocationInv
<1>5. CASE ~Lo!Throws(job.url)
  <2>1. Lo!Succeed(Lo!Parsed(job.url))
    BY <1>1, <1>5 DEF Lo!ParseEvent
  <2>2. /\ location' \in [url : PlainT, replace : BOOLEAN] /\ changes' \in Nat
        /\ announced' = Lo!Parsed(job.url)
        /\ location'.url = Lo!Parsed(job.url) \/ location'.replace
    BY <1>3, <2>1, SucceedIs
  <2>3. LocationT' /\ Lo!Told' = Lo!Told
    BY <1>2, <1>3, <2>2 DEF LocationT, Lo!Told, Lo!Href
  <2>4. ASSUME trouble = {} PROVE Calm'
    <3>1. Digests /\ (~entry => Lo!Told.form = "plain")
      BY <2>4 DEF LocationInv, Calm
    <3>2. job.url = Lo!Told /\ seen = Lo!Told /\ asyncQueue' = <<>>
      BY <1>2, <3>1 DEF Digests
    <3> QED
      BY <1>2, <1>3, <2>2, <2>3, <3>1, <3>2 DEF Calm, Digests, EventIsNext
  <2> QED
    BY <1>2, <2>3, <2>4 DEF LocationInv
<1> QED
  BY <1>4, <1>5

\* The expression of the watcher: the change is prevented, or told to the browser.
LEMMA SetAddressKeeps ==
  ASSUME LocationInv, digest.on, digest.stage = "async", asyncQueue # <<>>,
         asyncQueue' = Tail(asyncQueue), Lo!SetAddress(Head(asyncQueue)),
         UNCHANGED <<hasHistory, counter, digest, trouble>>
  PROVE  LocationInv' /\ EntryOnlyIfAsked
<1>1. PICK job : job = Head(asyncQueue)
  OBVIOUS
<1>2. /\ LocationT /\ job \in JobT /\ job = asyncQueue[1] /\ job.kind = "watch"
      /\ asyncQueue' \in Seq(JobT) /\ (Len(asyncQueue) = 1 => asyncQueue' = <<>>)
  BY <1>1 DEF LocationInv, LocationT, Lo!SetAddress
<1>3. /\ job.url \in UrlT /\ Lo!Parsed(job.url) \in PlainT /\ job.replace \in BOOLEAN
      /\ job.url.form = "plain" => Lo!Parsed(job.url) = job.url
      /\ location \in [url : PlainT, replace : BOOLEAN] /\ changes \in Nat
      /\ location.url \in UrlT /\ location.url.form = "plain"
      /\ Lo!Parsed(location.url) = location.url
      /\ seen \in UrlT /\ event \in BOOLEAN
  BY <1>2, ParsedIs DEF JobT, LocationT, PlainT
<1>4. ASSUME trouble = {}
      PROVE  /\ Digests /\ (~entry => Lo!Told.form = "plain")
             /\ job.url = Lo!Told /\ seen = Lo!Told /\ asyncQueue' = <<>> /\ ~EventIsNext
  <2>1. Digests /\ (~entry => Lo!Told.form = "plain")
    BY <1>4 DEF LocationInv, Calm
  <2> QED
    BY <1>2, <2>1 DEF Digests, EventIsNext
<1>5. CASE /\ location' = IF Lo!Throws(job.url) THEN location
                          ELSE [location EXCEPT !.url = Lo!Parsed(job.url)]
           /\ UNCHANGED <<history, at, event, seen, replaced, announced, changes, entry>>
  <2>1. /\ location' \in [url : PlainT, replace : BOOLEAN]
        /\ ~Lo!Throws(job.url) => location'.url = Lo!Parsed(job.url)
    BY <1>3, <1>5
  <2>4. UNCHANGED <<history, at, event, seen, replaced, announced, changes, entry>>
    BY <1>5
  <2>2. LocationT' /\ Lo!Told' = Lo!Told
    BY <1>2, <2>1, <2>4 DEF LocationT, Lo!Told, Lo!Href
  <2>3. trouble = {} => Calm'
    BY <1>3, <1>4, <1>5, <2>1, <2>2 DEF Calm, Digests, EventIsNext, Lo!Throws
  <2> QED
    BY <1>2, <1>5, <2>2, <2>3, NoEntryYet DEF LocationInv
<1>6. CASE /\ Lo!BrowserUrl(location.url, job.replace, seen, event) /\ Lo!Succeed(location.url)
           /\ entry' = FALSE
  <2>1. /\ history' \in Seq(UrlT) /\ at' \in DOMAIN history' /\ event' \in BOOLEAN
        /\ seen' = location.url /\ replaced' \in PlainT \cup {Lo!Nowhere}
        /\ hasHistory => replaced' = Lo!Nowhere
        /\ seen = location.url => UNCHANGED <<history, at, replaced>> /\ event' = event
        /\ seen # location.url => Lo!Told' = location.url
        /\ at' > at => ~job.replace /\ seen # location.url
    BY <1>2, <1>3, <1>6, BrowserUrlIs
  <2>2. /\ location' \in [url : PlainT, replace : BOOLEAN] /\ changes' \in Nat
        /\ announced' = location.url
        /\ location'.url = location.url \/ location'.replace
    BY <1>3, <1>6, SucceedIs
  <2>3. LocationT'
    BY <1>2, <1>3, <1>6, <2>1, <2>2 DEF LocationT
  <2>4. trouble = {} => Lo!Told' = location.url
    BY <1>4, <2>1 DEF Lo!Told, Lo!Href
  <2>5. trouble = {} => Calm'
    BY <1>3, <1>4, <1>6, <2>1, <2>2, <2>4 DEF Calm, Digests, EventIsNext
  <2>6. EntryOnlyIfAsked
    BY <1>2, <1>4, <2>1 DEF EntryOnlyIfAsked, Digests
  <2> QED
    BY <2>3, <2>5, <2>6 DEF LocationInv
<1> QED
  BY <1>1, <1>5, <1>6 DEF Lo!SetAddress

\* The watcher of $location: what differs is left to an expression.
LEMMA LocationWatchKeeps ==
  ASSUME LocationInv, Lo!LocationWatch
  PROVE  LocationInv' /\ at' = at
<1>1. PICK differs, value :
        /\ differs = (counter.value = 0 \/ Lo!Told # location.url)
        /\ value = counter.value + IF differs THEN 1 ELSE 0
  OBVIOUS
<1>2. /\ digest.on /\ digest.stage = "async" /\ asyncQueue = <<>>
      /\ counter' = [value |-> value, last |-> value]
      /\ asyncQueue' = IF differs
                       THEN <<[kind |-> "watch", url |-> Lo!Told, replace |-> location.replace]>>
                       ELSE <<>>
      /\ location' = [location EXCEPT !.replace = FALSE]
      /\ digest' = [digest EXCEPT !.stage = "others", !.dirty = value # counter.last]
      /\ trouble' = trouble \cup IF seen # Lo!Told THEN {"overtaken"} ELSE {}
      /\ UNCHANGED <<hasHistory, history, at, event, seen, replaced, announced, changes, entry>>
  BY <1>1 DEF Lo!LocationWatch
<1>3. LocationT /\ Lo!Told \in UrlT /\ Lo!Told' = Lo!Told
  BY <1>2, ToldIs DEF LocationInv, Lo!Told, Lo!Href
<1>4. /\ location \in [url : PlainT, replace : BOOLEAN] /\ counter \in [value : Nat, last : Int]
      /\ counter.last <= counter.value
      /\ digest \in [on : BOOLEAN, stage : {"async", "others"}, dirty : BOOLEAN, ttl : 0 .. Passes]
  BY <1>3 DEF LocationT
<1>5. value \in Nat /\ (value = counter.last => ~differs)
  BY <1>1, <1>4
<1>6. [kind |-> "watch", url |-> Lo!Told, replace |-> location.replace] \in JobT
  BY <1>3, <1>4 DEF JobT
<1>7. /\ asyncQueue' \in Seq(JobT) /\ Len(asyncQueue') \in {0, 1} /\ (asyncQueue' # <<>> => differs)
      /\ asyncQueue' # <<>> => Len(asyncQueue') = 1
                               /\ asyncQueue'[1] =
                                 [kind |-> "watch", url |-> Lo!Told, replace |-> location.replace]
  BY <1>2, <1>6
<1>8. /\ location' \in [url : PlainT, replace : BOOLEAN] /\ location'.url = location.url
      /\ counter' \in [value : Nat, last : Int] /\ counter'.last <= counter'.value
      /\ digest' \in [on : BOOLEAN, stage : {"async", "others"}, dirty : BOOLEAN, ttl : 0 .. Passes]
      /\ digest'.on /\ digest'.stage = "others" /\ (digest'.dirty <=> value # counter.last)
  <2>1. /\ location' = [location EXCEPT !.replace = FALSE]
        /\ counter' = [value |-> value, last |-> value]
    BY <1>2
  <2>4. location' \in [url : PlainT, replace : BOOLEAN] /\ location'.url = location.url
    BY <1>4, <2>1
  <2>5. counter' \in [value : Nat, last : Int] /\ counter'.last <= counter'.value
    BY <1>5, <2>1
  <2>2. PICK d \in BOOLEAN : d <=> value # counter.last
    OBVIOUS
  <2>3. digest' = [digest EXCEPT !.stage = "others", !.dirty = d]
    BY <1>2, <2>2
  <2> QED
    BY <1>2, <1>4, <2>2, <2>3, <2>4, <2>5
<1>9. LocationT'
  BY <1>2, <1>3, <1>7, <1>8 DEF LocationT
<1>10. ASSUME trouble' = {} PROVE Calm'
  <2>1. trouble = {} /\ seen = Lo!Told
    BY <1>2, <1>10
  <2>2. Digests /\ (~entry => Lo!Told.form = "plain")
    BY <1>2, <2>1 DEF LocationInv, Calm
  <2>3. ~digest'.dirty => location'.url = Lo!Told
    BY <1>1, <1>5, <1>8
  <2>4. location.url # Lo!Told => asyncQueue' # <<>>
    BY <1>1, <1>2
  <2> QED
    BY <1>2, <1>3, <1>7, <1>8, <2>1, <2>2, <2>3, <2>4 DEF Calm, Digests, EventIsNext
<1> QED
  BY <1>2, <1>9, <1>10 DEF LocationInv

LEMMA EndPassKeeps ==
  ASSUME LocationInv, Lo!EndPass
  PROVE  LocationInv' /\ at' = at
<1>1. /\ LocationT /\ digest.on /\ digest.stage = "others"
      /\ UNCHANGED <<hasHistory, history, at, event, seen, replaced, location, asyncQueue, counter,
                     announced, changes, entry>>
  BY DEF LocationInv, Lo!EndPass
<1>2. digest \in [on : BOOLEAN, stage : {"async", "others"}, dirty : BOOLEAN, ttl : 0 .. Passes]
      /\ Lo!Told' = Lo!Told
  BY <1>1 DEF LocationT, Lo!Told, Lo!Href
<1>3. Lo!Stopped \in [on : BOOLEAN, stage : {"async", "others"}, dirty : BOOLEAN, ttl : 0 .. Passes]
      /\ ~Lo!Stopped.on
  <2>1. Lo!Running \in
          [on : BOOLEAN, stage : {"async", "others"}, dirty : BOOLEAN, ttl : 0 .. Passes]
    BY PagesAssumption DEF Lo!Running
  <2> QED
    BY <2>1 DEF Lo!Stopped
<1>4. CASE digest.dirty /\ digest.ttl = 0
  <2>1. digest' = Lo!Stopped /\ trouble' = trouble \cup {"aborted"}
    BY <1>4 DEF Lo!EndPass
  <2> QED
    BY <1>1, <1>3, <2>1 DEF LocationInv, LocationT
<1>5. CASE ~(digest.dirty /\ digest.ttl = 0) /\ ~digest.dirty /\ asyncQueue = <<>>
  <2>1. digest' = Lo!Stopped /\ UNCHANGED trouble
    BY <1>5 DEF Lo!EndPass
  <2>2. ASSUME trouble = {} PROVE Calm'
    <3>1. Digests /\ (~entry => Lo!Told.form = "plain")
      BY <1>1, <2>2 DEF LocationInv, Calm
    <3>2. location.url = Lo!Told /\ seen = Lo!Told /\ ~EventIsNext
      BY <1>1, <1>5, <3>1 DEF Digests
    <3>3. location.url \in UrlT /\ location.url.form = "plain"
      BY <1>1 DEF LocationT, PlainT
    <3>4. announced # Lo!Nowhere => announced = location.url
      BY <3>1, <3>2, <3>3, ParsedIs DEF Digests, Lo!Throws
    <3> QED
      BY <1>1, <1>2, <1>3, <1>5, <2>1, <3>1, <3>2, <3>4 DEF Calm, Rests
  <2> QED
    BY <1>1, <1>3, <2>1, <2>2 DEF LocationInv, LocationT
<1>6. CASE ~(digest.dirty /\ digest.ttl = 0) /\ ~(~digest.dirty /\ asyncQueue = <<>>)
  <2>1. /\ digest' = [digest EXCEPT !.stage = "async", !.dirty = FALSE,
                                    !.ttl = IF digest.dirty THEN @ - 1 ELSE @]
        /\ UNCHANGED trouble
    BY <1>6 DEF Lo!EndPass
  <2>2. digest' \in [on : BOOLEAN, stage : {"async", "others"}, dirty : BOOLEAN, ttl : 0 .. Passes]
        /\ digest'.on /\ digest'.stage = "async"
    <3>1. PICK ttl : ttl = IF digest.dirty THEN digest.ttl - 1 ELSE digest.ttl
      OBVIOUS
    <3>2. /\ digest \in
               [on : BOOLEAN, stage : {"async", "others"}, dirty : BOOLEAN, ttl : 0 .. Passes]
          /\ digest.ttl \in 0 .. Passes /\ Passes \in Nat
      BY <1>1, PagesAssumption DEF LocationT
    <3>3. ttl \in 0 .. Passes
      BY <1>6, <3>1, <3>2
    <3>4. digest' = [digest EXCEPT !.stage = "async", !.dirty = FALSE, !.ttl = ttl]
      BY <2>1, <3>1
    <3> QED
      BY <1>1, <3>2, <3>3, <3>4
  <2>5. UNCHANGED trouble
    BY <2>1
  <2>3. LocationT'
    BY <1>1, <2>2, <2>5 DEF LocationT
  <2>4. ASSUME trouble = {} PROVE Calm'
    <3>1. Digests /\ (~entry => Lo!Told.form = "plain")
      BY <1>1, <2>4 DEF LocationInv, Calm
    <3> QED
      BY <1>1, <1>2, <2>2, <3>1 DEF Calm, Digests, EventIsNext
  <2> QED
    BY <1>1, <2>3, <2>4, <2>5 DEF LocationInv
<1> QED
  BY <1>4, <1>5, <1>6

LEMMA LocationStep ==
  ASSUME LocationInv, Lo!LoNext
  PROVE  LocationInv' /\ EntryOnlyIfAsked
<1>1. LocationT
  BY DEF LocationInv
<1>2. CASE \E to \in DOMAIN history : Lo!Go(to)
  BY <1>2, GoKeeps
<1>3. CASE \E url \in OpenedUrls : Lo!Open(url)
  BY <1>3, OpenUrlKeeps
<1>4. CASE Lo!UrlChanged
  BY <1>4, UrlChangedKeeps
<1>5. CASE \E replace \in BOOLEAN : Lo!ApplyChange(replace) \/ Lo!WatcherChanges(replace)
  BY <1>5, ApplyChangeKeeps, WatcherKeeps
<1>6. CASE Lo!Apply
  BY <1>6, ApplyKeeps
<1>7. CASE Lo!RunAsync
  BY <1>1, <1>7, ParseEventKeeps, SetAddressKeeps, NoEntryYet DEF Lo!RunAsync
<1>8. CASE Lo!LocationWatch
  BY <1>1, <1>8, LocationWatchKeeps, NoEntryYet
<1>9. CASE Lo!EndPass
  BY <1>1, <1>9, EndPassKeeps, NoEntryYet
<1> QED
  BY <1>2, <1>3, <1>4, <1>5, <1>6, <1>7, <1>8, <1>9 DEF Lo!LoNext

LEMMA LocationShows ==
  LocationInv => Lo!LoTypeOK /\ Lo!AddressInStep /\ Lo!ChangeAnnounced
<1> SUFFICES ASSUME LocationInv PROVE Lo!LoTypeOK /\ Lo!AddressInStep /\ Lo!ChangeAnnounced
  OBVIOUS
<1>1. LocationT
  BY DEF LocationInv
<1>2. Lo!LoTypeOK
  BY <1>1 DEF LocationT, PlainT, Lo!LoTypeOK
<1>3. Lo!Settled => Rests
  BY DEF Lo!Settled, LocationInv, Calm
<1>4. replaced = Lo!Nowhere => Lo!Told = Lo!Href
  BY DEF Lo!Told
<1> QED
  BY <1>2, <1>3, <1>4 DEF Rests, Lo!Settled, Lo!AddressInStep, Lo!ChangeAnnounced

-----------------------------------------------------------------------------
(* The route *)

ParamsT == [receiver : {Ro!Empty, "1"}, search : Ro!Searches]
RouteAtT ==
  [number : Nat, route : {"none", "receivers", "tags", "tag", "slash", "otherwise"},
   params : ParamsT]
WaitT == [by : {"view", "include"}, number : Nat]
SourceT == Ro!Templates \cup {"none"}
IncludeT == [source : SourceT, content : SourceT, number : Nat]
BackT == [current : RouteAtT, routeParams : ParamsT,
          templates : [Ro!Templates -> {"absent", "asked", "here"}],
          waits : [Ro!Templates -> Seq(WaitT)],
          failed : BOOLEAN, view : Nat, viewed : ParamsT, include : IncludeT, moves : Nat]
PlaceT == [path : Ro!Paths \cup {Ro!Empty}, search : Ro!Searches]

Waits(waiting, by, number) ==
  \E i \in DOMAIN waiting : waiting[i].by = by /\ waiting[i].number = number
Awaits(b, by, number) == \E t \in Ro!Templates : Waits(b.waits[t], by, number)

\* What waits is not ahead of what it waits for; and who waits as the ngInclude of the
\* last change waits for its source.
InTime(w, t, b) ==
  /\ w.by = "view" => w.number \in 1 .. b.moves
  /\ w.by = "include" => /\ w.number <= b.include.number
                         /\ w.number = b.include.number => t = b.include.source

Shown(b) == b.routeParams = b.current.params /\ b.viewed.receiver = b.current.params.receiver

\* The page follows the address: it is redirected (r), shows its route or waits for it.
Follows(b, a) ==
  /\ b.current.route = Ro!RouteOf(a.path) /\ b.current.route # "slash"
  /\ b.current.route # "none" => /\ b.current.params = Ro!ParamsOf(a.path, a.search)
                                 /\ b.current.number # 0
  /\ b.current.number # b.view => Awaits(b, "view", b.current.number) \/ b.failed

Leads(b, a) ==
  /\ b.view = 0 /\ b.current.route \in Ro!Redirections /\ b.moves < MaxMoves
  /\ Ro!RouteOf(a.path) \in {"receivers", "tags"}

RouteCore(b, a) ==
  /\ b \in BackT /\ a \in PlaceT
  /\ b.moves <= MaxMoves /\ b.include.number <= MaxMoves
  /\ b.view <= b.moves /\ b.current.number <= b.moves
  /\ b.view = b.current.number /\ b.view # 0 => Shown(b)
  /\ Awaits(b, "include", b.include.number) \/ b.include.content \in {b.include.source, "none"}
  /\ \A t \in Ro!Templates : \A i \in DOMAIN b.waits[t] : InTime(b.waits[t][i], t, b)

RouteOK(b, a, r) ==
  /\ RouteCore(b, a)
  /\ r => Leads(b, a)
  /\ ~r => Follows(b, a)

RouteInv ==
  /\ otherwise \in BOOLEAN /\ reloadOnSearch \in BOOLEAN /\ redirecting \in BOOLEAN
  /\ otherwise => address.path # "/x"
  /\ RouteOK(Ro!Now, address, redirecting)

ViewKept ==
  /\ view # 0 /\ view' = 0 => current'.route \in {"none"} \cup Ro!Redirections
  /\ redirecting /\ ~redirecting' /\ templates[Ro!TemplateOf(Ro!RouteOf(address.path))] = "here"
       => view' = current'.number /\ view' # 0

LEMMA BecomeIs ==
  ASSUME NEW b \in BackT, Ro!Become(b)
  PROVE  Ro!Now' = b
BY DEF Ro!Become, Ro!Now, BackT

LEMMA NowIs ==
  /\ Ro!Now.current = current /\ Ro!Now.routeParams = routeParams /\ Ro!Now.templates = templates
  /\ Ro!Now.waits = waits /\ Ro!Now.failed = failed /\ Ro!Now.view = view
  /\ Ro!Now.viewed = viewed /\ Ro!Now.include = include /\ Ro!Now.moves = moves
BY DEF Ro!Now

LEMMA RouteBegins == Ro!RoInit => RouteInv
<1> SUFFICES ASSUME Ro!RoInit PROVE RouteInv
  OBVIOUS
<1>1. Ro!NoParams \in ParamsT /\ Ro!Empty \in Ro!Searches
  BY DEF Ro!NoParams, ParamsT, Ro!Searches
<1>2. Ro!NoRoute \in RouteAtT /\ Ro!NoRoute.number = 0 /\ Ro!NoRoute.route = "none"
  BY <1>1 DEF Ro!NoRoute, RouteAtT
<1>3. Ro!RouteOf(Ro!Empty) = "none"
  <2>1. /\ Ro!Empty # "/receivers" /\ Ro!Empty # "/tags" /\ Ro!Empty # "/tags/1"
        /\ Ro!Empty # "/tags/"
    BY Zenon DEF Ro!Empty
  <2> QED
    BY <2>1 DEF Ro!RouteOf
<1>4. Ro!Now \in BackT
  <2>1. <<>> \in Seq(WaitT)
    OBVIOUS
  <2>2. [t \in Ro!Templates |-> <<>>] \in [Ro!Templates -> Seq(WaitT)]
    BY <2>1
  <2>3. [source |-> "none", content |-> "none", number |-> 0] \in IncludeT
    BY DEF IncludeT, SourceT
  <2> QED
    BY <1>1, <1>2, <2>2, <2>3 DEF Ro!RoInit, Ro!Now, BackT
<1>5. address \in PlaceT /\ address.path = Ro!Empty /\ redirecting = FALSE
  BY <1>1 DEF Ro!RoInit, PlaceT
<1>6. Ro!Empty # "/x"
  BY Zenon DEF Ro!Empty
<1>7. Follows(Ro!Now, address)
  BY <1>2, <1>3, <1>5, NowIs DEF Follows, Ro!RoInit
<1> QED
  <2>1. RouteCore(Ro!Now, address)
    BY <1>2, <1>4, <1>5, NowIs, PagesAssumption DEF RouteCore, Ro!RoInit
  <2>2. RouteOK(Ro!Now, address, redirecting)
    BY <1>5, <1>7, <2>1 DEF RouteOK
  <2> QED
    BY <1>5, <1>6, <2>2 DEF RouteInv, Ro!RoInit

LEMMA RouteStutter == RouteInv /\ UNCHANGED Ro!roVars => RouteInv' /\ ViewKept
<1> SUFFICES ASSUME RouteInv, UNCHANGED Ro!roVars PROVE RouteInv' /\ ViewKept
  OBVIOUS
<1>1. Ro!Now' = Ro!Now /\ address' = address /\ view' = view
      /\ otherwise' = otherwise /\ reloadOnSearch' = reloadOnSearch
      /\ redirecting' = redirecting
  BY DEF Ro!Now, Ro!roVars
<1> QED
  BY <1>1 DEF RouteInv, RouteOK, RouteCore, ViewKept

LEMMA RouteShows == RouteInv => Ro!RoTypeOK /\ Ro!ViewFollowsRoute /\ Ro!IncludeFollowsSource
<1> SUFFICES ASSUME RouteInv PROVE Ro!RoTypeOK /\ Ro!ViewFollowsRoute /\ Ro!IncludeFollowsSource
  OBVIOUS
<1>1. \A by, number : Awaits(Ro!Now, by, number) <=> Ro!Awaited(by, number)
  BY NowIs DEF Awaits, Waits, Ro!Awaited
<1>2. Ro!Now \in BackT /\ address \in PlaceT
      /\ RouteOK(Ro!Now, address, redirecting)
  BY DEF RouteInv, RouteOK, RouteCore
<1>3. Ro!RoTypeOK
  <2>1. otherwise \in BOOLEAN /\ reloadOnSearch \in BOOLEAN /\ failed \in BOOLEAN
        /\ redirecting \in BOOLEAN
    BY <1>2, NowIs DEF RouteInv, BackT
  <2>2. address.path \in Ro!Paths \cup {Ro!Empty} /\ address.search \in Ro!Searches
    BY <1>2 DEF PlaceT
  <2>3. moves \in 0 .. MaxMoves /\ view \in 0 .. moves
    BY <1>2, NowIs, PagesAssumption DEF RouteOK, RouteCore, BackT
  <2>4. current.route \in {"none", "receivers", "tags", "tag"} \cup Ro!Redirections
        /\ current.number \in 0 .. moves
    BY <1>2, NowIs DEF RouteOK, RouteCore, BackT, RouteAtT, Ro!Redirections
  <2>5. templates \in [Ro!Templates -> {"absent", "asked", "here"}]
    BY <1>2, NowIs DEF BackT
  <2>6. \A t \in Ro!Templates : \A i \in DOMAIN waits[t] : waits[t][i].by \in {"view", "include"}
    <3>1. waits \in [Ro!Templates -> Seq(WaitT)]
      BY <1>2, NowIs DEF BackT
    <3>2. \A q \in Seq(WaitT) : \A i \in DOMAIN q : q[i] \in WaitT
      OBVIOUS
    <3>3. \A w \in WaitT : w.by \in {"view", "include"}
      BY DEF WaitT
    <3> QED
      BY <3>1, <3>2, <3>3
  <2>7. include.content \in Ro!Templates \cup {"none"} /\ include.number \in 0 .. MaxMoves
    BY <1>2, NowIs, PagesAssumption DEF RouteOK, RouteCore, BackT, IncludeT, SourceT
  <2> QED
    BY <2>1, <2>2, <2>3, <2>4, <2>5, <2>6, <2>7 DEF Ro!RoTypeOK
<1>4. Ro!ViewFollowsRoute
  <2>1. redirecting \in BOOLEAN /\ (otherwise => address.path # "/x")
    BY DEF RouteInv
  <2>2. CASE redirecting
    <3>1. Leads(Ro!Now, address)
      BY <1>2, <2>2 DEF RouteOK, RouteCore
    <3> QED
      BY <2>1, <2>2, <3>1, NowIs DEF Leads, Ro!ViewFollowsRoute
  <2>3. CASE ~redirecting
    <3>1. Follows(Ro!Now, address)
      BY <1>2, <2>3 DEF RouteOK, RouteCore
    <3>2. current.route \notin Ro!Redirections
      BY <3>1, NowIs DEF Follows, Ro!RouteOf, Ro!Redirections
    <3>3. view = current.number /\ view # 0 => /\ routeParams = current.params
                                              /\ viewed.receiver = current.params.receiver
      BY <1>2, NowIs DEF RouteOK, RouteCore, Shown
    <3> QED
      BY <1>1, <2>1, <2>3, <3>1, <3>2, <3>3, NowIs DEF Follows, Ro!ViewFollowsRoute
  <2> QED
    BY <2>2, <2>3
<1>5. Ro!IncludeFollowsSource
  BY <1>1, <1>2, NowIs DEF RouteOK, RouteCore, Ro!IncludeFollowsSource
<1> QED
  BY <1>3, <1>4, <1>5

LEMMA Inductive ==
  ASSUME NEW S, 0 \in S, NEW N \in Nat, \A n \in 0 .. N - 1 : n \in S => n + 1 \in S
  PROVE  0 .. N \subseteq S
<1> DEFINE Missing == {n \in 0 .. N : n \notin S}
<1> SUFFICES ASSUME Missing # {} PROVE FALSE
  OBVIOUS
<1>0. Missing \in SUBSET Nat
  OBVIOUS
<1>1. PICK m \in Missing : \A k \in Missing : m <= k
  BY <1>0, LeastOfAny
<1>2. m \in 0 .. N /\ m # 0 /\ m - 1 \in 0 .. N - 1 /\ m - 1 \notin Missing /\ (m - 1) + 1 = m
  BY <1>1
<1>3. (m - 1) + 1 \in S
  BY <1>2
<1> QED
  BY <1>2, <1>3

\* Whoever waits first is told.
Turn(b, w, template, came) == IF came THEN Ro!Come(b, w, template) ELSE Ro!Missed(b, w)

Telling(f, b, waiting, template, came, n) ==
  f = [i \in 0 .. n |-> IF i = 0 THEN b ELSE Turn(f[i - 1], waiting[i], template, came)]

LEMMA TellingIs ==
  ASSUME NEW b, NEW waiting, NEW template, NEW came, NEW n \in Nat
  PROVE  \E f : Telling(f, b, waiting, template, came, n)
<1> DEFINE S == {k \in 0 .. n : \E f : Telling(f, b, waiting, template, came, k)}
<1>1. 0 \in S
  <2> DEFINE f == [i \in 0 .. 0 |-> b]
  <2>1. f = [i \in 0 .. 0 |-> IF i = 0 THEN b ELSE Turn(f[i - 1], waiting[i], template, came)]
    OBVIOUS
  <2>2. Telling(f, b, waiting, template, came, 0)
    BY <2>1, Zenon DEF Telling
  <2>3. 0 \in 0 .. n
    OBVIOUS
  <2> HIDE DEF f
  <2> QED
    BY <2>2, <2>3
<1>2. ASSUME NEW k \in 0 .. n - 1, k \in S PROVE k + 1 \in S
  <2>1. PICK f : f = [i \in 0 .. k |-> IF i = 0 THEN b
                                        ELSE Turn(f[i - 1], waiting[i], template, came)]
    BY <1>2 DEF Telling
  <2> DEFINE g == [i \in 0 .. k + 1 |-> IF i = 0 THEN b
                                        ELSE Turn(f[i - 1], waiting[i], template, came)]
  <2>2. \A i \in 0 .. k : g[i] = f[i]
    <3> SUFFICES ASSUME NEW i \in 0 .. k PROVE g[i] = f[i]
      OBVIOUS
    <3>1. f[i] = IF i = 0 THEN b ELSE Turn(f[i - 1], waiting[i], template, came)
      BY <2>1, Zenon
    <3>2. i \in 0 .. k + 1
      OBVIOUS
    <3> QED
      BY <3>1, <3>2, Zenon
  <2>3. \A i \in 0 .. k + 1 :
          g[i] = IF i = 0 THEN b ELSE Turn(g[i - 1], waiting[i], template, came)
    <3> SUFFICES ASSUME NEW i \in 0 .. k + 1
                 PROVE  g[i] = IF i = 0 THEN b ELSE Turn(g[i - 1], waiting[i], template, came)
      OBVIOUS
    <3>1. CASE i = 0
      BY <3>1
    <3>2. CASE i # 0
      <4>1. i - 1 \in 0 .. k
        BY <3>2
      <4>2. g[i - 1] = f[i - 1]
        BY <2>2, <4>1, Zenon
      <4>3. g[i] = Turn(f[i - 1], waiting[i], template, came)
        BY <3>2, Zenon
      <4> QED
        BY <3>2, <4>2, <4>3, Zenon
    <3> QED
      BY <3>1, <3>2
  <2>4. g = [i \in 0 .. k + 1 |-> IF i = 0 THEN b ELSE Turn(g[i - 1], waiting[i], template, came)]
    BY <2>3, Zenon
  <2>5. k + 1 \in 0 .. n
    OBVIOUS
  <2> HIDE DEF g
  <2> QED
    BY <2>4, <2>5, Zenon DEF Telling
<1>3. 0 .. n \subseteq S
  BY <1>1, <1>2, Inductive
<1> QED
  BY <1>3

LEMMA ToldTurns ==
  ASSUME NEW b, NEW waiting, Len(waiting) \in Nat, NEW template, NEW came
  PROVE  \E f : /\ f[0] = b
                /\ \A k \in 0 .. Len(waiting) - 1 :
                     f[k + 1] = Turn(f[k], waiting[k + 1], template, came)
                /\ Ro!Told(b, waiting, template, came) = f[Len(waiting)]
<1> DEFINE n == Len(waiting)
           g == CHOOSE f : Telling(f, b, waiting, template, came, n)
<1>1. Ro!Told(b, waiting, template, came) = g[n]
  BY Zenon DEF Ro!Told, Telling, Turn
<1>2. Telling(g, b, waiting, template, came, n)
  BY TellingIs, Zenon
<1> HIDE DEF g
<1>3. \A i \in 0 .. n : g[i] = IF i = 0 THEN b ELSE Turn(g[i - 1], waiting[i], template, came)
  BY <1>2, Zenon DEF Telling
<1>4. g[0] = b
  BY <1>3
<1>5. ASSUME NEW k \in 0 .. n - 1 PROVE g[k + 1] = Turn(g[k], waiting[k + 1], template, came)
  <2>1. k + 1 \in 0 .. n /\ k + 1 # 0 /\ (k + 1) - 1 = k
    OBVIOUS
  <2> QED
    BY <1>3, <2>1, Zenon
<1> QED
  BY <1>1, <1>4, <1>5

\* What telling k of those who wait leaves as it is, and makes good.
Kept(b, c, waiting, k) ==
  /\ c \in BackT
  /\ c.current = b.current /\ c.templates = b.templates /\ c.waits = b.waits /\ c.moves = b.moves
  /\ c.include.source = b.include.source /\ c.include.number = b.include.number
  /\ c.view \in {b.view, b.current.number} /\ (b.failed => c.failed)
  /\ b.view = b.current.number => c.view = b.view
  /\ Waits(SubSeq(waiting, 1, k), "view", b.current.number) => c.view = b.current.number \/ c.failed
  /\ (b.view = b.current.number /\ b.view # 0 => Shown(b)) =>
       (c.view = c.current.number /\ c.view # 0 => Shown(c))
  /\ b.include.content \in {b.include.source, "none"} \/
     Waits(SubSeq(waiting, 1, k), "include", b.include.number) =>
       c.include.content \in {c.include.source, "none"}

LEMMA WaitsNext ==
  ASSUME NEW waiting \in Seq(WaitT), NEW k \in 0 .. Len(waiting) - 1, NEW by, NEW number,
         Waits(SubSeq(waiting, 1, k + 1), by, number)
  PROVE  \/ Waits(SubSeq(waiting, 1, k), by, number)
         \/ waiting[k + 1].by = by /\ waiting[k + 1].number = number
<1>1. PICK i \in DOMAIN SubSeq(waiting, 1, k + 1) :
        SubSeq(waiting, 1, k + 1)[i].by = by /\ SubSeq(waiting, 1, k + 1)[i].number = number
  BY DEF Waits
<1>2. i \in 1 .. k + 1 /\ SubSeq(waiting, 1, k + 1)[i] = waiting[i]
  BY <1>1
<1>3. CASE i = k + 1
  BY <1>1, <1>2, <1>3
<1>4. CASE i \in 1 .. k
  <2>1. i \in DOMAIN SubSeq(waiting, 1, k) /\ SubSeq(waiting, 1, k)[i] = waiting[i]
    BY <1>4
  <2> QED
    BY <1>1, <1>2, <2>1 DEF Waits
<1> QED
  BY <1>2, <1>3, <1>4

LEMMA TurnKeeps ==
  ASSUME NEW b \in BackT, NEW c, NEW waiting \in Seq(WaitT), NEW k \in 0 .. Len(waiting) - 1,
         NEW template \in Ro!Templates, NEW came \in BOOLEAN,
         Kept(b, c, waiting, k), InTime(waiting[k + 1], template, b)
  PROVE  Kept(b, Turn(c, waiting[k + 1], template, came), waiting, k + 1)
<1> DEFINE w == waiting[k + 1]
           d == Turn(c, w, template, came)
           was(by, number) == Waits(SubSeq(waiting, 1, k), by, number)
           has(by, number) == Waits(SubSeq(waiting, 1, k + 1), by, number)
<1> SUFFICES Kept(b, d, waiting, k + 1)
  OBVIOUS
<1>1. w \in WaitT /\ w.by \in {"view", "include"} /\ w.number \in Nat
  <2>1. w \in WaitT
    OBVIOUS
  <2> QED
    BY <2>1 DEF WaitT
<1>2. \A by, number : has(by, number) => was(by, number) \/ (w.by = by /\ w.number = number)
  BY WaitsNext
<1>3. c \in BackT /\ c.current \in RouteAtT /\ c.include \in IncludeT
      /\ c.current = b.current /\ c.include.number = b.include.number
  BY DEF Kept, BackT
<1>4. CASE d = c /\ (w.by = "view" => w.number # b.current.number)
                 /\ (w.by = "include" => w.number # b.include.number)
  <2>1. has("view", b.current.number) => was("view", b.current.number)
    BY <1>2, <1>4
  <2>2. has("include", b.include.number) => was("include", b.include.number)
    BY <1>2, <1>4
  <2> HIDE DEF d
  <2> QED
    BY <1>4, <2>1, <2>2 DEF Kept
<1>5. CASE w.by = "view" /\ w.number = b.current.number /\ came
  <2>1. d = [c EXCEPT !.routeParams = c.current.params, !.view = w.number,
                      !.viewed = c.current.params]
    BY <1>3, <1>5 DEF Turn, Ro!Come, Ro!Change
  <2>2. c.current.params \in ParamsT
    BY <1>3 DEF RouteAtT
  <2>3. d \in BackT
    BY <1>1, <1>3, <2>1, <2>2 DEF BackT
  <2>4. /\ d.current = c.current /\ d.templates = c.templates /\ d.waits = c.waits
        /\ d.moves = c.moves /\ d.include = c.include /\ d.view = b.current.number
        /\ d.failed = c.failed /\ d.routeParams = c.current.params /\ d.viewed = c.current.params
    BY <1>3, <1>5, <2>1 DEF BackT
  <2>5. has("include", b.include.number) => was("include", b.include.number)
    BY <1>2, <1>5
  <2> HIDE DEF d
  <2> QED
    BY <2>3, <2>4, <2>5 DEF Kept, Shown
<1>6. CASE w.by = "view" /\ w.number = b.current.number /\ ~came
  <2>1. d = [c EXCEPT !.failed = TRUE]
    BY <1>3, <1>6 DEF Turn, Ro!Missed
  <2>2. d \in BackT
    BY <1>3, <2>1 DEF BackT
  <2>3. /\ d.current = c.current /\ d.templates = c.templates /\ d.waits = c.waits
        /\ d.moves = c.moves /\ d.include = c.include /\ d.view = c.view /\ d.failed
        /\ d.routeParams = c.routeParams /\ d.viewed = c.viewed
    BY <1>3, <2>1 DEF BackT
  <2>4. has("include", b.include.number) => was("include", b.include.number)
    BY <1>2, <1>6
  <2> HIDE DEF d
  <2> QED
    BY <2>2, <2>3, <2>4 DEF Kept, Shown
<1>7. CASE w.by = "include" /\ w.number = b.include.number
  <2>1. PICK content \in {template, "none"} :
          d = [c EXCEPT !.include = [@ EXCEPT !.content = content]]
    <3>1. came => d = [c EXCEPT !.include = [@ EXCEPT !.content = template]]
      BY <1>3, <1>7 DEF Turn, Ro!Come, Ro!Include
    <3>2. ~came => d = [c EXCEPT !.include = [@ EXCEPT !.content = "none"]]
      BY <1>3, <1>7 DEF Turn, Ro!Missed
    <3> QED
      BY <3>1, <3>2
  <2>2. content \in SourceT
    BY DEF SourceT
  <2>3. [c.include EXCEPT !.content = content] \in IncludeT
    BY <1>3, <2>2 DEF IncludeT
  <2>4. d \in BackT
    BY <1>3, <2>1, <2>3 DEF BackT
  <2>5. /\ d.current = c.current /\ d.templates = c.templates /\ d.waits = c.waits
        /\ d.moves = c.moves /\ d.view = c.view /\ d.failed = c.failed
        /\ d.routeParams = c.routeParams /\ d.viewed = c.viewed
        /\ d.include.source = c.include.source /\ d.include.number = c.include.number
        /\ d.include.content = content
    BY <1>3, <2>1 DEF BackT, IncludeT
  <2>6. template = b.include.source
    BY <1>7 DEF InTime
  <2>7. has("view", b.current.number) => was("view", b.current.number)
    BY <1>2, <1>7
  <2> HIDE DEF d
  <2> QED
    BY <2>1, <2>4, <2>5, <2>6, <2>7 DEF Kept, Shown
<1>8. w.by = "view" /\ w.number # b.current.number => d = c
  BY <1>3 DEF Turn, Ro!Come, Ro!Change, Ro!Missed
<1>9. w.by = "include" /\ w.number # b.include.number => d = c
  BY <1>3 DEF Turn, Ro!Come, Ro!Include, Ro!Missed
<1> QED
  BY <1>1, <1>4, <1>5, <1>6, <1>7, <1>8, <1>9

LEMMA ToldKeeps ==
  ASSUME NEW b \in BackT, NEW waiting \in Seq(WaitT), NEW template \in Ro!Templates,
         NEW came \in BOOLEAN, \A i \in DOMAIN waiting : InTime(waiting[i], template, b)
  PROVE  Kept(b, Ro!Told(b, waiting, template, came), waiting, Len(waiting))
<1> DEFINE n == Len(waiting)
<1>1. n \in Nat /\ DOMAIN waiting = 1 .. n
  OBVIOUS
<1>2. PICK f : /\ f[0] = b
               /\ \A k \in 0 .. n - 1 : f[k + 1] = Turn(f[k], waiting[k + 1], template, came)
               /\ Ro!Told(b, waiting, template, came) = f[n]
  BY <1>1, ToldTurns
<1> DEFINE S == {k \in 0 .. n : Kept(b, f[k], waiting, k)}
<1>3. 0 \in S
  <2>1. SubSeq(waiting, 1, 0) = <<>>
    OBVIOUS
  <2>2. \A by, number : ~Waits(SubSeq(waiting, 1, 0), by, number)
    BY <2>1 DEF Waits
  <2>3. Kept(b, b, waiting, 0)
    BY <2>2 DEF Kept
  <2> QED
    BY <1>1, <1>2, <2>3
<1>4. ASSUME NEW k \in 0 .. n - 1, k \in S PROVE k + 1 \in S
  <2>1. k + 1 \in DOMAIN waiting /\ k + 1 \in 0 .. n
    BY <1>1
  <2>2. Kept(b, f[k], waiting, k) /\ InTime(waiting[k + 1], template, b)
    BY <1>4, <2>1
  <2>3. Kept(b, Turn(f[k], waiting[k + 1], template, came), waiting, k + 1)
    BY <2>2, TurnKeeps, Zenon
  <2> QED
    BY <1>2, <2>1, <2>3
<1> HIDE DEF S
<1>5. 0 .. n \subseteq S
  BY <1>1, <1>3, <1>4, Inductive
<1>6. n \in 0 .. n
  BY <1>1
<1> QED
  BY <1>2, <1>5, <1>6 DEF S

LEMMA TagsParams ==
  ASSUME NEW path, NEW search, Ro!RouteOf(path) = "tags"
  PROVE  Ro!ParamsOf(path, search).receiver = Ro!Empty
<1>1. path = "/tags"
  BY DEF Ro!RouteOf
<1> QED
  BY <1>1 DEF Ro!ParamsOf

LEMMA PlaceIs ==
  ASSUME NEW path \in Ro!Paths \cup {Ro!Empty}, NEW search \in Ro!Searches
  PROVE  /\ [path |-> path, search |-> search] \in PlaceT
         /\ Ro!ParamsOf(path, search) \in ParamsT
         /\ Ro!RouteOf(path) \in {"none", "receivers", "tags", "tag", "slash"}
         /\ Ro!TemplateOf(Ro!RouteOf(path)) \in Ro!Templates
<1>1. [path |-> path, search |-> search] \in PlaceT
  BY DEF PlaceT
<1>2. Ro!ParamsOf(path, search) \in ParamsT
  BY DEF Ro!ParamsOf, ParamsT
<1>3. Ro!RouteOf(path) \in {"none", "receivers", "tags", "tag", "slash"}
  BY DEF Ro!RouteOf
<1>4. Ro!TemplateOf(Ro!RouteOf(path)) \in Ro!Templates
  BY DEF Ro!TemplateOf, Ro!Templates
<1> QED
  BY <1>1, <1>2, <1>3, <1>4

Asked(b, w, template) ==
  [b EXCEPT !.templates = [@ EXCEPT ![template] = "asked"],
            !.waits = [@ EXCEPT ![template] = Append(b.waits[template], w)]]

\* Who asks for a template that is not there waits, and nobody else stops to.
LEMMA AskedIs ==
  ASSUME NEW b \in BackT, NEW w \in WaitT, NEW template \in Ro!Templates, NEW c,
         c = Asked(b, w, template)
  PROVE  /\ c \in BackT
         /\ c.current = b.current /\ c.routeParams = b.routeParams /\ c.failed = b.failed
         /\ c.view = b.view /\ c.viewed = b.viewed /\ c.include = b.include /\ c.moves = b.moves
         /\ Awaits(c, w.by, w.number)
         /\ \A by, number : Awaits(b, by, number) => Awaits(c, by, number)
         /\ \A t \in Ro!Templates : \A i \in DOMAIN c.waits[t] :
              \/ t = template /\ c.waits[t][i] = w
              \/ i \in DOMAIN b.waits[t] /\ c.waits[t][i] = b.waits[t][i]
<1>1. PICK templates1 : templates1 = [b.templates EXCEPT ![template] = "asked"]
  OBVIOUS
<1>2. PICK waits1 : waits1 = [b.waits EXCEPT ![template] = Append(b.waits[template], w)]
  OBVIOUS
<1>3. templates1 \in [Ro!Templates -> {"absent", "asked", "here"}]
  BY <1>1 DEF BackT
<1>4. b.waits \in [Ro!Templates -> Seq(WaitT)] /\ b.waits[template] \in Seq(WaitT)
  BY DEF BackT
<1>5. waits1 \in [Ro!Templates -> Seq(WaitT)] /\ waits1[template] = Append(b.waits[template], w)
      /\ \A t \in Ro!Templates \ {template} : waits1[t] = b.waits[t]
  BY <1>2, <1>4
<1>6. c = [b EXCEPT !.templates = templates1, !.waits = waits1]
  BY <1>1, <1>2 DEF BackT, Asked
<1>7. /\ c \in BackT /\ c.waits = waits1
      /\ c.current = b.current /\ c.routeParams = b.routeParams /\ c.failed = b.failed
      /\ c.view = b.view /\ c.viewed = b.viewed /\ c.include = b.include /\ c.moves = b.moves
  BY <1>3, <1>5, <1>6 DEF BackT
<1> DEFINE q == b.waits[template]
           p == waits1[template]
<1>8. /\ Len(q) \in Nat /\ DOMAIN q = 1 .. Len(q) /\ DOMAIN p = 1 .. Len(q) + 1 /\ p[Len(q) + 1] = w
      /\ \A i \in DOMAIN q : i \in DOMAIN p /\ p[i] = q[i]
  BY <1>4, <1>5
<1> HIDE DEF p, q
<1>9. Waits(p, w.by, w.number) /\ \A by, number : Waits(q, by, number) => Waits(p, by, number)
  BY <1>8 DEF Waits
<1>10. Awaits(c, w.by, w.number)
  BY <1>7, <1>9 DEF Awaits, p
<1>11. \A by, number : Awaits(b, by, number) => Awaits(c, by, number)
  BY <1>5, <1>7, <1>9 DEF Awaits, p, q
<1>12. ASSUME NEW t \in Ro!Templates, NEW i \in DOMAIN c.waits[t]
       PROVE  \/ t = template /\ c.waits[t][i] = w
              \/ i \in DOMAIN b.waits[t] /\ c.waits[t][i] = b.waits[t][i]
  <2>1. CASE t = template
    <3>1. i \in DOMAIN p /\ c.waits[t][i] = p[i]
      BY <1>7, <1>12, <2>1 DEF p
    <3>2. i = Len(q) + 1 \/ i \in DOMAIN q
      BY <1>8, <3>1
    <3> QED
      BY <1>8, <2>1, <3>1, <3>2 DEF q
  <2>2. CASE t # template
    BY <1>5, <1>7, <1>12, <2>2
  <2> QED
    BY <2>1, <2>2
<1> QED
  BY <1>7, <1>10, <1>11, <1>12

LEMMA UpdateRouteKeeps ==
  ASSUME NEW b, NEW a, redirecting \in BOOLEAN, RouteOK(b, a, redirecting), b.moves < MaxMoves,
         NEW path \in Ro!Paths \cup {Ro!Empty}, NEW search \in Ro!Searches,
         Ro!RouteOf(path) # "slash", NEW forceReload, NEW c,
         c = Ro!UpdateRoute(b, path, search, forceReload)
  PROVE  /\ RouteCore(c, [path |-> path, search |-> search])
         /\ Follows(c, [path |-> path, search |-> search])
         /\ b.view # 0 /\ c.view = 0 => c.current.route = "none"
         /\ redirecting /\ Ro!RouteOf(path) # "none" /\ b.templates[Ro!TemplateOf(Ro!RouteOf(path))] = "here"
              => c.view = c.current.number /\ c.view # 0
<1> DEFINE route == Ro!RouteOf(path)
           params == Ro!ParamsOf(path, search)
           number == b.moves + 1
           template == Ro!TemplateOf(route)
           place == [path |-> path, search |-> search]
<1> SUFFICES /\ RouteCore(c, place) /\ Follows(c, place)
             /\ b.view # 0 /\ c.view = 0 => c.current.route = "none"
             /\ redirecting /\ route # "none" /\ b.templates[template] = "here"
                  => c.view = c.current.number /\ c.view # 0
  OBVIOUS
<1>1. /\ place \in PlaceT /\ params \in ParamsT /\ template \in Ro!Templates
      /\ route \in {"none", "receivers", "tags", "tag"}
      /\ b.templates \in [Ro!Templates -> {"absent", "asked", "here"}]
  BY PlaceIs DEF RouteOK, RouteCore, BackT
<1>2. b \in BackT /\ b.current \in RouteAtT /\ b.current.number \in Nat
      /\ b.moves \in Nat /\ b.view \in Nat /\ number \in Nat /\ number <= MaxMoves
  BY PagesAssumption DEF RouteOK, RouteCore, BackT, RouteAtT
<1>3. place.path = path /\ place.search = search
  OBVIOUS
<1>4. CASE route = "tags" /\ b.current.route = "tags" /\ ~reloadOnSearch /\ ~forceReload
  <2>0. ~redirecting /\ Follows(b, a)
    <3>1. b.current.route \notin Ro!Redirections
      BY <1>4 DEF Ro!Redirections
    <3> QED
      BY <3>1 DEF RouteOK, RouteCore, Leads
  <2>1. PICK current1 : current1 = [b.current EXCEPT !.params = params]
    OBVIOUS
  <2>2. c = [b EXCEPT !.current = current1, !.routeParams = params]
    BY <1>4, <2>1 DEF Ro!UpdateRoute
  <2>3. current1 \in RouteAtT /\ current1.number = b.current.number /\ current1.params = params
        /\ current1.route = route
    BY <1>1, <1>2, <1>4, <2>1 DEF RouteAtT
  <2>4. /\ c \in BackT /\ c.current = current1 /\ c.routeParams = params
        /\ c.templates = b.templates /\ c.waits = b.waits /\ c.failed = b.failed
        /\ c.view = b.view /\ c.viewed = b.viewed /\ c.include = b.include /\ c.moves = b.moves
    BY <1>1, <1>2, <2>2, <2>3 DEF BackT
  <2>5. b.current.params.receiver = params.receiver /\ b.current.number # 0
    <3>1. Ro!RouteOf(a.path) = "tags" /\ b.current.params = Ro!ParamsOf(a.path, a.search)
      BY <1>4, <2>0 DEF Follows
    <3> QED
      BY <1>4, <2>0, <3>1, TagsParams DEF Follows
  <2>6. \A by, n : Awaits(c, by, n) <=> Awaits(b, by, n)
    BY <2>4 DEF Awaits
  <2> HIDE DEF params, route, place
  <2> QED
    BY <1>1, <1>2, <1>3, <1>4, <2>0, <2>3, <2>4, <2>5, <2>6
       DEF RouteOK, RouteCore, Follows, Shown, InTime, params, route
<1>5. CASE route = "none"
  <2>1. c = [b EXCEPT !.current = Ro!NoRoute, !.moves = number, !.view = 0, !.failed = FALSE,
                      !.viewed = Ro!NoParams]
    BY <1>5 DEF Ro!UpdateRoute
  <2>2. Ro!NoParams \in ParamsT
    BY DEF Ro!NoParams, ParamsT, Ro!Searches
  <2>3. Ro!NoRoute \in RouteAtT /\ Ro!NoRoute.number = 0 /\ Ro!NoRoute.route = "none"
    BY <2>2 DEF Ro!NoRoute, RouteAtT
  <2> HIDE DEF route, place, params, number
  <2>4. /\ c \in BackT /\ c.current = Ro!NoRoute /\ c.view = 0 /\ c.moves = number
        /\ c.waits = b.waits /\ c.include = b.include
    <3> DEFINE d == [b EXCEPT !.current = Ro!NoRoute, !.moves = number, !.view = 0]
    <3>1. d \in BackT /\ d.current = Ro!NoRoute /\ d.view = 0 /\ d.moves = number
          /\ d.waits = b.waits /\ d.include = b.include
      BY <1>2, <2>3 DEF BackT
    <3>2. c = [d EXCEPT !.failed = FALSE, !.viewed = Ro!NoParams]
      BY <2>1
    <3> HIDE DEF d
    <3> QED
      BY <2>2, <3>1, <3>2 DEF BackT
  <2>5. \A by, n : Awaits(c, by, n) <=> Awaits(b, by, n)
    BY <2>4 DEF Awaits
  <2>6. \A t \in Ro!Templates : \A i \in DOMAIN c.waits[t] : InTime(c.waits[t][i], t, c)
    BY <1>2, <2>4 DEF RouteOK, RouteCore, InTime, number
  <2> QED
    BY <1>1, <1>2, <1>3, <1>5, <2>3, <2>4, <2>5, <2>6 DEF RouteOK, RouteCore, Follows, route
<1>6. CASE route # "none" /\ ~(/\ route = "tags" /\ b.current.route = "tags"
                               /\ ~reloadOnSearch /\ ~forceReload)
  <2> DEFINE next == [number |-> number, route |-> route, params |-> params]
             w == [by |-> "view", number |-> number]
  <2>1. PICK d : d = [b EXCEPT !.current = next, !.moves = number, !.failed = FALSE]
    OBVIOUS
  <2>2. c = Ro!Fetch(d, "view", number, template)
    BY <1>6, <2>1 DEF Ro!UpdateRoute
  <2>3. next \in RouteAtT /\ next.number = number /\ next.route = route /\ next.params = params
    BY <1>1, <1>2 DEF RouteAtT
  <2>4. w \in WaitT /\ w.by = "view" /\ w.number = number
    BY <1>2 DEF WaitT
  <2>5. /\ d \in BackT /\ d.current = next /\ d.moves = number /\ d.view = b.view
        /\ d.waits = b.waits /\ d.include = b.include /\ d.templates = b.templates
    BY <1>2, <2>1, <2>3 DEF BackT
  <2>6. \A by, n : Awaits(d, by, n) <=> Awaits(b, by, n)
    BY <2>5 DEF Awaits
  <2>7. \A t \in Ro!Templates : \A i \in DOMAIN d.waits[t] : InTime(d.waits[t][i], t, d)
    BY <1>2, <2>5 DEF RouteOK, RouteCore, InTime
  <2>8. d.include.number <= MaxMoves /\ b.view < number
        /\ \/ Awaits(d, "include", d.include.number)
           \/ d.include.content \in {d.include.source, "none"}
    BY <1>2, <2>5, <2>6 DEF RouteOK, RouteCore
  <2> HIDE DEF params, route, place, template, number, next
  <2>9. CASE d.templates[template] = "here"
    <3>1. c = [d EXCEPT !.routeParams = params, !.view = number, !.viewed = params]
      BY <2>2, <2>3, <2>4, <2>5, <2>9 DEF Ro!Fetch, Ro!Come, Ro!Change
    <3>2. /\ c \in BackT /\ c.current = next /\ c.moves = number /\ c.view = number
          /\ c.routeParams = params /\ c.viewed = params
          /\ c.waits = d.waits /\ c.include = d.include
      BY <1>1, <1>2, <2>5, <3>1 DEF BackT
    <3>3. \A by, n : Awaits(c, by, n) <=> Awaits(d, by, n)
      BY <3>2 DEF Awaits
    <3>4. \A t \in Ro!Templates : \A i \in DOMAIN c.waits[t] : InTime(c.waits[t][i], t, c)
      BY <2>5, <2>7, <3>2 DEF InTime
    <3>5. number # 0
      BY <1>2 DEF number
    <3> QED
      BY <1>1, <1>2, <1>3, <1>6, <2>3, <2>8, <3>2, <3>3, <3>4, <3>5
         DEF RouteOK, RouteCore, Follows, Shown, route, params
  <2>10. CASE d.templates[template] # "here"
    <3>1. c = Asked(d, w, template)
      BY <2>2, <2>10 DEF Ro!Fetch, Asked
    <3> HIDE DEF w
    <3>2. /\ c \in BackT /\ c.current = next /\ c.moves = number /\ c.view = b.view
          /\ c.include = d.include /\ Awaits(c, "view", number)
          /\ \A by, n : Awaits(d, by, n) => Awaits(c, by, n)
          /\ \A t \in Ro!Templates : \A i \in DOMAIN c.waits[t] :
               \/ t = template /\ c.waits[t][i] = w
               \/ i \in DOMAIN d.waits[t] /\ c.waits[t][i] = d.waits[t][i]
      <4>1. /\ c \in BackT
            /\ c.current = d.current /\ c.routeParams = d.routeParams /\ c.failed = d.failed
            /\ c.view = d.view /\ c.viewed = d.viewed /\ c.include = d.include /\ c.moves = d.moves
            /\ Awaits(c, w.by, w.number)
            /\ \A by, n : Awaits(d, by, n) => Awaits(c, by, n)
            /\ \A t \in Ro!Templates : \A i \in DOMAIN c.waits[t] :
                 \/ t = template /\ c.waits[t][i] = w
                 \/ i \in DOMAIN d.waits[t] /\ c.waits[t][i] = d.waits[t][i]
        BY <1>1, <2>4, <2>5, <3>1, AskedIs
      <4> QED
        BY <2>4, <2>5, <4>1
    <3>3. \A t \in Ro!Templates : \A i \in DOMAIN c.waits[t] : InTime(c.waits[t][i], t, c)
      <4>1. InTime(w, template, c)
        BY <1>2, <2>4, <3>2 DEF InTime, number
      <4>2. \A t \in Ro!Templates : \A i \in DOMAIN d.waits[t] : InTime(d.waits[t][i], t, c)
        BY <2>5, <2>7, <3>2 DEF InTime
      <4> QED
        BY <3>2, <4>1, <4>2
    <3>4. number # 0
      BY <1>2 DEF number
    <3>5. b.view <= number
      BY <1>2, <2>8
    <3> QED
      BY <1>1, <1>2, <1>3, <1>6, <2>3, <2>5, <2>8, <2>10, <3>2, <3>3, <3>4, <3>5
         DEF RouteOK, RouteCore, Follows, route, params
  <2> QED
    BY <2>9, <2>10
<1> QED
  BY <1>4, <1>5, <1>6

LEMMA GoneKeeps ==
  ASSUME RouteInv, NEW path \in Ro!Paths, NEW search \in Ro!Searches, Ro!Go(path, search)
  PROVE  RouteInv' /\ ViewKept
<1>0. PICK forced \in BOOLEAN : forced = FALSE
  OBVIOUS
<1>1. PICK b : b = Ro!UpdateRoute(Ro!Now, path, search, forced)
  OBVIOUS
<1>2. /\ moves < MaxMoves /\ address' = [path |-> path, search |-> search]
      /\ ~Ro!Redirects(path) /\ redirecting \in BOOLEAN /\ ~redirecting
      /\ Ro!Become(b) /\ UNCHANGED <<otherwise, reloadOnSearch, redirecting>>
  BY <1>0, <1>1 DEF Ro!Go, RouteInv
<1>3. Ro!RouteOf(path) # "slash" /\ (otherwise => path # "/x")
  BY <1>2 DEF Ro!Redirects, Ro!RouteOf
<1>4. RouteCore(b, [path |-> path, search |-> search])
      /\ Follows(b, [path |-> path, search |-> search])
      /\ (Ro!Now.view # 0 /\ b.view = 0 => b.current.route = "none")
  <2>1. /\ path \in Ro!Paths \cup {Ro!Empty} /\ redirecting \in BOOLEAN
        /\ RouteOK(Ro!Now, address, redirecting) /\ Ro!Now.moves < MaxMoves
    BY <1>2, NowIs DEF RouteInv
  <2> QED
    BY <1>1, <1>3, <2>1, UpdateRouteKeeps
<1>5. Ro!Now' = b /\ view' = b.view /\ current' = b.current
  BY <1>2, <1>4, BecomeIs DEF RouteOK, RouteCore, Ro!Become
<1>6. redirecting' = FALSE
  BY <1>2
<1>7. RouteOK(Ro!Now, address, redirecting)'
  BY <1>2, <1>4, <1>5, <1>6 DEF RouteOK
<1> QED
  BY <1>2, <1>3, <1>4, <1>5, <1>7, NowIs DEF RouteInv, ViewKept

LEMMA RedirectKeeps ==
  ASSUME RouteInv, NEW path \in Ro!Paths, NEW search \in Ro!Searches, Ro!Redirect(path, search)
  PROVE  RouteInv' /\ ViewKept
<1>1. PICK route \in Ro!Redirections : route = IF path = "/tags/" THEN "slash" ELSE "otherwise"
  BY DEF Ro!Redirections
<1>2. PICK kept \in Ro!Searches : kept = IF route = "slash" THEN search ELSE Ro!Empty
  BY DEF Ro!Searches
<1>3. PICK params \in ParamsT : params = [receiver |-> Ro!Empty, search |-> kept]
  BY DEF ParamsT
<1>4. PICK to : to = [path |-> Ro!TargetOf(path), search |-> kept]
  OBVIOUS
<1>5. PICK b : b = Ro!Leave(Ro!Now, route, params)
  OBVIOUS
<1>6. /\ moves + 1 < MaxMoves /\ redirecting' = TRUE /\ address' = to /\ ~redirecting
      /\ Ro!Become(b) /\ UNCHANGED <<otherwise, reloadOnSearch>>
  BY <1>1, <1>2, <1>3, <1>4, <1>5 DEF Ro!Redirect
<1>7. to \in PlaceT /\ to.path # "/x" /\ Ro!RouteOf(to.path) \in {"receivers", "tags"}
  BY <1>4 DEF Ro!TargetOf, PlaceT, Ro!Paths, Ro!RouteOf
<1>8. PICK a : a = Ro!Now
  OBVIOUS
<1>9. a \in BackT /\ RouteOK(a, address, redirecting) /\ a.moves = moves /\ a.moves \in Nat
  BY <1>8, NowIs DEF RouteInv, RouteOK, RouteCore, BackT
<1>10. PICK number \in Nat : number = a.moves + 1
  BY <1>9
<1>11. PICK next \in RouteAtT : next = [number |-> number, route |-> route, params |-> params]
  BY <1>1 DEF RouteAtT, Ro!Redirections
<1>12. Ro!NoParams \in ParamsT
  BY DEF Ro!NoParams, ParamsT, Ro!Searches
<1>13. b = [a EXCEPT !.current = next, !.moves = number, !.failed = FALSE,
                     !.routeParams = params, !.view = 0, !.viewed = Ro!NoParams]
  BY <1>5, <1>8, <1>10, <1>11 DEF Ro!Leave
<1>14. PICK no \in BOOLEAN : no = FALSE
  OBVIOUS
<1>15. /\ b \in BackT /\ b.current = next /\ b.view = 0 /\ b.moves = number
       /\ b.waits = a.waits /\ b.include = a.include
  <2> DEFINE d == [a EXCEPT !.current = next, !.moves = number, !.failed = no]
  <2>1. /\ d \in BackT /\ d.current = next /\ d.moves = number /\ d.waits = a.waits
        /\ d.include = a.include
    BY <1>9 DEF BackT
  <2>2. b = [d EXCEPT !.routeParams = params, !.view = 0, !.viewed = Ro!NoParams]
    BY <1>13, <1>14
  <2> HIDE DEF d
  <2> QED
    BY <1>12, <2>1, <2>2 DEF BackT
<1>16. /\ next.number = number /\ next.route = route /\ number <= MaxMoves /\ number < MaxMoves
  BY <1>6, <1>9, <1>10, <1>11, PagesAssumption
<1>17. \A by, n : Awaits(b, by, n) <=> Awaits(a, by, n)
  BY <1>15 DEF Awaits
<1>18. \A t \in Ro!Templates : \A i \in DOMAIN b.waits[t] : InTime(b.waits[t][i], t, b)
  BY <1>9, <1>10, <1>15 DEF RouteOK, RouteCore, InTime
<1>19. Leads(b, to)
  BY <1>7, <1>15, <1>16 DEF Leads
<1>20. RouteCore(b, to)
  BY <1>7, <1>9, <1>15, <1>16, <1>17, <1>18, <1>19 DEF RouteOK, RouteCore
<1>21. Ro!Now' = b /\ view' = b.view /\ current' = b.current
  BY <1>6, <1>15, BecomeIs DEF Ro!Become
<1>22. RouteOK(Ro!Now, address, redirecting)'
  BY <1>6, <1>19, <1>20, <1>21 DEF RouteOK
<1>23. ViewKept
  BY <1>6, <1>15, <1>16, <1>21 DEF ViewKept
<1> QED
  BY <1>6, <1>7, <1>22, <1>23 DEF RouteInv

LEMMA FollowKeeps ==
  ASSUME RouteInv, Ro!Follow
  PROVE  RouteInv' /\ ViewKept
<1>1. /\ address \in PlaceT /\ address.path \in Ro!Paths \cup {Ro!Empty}
      /\ address.search \in Ro!Searches
      /\ address = [path |-> address.path, search |-> address.search]
  BY DEF RouteInv, RouteOK, RouteCore, PlaceT
<1>0. PICK forced \in BOOLEAN : forced = FALSE
  OBVIOUS
<1>2. PICK b : b = Ro!UpdateRoute(Ro!Now, address.path, address.search, forced)
  OBVIOUS
<1>3. /\ redirecting \in BOOLEAN /\ redirecting /\ redirecting' = FALSE /\ Ro!Become(b)
      /\ UNCHANGED <<otherwise, reloadOnSearch, address>>
  BY <1>0, <1>2 DEF Ro!Follow, RouteInv
<1>4. Leads(Ro!Now, address)
  BY <1>3 DEF RouteInv, RouteOK, RouteCore
<1>5. Ro!RouteOf(address.path) \notin {"slash", "none"} /\ Ro!Now.moves < MaxMoves
  BY <1>4 DEF Leads
<1>6. /\ RouteCore(b, [path |-> address.path, search |-> address.search])
      /\ Follows(b, [path |-> address.path, search |-> address.search])
      /\ (Ro!Now.view # 0 /\ b.view = 0 => b.current.route = "none")
      /\ Ro!Now.templates[Ro!TemplateOf(Ro!RouteOf(address.path))] = "here"
           => b.view = b.current.number /\ b.view # 0
  <2>1. /\ redirecting \in BOOLEAN /\ RouteOK(Ro!Now, address, redirecting)
        /\ Ro!RouteOf(address.path) # "slash" /\ Ro!RouteOf(address.path) # "none"
    BY <1>3, <1>5 DEF RouteInv
  <2>2. /\ RouteCore(b, [path |-> address.path, search |-> address.search])
        /\ Follows(b, [path |-> address.path, search |-> address.search])
        /\ (Ro!Now.view # 0 /\ b.view = 0 => b.current.route = "none")
        /\ redirecting /\ Ro!RouteOf(address.path) # "none"
           /\ Ro!Now.templates[Ro!TemplateOf(Ro!RouteOf(address.path))] = "here"
             => b.view = b.current.number /\ b.view # 0
    BY <1>1, <1>2, <1>5, <2>1, UpdateRouteKeeps
  <2> QED
    BY <1>3, <2>1, <2>2
<1>7. Ro!Now' = b /\ view' = b.view /\ current' = b.current
  BY <1>3, <1>6, BecomeIs DEF RouteOK, RouteCore, Ro!Become
<1>8. RouteOK(Ro!Now, address, redirecting)'
  BY <1>1, <1>3, <1>6, <1>7 DEF RouteOK
<1> QED
  BY <1>3, <1>6, <1>7, <1>8, NowIs DEF RouteInv, ViewKept

LEMMA ReloadKeeps ==
  ASSUME RouteInv, Ro!Reload
  PROVE  RouteInv' /\ ViewKept
<1>1. /\ address \in PlaceT /\ address.path \in Ro!Paths \cup {Ro!Empty}
      /\ address.search \in Ro!Searches
      /\ address = [path |-> address.path, search |-> address.search]
  BY DEF RouteInv, RouteOK, RouteCore, PlaceT
<1>0. PICK forced \in BOOLEAN : forced = TRUE
  OBVIOUS
<1>2. PICK b : b = Ro!UpdateRoute(Ro!Now, address.path, address.search, forced)
  OBVIOUS
<1>3. /\ moves < MaxMoves /\ redirecting \in BOOLEAN /\ ~redirecting /\ Ro!Become(b)
      /\ UNCHANGED <<otherwise, reloadOnSearch, address, redirecting>>
  BY <1>0, <1>2 DEF Ro!Reload, RouteInv
<1>4. Ro!RouteOf(address.path) # "slash"
  <2>1. Follows(Ro!Now, address)
    BY <1>3 DEF RouteInv, RouteOK, RouteCore
  <2> QED
    BY <2>1 DEF Follows
<1>5. RouteCore(b, [path |-> address.path, search |-> address.search])
      /\ Follows(b, [path |-> address.path, search |-> address.search])
      /\ (Ro!Now.view # 0 /\ b.view = 0 => b.current.route = "none")
  <2>1. /\ redirecting \in BOOLEAN /\ RouteOK(Ro!Now, address, redirecting)
        /\ Ro!Now.moves < MaxMoves
    BY <1>3, NowIs DEF RouteInv
  <2> QED
    BY <1>1, <1>2, <1>4, <2>1, UpdateRouteKeeps
<1>6. Ro!Now' = b /\ view' = b.view /\ current' = b.current /\ redirecting' = FALSE
  BY <1>3, <1>5, BecomeIs DEF RouteOK, RouteCore, Ro!Become
<1>7. RouteOK(Ro!Now, address, redirecting)'
  BY <1>1, <1>3, <1>5, <1>6 DEF RouteOK
<1> QED
  BY <1>1, <1>3, <1>5, <1>6, <1>7, NowIs DEF RouteInv, ViewKept

LEMMA SetSourceKeeps ==
  ASSUME RouteInv, NEW template \in SourceT, Ro!SetSource(template)
  PROVE  RouteInv' /\ ViewKept
<1> DEFINE number == include.number + 1
           source == [include EXCEPT !.number = number, !.source = template]
           b == Ro!Now
<1>1. /\ b \in BackT /\ RouteOK(b, address, redirecting) /\ include \in IncludeT /\ include.number \in Nat
      /\ include = b.include
  BY NowIs DEF RouteInv, RouteOK, RouteCore, BackT, IncludeT
<1>2. source \in IncludeT /\ source.number = number /\ source.source = template
      /\ source.content = include.content /\ number \in Nat /\ include.number < number
  <2> DEFINE next == [include EXCEPT !.number = number]
  <2>1. number \in Nat /\ include.number < number
    BY <1>1
  <2> HIDE DEF number
  <2>2. next \in IncludeT /\ next.number = number /\ next.content = include.content
    BY <1>1, <2>1 DEF IncludeT
  <2>3. source = [next EXCEPT !.source = template]
    OBVIOUS
  <2> HIDE DEF next, source
  <2> QED
    BY <2>1, <2>2, <2>3 DEF IncludeT
<1> HIDE DEF b
<1>3. PICK d : d = [b EXCEPT !.include = source]
  OBVIOUS
<1>4. PICK c : c = IF template = "none" THEN [d EXCEPT !.include = [@ EXCEPT !.content = "none"]]
                   ELSE Ro!Fetch(d, "include", d.include.number, template)
  OBVIOUS
<1>5. /\ number <= MaxMoves /\ Ro!Become(c)
      /\ UNCHANGED <<otherwise, reloadOnSearch, address, redirecting>>
  BY <1>1, <1>3, <1>4, NowIs, PagesAssumption DEF Ro!SetSource, b
<1> HIDE DEF number, source
<1>6. /\ d \in BackT /\ d.include = source
      /\ d.current = b.current /\ d.routeParams = b.routeParams /\ d.failed = b.failed
      /\ d.view = b.view /\ d.viewed = b.viewed /\ d.moves = b.moves /\ d.waits = b.waits
  BY <1>1, <1>2, <1>3 DEF BackT
<1>7. \A t \in Ro!Templates : \A i \in DOMAIN b.waits[t] :
        /\ b.waits[t][i].number \in Nat
        /\ b.waits[t][i].by = "view" => b.waits[t][i].number \in 1 .. b.moves
        /\ b.waits[t][i].by = "include" => b.waits[t][i].number < number
  <2> SUFFICES ASSUME NEW t \in Ro!Templates, NEW i \in DOMAIN b.waits[t]
               PROVE  /\ b.waits[t][i].number \in Nat
                      /\ b.waits[t][i].by = "view" => b.waits[t][i].number \in 1 .. b.moves
                      /\ b.waits[t][i].by = "include" => b.waits[t][i].number < number
    OBVIOUS
  <2>1. b.waits[t][i] \in WaitT /\ b.waits[t][i].number \in Nat
    <3>1. b.waits[t] \in Seq(WaitT)
      BY <1>1 DEF BackT
    <3>2. b.waits[t][i] \in WaitT
      BY <3>1
    <3> QED
      BY <3>2 DEF WaitT
  <2>2. InTime(b.waits[t][i], t, b)
    BY <1>1 DEF RouteOK, RouteCore
  <2> QED
    BY <1>1, <1>2, <2>1, <2>2 DEF InTime
\* What every change of the ngInclude leaves of the route.
<1>8. ASSUME NEW e, e \in BackT, e.include \in IncludeT, e.include.number = number,
             e.current = b.current, e.routeParams = b.routeParams, e.failed = b.failed,
             e.view = b.view, e.viewed = b.viewed, e.moves = b.moves,
             Awaits(b, "view", b.current.number) => Awaits(e, "view", b.current.number),
             Awaits(e, "include", number) \/ e.include.content \in {e.include.source, "none"},
             \A t \in Ro!Templates : \A i \in DOMAIN e.waits[t] : InTime(e.waits[t][i], t, e)
      PROVE  RouteOK(e, address, redirecting)
  <2>1. redirecting => Leads(e, address)
    BY <1>1, <1>8 DEF RouteOK, RouteCore, Leads
  <2>2. ~redirecting => Follows(e, address)
    BY <1>1, <1>8 DEF RouteOK, RouteCore, Follows
  <2> QED
    BY <1>1, <1>5, <1>8, <2>1, <2>2 DEF RouteOK, RouteCore, Shown
<1>9. RouteOK(c, address, redirecting) /\ c.view = b.view
  <2>1. CASE template = "none"
    <3>1. PICK none : none = [source EXCEPT !.content = "none"]
      OBVIOUS
    <3>2. none \in IncludeT /\ none.number = number /\ none.content = "none"
      BY <1>2, <3>1 DEF IncludeT, SourceT
    <3>3. c = [d EXCEPT !.include = none]
      BY <1>4, <1>6, <2>1, <3>1
    <3>4. /\ c \in BackT /\ c.include = none
          /\ c.current = b.current /\ c.routeParams = b.routeParams /\ c.failed = b.failed
          /\ c.view = b.view /\ c.viewed = b.viewed /\ c.moves = b.moves /\ c.waits = b.waits
      BY <1>6, <3>2, <3>3 DEF BackT
    <3>5. \A by, n : Awaits(c, by, n) <=> Awaits(b, by, n)
      BY <3>4 DEF Awaits
    <3>6. \A t \in Ro!Templates : \A i \in DOMAIN c.waits[t] : InTime(c.waits[t][i], t, c)
      BY <1>7, <3>2, <3>4, <1>1, <1>2 DEF InTime
    <3> QED
      BY <1>8, <3>2, <3>4, <3>5, <3>6
  <2>2. CASE template # "none" /\ d.templates[template] = "here"
    <3>1. PICK whole : whole = [source EXCEPT !.content = template]
      OBVIOUS
    <3>2. whole \in IncludeT /\ whole.number = number /\ whole.content = template
          /\ whole.source = template
      BY <1>2, <3>1 DEF IncludeT, SourceT
    <3>3. c = [d EXCEPT !.include = whole]
      BY <1>2, <1>4, <1>6, <2>2, <3>1 DEF Ro!Fetch, Ro!Come, Ro!Include
    <3>4. /\ c \in BackT /\ c.include = whole
          /\ c.current = b.current /\ c.routeParams = b.routeParams /\ c.failed = b.failed
          /\ c.view = b.view /\ c.viewed = b.viewed /\ c.moves = b.moves /\ c.waits = b.waits
      BY <1>6, <3>2, <3>3 DEF BackT
    <3>5. \A by, n : Awaits(c, by, n) <=> Awaits(b, by, n)
      BY <3>4 DEF Awaits
    <3>6. \A t \in Ro!Templates : \A i \in DOMAIN c.waits[t] : InTime(c.waits[t][i], t, c)
      BY <1>7, <3>2, <3>4, <1>1, <1>2 DEF InTime
    <3> QED
      BY <1>8, <3>2, <3>4, <3>5, <3>6
  <2>3. CASE template # "none" /\ d.templates[template] # "here"
    <3> DEFINE w == [by |-> "include", number |-> number]
    <3>1. c = Asked(d, w, template)
      BY <1>2, <1>4, <1>6, <2>3 DEF Ro!Fetch, Asked
    <3>2. w \in WaitT /\ w.by = "include" /\ w.number = number /\ template \in Ro!Templates
      BY <1>2, <2>3 DEF WaitT, SourceT
    <3> HIDE DEF w
    <3>3. /\ c \in BackT
          /\ c.current = d.current /\ c.routeParams = d.routeParams /\ c.failed = d.failed
          /\ c.view = d.view /\ c.viewed = d.viewed /\ c.include = d.include /\ c.moves = d.moves
          /\ Awaits(c, w.by, w.number)
          /\ \A by, n : Awaits(d, by, n) => Awaits(c, by, n)
          /\ \A t \in Ro!Templates : \A i \in DOMAIN c.waits[t] :
               \/ t = template /\ c.waits[t][i] = w
               \/ i \in DOMAIN d.waits[t] /\ c.waits[t][i] = d.waits[t][i]
      BY <1>6, <3>1, <3>2, AskedIs
    <3>4. \A by, n : Awaits(d, by, n) <=> Awaits(b, by, n)
      BY <1>6 DEF Awaits
    <3>5. \A t \in Ro!Templates : \A i \in DOMAIN c.waits[t] : InTime(c.waits[t][i], t, c)
      <4>1. InTime(w, template, c)
        BY <1>2, <1>6, <3>2, <3>3 DEF InTime
      <4>2. \A t \in Ro!Templates : \A i \in DOMAIN b.waits[t] : InTime(b.waits[t][i], t, c)
        BY <1>1, <1>2, <1>6, <1>7, <3>3 DEF InTime
      <4> QED
        BY <1>6, <3>3, <4>1, <4>2
    <3> QED
      BY <1>2, <1>6, <1>8, <3>2, <3>3, <3>4, <3>5
  <2> QED
    BY <2>1, <2>2, <2>3
<1>10. Ro!Now' = c /\ view' = c.view
  BY <1>5, <1>9, BecomeIs DEF RouteOK, RouteCore, Ro!Become
<1> QED
  BY <1>5, <1>9, <1>10, NowIs DEF RouteInv, ViewKept, b

LEMMA AnsweredKeeps ==
  ASSUME RouteInv, NEW template \in Ro!Templates, NEW came \in BOOLEAN, Ro!Answered(template, came)
  PROVE  RouteInv' /\ ViewKept
<1> DEFINE b == Ro!Now
           templates1 == [templates EXCEPT ![template] = IF came THEN "here" ELSE "absent"]
           waits1 == [waits EXCEPT ![template] = <<>>]
           waiting == waits[template]
<1>1. /\ b \in BackT /\ RouteOK(b, address, redirecting) /\ b.waits = waits /\ b.templates = templates
      /\ templates \in [Ro!Templates -> {"absent", "asked", "here"}]
      /\ waits \in [Ro!Templates -> Seq(WaitT)]
  BY NowIs DEF RouteInv, RouteOK, RouteCore, BackT
<1>2. templates1 \in [Ro!Templates -> {"absent", "asked", "here"}]
  BY <1>1
<1>3. /\ waits1 \in [Ro!Templates -> Seq(WaitT)] /\ waits1[template] = <<>>
      /\ \A t \in Ro!Templates \ {template} : waits1[t] = waits[t]
  <2>1. <<>> \in Seq(WaitT)
    OBVIOUS
  <2> QED
    BY <1>1, <2>1
<1>4. PICK d : d = [b EXCEPT !.templates = templates1, !.waits = waits1]
  OBVIOUS
<1>5. PICK c : c = Ro!Told(d, waiting, template, came)
  OBVIOUS
<1>6. Ro!Become(c) /\ UNCHANGED <<otherwise, reloadOnSearch, address, redirecting>>
      /\ ~redirecting
  BY <1>1, <1>4, <1>5 DEF Ro!Answered
<1> HIDE DEF b, templates1, waits1, waiting
<1>7. /\ d \in BackT /\ d.waits = waits1
      /\ d.current = b.current /\ d.routeParams = b.routeParams /\ d.failed = b.failed
      /\ d.view = b.view /\ d.viewed = b.viewed /\ d.moves = b.moves /\ d.include = b.include
  BY <1>1, <1>2, <1>3, <1>4 DEF BackT
<1>8. waiting \in Seq(WaitT) /\ \A i \in DOMAIN waiting : InTime(waiting[i], template, d)
  BY <1>1, <1>7 DEF RouteOK, RouteCore, InTime, waiting
<1>9. Kept(d, c, waiting, Len(waiting))
  BY <1>5, <1>7, <1>8, ToldKeeps
<1>10. SubSeq(waiting, 1, Len(waiting)) = waiting
  BY <1>8
<1>11. /\ c \in BackT /\ c.current = b.current /\ c.waits = waits1 /\ c.moves = b.moves
       /\ c.include.source = b.include.source /\ c.include.number = b.include.number
       /\ c.view \in {b.view, b.current.number}
  BY <1>7, <1>9 DEF Kept
<1>12. \A by, n : Awaits(b, by, n) => Awaits(c, by, n) \/ Waits(waiting, by, n)
  BY <1>1, <1>3, <1>11 DEF Awaits, waiting
<1>13. \A t \in Ro!Templates : \A i \in DOMAIN c.waits[t] : InTime(c.waits[t][i], t, c)
  <2> SUFFICES ASSUME NEW t \in Ro!Templates, NEW i \in DOMAIN c.waits[t]
               PROVE  InTime(c.waits[t][i], t, c)
    OBVIOUS
  <2>1. t # template /\ c.waits[t] = b.waits[t]
    BY <1>1, <1>3, <1>11
  <2>2. InTime(b.waits[t][i], t, b)
    BY <1>1, <2>1 DEF RouteOK, RouteCore
  <2> QED
    BY <1>11, <2>1, <2>2 DEF InTime
<1>14. c.current.number # c.view => Awaits(c, "view", c.current.number) \/ c.failed
  BY <1>1, <1>6, <1>7, <1>9, <1>10, <1>11, <1>12 DEF RouteOK, RouteCore, Follows, Kept
<1>15. c.view = c.current.number /\ c.view # 0 => Shown(c)
  <2>1. d.view = d.current.number /\ d.view # 0 => Shown(d)
    BY <1>1, <1>7 DEF RouteOK, RouteCore, Shown
  <2> QED
    BY <1>9, <2>1 DEF Kept
<1>16. Awaits(c, "include", c.include.number) \/ c.include.content \in {c.include.source, "none"}
  BY <1>1, <1>7, <1>9, <1>10, <1>11, <1>12 DEF RouteOK, RouteCore, Kept
<1>17. RouteOK(c, address, redirecting)
  <2>1. Follows(c, address)
    BY <1>1, <1>6, <1>11, <1>14 DEF RouteOK, RouteCore, Follows
  <2> QED
    BY <1>1, <1>6, <1>11, <1>13, <1>14, <1>15, <1>16, <2>1 DEF RouteOK, RouteCore
<1>18. Ro!Now' = c /\ view' = c.view /\ current' = c.current
  BY <1>6, <1>11, BecomeIs DEF Ro!Become
<1>19. ViewKept
  <2>1. Follows(b, address)
    BY <1>1, <1>6 DEF RouteOK, RouteCore
  <2> QED
    BY <1>1, <1>6, <1>11, <1>18, <2>1, NowIs DEF ViewKept, Follows, b
<1> QED
  BY <1>6, <1>17, <1>18, <1>19 DEF RouteInv

LEMMA RouteStep ==
  ASSUME RouteInv, Ro!RoNext
  PROVE  RouteInv' /\ ViewKept
<1>1. CASE \E path \in Ro!Paths, search \in Ro!Searches : Ro!Go(path, search)
  BY <1>1, GoneKeeps
<1>5. CASE \E path \in Ro!Paths, search \in Ro!Searches : Ro!Redirect(path, search)
  BY <1>5, RedirectKeeps
<1>6. CASE Ro!Follow
  BY <1>6, FollowKeeps
<1>2. CASE Ro!Reload
  BY <1>2, ReloadKeeps
<1>3. CASE \E template \in Ro!Templates \cup {"none"} : Ro!SetSource(template)
  BY <1>3, SetSourceKeeps DEF SourceT
<1>4. CASE \E template \in Ro!Templates : Ro!TemplateComes(template) \/ Ro!TemplateFails(template)
  BY <1>4, AnsweredKeeps DEF Ro!TemplateComes, Ro!TemplateFails
<1> QED
  BY <1>1, <1>2, <1>3, <1>4, <1>5, <1>6 DEF Ro!RoNext
=============================================================================
