------------------------- MODULE LogConsumerProofs -------------------------
(***************************************************************************)
(* Proofs about LogConsumer: what a subscriber to logged tag events may    *)
(* rely on, for any number of threads, any size of the log and any event   *)
(* known.                                                                  *)
(*                                                                         *)
(* The argument follows the sender through its phases.  While it reads, the*)
(* subscriber has the replayed events exactly and the next one is due; the *)
(* record that exhausts the reader is the last event logged, so at the     *)
(* step that lets new events through nothing is missing, and from then on  *)
(* each new event is either on the way or received.                        *)
(***************************************************************************)
EXTENDS LogConsumer, TLAPS

\* The events from the first one to replay on, in order.
Exact == \A i \in 1 .. Len(delivered) : delivered[i] = replayFrom + i - 1

Covered == \A id \in replayFrom .. logged : id \in Received \cup OnTheWay \cup lost

\* Before the search, and during it, nothing is delivered.
NothingYet ==
  phase[Sender] \in {"new", "seeking", "ahead", "starved"} =>
    hand = 0 /\ delivered = <<>> /\ ~passthrough

\* The first event to replay is the one sought; when it is not in a log that has
\* events, it is the one the subscriber named.
Seeking ==
  phase[Sender] \in {"seeking", "ahead"} =>
    /\ replayFrom = due[Sender] /\ replayFrom > 0
    /\ phase[Sender] = "seeking" => due[Sender] <= logged
    /\ phase[Sender] = "ahead" /\ logged > 0 => replayFrom = lastEventId

\* Events are lost only to a search that did not find the one named.
Losing == lost # {} => phase[Sender] = "exhausted" /\ replayFrom = lastEventId

\* While the sender reads, the event it is to pull follows what it delivered
\* and what it holds.
Reading ==
  phase[Sender] = "reading" =>
    /\ ~passthrough
    /\ 0 < replayFrom /\ replayFrom <= due[Sender] /\ due[Sender] <= logged
    /\ IF hand = 0
         THEN Len(delivered) = due[Sender] - replayFrom
         ELSE hand = due[Sender] - 1 /\ Len(delivered) = hand - replayFrom

Stopped == phase[Sender] = "closed" => hand = 0

Live ==
  phase[Sender] = "exhausted" =>
    /\ passthrough
    /\ 0 < replayFrom
    /\ subscription = "made" => Covered

\* An event that is to be replayed is still in the log.
ReplayKept ==
  phase[Sender] \in {"seeking", "reading"} => due[Sender] > logged - Capacity

IInv ==
  /\ TypeOK
  /\ subscription = "none" => phase[Sender] = "new"
  /\ NothingYet
  /\ Seeking
  /\ Reading
  /\ Stopped
  /\ Losing
  /\ Live
  /\ ReplayIsExact
  /\ ReplayKept

-----------------------------------------------------------------------------
\* A delivered event is received with those before it.
LEMMA AppendRange ==
  ASSUME NEW s \in Seq(Nat), NEW e \in Nat
  PROVE  /\ Append(s, e) \in Seq(Nat)
         /\ Range(Append(s, e)) = Range(s) \cup {e}
<1>1. /\ Append(s, e) \in Seq(Nat)
      /\ Len(Append(s, e)) = Len(s) + 1
      /\ \A i \in 1 .. Len(s) : Append(s, e)[i] = s[i]
      /\ Append(s, e)[Len(s) + 1] = e
  OBVIOUS
<1>2. /\ DOMAIN s = 1 .. Len(s) /\ Len(s) \in Nat
      /\ DOMAIN Append(s, e) = 1 .. Len(s) + 1
  BY <1>1
<1> QED
  BY <1>1, <1>2 DEF Range

\* The sequence of events delivered so far, when exact, holds each of them.
LEMMA ExactRange ==
  ASSUME delivered \in Seq(Nat), replayFrom \in Nat, Exact,
         NEW id \in Nat, replayFrom <= id, id < replayFrom + Len(delivered)
  PROVE  id \in Range(delivered)
<1>1. Len(delivered) \in Nat /\ DOMAIN delivered = 1 .. Len(delivered)
  OBVIOUS
<1>2. id - replayFrom + 1 \in 1 .. Len(delivered)
  BY <1>1
<1>3. delivered[id - replayFrom + 1] = id
  BY <1>2 DEF Exact
<1> QED
  BY <1>1, <1>2, <1>3 DEF Range

LEMMA InitIInv == Init => IInv
<1> SUFFICES ASSUME Init PROVE IInv
  OBVIOUS
<1>1. TypeOK
  <2>1. delivered \in Seq(Nat)
    BY DEF Init
  <2>2. phase \in [{Sender} -> {"new", "seeking", "ahead", "reading", "exhausted", "starved", "closed"}]
    BY DEF Init, Log!Init
  <2> QED
    BY <2>1, <2>2 DEF Init, Log!Init, TypeOK
<1>2. phase[Sender] = "new" /\ hand = 0 /\ delivered = <<>> /\ ~passthrough /\ lost = {}
  BY DEF Init, Log!Init
<1> QED
  BY <1>1, <1>2 DEF IInv, NothingYet, Seeking, Reading, Stopped, Losing, Live, ReplayIsExact, ReplayKept

-----------------------------------------------------------------------------
(* Type correctness *)

LEMMA NextTypeOK == TypeOK /\ [Next]_vars => TypeOK'
<1> SUFFICES ASSUME TypeOK, [Next]_vars PROVE TypeOK'
  OBVIOUS
<1> USE KnownAssumption, BoundAssumption DEF TypeOK
<1>1. ASSUME NEW t \in Thread, LogTag(t) PROVE TypeOK'
  BY <1>1 DEF LogTag, Log!Append, consumerVars, subscriberVars
<1>2. ASSUME NEW t \in Thread, Dispatch(t) PROVE TypeOK'
  BY <1>2 DEF Dispatch, logVars, consumerVars
<1>3. ASSUME NEW id \in Known, Subscribe(id) PROVE TypeOK'
  BY <1>3 DEF Subscribe, logVars, subscriberVars
<1>4. CASE Unsubscribe
  BY <1>4 DEF Unsubscribe, logVars, subscriberVars
<1>5. CASE Seek
  <2>1. Log!Oldest \in Nat
    BY DEF Log!Oldest
  <2>2. due' \in [{Sender} -> Nat] /\ replayFrom' \in Nat
    <3>1. PICK n \in {Log!Oldest} \cup ({Log!Oldest + 1} \cap 1 .. logged) :
                 due' = [due EXCEPT ![Sender] = IF lastEventId >= n THEN lastEventId ELSE n]
      BY <1>5, Zenon DEF Seek, Log!Seek
    <3>2. n \in Nat
      BY <2>1, <3>1
    <3>3. due' \in [{Sender} -> Nat]
      BY <3>1, <3>2
    <3> QED
      BY <1>5, <3>3 DEF Seek
  <2>3. phase' \in [{Sender} -> {"new", "seeking", "ahead", "reading", "exhausted", "starved", "closed"}]
    BY <1>5 DEF Seek, Log!Seek
  <2> QED
    BY <1>5, <2>2, <2>3 DEF Seek, Log!Seek, consumerVars
<1>6. CASE Found \/ Starve \/ StopSending
  BY <1>6 DEF Found, Starve, StopSending, Log!Found, Log!Starve, Log!Close, consumerVars, subscriberVars
<1>7. CASE NotFound
  <2>1. lost' \subseteq Nat
    BY <1>7 DEF NotFound
  <2>2. passthrough' \in BOOLEAN /\ sending' \in BOOLEAN
    BY <1>7 DEF NotFound
  <2>3. /\ phase' \in [{Sender} -> {"new", "seeking", "ahead", "reading", "exhausted", "starved", "closed"}]
        /\ logged' \in Nat /\ due' \in [{Sender} -> Nat]
    BY <1>7 DEF NotFound, Log!NotFound
  <2> QED
    BY <1>7, <2>1, <2>2, <2>3 DEF NotFound
<1>8. CASE Pull
  <2>1. phase' \in [{Sender} -> {"new", "seeking", "ahead", "reading", "exhausted", "starved", "closed"}]
    BY <1>8 DEF Pull, Log!Pull
  <2>2. due' \in [{Sender} -> Nat] /\ hand' \in Nat /\ logged' \in Nat
    BY <1>8 DEF Pull, Log!Pull
  <2>3. sending' \in BOOLEAN /\ passthrough' \in BOOLEAN
    BY <1>8 DEF Pull
  <2> QED
    BY <1>8, <2>1, <2>2, <2>3 DEF Pull, subscriberVars
<1>9. CASE HandOver
  BY <1>9 DEF HandOver, logVars, consumerVars
<1>10. CASE ReadFails
  BY <1>10 DEF ReadFails, Log!Close, subscriberVars
<1>11. CASE Done \/ UNCHANGED vars
  BY <1>11 DEF Done, vars, logVars, consumerVars, subscriberVars
<1> QED
  BY <1>1, <1>2, <1>3, <1>4, <1>5, <1>6, <1>7, <1>8, <1>9, <1>10, <1>11 DEF Next, Send

-----------------------------------------------------------------------------
(* The inductive invariant *)

\* A thread logs an event: it is on its way.
LEMMA LogTagStep ==
  ASSUME IInv, TypeOK', NEW t \in Thread, LogTag(t)
  PROVE  IInv'
<1> USE BoundAssumption DEF IInv, TypeOK, LogTag, Log!Append, consumerVars, subscriberVars
<1>1. logged' = logged + 1 /\ pending'[t] = logged + 1
  OBVIOUS
<1>2. Live'
  <2> SUFFICES ASSUME phase[Sender] = "exhausted", subscription = "made",
                      NEW id \in replayFrom .. logged + 1
               PROVE  id \in (Received \cup OnTheWay \cup lost)'
    BY <1>1 DEF Live, Covered
  <2>1. CASE id = logged + 1
    BY <2>1, <1>1 DEF OnTheWay
  <2>2. CASE id # logged + 1
    <3>1. id \in Received \cup OnTheWay \cup lost /\ id # 0
      BY <2>2 DEF Live, Covered
    <3>2. \A u \in Thread : pending[u] = id => u # t /\ pending'[u] = id
      BY <3>1
    <3> QED
      BY <3>1, <3>2 DEF Received, OnTheWay
  <2> QED
    BY <2>1, <2>2
<1>3. ReplayKept'
  <2>1. phase[Sender] \in {"seeking", "reading"} => due[Sender] > logged + 1 - Capacity
    OBVIOUS
  <2> QED
    BY <2>1, <1>1 DEF ReplayKept
<1> QED
  BY <1>1, <1>2, <1>3 DEF NothingYet, Seeking, Reading, Stopped, Losing, ReplayIsExact

\* An event is dispatched: it is received if it has to be.
LEMMA DispatchStep ==
  ASSUME IInv, TypeOK', NEW t \in Thread, Dispatch(t)
  PROVE  IInv'
<1> USE BoundAssumption DEF IInv, TypeOK, Dispatch, logVars, consumerVars
<1>1. ~passthrough => delivered' = delivered
  OBVIOUS
<1>2. Live'
  <2> SUFFICES ASSUME phase[Sender] = "exhausted", subscription = "made",
                      NEW id \in replayFrom .. logged
               PROVE  id \in (Received \cup OnTheWay \cup lost)'
    BY DEF Live, Covered
  <2>1. passthrough /\ id \in Received \cup OnTheWay \cup lost
    BY DEF Live, Covered
  <2>2. Range(delivered') = Range(delivered) \cup {pending[t]}
    BY <2>1, AppendRange
  <2>3. \A u \in Thread : u # t => pending'[u] = pending[u]
    OBVIOUS
  <2> QED
    BY <2>1, <2>2, <2>3 DEF Received, OnTheWay
<1> QED
  BY <1>1, <1>2 DEF NothingYet, Seeking, Reading, Stopped, Losing, ReplayIsExact, ReplayKept

\* The sender pulls a record; with the last one it is exhausted.
LEMMA PullStep ==
  ASSUME IInv, TypeOK', Pull
  PROVE  IInv'
<1> USE BoundAssumption DEF IInv, TypeOK, Pull, Log!Pull, subscriberVars
<1>1. /\ due'[Sender] = due[Sender] + 1
      /\ phase'[Sender] = IF due[Sender] = logged THEN "exhausted" ELSE "reading"
      /\ hand' = due[Sender]
  OBVIOUS
<1>2. /\ ~passthrough /\ 0 < replayFrom
      /\ replayFrom <= due[Sender] /\ due[Sender] <= logged
      /\ Len(delivered) = due[Sender] - replayFrom
      /\ Exact
  BY DEF Reading, ReplayIsExact, Exact
<1>3. Live'
  <2> SUFFICES ASSUME due[Sender] = logged, NEW id \in replayFrom .. logged
               PROVE  id \in (Received \cup OnTheWay \cup lost)'
    BY <1>1, <1>2 DEF Live, Covered
  <2>1. CASE id = logged
    BY <1>1, <2>1 DEF Received
  <2>2. CASE id < logged
    BY <1>2, <2>2, ExactRange DEF Received
  <2> QED
    BY <2>1, <2>2
<1>4. Reading'
  <2> SUFFICES ASSUME due[Sender] # logged PROVE Reading'
    BY <1>1 DEF Reading
  <2> QED
    BY <1>1, <1>2 DEF Reading
<1>5. ReplayIsExact' /\ ReplayKept'
  BY <1>1, <1>2 DEF ReplayIsExact, ReplayKept
<1> QED
  BY <1>1, <1>3, <1>4, <1>5 DEF NothingYet, Seeking, Stopped, Losing

\* The sender hands its record over.
LEMMA HandOverStep ==
  ASSUME IInv, TypeOK', HandOver
  PROVE  IInv'
<1> USE BoundAssumption DEF IInv, TypeOK, HandOver, logVars, consumerVars
<1>1. Range(delivered') = Range(delivered) \cup {hand}
  BY AppendRange
<1>2. /\ Len(delivered') = Len(delivered) + 1
      /\ delivered'[Len(delivered) + 1] = hand
      /\ \A i \in 1 .. Len(delivered) : delivered'[i] = delivered[i]
  OBVIOUS
<1>3. Live'
  <2> SUFFICES ASSUME phase[Sender] = "exhausted", subscription = "made",
                      NEW id \in replayFrom .. logged
               PROVE  id \in (Received \cup OnTheWay \cup lost)'
    BY DEF Live, Covered
  <2>1. id \in Received \cup OnTheWay \cup lost
    BY DEF Live, Covered
  <2> QED
    BY <2>1, <1>1 DEF Received, OnTheWay
<1>4. ~passthrough => phase[Sender] = "reading"
  BY DEF NothingYet, Stopped, Losing, Live
<1>5. Reading'
  BY <1>2 DEF Reading
<1>6. ReplayIsExact'
  <2> SUFFICES ASSUME ~passthrough, NEW i \in 1 .. Len(delivered) + 1
               PROVE  delivered'[i] = replayFrom + i - 1
    BY <1>2 DEF ReplayIsExact
  <2>1. Len(delivered) \in Nat /\ hand = replayFrom + Len(delivered)
    BY <1>4 DEF Reading
  <2>2. CASE i = Len(delivered) + 1
    BY <1>2, <2>1, <2>2
  <2>3. CASE i # Len(delivered) + 1
    BY <1>2, <2>1, <2>3 DEF ReplayIsExact
  <2> QED
    BY <2>2, <2>3
<1> QED
  BY <1>3, <1>5, <1>6 DEF NothingYet, Seeking, Stopped, Losing, ReplayKept

\* The search begins.
LEMMA SeekStep ==
  ASSUME IInv, TypeOK', Seek
  PROVE  IInv'
<1> USE BoundAssumption DEF IInv, TypeOK, Seek, Log!Seek, consumerVars
<1>1. /\ Log!Oldest \in Nat \ {0} /\ Log!Oldest > logged - Capacity
      /\ logged > 0 => Log!Oldest <= logged
  BY DEF Log!Oldest
<1>2. /\ phase'[Sender] = IF due'[Sender] <= logged THEN "seeking" ELSE "ahead"
      /\ due'[Sender] > 0 /\ due'[Sender] > logged - Capacity
      /\ logged > 0 /\ due'[Sender] > logged => due'[Sender] = lastEventId
  BY <1>1
<1>3. hand' = 0 /\ delivered' = <<>> /\ ~passthrough' /\ subscription' # "none" /\ lost' = {}
  BY DEF NothingYet, Losing
<1>4. logged' = logged /\ replayFrom' = due'[Sender]
  OBVIOUS
<1>5. NothingYet' /\ Seeking' /\ Reading' /\ Stopped' /\ Live'
  BY <1>2, <1>3, <1>4 DEF NothingYet, Seeking, Reading, Stopped, Losing, Live
<1>6. Len(delivered') = 0
  BY <1>3
<1>7. ReplayIsExact'
  BY <1>6 DEF ReplayIsExact
<1>8. ReplayKept'
  BY <1>2, <1>4 DEF ReplayKept
<1> QED
  BY <1>2, <1>3, <1>5, <1>7, <1>8 DEF Losing

\* The other steps of the sender.
LEMMA SenderStep ==
  ASSUME IInv, TypeOK', Found \/ NotFound \/ Starve \/ StopSending \/ ReadFails
  PROVE  IInv'
<1> USE BoundAssumption DEF IInv, TypeOK, consumerVars, subscriberVars
<1>1. CASE Found
  <2>1. /\ phase'[Sender] = "reading" /\ replayFrom = due[Sender] /\ due[Sender] <= logged
        /\ replayFrom > 0 /\ Len(delivered) = 0
    BY <1>1 DEF Found, Log!Found, Seeking, NothingYet
  <2> QED
    BY <1>1, <2>1 DEF Found, Log!Found, NothingYet, Seeking, Reading, Stopped, Losing, Live,
                      ReplayIsExact, ReplayKept
<1>2. CASE NotFound
  <2>1. /\ phase'[Sender] = "exhausted" /\ passthrough' /\ logged' = logged
        /\ replayFrom' = due[Sender] /\ replayFrom' > 0
        /\ logged > 0 => replayFrom' = lastEventId'
        /\ lost' = (replayFrom' .. logged) \ OnTheWay
    BY <1>2 DEF NotFound, Log!NotFound, Seeking
  <2>2. OnTheWay' = OnTheWay
    BY <1>2 DEF NotFound, OnTheWay
  <2>3. Live' /\ Losing'
    BY <2>1, <2>2 DEF Live, Covered, Losing
  <2> QED
    BY <1>2, <2>1, <2>3 DEF NotFound, Log!NotFound, NothingYet, Seeking, Reading, Stopped, Losing, Live,
                      Covered, ReplayIsExact, ReplayKept
<1>3. CASE Starve
  <2>1. phase'[Sender] = "starved"
    BY <1>3 DEF Starve, Log!Starve
  <2> QED
    BY <1>3, <2>1 DEF Starve, Log!Starve, NothingYet, Seeking, Reading, Stopped, Losing, Live,
                      ReplayIsExact, ReplayKept
<1>4. CASE StopSending
  <2>1. phase'[Sender] = "closed"
    BY <1>4 DEF StopSending, Log!Close
  <2> QED
    BY <1>4, <2>1 DEF StopSending, Log!Close, NothingYet, Seeking, Reading, Stopped, Losing, Live,
                      ReplayIsExact, ReplayKept
<1>5. CASE ReadFails
  <2>1. phase'[Sender] = "closed"
    BY <1>5 DEF ReadFails, Log!Close
  <2> QED
    BY <1>5, <2>1 DEF ReadFails, Log!Close, NothingYet, Seeking, Reading, Stopped, Losing, Live,
                      ReplayIsExact, ReplayKept
<1> QED
  BY <1>1, <1>2, <1>3, <1>4, <1>5

LEMMA NextIInv == IInv /\ [Next]_vars => IInv'
<1> SUFFICES ASSUME IInv, [Next]_vars PROVE IInv'
  OBVIOUS
<1>1. TypeOK'
  BY NextTypeOK DEF IInv
<1>2. ASSUME NEW t \in Thread, LogTag(t) \/ Dispatch(t) PROVE IInv'
  BY <1>1, <1>2, LogTagStep, DispatchStep
<1>3. ASSUME NEW id \in Known, Subscribe(id) PROVE IInv'
  BY <1>1, <1>3 DEF Subscribe, logVars, subscriberVars, IInv, NothingYet, Seeking, Reading,
                    Stopped, Losing, Live, ReplayIsExact, ReplayKept
<1>4. CASE Unsubscribe
  BY <1>1, <1>4 DEF Unsubscribe, logVars, subscriberVars, IInv, NothingYet, Seeking, Reading,
                    Stopped, Losing, Live, ReplayIsExact, ReplayKept
<1>5. CASE Seek
  BY <1>1, <1>5, SeekStep
<1>6. CASE Found \/ NotFound \/ Starve \/ StopSending \/ ReadFails
  BY <1>1, <1>6, SenderStep
<1>7. CASE Pull
  BY <1>1, <1>7, PullStep
<1>8. CASE HandOver
  BY <1>1, <1>8, HandOverStep
<1>9. CASE Done \/ UNCHANGED vars
  BY <1>1, <1>9 DEF Done, vars, logVars, consumerVars, subscriberVars, IInv, NothingYet, Seeking,
                    Reading, Stopped, Losing, Live, Covered, Received, OnTheWay, ReplayIsExact, ReplayKept
<1> QED
  BY <1>2, <1>3, <1>4, <1>5, <1>6, <1>7, <1>8, <1>9 DEF Next, Send

\* The invariant the properties follow from.
THEOREM Invariance == Spec => []IInv
<1> QED
  BY InitIInv, NextIInv, PTL DEF Spec

-----------------------------------------------------------------------------
\* Every variable keeps its type.
THEOREM TypeCorrect == Spec => []TypeOK
<1>1. IInv => TypeOK
  BY DEF IInv
<1> QED
  BY <1>1, Invariance, PTL

\* No event falls between the replay of the log and the live events, however
\* logging, dispatching and replaying are interleaved (LogConsumer.run,
\* messageReceived and readerExhausted with LogRfTarget.logTag).
THEOREM NoEventLost == Spec => []NothingLost
<1>1. IInv => NothingLost
  <2> SUFFICES ASSUME IInv, subscription = "made", passthrough,
                      phase[Sender] # "closed"
               PROVE  Covered /\ (lost # {} => replayFrom = lastEventId)
    BY DEF NothingLost, Covered
  <2>1. phase[Sender] = "exhausted"
    BY DEF IInv, TypeOK, NothingYet, Seeking, Reading, Stopped
  <2> QED
    BY <2>1 DEF IInv, Live, Losing
<1> QED
  BY <1>1, Invariance, PTL

\* What is replayed is the log from the first event on, in order and without a
\* gap, until new events are let through (LogConsumer.sendMessages).
THEOREM ReplayStaysExact == Spec => []ReplayIsExact
<1>1. IInv => ReplayIsExact
  BY DEF IInv
<1> QED
  BY <1>1, Invariance, PTL
=============================================================================
