----------------------------- MODULE CoreProofs -----------------------------
(***************************************************************************)
(* Proofs about two parts of the core that share nothing: the tag cache    *)
(* (DefaultRfTracker), for any set of tags and of transactions, any        *)
(* timeouts and any delays; and the executor of tasks                      *)
(* (SingleThreadExecutor), for any number of clients and tasks and any     *)
(* capacity of the queue.                                                  *)
(*                                                                         *)
(* The tracker.  While the two threads do not race, one of them has        *)
(* nothing to report, and what the consumer will have seen when the other  *)
(* has reported is the cache.  The time the checker works with is never    *)
(* ahead of the local clock, since no message is dated later than it       *)
(* comes.                                                                  *)
(*                                                                         *)
(* The executor.  The flag is set before the queue is emptied, and the     *)
(* worker can only be told to stop after it was emptied.  So from the      *)
(* first clear on every task in the queue entered it with the flag set.    *)
(***************************************************************************)
EXTENDS DefaultRfTracker, SingleThreadExecutor, TLAPS

-----------------------------------------------------------------------------
(* The tracker *)

\* The reader's clock, as the tracker knows it, is not ahead of the local one.
ClockInv ==
  /\ lastTimestamp + localTimeDiff <= now
  /\ checkTime <= now

\* The checker computes a time only when it has reported all it removed.
CheckInv == checkTime # Absent => expired = {}

\* What the consumer will have seen when everything is reported.
Settled == ((seen \cup ({appeared} \ {NoTag})) \ gone) \ expired

ReportInv == ~raced => (expired = {} \/ DataIdle) /\ Settled = Cached

IInv == TypeOK /\ ClockInv /\ CheckInv /\ ReportInv

-----------------------------------------------------------------------------
\* A new tracker satisfies the invariant.
LEMMA InitIInv == Init => IInv
<1> SUFFICES ASSUME Init PROVE IInv
  OBVIOUS
<1>1. TypeOK
  <2>1. 0 \in Time /\ 0 \in 0 .. MaxTime + 2 * TransactionTimeout
    BY TimeoutAssumption, TimeAssumption DEF Time
  <2>2. lastRead \in [Tag -> Time \cup {Absent}]
    BY DEF Init
  <2> QED
    BY <2>1, <2>2 DEF Init, TypeOK
<1>2. ClockInv /\ CheckInv
  BY DEF Init, ClockInv, CheckInv, Absent
<1>3. ReportInv
  BY DEF Init, ReportInv, Settled, Cached
<1> QED
  BY <1>1, <1>2, <1>3 DEF IInv

\* The tags of a cache after some were removed, and after one was read.
LEMMA WithoutTags ==
  ASSUME NEW cache \in [Tag -> Time \cup {Absent}], NEW tags \in SUBSET Tag
  PROVE  /\ Without(cache, tags) \in [Tag -> Time \cup {Absent}]
         /\ \A t \in Tag : Without(cache, tags)[t] = Absent <=> t \in tags \/ cache[t] = Absent
BY DEF Without

LEMMA WithTagRead ==
  ASSUME NEW cache \in [Tag -> Time \cup {Absent}], NEW time \in Time, NEW tag \in Tag \cup {NoTag}
  PROVE  /\ WithRead(cache, tag, time) \in [Tag -> Time \cup {Absent}]
         /\ \A t \in Tag : WithRead(cache, tag, time)[t] = Absent <=> t # tag /\ cache[t] = Absent
BY TimeAssumption DEF WithRead, Time, Absent

\* Only cached tags can be obsolete.
LEMMA ObsoleteTags ==
  ASSUME NEW cache, NEW time
  PROVE  Obsolete(cache, time) \in SUBSET {t \in Tag : cache[t] # Absent}
BY DEF Obsolete

-----------------------------------------------------------------------------
\* rfData(): what it will report makes up for what it did to the cache.
LEMMA RfDataStep ==
  ASSUME IInv, NEW tag \in Tag \cup {NoTag}, NEW tx \in TxId, NEW end \in BOOLEAN, NEW d \in Delays,
         now - d >= 0, RfData(tag, tx, end, now - d)
  PROVE  IInv'
<1> DEFINE time == now - d
           changed == /\ checker
                      /\ \/ transactionId # tx
                         \/ time - transactionStart >= TransactionTimeout
           old == IF changed THEN Obsolete(lastRead, time) ELSE {}
           kept == Without(lastRead, old)
           read == WithRead(kept, tag, time)
           ended == IF end THEN Obsolete(read, time) ELSE {}
           closed == changed \/ end \/ ~checker
<1>1. time \in Time /\ time <= now
  BY TimeAssumption DEF IInv, TypeOK, Time
<1>2. old \in SUBSET {t \in Tag : lastRead[t] # Absent}
  BY ObsoleteTags
<1> HIDE DEF time, changed, old
<1>3. /\ kept \in [Tag -> Time \cup {Absent}]
      /\ \A t \in Tag : kept[t] = Absent <=> t \in old \/ lastRead[t] = Absent
  BY <1>2, WithoutTags DEF IInv, TypeOK
<1> HIDE DEF kept
<1>4. /\ read \in [Tag -> Time \cup {Absent}]
      /\ \A t \in Tag : read[t] = Absent <=> t # tag /\ kept[t] = Absent
  BY <1>1, <1>3, WithTagRead
<1> HIDE DEF read
<1>5. ended \in SUBSET {t \in Tag : read[t] # Absent}
  BY ObsoleteTags
<1> HIDE DEF ended, closed
<1>6. /\ Without(read, ended) \in [Tag -> Time \cup {Absent}]
      /\ \A t \in Tag : Without(read, ended)[t] = Absent <=> t \in ended \/ read[t] = Absent
  BY <1>4, <1>5, WithoutTags
<1>7. /\ DataIdle
      /\ IF time > lastTimestamp
           THEN lastTimestamp' = time /\ localTimeDiff' = now - time
           ELSE UNCHANGED <<lastTimestamp, localTimeDiff>>
      /\ lastRead' = Without(read, ended)
      /\ appeared' = IF tag # NoTag /\ kept[tag] = Absent THEN tag ELSE NoTag
      /\ gone' = (old \ {tag}) \cup ended
      /\ checker' = TRUE
      /\ IF closed
           THEN /\ transactionId' = tx
                /\ transactionStart' = time
                /\ nextCheck' = now + TransactionTimeout
           ELSE UNCHANGED <<transactionId, transactionStart, nextCheck>>
      /\ raced' = (raced \/ expired # {})
      /\ UNCHANGED <<now, checkVars, seen>>
  BY DEF RfData, ReportedGone, time, changed, old, kept, read, ended, closed
<1>8. TypeOK'
  <2>1. appeared' \in Tag \cup {NoTag} /\ gone' \subseteq Tag
    BY <1>2, <1>5, <1>7
  <2>2. lastTimestamp' \in Time /\ localTimeDiff' \in Nat
    BY <1>1, <1>7 DEF IInv, TypeOK, Time
  <2>3. nextCheck' \in 0 .. MaxTime + 2 * TransactionTimeout
    BY <1>7, TimeoutAssumption, TimeAssumption DEF IInv, TypeOK, Time
  <2>4. transactionId' \in TxId /\ transactionStart' \in Time
    BY <1>1, <1>7 DEF IInv, TypeOK
  <2> QED
    BY <1>6, <1>7, <2>1, <2>2, <2>3, <2>4 DEF IInv, TypeOK, checkVars
<1>9. ClockInv'
  BY <1>1, <1>7 DEF IInv, TypeOK, Time, ClockInv, checkVars
<1>10. CheckInv'
  BY <1>7 DEF IInv, CheckInv, checkVars
<1>11. ReportInv'
  <2> SUFFICES ASSUME ~raced' PROVE (expired' = {} \/ DataIdle') /\ Settled' = Cached'
    BY DEF ReportInv
  <2>1. ~raced /\ expired = {} /\ expired' = {} /\ seen' = seen
    BY <1>7 DEF IInv, TypeOK, checkVars
  <2>2. seen = Cached
    BY <1>7, <2>1 DEF IInv, ReportInv, Settled, DataIdle
  <2>3. Cached' = {t \in Tag : t \notin ended /\ (t = tag \/ (t \in seen /\ t \notin old))}
    BY <1>2, <1>3, <1>4, <1>5, <1>6, <1>7, <2>2 DEF Cached
  <2>4. {appeared'} \ {NoTag} = {t \in Tag : t = tag /\ (t \in old \/ t \notin seen)}
    BY <1>2, <1>3, <1>7, <2>2, TagAssumption DEF Cached
  <2>5. seen \subseteq Tag /\ old \subseteq seen /\ ended \subseteq Tag
    BY <1>2, <1>5, <2>2 DEF Cached
  <2> QED
    BY <1>7, <2>1, <2>3, <2>4, <2>5 DEF Settled
<1> QED
  BY <1>8, <1>9, <1>10, <1>11 DEF IInv

\* RemoveExpired moves tags from the cache to what is to be reported.
LEMMA RemoveExpiredStep == ASSUME IInv, RemoveExpired PROVE IInv'
<1> DEFINE old == Obsolete(lastRead, checkTime)
<1>1. checkTime \in Time /\ checkTime # Absent /\ expired = {}
  BY DEF IInv, TypeOK, CheckInv, RemoveExpired
<1>2. old \in SUBSET {t \in Tag : lastRead[t] # Absent}
  BY ObsoleteTags
<1>3. /\ Without(lastRead, old) \in [Tag -> Time \cup {Absent}]
      /\ \A t \in Tag : Without(lastRead, old)[t] = Absent <=> t \in old \/ lastRead[t] = Absent
  BY <1>1, <1>2, WithoutTags DEF IInv, TypeOK
<1>4. lastRead' = Without(lastRead, old) /\ expired' = old /\ checkTime' = Absent
  BY DEF RemoveExpired
<1> HIDE DEF old
<1>5. TypeOK'
  BY <1>2, <1>3, <1>4 DEF IInv, TypeOK, RemoveExpired, dataVars
<1>6. ClockInv' /\ CheckInv'
  BY <1>4, TimeAssumption DEF IInv, TypeOK, Time, ClockInv, CheckInv, RemoveExpired, Absent
<1>7. ReportInv'
  <2> SUFFICES ASSUME ~raced' PROVE (expired' = {} \/ DataIdle') /\ Settled' = Cached'
    BY DEF ReportInv
  <2>1. ~raced /\ (expired' = {} \/ DataIdle)
    BY DEF IInv, TypeOK, RemoveExpired
  <2>2. Settled = Cached
    BY <2>1 DEF IInv, ReportInv
  <2>3. Cached' = Cached \ old
    BY <1>3, <1>4 DEF Cached
  <2>4. Settled' = Settled \ old
    BY <1>1, <1>4 DEF Settled, RemoveExpired, dataVars
  <2> QED
    BY <2>1, <2>2, <2>3, <2>4 DEF DataIdle, RemoveExpired, dataVars
<1> QED
  BY <1>5, <1>6, <1>7 DEF IInv

\* A report moves a tag from what is to be told to what is known.
LEMMA ReportStep ==
  ASSUME IInv, ReportAppeared \/ \E t \in Tag : ReportGone(t) \/ ReportExpired(t)
  PROVE  IInv'
<1>1. CASE ReportAppeared
  <2>1. TypeOK' /\ ClockInv' /\ CheckInv'
    BY <1>1 DEF IInv, TypeOK, ClockInv, CheckInv, ReportAppeared, cacheVars, checkVars
  <2>2. ReportInv'
    BY <1>1 DEF IInv, ReportInv, ReportAppeared, cacheVars, checkVars, Settled, Cached, DataIdle
  <2> QED
    BY <2>1, <2>2 DEF IInv
<1>2. ASSUME NEW t \in Tag, ReportGone(t) PROVE IInv'
  <2>1. TypeOK' /\ ClockInv' /\ CheckInv'
    BY <1>2 DEF IInv, TypeOK, ClockInv, CheckInv, ReportGone, cacheVars, checkVars
  <2>2. Settled' = Settled /\ Cached' = Cached
    BY <1>2 DEF ReportGone, cacheVars, checkVars, Settled, Cached
  <2>3. ReportInv'
    BY <1>2, <2>2 DEF IInv, ReportInv, ReportGone, checkVars, DataIdle
  <2> QED
    BY <2>1, <2>3 DEF IInv
<1>3. ASSUME NEW t \in Tag, ReportExpired(t) PROVE IInv'
  <2>1. TypeOK' /\ ClockInv' /\ CheckInv'
    BY <1>3 DEF IInv, TypeOK, ClockInv, CheckInv, ReportExpired, cacheVars, dataVars
  <2>2. Cached' = Cached /\ DataIdle' = DataIdle /\ (DataIdle => Settled' = Settled)
    BY <1>3 DEF ReportExpired, cacheVars, dataVars, Settled, Cached, DataIdle
  <2>3. ReportInv'
    BY <1>3, <2>2 DEF IInv, ReportInv, ReportExpired
  <2> QED
    BY <2>1, <2>3 DEF IInv
<1> QED
  BY <1>1, <1>2, <1>3

\* The clock, the scheduler and a stop leave the cache and the reports alone.
LEMMA ClockStep ==
  ASSUME IInv, Check \/ StopRfTracking \/ Tick \/ UNCHANGED vars
  PROVE  IInv'
<1>1. CASE Check
  <2>1. TypeOK'
    BY <1>1, TimeoutAssumption, TimeAssumption
       DEF IInv, TypeOK, Time, ClockInv, Check, dataVars
  <2>2. ClockInv' /\ CheckInv'
    BY <1>1 DEF IInv, TypeOK, Time, ClockInv, CheckInv, Check
  <2>3. ReportInv'
    BY <1>1 DEF IInv, ReportInv, Check, dataVars, Settled, Cached, DataIdle
  <2> QED
    BY <2>1, <2>2, <2>3 DEF IInv
<1>2. CASE StopRfTracking \/ Tick \/ UNCHANGED vars
  <2>1. /\ now' \in Time /\ now' >= now
        /\ UNCHANGED <<lastRead, nextCheck, transactionId, transactionStart, lastTimestamp,
                       localTimeDiff, dataVars, checkVars, seen, raced>>
        /\ checker' \in BOOLEAN
    <3>1. CASE StopRfTracking
      <4>1. /\ UNCHANGED <<now, lastRead, nextCheck, transactionId, transactionStart>>
            /\ UNCHANGED <<lastTimestamp, localTimeDiff, dataVars, checkVars, seen, raced>>
            /\ checker' = FALSE
        BY <3>1 DEF StopRfTracking
      <4>2. now' \in Time /\ now' >= now
        BY <4>1 DEF IInv, TypeOK, Time
      <4> QED
        BY <4>1, <4>2
    <3>2. CASE Tick
      BY <3>2, TimeAssumption DEF IInv, TypeOK, Time, Tick, cacheVars
    <3>3. CASE UNCHANGED vars
      BY <3>3 DEF IInv, TypeOK, Time, vars, cacheVars
    <3> QED
      BY <1>2, <3>1, <3>2, <3>3
  <2>2. TypeOK'
    BY <2>1 DEF IInv, TypeOK, dataVars, checkVars
  <2>3. ClockInv' /\ CheckInv'
    BY <2>1, TimeAssumption DEF IInv, TypeOK, Time, ClockInv, CheckInv, checkVars, Absent
  <2>4. ReportInv'
    BY <1>2 DEF IInv, ReportInv, StopRfTracking, Tick, vars, cacheVars, dataVars, checkVars,
                Settled, Cached, DataIdle
  <2> QED
    BY <2>2, <2>3, <2>4 DEF IInv
<1> QED
  BY <1>1, <1>2

\* Every step of the tracker preserves the invariant.
LEMMA NextIInv == IInv /\ [Next]_vars => IInv'
BY RfDataStep, RemoveExpiredStep, ReportStep, ClockStep DEF Next

\* The invariant holds in every state of the two threads (rfData(), run()).
THEOREM Inductive == Spec => []IInv
BY InitIInv, NextIInv, PTL DEF Spec

-----------------------------------------------------------------------------
\* Every variable keeps its type: in particular, the time the checker works with is
\* one the reader may have (run()).
THEOREM TypeCorrect == Spec => []TypeOK
<1>1. IInv => TypeOK
  BY DEF IInv
<1> QED
  BY <1>1, Inductive, PTL

\* As long as the data thread and the checker do not race to report, a consumer that
\* was told everything knows the cache (rfData(), run()).
THEOREM ConsumerKnowsCache == Spec => []ReportsFollowCacheUnlessRaced
<1>1. IInv => ReportsFollowCacheUnlessRaced
  BY DEF IInv, ReportInv, Settled, ReportsFollowCacheUnlessRaced, ReportsFollowCache, DataIdle
<1> QED
  BY <1>1, Inductive, PTL

\* The checker removes only tags that were silent for the whole timeout, whatever the
\* delays of messages (removeObsoleteTags()).
THEOREM NothingExpiresEarly == Spec => NoEarlyExpiry
<1>1. IInv /\ [Next]_vars
        => [\A t \in expired' \ expired : now - lastRead[t] >= InvalidationTimeout]_vars
  <2> SUFFICES ASSUME IInv, Next, NEW t \in expired' \ expired
               PROVE  now - lastRead[t] >= InvalidationTimeout
    OBVIOUS
  <2>1. CASE RemoveExpired
    <3>1. t \in Tag /\ checkTime - lastRead[t] >= InvalidationTimeout
      BY <2>1 DEF RemoveExpired, Obsolete
    <3> QED
      BY <3>1, TimeoutAssumption DEF IInv, TypeOK, Time, ClockInv, Absent
  <2>2. CASE ~RemoveExpired
    BY <2>2 DEF Next, RfData, ReportAppeared, ReportGone, ReportExpired, Check, StopRfTracking,
                Tick, checkVars
  <2> QED
    BY <2>1, <2>2
<1> QED
  BY <1>1, Inductive, PTL DEF Spec, NoEarlyExpiry

-----------------------------------------------------------------------------
(* The executor *)

\* The order in which shutdown() proceeds.
ShutdownInOrder ==
  /\ cleared => shutdown
  /\ \A c \in Client :
       /\ pc[c] = "clear" => shutdown
       /\ pc[c] \in {"stop", "interrupt"} => cleared
       /\ pc[c] \in {"submit", "offer"} => arg[c] \in Task

\* What tells the worker to stop comes after the queue was emptied, and what it
\* runs is a task.
StoppedAfterClear ==
  /\ interrupted => cleared
  /\ Stop \in Range(tasks) => cleared
  /\ worker = "stopped" => cleared
  /\ worker = "run" => running \in Task

QueueIsLate == cleared => Range(tasks) \ {Stop} \subseteq late

ExIInv == ExTypeOK /\ ShutdownInOrder /\ StoppedAfterClear /\ QueueIsLate

-----------------------------------------------------------------------------
LEMMA AppendRange ==
  ASSUME NEW s \in Seq(Task \cup {Stop}), NEW e \in Task \cup {Stop}
  PROVE  /\ Append(s, e) \in Seq(Task \cup {Stop})
         /\ Range(Append(s, e)) = Range(s) \cup {e}
<1>1. /\ Append(s, e) \in Seq(Task \cup {Stop})
      /\ Len(Append(s, e)) = Len(s) + 1
      /\ \A i \in 1 .. Len(s) : Append(s, e)[i] = s[i]
      /\ Append(s, e)[Len(s) + 1] = e
  OBVIOUS
<1>2. /\ DOMAIN s = 1 .. Len(s) /\ Len(s) \in Nat
      /\ DOMAIN Append(s, e) = 1 .. Len(s) + 1
  BY <1>1
<1> QED
  BY <1>1, <1>2 DEF Range

LEMMA TailRange ==
  ASSUME NEW s \in Seq(Task \cup {Stop}), s # <<>>
  PROVE  /\ Head(s) \in Task \cup {Stop} /\ Head(s) \in Range(s)
         /\ Tail(s) \in Seq(Task \cup {Stop})
         /\ Range(Tail(s)) \subseteq Range(s)
<1>1. /\ Len(s) \in Nat \ {0} /\ DOMAIN s = 1 .. Len(s)
      /\ Head(s) = s[1]
  OBVIOUS
<1>2. /\ Tail(s) \in Seq(Task \cup {Stop})
      /\ Len(Tail(s)) = Len(s) - 1
      /\ DOMAIN Tail(s) = 1 .. Len(s) - 1
      /\ \A i \in 1 .. Len(s) - 1 : Tail(s)[i] = s[i + 1]
  BY <1>1
<1>3. Head(s) \in Task \cup {Stop} /\ Head(s) \in Range(s)
  BY <1>1 DEF Range
<1>4. ASSUME NEW i \in DOMAIN Tail(s) PROVE Tail(s)[i] \in Range(s)
  BY <1>1, <1>2 DEF Range
<1> QED
  BY <1>2, <1>3, <1>4 DEF Range

LEMMA EmptyRange == <<>> \in Seq(Task \cup {Stop}) /\ Range(<<>>) = {}
<1>1. DOMAIN <<>> = {}
  OBVIOUS
<1> QED
  BY <1>1 DEF Range

LEMMA ExInitIInv == ExInit => ExIInv
BY EmptyRange
   DEF ExInit, ExIInv, ExTypeOK, ShutdownInOrder, StoppedAfterClear, QueueIsLate

-----------------------------------------------------------------------------
\* A task enters the queue: late when the flag is set.
LEMMA EnqueueStep ==
  ASSUME ExIInv, NEW c \in Client, Put(c) \/ OfferTask(c)
  PROVE  ExIInv'
<1> USE DEF ExIInv, ExTypeOK
<1>1. arg[c] \in Task
  BY DEF Put, OfferTask, ShutdownInOrder
<1>2. CASE Enqueue(arg[c])
  <2>1. tasks' \in Seq(Task \cup {Stop}) /\ Range(tasks') = Range(tasks) \cup {arg[c]}
    BY <1>1, <1>2, AppendRange DEF Enqueue
  <2>2. ExTypeOK'
    BY <1>1, <1>2, <2>1 DEF Put, OfferTask, Enqueue, Becomes, workerVars
  <2>3. ShutdownInOrder'
    BY <1>1 DEF ShutdownInOrder, Put, OfferTask, Becomes, workerVars
  <2>4. StoppedAfterClear'
    BY <1>1, <2>1, StopAssumption DEF StoppedAfterClear, Put, OfferTask, workerVars
  <2>5. QueueIsLate'
    <3> SUFFICES ASSUME cleared PROVE Range(tasks') \ {Stop} \subseteq late'
      BY DEF QueueIsLate, Put, OfferTask
    <3>1. late' = late \cup {arg[c]}
      BY <1>2 DEF Enqueue, ShutdownInOrder
    <3> QED
      BY <2>1, <3>1 DEF QueueIsLate
  <2> QED
    BY <2>2, <2>3, <2>4, <2>5
<1>3. CASE OfferTask(c) /\ UNCHANGED <<tasks, accepted, late>>
  <2>1. ExTypeOK'
    BY <1>3 DEF OfferTask, Becomes, workerVars
  <2> QED
    BY <1>3, <2>1 DEF OfferTask, Becomes, workerVars, ShutdownInOrder, StoppedAfterClear,
                      QueueIsLate
<1> QED
  BY <1>2, <1>3 DEF Put, OfferTask

\* The steps of shutdown(), and the beginning of any call.
LEMMA CallStep ==
  ASSUME ExIInv, NEW c \in Client,
         \/ \E k \in Task, call \in {"submit", "offer"} : Begin(c, k, call)
         \/ \E i \in BOOLEAN : Shutdown(c, i)
         \/ Mark(c) \/ Interrupt(c)
  PROVE  ExIInv'
<1> USE DEF ExIInv, ExTypeOK, Becomes, workerVars, history
<1>1. ASSUME NEW k \in Task, NEW call \in {"submit", "offer"}, Begin(c, k, call) PROVE ExIInv'
  BY <1>1 DEF Begin, ShutdownInOrder, StoppedAfterClear, QueueIsLate
<1>2. ASSUME NEW i \in BOOLEAN, Shutdown(c, i) PROVE ExIInv'
  BY <1>2 DEF Shutdown, ShutdownInOrder, StoppedAfterClear, QueueIsLate
<1>3. CASE Mark(c)
  BY <1>3 DEF Mark, ShutdownInOrder, StoppedAfterClear, QueueIsLate
<1>4. CASE Interrupt(c)
  BY <1>4 DEF Interrupt, ShutdownInOrder, StoppedAfterClear, QueueIsLate
<1> QED
  BY <1>1, <1>2, <1>3, <1>4

LEMMA ClearStep ==
  ASSUME ExIInv, NEW c \in Client, Clear(c)
  PROVE  ExIInv'
<1> USE DEF ExIInv, ExTypeOK, Clear, Becomes, workerVars
<1>1. tasks' \in Seq(Task \cup {Stop}) /\ Range(tasks') = {}
  BY EmptyRange
<1> QED
  BY <1>1 DEF ShutdownInOrder, StoppedAfterClear, QueueIsLate

LEMMA AddStopStep ==
  ASSUME ExIInv, NEW c \in Client, AddStop(c)
  PROVE  ExIInv'
<1> USE DEF ExIInv, ExTypeOK, AddStop, Becomes, workerVars, history
<1>1. cleared
  BY DEF ShutdownInOrder
<1>2. /\ tasks' \in Seq(Task \cup {Stop})
      /\ Range(tasks') \ {Stop} = Range(tasks) \ {Stop}
  <2>1. CASE tasks' = Append(tasks, Stop)
    BY <2>1, AppendRange
  <2>2. CASE UNCHANGED tasks
    BY <2>2
  <2> QED
    BY <2>1, <2>2
<1>3. pc' = [pc EXCEPT ![c] = "idle"] \/ pc' = [pc EXCEPT ![c] = "interrupt"]
  OBVIOUS
<1>4. ExTypeOK' /\ ShutdownInOrder'
  BY <1>1, <1>2, <1>3 DEF ShutdownInOrder
<1> QED
  BY <1>1, <1>2, <1>4 DEF StoppedAfterClear, QueueIsLate

LEMMA WorkStep ==
  ASSUME ExIInv, Work
  PROVE  ExIInv'
<1> USE DEF ExIInv, ExTypeOK, clientVars
<1>1. CASE Take
  <2>1. /\ Head(tasks) \in Task \cup {Stop} /\ Head(tasks) \in Range(tasks)
        /\ tasks' \in Seq(Task \cup {Stop})
        /\ Range(tasks') \subseteq Range(tasks)
    BY <1>1, TailRange DEF Take
  <2>2. ExTypeOK' /\ ShutdownInOrder'
    BY <1>1, <2>1 DEF Take, ShutdownInOrder, history
  <2> QED
    BY <1>1, <2>1, <2>2 DEF Take, StoppedAfterClear, QueueIsLate, history
<1>2. CASE TakeInterrupted
  BY <1>2 DEF TakeInterrupted, ShutdownInOrder, StoppedAfterClear, QueueIsLate, history
<1>3. CASE TaskEnds
  <2>1. running \in Task
    BY <1>3 DEF TaskEnds, StoppedAfterClear
  <2>2. interrupted' \in BOOLEAN /\ (interrupted' => interrupted)
    <3>1. interrupted' \in {interrupted, FALSE}
      BY <1>3 DEF TaskEnds
    <3>2. CASE interrupted' = interrupted
      BY <3>2
    <3>3. CASE interrupted' = FALSE
      BY <3>3
    <3> QED
      BY <3>1, <3>2, <3>3
  <2>3. ExTypeOK' /\ ShutdownInOrder'
    BY <1>3, <2>1, <2>2 DEF TaskEnds, ShutdownInOrder
  <2> QED
    BY <1>3, <2>2, <2>3 DEF TaskEnds, StoppedAfterClear, QueueIsLate
<1> QED
  BY <1>1, <1>2, <1>3 DEF Work

LEMMA ExNextIInv == ExIInv /\ [ExNext]_exVars => ExIInv'
<1> SUFFICES ASSUME ExIInv, [ExNext]_exVars PROVE ExIInv'
  OBVIOUS
<1>1. CASE Done \/ UNCHANGED exVars
  BY <1>1 DEF Done, exVars, clientVars, workerVars, history, ExIInv, ExTypeOK, ShutdownInOrder,
              StoppedAfterClear, QueueIsLate
<1> QED
  BY <1>1, EnqueueStep, CallStep, ClearStep, AddStopStep, WorkStep DEF ExNext, Close

\* The invariant the properties follow from.
THEOREM ExInvariance == ExSpec => []ExIInv
<1> QED
  BY ExInitIInv, ExNextIInv, PTL DEF ExSpec

\* Every variable keeps its type.
THEOREM ExTypeCorrect == ExSpec => []ExTypeOK
<1>1. ExIInv => ExTypeOK
  BY DEF ExIInv
<1> QED
  BY <1>1, ExInvariance, PTL

\* A stopped executor leaves no task in its queue that was submitted before
\* the shutdown, however calls of submit(), offer() and shutdown() race.
THEOREM OnlyLateStranded == ExSpec => []OnlyLateTasksStranded
<1>1. ExIInv => OnlyLateTasksStranded
  BY DEF ExIInv, StoppedAfterClear, QueueIsLate, OnlyLateTasksStranded
<1> QED
  BY <1>1, ExInvariance, PTL
=============================================================================
