-------------------------- MODULE DefaultRfTracker --------------------------
(***************************************************************************)
(* DefaultRfTracker: the tag cache that turns raw reads into "appeared"    *)
(* and "disappeared" messages.                                             *)
(*                                                                         *)
(* The reader's data thread calls rfData(); a checker that the tracker     *)
(* schedules at a fixed rate while a reading transaction is open calls     *)
(* run().  Both update the cache inside the tracker's monitor, but report  *)
(* what they found after leaving it.  Messages carry the reader's time,    *)
(* possibly late; the checker guesses that time from the local clock.      *)
(* The antennas of a tag are left out: no property is about them.          *)
(***************************************************************************)
EXTENDS Integers

CONSTANTS
  Tag,        \* the tags in the field
  NoTag,      \* a message without a tag: an end of transaction only
  TxId,       \* identifiers of reading transactions
  TransactionTimeout, InvalidationTimeout,
  Delays,     \* how late a message may be
  DataUntil,  \* bound: the local time messages arrive until
  MaxTime     \* bound: the local time the clock stops at

ASSUME TagAssumption == NoTag \notin Tag
ASSUME TimeoutAssumption ==
  TransactionTimeout \in Nat \ {0} /\ InvalidationTimeout \in Nat
ASSUME TimeAssumption ==
  Delays \subseteq Nat /\ DataUntil \in Nat /\ MaxTime \in Nat

Absent == -1

VARIABLES
  now,           \* the local clock
  lastRead,      \* the cache: when each tag was last read, or Absent
  checker,       \* whether transactionChecker is scheduled: a transaction is open
  nextCheck,     \* when it runs next
  transactionId, transactionStart,
  lastTimestamp, \* the latest time a message carried
  localTimeDiff, \* the local time minus that
  appeared,      \* the tag the data thread has to report as appeared
  gone,          \* the tags the data thread has to report as disappeared
  checkTime,     \* the time the running checker computed, or Absent
  expired,       \* the tags the checker has to report as disappeared
  seen,          \* the consumer's view: appeared and not disappeared since
  raced          \* history: whether one thread changed the cache while the other
                 \* had a change to report

cacheVars == <<lastRead, checker, nextCheck, transactionId, transactionStart,
               lastTimestamp, localTimeDiff>>
dataVars == <<appeared, gone>>
checkVars == <<checkTime, expired>>
vars == <<now, cacheVars, dataVars, checkVars, seen, raced>>

Cached == {t \in Tag : lastRead[t] # Absent}

\* removeObsoleteTags(): what is removed from a cache at a time.
Obsolete(cache, time) ==
  {t \in Tag : cache[t] # Absent /\ time - cache[t] >= InvalidationTimeout}

Without(cache, tags) == [t \in Tag |-> IF t \in tags THEN Absent ELSE cache[t]]

\* cacheTag(): a read in the past does not move the last appearance back.
WithRead(cache, tag, time) ==
  [t \in Tag |-> IF t = tag /\ cache[t] < time THEN time ELSE cache[t]]

\* Mutant: a tag of the ended transaction is reported even if it was read anew.
ReportedGoneAll(old, tag, ended) == old \cup ended

\* What rfData() reports as disappeared: of the tags the ended transaction left
\* behind, not the one read just now.
ReportedGone(old, tag, ended) == (old \ {tag}) \cup ended

DataIdle == appeared = NoTag /\ gone = {}

Init ==
  /\ now = 0
  /\ lastRead = [t \in Tag |-> Absent]
  /\ checker = FALSE
  /\ nextCheck = 0
  /\ transactionId \in TxId
  /\ transactionStart = 0
  /\ lastTimestamp = 0
  /\ localTimeDiff = 0
  /\ appeared = NoTag
  /\ gone = {}
  /\ checkTime = Absent
  /\ expired = {}
  /\ seen = {}
  /\ raced = FALSE

\* The monitored part of rfData().  The tags of an ended transaction are
\* checked first, then the tag is cached, then an explicit end is handled.
RfData(tag, tx, end, time) ==
  LET changed == /\ checker
                 /\ \/ transactionId # tx
                    \/ time - transactionStart >= TransactionTimeout
      old == IF changed THEN Obsolete(lastRead, time) ELSE {}
      kept == Without(lastRead, old)
      read == WithRead(kept, tag, time)
      ended == IF end THEN Obsolete(read, time) ELSE {}
      closed == changed \/ end \/ ~checker
  IN  /\ DataIdle
      /\ now <= DataUntil
      /\ IF time > lastTimestamp
           THEN lastTimestamp' = time /\ localTimeDiff' = now - time
           ELSE UNCHANGED <<lastTimestamp, localTimeDiff>>
      /\ lastRead' = Without(read, ended)
      /\ appeared' = IF tag # NoTag /\ kept[tag] = Absent THEN tag ELSE NoTag
      /\ gone' = ReportedGone(old, tag, ended)
      /\ checker' = TRUE
      /\ IF closed
           THEN /\ transactionId' = tx
                /\ transactionStart' = time
                /\ nextCheck' = now + TransactionTimeout
           ELSE UNCHANGED <<transactionId, transactionStart, nextCheck>>
      /\ raced' = (raced \/ expired # {})
      /\ UNCHANGED <<now, checkVars, seen>>

\* tracking.tagAppeared(), before any disappearance.
ReportAppeared ==
  /\ appeared # NoTag
  /\ seen' = seen \cup {appeared}
  /\ appeared' = NoTag
  /\ UNCHANGED <<now, cacheVars, gone, checkVars, raced>>

\* tagsDisappeared() of the data thread, in no particular order.
ReportGone(t) ==
  /\ appeared = NoTag /\ t \in gone
  /\ seen' = seen \ {t}
  /\ gone' = gone \ {t}
  /\ UNCHANGED <<now, cacheVars, appeared, checkVars, raced>>

\* Mutants of run(): the difference added, and the checker scheduled once.
CheckLate ==
  /\ checker /\ now >= nextCheck
  /\ checkTime = Absent /\ expired = {}
  /\ checkTime' = now + localTimeDiff
  /\ nextCheck' = nextCheck + TransactionTimeout
  /\ UNCHANGED <<now, lastRead, checker, transactionId, transactionStart, lastTimestamp,
                 localTimeDiff, dataVars, expired, seen, raced>>

CheckOnce ==
  /\ checker /\ now >= nextCheck
  /\ checkTime = Absent /\ expired = {}
  /\ checkTime' = now - localTimeDiff
  /\ nextCheck' = MaxTime + 1
  /\ UNCHANGED <<now, lastRead, checker, transactionId, transactionStart, lastTimestamp,
                 localTimeDiff, dataVars, expired, seen, raced>>

\* run(): the checker computes the reader's time, ...
Check ==
  /\ checker /\ now >= nextCheck
  /\ checkTime = Absent /\ expired = {}
  /\ checkTime' = now - localTimeDiff
  /\ nextCheck' = nextCheck + TransactionTimeout
  /\ UNCHANGED <<now, lastRead, checker, transactionId, transactionStart, lastTimestamp,
                 localTimeDiff, dataVars, expired, seen, raced>>

\* ... enters the monitor to remove what is obsolete by then, ...
RemoveExpired ==
  /\ checkTime # Absent
  /\ lastRead' = Without(lastRead, Obsolete(lastRead, checkTime))
  /\ expired' = Obsolete(lastRead, checkTime)
  /\ checkTime' = Absent
  /\ raced' = (raced \/ (expired' # {} /\ ~DataIdle))
  /\ UNCHANGED <<now, checker, nextCheck, transactionId, transactionStart, lastTimestamp,
                 localTimeDiff, dataVars, seen>>

\* ... and reports it.
ReportExpired(t) ==
  /\ t \in expired
  /\ seen' = seen \ {t}
  /\ expired' = expired \ {t}
  /\ UNCHANGED <<now, cacheVars, dataVars, checkTime, raced>>

\* stopRfTracking(): the checker is cancelled, but neither a run of it that
\* has begun nor the cache is.
StopRfTracking ==
  /\ checker
  /\ checker' = FALSE
  /\ UNCHANGED <<now, lastRead, nextCheck, transactionId, transactionStart, lastTimestamp,
                 localTimeDiff, dataVars, checkVars, seen, raced>>

Tick ==
  /\ now < MaxTime
  /\ now' = now + 1
  /\ UNCHANGED <<cacheVars, dataVars, checkVars, seen, raced>>

Next ==
  \/ \E tag \in Tag \cup {NoTag}, tx \in TxId, end \in BOOLEAN, d \in Delays :
       now - d >= 0 /\ RfData(tag, tx, end, now - d)
  \/ ReportAppeared
  \/ \E t \in Tag : ReportGone(t) \/ ReportExpired(t)
  \/ Check
  \/ RemoveExpired
  \/ StopRfTracking
  \/ Tick

Spec == Init /\ [][Next]_vars

\* Time passes, the scheduler runs the checker when it is due, and both
\* threads report what they found.
Fairness ==
  /\ WF_vars(Tick)
  /\ WF_vars(Check)
  /\ WF_vars(RemoveExpired)
  /\ WF_vars(ReportAppeared)
  /\ \A t \in Tag : WF_vars(ReportGone(t)) /\ WF_vars(ReportExpired(t))

FairSpec == Spec /\ Fairness

-----------------------------------------------------------------------------
(* Properties *)

Time == 0 .. MaxTime

\* Every variable has its type.
TypeOK ==
  /\ now \in Time
  /\ lastRead \in [Tag -> Time \cup {Absent}]
  /\ checker \in BOOLEAN
  /\ nextCheck \in 0 .. MaxTime + 2 * TransactionTimeout
  /\ transactionId \in TxId /\ transactionStart \in Time
  /\ lastTimestamp \in Time /\ localTimeDiff \in Nat
  /\ appeared \in Tag \cup {NoTag}
  /\ gone \subseteq Tag /\ expired \subseteq Tag
  /\ checkTime \in Time \cup {Absent}
  /\ seen \subseteq Tag
  /\ raced \in BOOLEAN

\* "It reports that the tag is appeared when its added to the cache for the
\* first time, and reports that the tag is disappeared when it is removed from
\* this cache": with everything reported, the consumer knows the cache.
ReportsFollowCache == DataIdle /\ expired = {} => seen = Cached

\* The same as long as the two threads do not race: each reports all it found
\* before the other changes the cache.
ReportsFollowCacheUnlessRaced == ~raced => ReportsFollowCache

\* A tag removed by the checker had been silent for the whole timeout by the
\* reader's own clock, however late its messages come.
NoEarlyExpiry ==
  [][\A t \in expired' \ expired : now - lastRead[t] >= InvalidationTimeout]_vars

\* A tag that is no longer read leaves the cache and is reported as gone even
\* when no message ever comes again, unless tracking is stopped.
SilentTagsDisappear ==
  \A t \in Tag : t \in Cached ~> t \notin Cached \cup gone \cup expired \/ ~checker
=============================================================================
