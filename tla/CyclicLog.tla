------------------------------ MODULE CyclicLog ------------------------------
(***************************************************************************)
(* The tag event log of driver.log: TagLog over CyclicLog, its locks and   *)
(* its readers (CyclicLogLock, CyclicLogReader).                           *)
(*                                                                         *)
(* The log is a file of fixed-size records used as a ring.  Writers (the   *)
(* threads that report tags) append events with growing identifiers;       *)
(* readers replay the events from an identifier on while writing goes on.  *)
(* A reader locks the part of the ring it has yet to read and the writer   *)
(* waits rather than overwrite it.  The log's monitor protects the channel *)
(* position, the record buffer and the list of locks; readers search and   *)
(* read the file outside of it.  The position and the last identifier are  *)
(* stored in two more files after every write; a restart reads them back,  *)
(* possibly with another maximum size.                                     *)
(*                                                                         *)
(* A position is counted in records.  A record is its event's identifier.  *)
(***************************************************************************)
EXTENDS Integers, Sequences, FiniteSets, SequencesExt

CONSTANTS
  Writer,       \* threads that log events
  Reader,       \* readers of the log
  FirstSize,    \* the maximum number of records when the log is created
  Sizes,        \* the maximum sizes a restart may configure
  From,         \* the identifiers the readers seek
  MaxId,        \* bound: events logged
  MaxRestarts,  \* bound: restarts
  Nobody        \* no thread

ASSUME SizeAssumption ==
  FirstSize \in Nat \ {0} /\ Sizes \subseteq Nat \ {0}
ASSUME BoundAssumption ==
  MaxId \in Nat /\ MaxRestarts \in Nat /\ From \subseteq Nat
ASSUME NobodyAssumption == Nobody \notin Writer \cup Reader

VARIABLES
  file,       \* the records of the log file
  storedPos,  \* the position file; -1 while it is empty
  storedId,   \* the identifier file; 0 while it is empty
  maxRecords, \* the configured size
  pos,        \* channel().position(): where the next record goes
  lastId,     \* TagLog.lastId
  record,     \* CyclicLog.record: the one buffer all writers share
  monitor,    \* the writer inside the log's monitor
  locks,      \* the chain of locks from the oldest to CyclicLog.lock
  range,      \* the bounds [start, end] of each reader's lock
  wpc,        \* what each writer does
  own,        \* the event each writer logs
  rpc,        \* what each reader does
  from,       \* the identifier each reader seeks
  at,         \* the channel position of each reader
  search,     \* start, end and lastGreater of the binary search
  got,        \* CyclicLogReader.record: the last record each reader read
  due,        \* history: the identifier each reader has to return next
  restarts,   \* restarts made
  crashed,    \* history: whether the process ever ended while it logged
  shrunk      \* history: whether the log was ever made smaller

fileVars == <<file, storedPos, storedId>>
writerVars == <<pos, lastId, record, monitor, wpc, own>>
restartVars == <<restarts, crashed, shrunk>>
readerVars == <<locks, range, rpc, from, at, search, got, due>>
vars == <<fileVars, maxRecords, writerVars, readerVars, restartVars>>

Size == Len(file)

\* The record in slot p.
Slot(p) == file[p + 1]

Lower(i, j) == IF i <= j THEN i ELSE j
Higher(i, j) == IF i >= j THEN i ELSE j

-----------------------------------------------------------------------------
(* Locks *)

\* CyclicLogLock.updateBounds: the bounds b of older locks with lock n.
UpdateBounds(b, n) ==
  [start |-> Lower(b.start, n.start),
   end |-> IF b.start < b.end /\ n.start >= n.end
             THEN n.end
             ELSE IF (b.start < b.end) = (n.start < n.end)
                    THEN Higher(b.end, n.end)
                    ELSE b.end]

\* lockStart and lockEnd: evalBounds() of the newest lock.
Bounds == FoldLeft(LAMBDA b, r : UpdateBounds(b, range[r]), range[locks[1]], Tail(locks))

\* Mutant: a lock is taken without leaving the chain first.
UnlockedNever(r) == locks

\* CyclicLog.unlock(): the lock leaves the chain; when it is the newest one
\* the log goes on with the lock's next, which a newest lock has not.
Unlocked(r) ==
  IF locks = <<>> \/ Last(locks) = r
    THEN <<>>
    ELSE SelectSeq(locks, LAMBDA q : q # r)

\* relockFrom(): unlock and lock again from p to the current position.
Relock(r, p) ==
  /\ locks' = Append(Unlocked(r), r)
  /\ range' = [range EXCEPT ![r] = [start |-> p, end |-> pos]]

\* Mutant: a lock round the whole ring is taken for an empty one.
MayWriteOnWrap ==
  locks # <<>> => IF Bounds.start > Bounds.end
                    THEN Bounds.start > pos /\ Bounds.end <= pos
                    ELSE Bounds.start > pos \/ Bounds.end <= pos

\* waitToWrite() returns: the slot at the position is outside of the bounds.
MayWrite ==
  locks # <<>> => IF Bounds.start >= Bounds.end
                    THEN Bounds.start > pos /\ Bounds.end <= pos
                    ELSE Bounds.start > pos \/ Bounds.end <= pos

\* waitToTruncate() returns.
MayTruncate ==
  locks # <<>> => Bounds.start < Bounds.end /\ Bounds.end <= maxRecords

-----------------------------------------------------------------------------
Closed == [start |-> 0, end |-> 0]
NoSearch == [start |-> 0, end |-> 0, greater |-> -1]

Init ==
  /\ file = <<>>
  /\ storedPos = -1
  /\ storedId = 0
  /\ maxRecords = FirstSize
  /\ pos = 0
  /\ lastId = 0
  /\ record = 0
  /\ monitor = Nobody
  /\ locks = <<>>
  /\ range = [r \in Reader |-> Closed]
  /\ wpc = [w \in Writer |-> "idle"]
  /\ own = [w \in Writer |-> 0]
  /\ rpc = [r \in Reader |-> "new"]
  /\ from = [r \in Reader |-> 0]
  /\ at = [r \in Reader |-> 0]
  /\ search = [r \in Reader |-> NoSearch]
  /\ got = [r \in Reader |-> 0]
  /\ due = [r \in Reader |-> 0]
  /\ restarts = 0
  /\ crashed = FALSE /\ shrunk = FALSE

-----------------------------------------------------------------------------
(* Writers: TagLog.log() with CyclicLog.write() inside the log's monitor *)

\* The event gets its identifier and is put into the record buffer.
Log(w) ==
  /\ wpc[w] = "idle" /\ monitor = Nobody
  /\ lastId < MaxId
  /\ lastId' = lastId + 1
  /\ own' = [own EXCEPT ![w] = lastId + 1]
  /\ record' = lastId + 1
  /\ monitor' = w
  /\ wpc' = [wpc EXCEPT ![w] = "write"]
  /\ UNCHANGED <<fileVars, maxRecords, pos, readerVars, restartVars>>

\* wait() gives the monitor up until a reader calls notifyAll().
Wait(w) ==
  /\ monitor = w
  /\ \/ wpc[w] = "write" /\ ~MayWrite
     \/ wpc[w] = "truncate" /\ ~MayTruncate
  /\ monitor' = Nobody
  /\ UNCHANGED <<fileVars, maxRecords, pos, lastId, record, wpc, own, readerVars, restartVars>>

\* The waiting writer enters the monitor again; it checks its condition anew.
Resume(w) ==
  /\ monitor = Nobody
  /\ \/ wpc[w] = "write" /\ MayWrite
     \/ wpc[w] = "truncate" /\ MayTruncate
  /\ monitor' = w
  /\ UNCHANGED <<fileVars, maxRecords, pos, lastId, record, wpc, own, readerVars, restartVars>>

\* The record is written and the position advances; at the maximum it goes
\* back to 0, once a longer file is truncated.
WriteRecord(w) ==
  /\ monitor = w /\ wpc[w] = "write" /\ MayWrite
  /\ file' = IF pos < Size THEN [file EXCEPT ![pos + 1] = record] ELSE Append(file, record)
  /\ IF pos + 1 >= maxRecords /\ Len(file') > maxRecords
       THEN /\ pos' = pos + 1
            /\ wpc' = [wpc EXCEPT ![w] = "truncate"]
       ELSE /\ pos' = IF pos + 1 >= maxRecords THEN 0 ELSE pos + 1
            /\ wpc' = [wpc EXCEPT ![w] = "storePosition"]
  /\ UNCHANGED <<storedPos, storedId, maxRecords, lastId, record, monitor, own,
                 readerVars, restartVars>>

Truncate(w) ==
  /\ monitor = w /\ wpc[w] = "truncate" /\ MayTruncate
  /\ file' = SubSeq(file, 1, Lower(Size, maxRecords))
  /\ pos' = 0
  /\ wpc' = [wpc EXCEPT ![w] = "storePosition"]
  /\ UNCHANGED <<storedPos, storedId, maxRecords, lastId, record, monitor, own,
                 readerVars, restartVars>>

StorePosition(w) ==
  /\ monitor = w /\ wpc[w] = "storePosition"
  /\ storedPos' = pos
  /\ wpc' = [wpc EXCEPT ![w] = "storeId"]
  /\ UNCHANGED <<file, storedId, maxRecords, pos, lastId, record, monitor, own,
                 readerVars, restartVars>>

\* Mutant: the identifier is stored before it grows.
StoreIdBefore(w) ==
  /\ monitor = w /\ wpc[w] = "storeId"
  /\ storedId' = own[w] - 1
  /\ monitor' = Nobody
  /\ wpc' = [wpc EXCEPT ![w] = "idle"]
  /\ UNCHANGED <<file, storedPos, maxRecords, pos, lastId, record, own, readerVars, restartVars>>

StoreId(w) ==
  /\ monitor = w /\ wpc[w] = "storeId"
  /\ storedId' = own[w]
  /\ monitor' = Nobody
  /\ wpc' = [wpc EXCEPT ![w] = "idle"]
  /\ UNCHANGED <<file, storedPos, maxRecords, pos, lastId, record, own, readerVars, restartVars>>

-----------------------------------------------------------------------------
(* Readers *)

\* CyclicLogReader.middle(): the slot half way from s to e round the ring.
Middle(s, e) ==
  LET tail == Size - s
      mid == (tail + e) \div 2
  IN  IF s < e
        THEN s + (e - s) \div 2
        ELSE IF mid < tail THEN s + mid ELSE mid - tail

\* CyclicLogReader.nextRecord(): the slot after p in the searched range, or -1.
NextRecord(p, e) ==
  IF p = e \/ p + 1 = e THEN -1
  ELSE IF p + 2 > Size THEN (IF e = 0 THEN -1 ELSE 0)
  ELSE p + 1

\* What channel().read() leaves in the reader's buffer: nothing past the end.
ReadAt(r, p) == IF p < Size THEN Slot(p) ELSE got[r]

\* seek(): lock everything from the oldest record to the newest, except the
\* oldest one when it is in the last slot.
Seek(r) ==
  /\ rpc[r] = "new" /\ monitor = Nobody
  /\ \E id \in From : from' = [from EXCEPT ![r] = id]
  /\ LET s == IF pos + 1 >= Size THEN 0 ELSE pos
         empty == Size = 0
     IN  /\ locks' = Append(Unlocked(r), r)
         /\ range' = [range EXCEPT ![r] = [start |-> s, end |-> pos]]
         /\ search' = [search EXCEPT ![r] = [start |-> s, end |-> pos, greater |-> -1]]
         /\ rpc' = [rpc EXCEPT ![r] = IF empty THEN "failed" ELSE "search"]
         /\ at' = [at EXCEPT ![r] = IF empty THEN 0 ELSE Middle(s, pos)]
         /\ due' = [due EXCEPT ![r] = Higher(from'[r], IF empty THEN 1 ELSE Slot(s))]
  /\ UNCHANGED <<fileVars, maxRecords, writerVars, got, restartVars>>

\* One turn of the binary search at a record that is not older than wanted.
SearchGreater(r) ==
  /\ rpc[r] = "search" /\ monitor = Nobody
  /\ ReadAt(r, at[r]) >= from[r]
  /\ got' = [got EXCEPT ![r] = ReadAt(r, at[r])]
  /\ search' = [search EXCEPT ![r] = [@ EXCEPT !.end = at[r], !.greater = at[r]]]
  /\ IF at[r] = search[r].start
       THEN /\ rpc' = [rpc EXCEPT ![r] = "found"]
            /\ UNCHANGED at
       ELSE /\ at' = [at EXCEPT ![r] = Middle(search[r].start, at[r])]
            /\ UNCHANGED rpc
  /\ UNCHANGED <<fileVars, maxRecords, writerVars, locks, range, from, due, restartVars>>

\* One turn at an older record: the search goes on after it, as does the lock.
SearchLess(r) ==
  /\ rpc[r] = "search" /\ monitor = Nobody
  /\ ReadAt(r, at[r]) < from[r]
  /\ got' = [got EXCEPT ![r] = ReadAt(r, at[r])]
  /\ LET s == NextRecord(at[r], search[r].end)
     IN  IF s < 0
           THEN /\ rpc' = [rpc EXCEPT ![r] = IF search[r].greater < 0 THEN "failed" ELSE "found"]
                /\ UNCHANGED <<locks, range, search, at>>
           ELSE /\ Relock(r, s)
                /\ search' = [search EXCEPT ![r].start = s]
                /\ at' = [at EXCEPT ![r] = Middle(s, search[r].end)]
                /\ UNCHANGED rpc
  /\ UNCHANGED <<fileVars, maxRecords, writerVars, from, due, restartVars>>

\* The record is found: what is before it is unlocked.
SeekFound(r) ==
  /\ rpc[r] = "found" /\ monitor = Nobody
  /\ Relock(r, search[r].greater)
  /\ at' = [at EXCEPT ![r] = search[r].greater]
  /\ rpc' = [rpc EXCEPT ![r] = "pull"]
  /\ UNCHANGED <<fileVars, maxRecords, writerVars, from, search, got, due, restartVars>>

\* seekFailed(): no record to return.  Only when the log has not moved past
\* the lock meanwhile, the reader is exhausted and its client notified.
SeekFailed(r) ==
  /\ rpc[r] = "failed" /\ monitor = Nobody
  /\ IF range[r].end = pos
       THEN /\ locks' = Unlocked(r)
            /\ rpc' = [rpc EXCEPT ![r] = "exhausted"]
            /\ UNCHANGED range
       ELSE /\ Relock(r, range[r].end)
            /\ rpc' = [rpc EXCEPT ![r] = "notFound"]
  /\ UNCHANGED <<fileVars, maxRecords, writerVars, from, at, search, got, due, restartVars>>

\* The client closes the reader: it was told that nothing was found, or it
\* wants no more records.
Close(r) ==
  /\ rpc[r] \in {"notFound", "pull"} /\ monitor = Nobody
  /\ locks' = Unlocked(r)
  /\ rpc' = [rpc EXCEPT ![r] = "closed"]
  /\ UNCHANGED <<fileVars, maxRecords, writerVars, range, from, at, search, got, due, restartVars>>

\* read(): outside of the monitor.
Read(r) ==
  /\ rpc[r] = "pull"
  /\ got' = [got EXCEPT ![r] = ReadAt(r, at[r])]
  /\ LET p == IF at[r] < Size THEN at[r] + 1 ELSE at[r]
     IN  at' = [at EXCEPT ![r] = IF p >= maxRecords THEN 0 ELSE p]
  /\ rpc' = [rpc EXCEPT ![r] = "check"]
  /\ UNCHANGED <<fileVars, maxRecords, writerVars, locks, range, from, search, due, restartVars>>

\* Mutants: the position the log had when it was locked is used, and a reader
\* that is exhausted keeps its lock.
CheckExhaustStale(r) ==
  /\ rpc[r] = "check" /\ monitor = Nobody
  /\ IF at[r] # range[r].end
       THEN /\ Relock(r, at[r])
            /\ rpc' = [rpc EXCEPT ![r] = "pull"]
       ELSE /\ locks' = Unlocked(r)
            /\ rpc' = [rpc EXCEPT ![r] = "exhausted"]
            /\ UNCHANGED range
  /\ due' = [due EXCEPT ![r] = got[r] + 1]
  /\ UNCHANGED <<fileVars, maxRecords, writerVars, from, at, search, got, restartVars>>

CheckExhaustLocked(r) ==
  /\ rpc[r] = "check" /\ monitor = Nobody
  /\ IF at[r] # pos
       THEN /\ Relock(r, at[r])
            /\ rpc' = [rpc EXCEPT ![r] = "pull"]
       ELSE /\ rpc' = [rpc EXCEPT ![r] = "exhausted"]
            /\ UNCHANGED <<locks, range>>
  /\ due' = [due EXCEPT ![r] = got[r] + 1]
  /\ UNCHANGED <<fileVars, maxRecords, writerVars, from, at, search, got, restartVars>>

\* checkExhaust(): a reader that reached the position unlocks the log and
\* notifies its client; pull() returns the record in either case.
CheckExhaust(r) ==
  /\ rpc[r] = "check" /\ monitor = Nobody
  /\ IF at[r] # pos
       THEN /\ Relock(r, at[r])
            /\ rpc' = [rpc EXCEPT ![r] = "pull"]
       ELSE /\ locks' = Unlocked(r)
            /\ rpc' = [rpc EXCEPT ![r] = "exhausted"]
            /\ UNCHANGED range
  /\ due' = [due EXCEPT ![r] = got[r] + 1]
  /\ UNCHANGED <<fileVars, maxRecords, writerVars, from, at, search, got, restartVars>>

-----------------------------------------------------------------------------
(* Restart *)

\* initPosition(): where writing goes on, and the file it goes on with.
Reopened(max) ==
  IF storedPos < 0 THEN [pos |-> 0, file |-> <<>>]
  ELSE IF storedPos >= max THEN [pos |-> 0, file |-> SubSeq(file, 1, Lower(Size, max))]
  ELSE [pos |-> IF storedPos <= Size THEN storedPos ELSE 0, file |-> file]

\* The process ends, in good order or between any two writes to the files, and
\* the log is opened again: what was in memory is gone.
Restart ==
  /\ restarts < MaxRestarts
  /\ restarts' = restarts + 1
  /\ \E max \in Sizes :
       /\ maxRecords' = max
       /\ shrunk' = (shrunk \/ max < maxRecords)
       /\ pos' = Reopened(max).pos
       /\ file' = Reopened(max).file
  /\ crashed' = (crashed \/ \E w \in Writer : wpc[w] # "idle")
  /\ lastId' = storedId
  /\ record' = 0
  /\ monitor' = Nobody
  /\ wpc' = [w \in Writer |-> "idle"]
  /\ own' = [w \in Writer |-> 0]
  /\ locks' = <<>>
  /\ range' = [r \in Reader |-> Closed]
  /\ rpc' = [r \in Reader |-> "new"]
  /\ from' = [r \in Reader |-> 0]
  /\ at' = [r \in Reader |-> 0]
  /\ search' = [r \in Reader |-> NoSearch]
  /\ got' = [r \in Reader |-> 0]
  /\ due' = [r \in Reader |-> 0]
  /\ UNCHANGED <<storedPos, storedId>>

\* Nothing more is to happen: the bound on events is reached and nobody acts.
Done ==
  /\ lastId = MaxId /\ restarts = MaxRestarts
  /\ \A w \in Writer : wpc[w] = "idle"
  /\ \A r \in Reader : rpc[r] \in {"exhausted", "closed"}
  /\ UNCHANGED vars

Write(w) == Log(w) \/ Wait(w) \/ Resume(w) \/ WriteRecord(w) \/ Truncate(w)
            \/ StorePosition(w) \/ StoreId(w)

Replay(r) == SearchGreater(r) \/ SearchLess(r) \/ SeekFound(r) \/ SeekFailed(r)
             \/ Close(r) \/ Read(r) \/ CheckExhaust(r)

Next ==
  \/ \E w \in Writer : Write(w)
  \/ \E r \in Reader : Seek(r) \/ Replay(r)
  \/ Restart
  \/ Done

Spec == Init /\ [][Next]_vars

\* A started reader reads on and a writer inside the log goes on.  Java
\* monitors are not fair, but each contender leaves the monitor at once and
\* only a bounded number contend, so a waiting one gets in.
Fairness ==
  /\ \A w \in Writer :
       /\ WF_vars(Wait(w) \/ WriteRecord(w) \/ Truncate(w) \/ StorePosition(w) \/ StoreId(w))
       /\ SF_vars(Resume(w))
  /\ \A r \in Reader : WF_vars(Read(r)) /\ SF_vars(Replay(r))

FairSpec == Spec /\ Fairness

-----------------------------------------------------------------------------
(* Properties *)

\* Every variable has its type.
TypeOK ==
  /\ file \in Seq(0 .. MaxId)
  /\ storedPos \in -1 .. MaxId /\ storedId \in 0 .. MaxId
  /\ maxRecords \in Sizes \cup {FirstSize}
  /\ pos \in 0 .. Size /\ lastId \in 0 .. MaxId /\ record \in 0 .. MaxId
  /\ monitor \in Writer \cup {Nobody}
  /\ locks \in Seq(Reader) /\ IsInjective(locks)
  /\ range \in [Reader -> [start : 0 .. MaxId, end : 0 .. MaxId]]
  /\ wpc \in [Writer -> {"idle", "write", "truncate", "storePosition", "storeId"}]
  /\ own \in [Writer -> 0 .. MaxId]
  /\ rpc \in [Reader -> {"new", "search", "found", "failed", "notFound", "closed",
                         "pull", "check", "exhausted"}]
  /\ from \in [Reader -> From \cup {0}]
  /\ at \in [Reader -> 0 .. MaxId]
  /\ search \in [Reader -> [start : 0 .. MaxId, end : 0 .. MaxId, greater : -1 .. MaxId]]
  /\ got \in [Reader -> 0 .. MaxId]
  /\ due \in [Reader -> Nat]
  /\ restarts \in 0 .. MaxRestarts
  /\ crashed \in BOOLEAN /\ shrunk \in BOOLEAN

\* The events whose record is in the file: all but those about to be written.
Written(id) == id \in 1 .. lastId /\ \A w \in Writer : wpc[w] = "write" => own[w] # id

Logged == Cardinality({id \in 1 .. lastId : Written(id)})

Stored == {Slot(p) : p \in 0 .. Size - 1}

\* The slots of the ring a lock's bounds stand for.
Covers(b, p) == IF b.start < b.end THEN p \in b.start .. b.end - 1
                ELSE p >= b.start \/ p < b.end

\* The records from the oldest to the newest.
Ring == LET first == IF pos < Size THEN pos ELSE 0
        IN  [i \in 1 .. Size |-> Slot((first + i - 1) % Size)]

\* "Each saved message is assigned a unique growing identifier" (doc/log.md:7)
UniqueIds == \A p, q \in 0 .. Size - 1 : Slot(p) = Slot(q) => p = q

\* So it is unless the process ended while it logged an event.
UniqueIdsUnlessCrashed == ~crashed => UniqueIds

\* "If the record N is in the log and the record N+1 was ever made, the record
\* N+1 is in the log too, even if its size was changed" (doc/log.md:89-94):
\* so it is as long as the log is not made smaller, whenever the process ends.
NoHoles == ~shrunk => \A id \in Stored : Written(id + 1) => id + 1 \in Stored

\* The ring holds the latest events, sorted, as the binary search expects it:
\* initPosition() goes on where writing ended.
RingSorted ==
  /\ ~crashed /\ ~shrunk
  /\ \A w \in Writer : wpc[w] \in {"idle", "write"}
  => \A i \in 1 .. Size : Ring[i] = Logged - Size + i

\* What the log keeps through restarts and crashes at any point.
RingSurvivesRestarts == UniqueIdsUnlessCrashed /\ NoHoles /\ RingSorted

\* A step leaves the records that r has locked where they are.
LockKept(r) ==
  \A p \in 0 .. Size - 1 : Covers(range[r], p) => Size' > p /\ file'[p + 1] = file[p + 1]

\* The writer never overwrites or truncates a record a reader has locked.
LockedRecordsKept ==
  [][\A r \in Reader :
       ~Restart /\ rpc[r] \in {"search", "found", "pull", "check"} => LockKept(r)]_vars

\* pull() returns the events from the one sought on, in order: none of those in
\* the log is skipped, none is returned twice ("the identifiers greater than the
\* lastEventId, in order", RfCollectorHandle:48-50).
ReplayInOrder == [][\A r \in Reader : CheckExhaust(r) => got[r] = due[r]]_vars

\* A search that finds no event leaves the reader exhausted, so that its client
\* is told to take the events to come from the writer (CyclicLogExhaustTest).
FailedSeekExhausts ==
  [][\A r \in Reader : SeekFailed(r) => rpc'[r] = "exhausted"]_vars

\* A reader that is exhausted by its search has left no event in the log: not
\* so for an event logged while records older than it were searched.
NoneLeftWhenExhausted ==
  [][\A r \in Reader : SeekFailed(r) /\ rpc'[r] = "exhausted" => due[r] > Logged]_vars

\* A writer that waits for a reader writes its event in the end.
WriterUnblocked == \A w \in Writer : wpc[w] # "idle" ~> wpc[w] = "idle"

\* A reader that began to seek stops reading only with the log exhausted or
\* its search failed, and does stop once writing ceases.
ReaderFinishes == \A r \in Reader : rpc[r] # "new" ~> rpc[r] \in {"exhausted", "closed"}

\* Writers and readers wait for each other, and neither for ever.
WriterAndReadersFinish == WriterUnblocked /\ ReaderFinishes
=============================================================================
