-------------------------- MODULE CyclicLogProofs --------------------------
(***************************************************************************)
(* Proofs about CyclicLog, for any sizes and any number of restarts and    *)
(* crashes: what the ring keeps, and what a reader finds in it.            *)
(*                                                                         *)
(* The first part is about one writer and any number of readers.  An event *)
(* is in the log once its record is written: Newest is the last one.  Seen *)
(* from the position, the ring begins with the oldest record; Age numbers  *)
(* the slots in this order.  A crash may leave the record of an event that *)
(* does not count behind, to be written again: at the position, if the     *)
(* position was not stored, and otherwise as the newest.                   *)
(*                                                                         *)
(* The second part is about one reader: what it has locked is never        *)
(* overwritten and, as long as the log keeps its size and runs on, the     *)
(* ring, the lock and the binary search implement the log of EventLog and  *)
(* every variable keeps its type.  That nothing locked is overwritten      *)
(* holds for any number of writers; it needs no more than that the chain   *)
(* of locks is either empty or the reader's own lock.  The rest is about   *)
(* one writer.  Its invariant speaks of the records a reader has locked by *)
(* their identifiers: the writer leaves these records alone, so what is    *)
(* said of them stays true, while the ages of their slots change with each *)
(* write.                                                                  *)
(***************************************************************************)
EXTENDS MCCyclicLog, SequenceTheorems, FiniteSetTheorems, TLAPS

Slots == 0 .. Size - 1

\* The last event whose record is written.
Newest(w) == IF wpc[w] = "write" THEN lastId - 1 ELSE lastId

\* The slots from the position on, then those before it.
Age(p) == IF p < pos THEN p + Size ELSE p

\* The slot a writer that has yet to store the position wrote to.
WrittenSlot == IF storedPos < 0 THEN 0 ELSE storedPos

BaseInv(w) ==
  /\ file \in Seq(Nat) /\ pos \in 0 .. Size
  /\ maxRecords \in Nat \ {0}
  /\ lastId \in Nat /\ storedId \in Nat /\ record \in Nat
  /\ storedPos \in Nat \cup {-1}
  /\ wpc \in [{w} -> {"idle", "write", "truncate", "storePosition", "storeId"}]
  /\ own \in [{w} -> Nat]
  /\ crashed \in BOOLEAN /\ shrunk \in BOOLEAN

\* The identifier is stored last.
StageInv(w) ==
  /\ wpc[w] = "idle" => storedId = lastId
  /\ wpc[w] # "idle" => own[w] = lastId /\ storedId = lastId - 1
  /\ wpc[w] = "write" => record = lastId

\* Without a crash every record has an identifier of its own, up to the newest.
UniqueInv(w) ==
  ~crashed => UniqueIds /\ \A p \in Slots : Slot(p) <= Newest(w)

\* A log that was never made smaller is never longer than it should be, and the
\* position is stored but for the last record.
PositionInv(w) ==
  /\ Size <= maxRecords /\ pos < maxRecords
  /\ wpc[w] # "truncate"
  /\ wpc[w] \in {"idle", "write"} => storedPos = pos \/ (storedPos = -1 /\ Size = 0)
  /\ wpc[w] = "storeId" => storedPos = pos
  /\ wpc[w] = "storePosition" =>
       /\ storedPos = -1 => Size = 1
       /\ WrittenSlot \in Slots /\ Slot(WrittenSlot) = lastId
       /\ pos = IF WrittenSlot + 1 >= maxRecords THEN 0 ELSE WrittenSlot + 1

\* The identifiers grow with the age, except for a record left at the position.
OrderInv(w) ==
  \A p, q \in Slots :
    Age(p) < Age(q) /\ ~(p = pos /\ Slot(p) = Newest(w) + 1) => Slot(p) <= Slot(q)

\* No identifier between two records is missing.
HolesInv(w) ==
  \A p \in Slots : Slot(p) + 1 <= Newest(w) => \E q \in Slots : Slot(q) = Slot(p) + 1

\* A crash leaves at most the record of the event that was being logged.
LimitInv(w) ==
  \A p \in Slots : Slot(p) <= IF wpc[w] \in {"idle", "write"} THEN Newest(w) + 1 ELSE Newest(w)

\* Without a crash the ring holds the last events, one by one.
SortedInv(w) == ~crashed => \A p \in Slots : Slot(p) + pos + Size = Newest(w) + 1 + Age(p)

RingInv(w) ==
  ~shrunk => PositionInv(w) /\ OrderInv(w) /\ HolesInv(w) /\ LimitInv(w) /\ SortedInv(w)

IInv(w) == BaseInv(w) /\ StageInv(w) /\ UniqueInv(w) /\ RingInv(w)
-----------------------------------------------------------------------------
\* A new log satisfies the invariant.
LEMMA InitIInv == ASSUME NEW w, Writer = {w}, Init PROVE IInv(w)
<1>1. BaseInv(w)
  <2>1. file \in Seq(Nat) /\ Size = 0
    BY EmptySeq DEF Init, Size
  <2>2. /\ wpc \in [{w} -> {"idle", "write", "truncate", "storePosition", "storeId"}]
        /\ own \in [{w} -> Nat]
    BY DEF Init
  <2>3. /\ pos \in 0 .. Size /\ maxRecords \in Nat \ {0}
        /\ lastId \in Nat /\ storedId \in Nat /\ record \in Nat
        /\ storedPos \in Nat \cup {-1}
    BY <2>1, SizeAssumption DEF Init
  <2>4. crashed \in BOOLEAN /\ shrunk \in BOOLEAN
    BY DEF Init
  <2> QED
    BY <2>1, <2>2, <2>3, <2>4 DEF BaseInv
<1>2. StageInv(w) /\ UniqueInv(w)
  BY DEF Init, StageInv, UniqueInv, UniqueIds, Slots, Size
<1>3. RingInv(w)
  BY SizeAssumption
     DEF Init, RingInv, PositionInv, OrderInv, HolesInv, LimitInv, SortedInv, Slots, Size
<1> QED
  BY <1>1, <1>2, <1>3 DEF IInv

\* What the invariant is about, which readers, waiting and locks leave alone.
core == <<fileVars, maxRecords, pos, lastId, record, wpc, own, crashed, shrunk>>

\* A step that leaves it alone keeps the invariant.
LEMMA Frame == ASSUME NEW w, IInv(w), UNCHANGED core PROVE IInv(w)'
<1>1. /\ file' = file /\ pos' = pos /\ wpc' = wpc /\ own' = own /\ lastId' = lastId /\ record' = record
      /\ storedPos' = storedPos /\ storedId' = storedId /\ maxRecords' = maxRecords
      /\ crashed' = crashed /\ shrunk' = shrunk
  BY DEF core, fileVars
<1>2. Size' = Size /\ Slots' = Slots /\ Newest(w)' = Newest(w) /\ WrittenSlot' = WrittenSlot
  BY <1>1 DEF Size, Slots, Newest, WrittenSlot
<1>3. \A p : Slot(p)' = Slot(p) /\ Age(p)' = Age(p)
  BY <1>1, <1>2 DEF Slot, Age
<1>4. BaseInv(w)' /\ StageInv(w)' /\ UniqueInv(w)'
  BY <1>1, <1>2, <1>3 DEF IInv, BaseInv, StageInv, UniqueInv, UniqueIds, Slots
<1>5. PositionInv(w)' = PositionInv(w) /\ OrderInv(w)' = OrderInv(w) /\ HolesInv(w)' = HolesInv(w)
  BY <1>1, <1>2, <1>3 DEF PositionInv, OrderInv, HolesInv
<1>6. LimitInv(w)' = LimitInv(w) /\ SortedInv(w)' = SortedInv(w)
  BY <1>1, <1>2, <1>3 DEF LimitInv, SortedInv
<1> QED
  BY <1>1, <1>4, <1>5, <1>6 DEF IInv, RingInv

-----------------------------------------------------------------------------
\* When only the stage and the identifiers change, and the newest event does not,
\* the file says as much about the events as before.
LEMMA SameRing ==
  ASSUME NEW w, IInv(w), UNCHANGED <<file, pos, crashed, shrunk>>, Newest(w)' = Newest(w)
  PROVE  /\ UniqueInv(w)'
         /\ ~shrunk => OrderInv(w)' /\ HolesInv(w)' /\ SortedInv(w)'
         /\ Slots' = Slots /\ Size' = Size
         /\ \A p : Slot(p)' = Slot(p)
<1>1. Size' = Size /\ Slots' = Slots
  BY DEF Size, Slots
<1>2. \A p : Slot(p)' = Slot(p) /\ Age(p)' = Age(p)
  BY <1>1 DEF Slot, Age
<1>3. UniqueInv(w)'
  BY <1>1, <1>2 DEF IInv, UniqueInv, UniqueIds, Slots
<1>4. ~shrunk => OrderInv(w) /\ HolesInv(w) /\ SortedInv(w)
  BY DEF IInv, RingInv
<1>5. OrderInv(w)' = OrderInv(w) /\ HolesInv(w)' = HolesInv(w) /\ SortedInv(w)' = SortedInv(w)
  BY <1>1, <1>2 DEF OrderInv, HolesInv, SortedInv
<1> QED
  BY <1>1, <1>2, <1>3, <1>4, <1>5

\* An event that is not written yet does not count.
LEMMA LogStep == ASSUME NEW w, Writer = {w}, IInv(w), Log(w) PROVE IInv(w)'
<1>1. /\ wpc[w] = "idle" /\ wpc' = [wpc EXCEPT ![w] = "write"]
      /\ lastId' = lastId + 1 /\ own' = [own EXCEPT ![w] = lastId + 1] /\ record' = lastId + 1
      /\ UNCHANGED <<file, storedPos, storedId, maxRecords, pos, crashed, shrunk>>
  BY DEF Log, fileVars, restartVars
<1>2. BaseInv(w)'
  BY <1>1 DEF IInv, BaseInv, Size
<1>3. wpc'[w] = "write" /\ own'[w] = lastId'
  BY <1>1 DEF IInv, BaseInv
<1>4. StageInv(w)'
  BY <1>1, <1>3 DEF IInv, BaseInv, StageInv
<1>5. Newest(w)' = Newest(w)
  BY <1>1, <1>3 DEF IInv, BaseInv, Newest
<1>6. /\ UniqueInv(w)'
      /\ ~shrunk => OrderInv(w)' /\ HolesInv(w)' /\ SortedInv(w)'
      /\ Slots' = Slots /\ Size' = Size
      /\ \A p : Slot(p)' = Slot(p)
  BY <1>1, <1>5, SameRing
<1>7. ~shrunk => PositionInv(w)' /\ LimitInv(w)'
  BY <1>1, <1>3, <1>5, <1>6 DEF IInv, RingInv, PositionInv, LimitInv
<1> QED
  BY <1>1, <1>2, <1>4, <1>6, <1>7 DEF IInv, RingInv

\* The position and the identifier are stored.
LEMMA StoreStep ==
  ASSUME NEW w, Writer = {w}, IInv(w), StorePosition(w) \/ StoreId(w)
  PROVE  IInv(w)'
<1>1. /\ wpc[w] \in {"storePosition", "storeId"}
      /\ wpc' = [wpc EXCEPT ![w] = IF wpc[w] = "storePosition" THEN "storeId" ELSE "idle"]
      /\ storedPos' = IF wpc[w] = "storePosition" THEN pos ELSE storedPos
      /\ storedId' = IF wpc[w] = "storePosition" THEN storedId ELSE own[w]
      /\ UNCHANGED <<file, maxRecords, pos, lastId, record, own, crashed, shrunk>>
  BY DEF StorePosition, StoreId, restartVars
<1>2. wpc'[w] = IF wpc[w] = "storePosition" THEN "storeId" ELSE "idle"
  BY <1>1 DEF IInv, BaseInv
<1>3. BaseInv(w)'
  <2>1. pos \in Nat
    BY LenProperties DEF IInv, BaseInv, Size
  <2> QED
    BY <1>1, <2>1 DEF IInv, BaseInv, Size
<1>4. StageInv(w)'
  BY <1>1, <1>2 DEF IInv, BaseInv, StageInv
<1>5. Newest(w)' = Newest(w)
  BY <1>1, <1>2 DEF Newest
<1>6. /\ UniqueInv(w)'
      /\ ~shrunk => OrderInv(w)' /\ HolesInv(w)' /\ SortedInv(w)'
      /\ Slots' = Slots /\ Size' = Size
      /\ \A p : Slot(p)' = Slot(p)
  BY <1>1, <1>5, SameRing
<1>7. ~shrunk => PositionInv(w)'
  BY <1>1, <1>2, <1>6 DEF IInv, RingInv, PositionInv
<1>8. ASSUME ~shrunk PROVE LimitInv(w)'
  <2> SUFFICES ASSUME NEW p \in Slots PROVE Slot(p) <= Newest(w)
    BY <1>2, <1>5, <1>6, <1>1, LenProperties DEF LimitInv, IInv, BaseInv, Slots, Slot, Size, Newest
  <2> QED
    BY <1>1, <1>8 DEF IInv, RingInv, LimitInv
<1> QED
  BY <1>1, <1>3, <1>4, <1>6, <1>7, <1>8 DEF IInv, RingInv

-----------------------------------------------------------------------------
\* A log cut to a size keeps the slots below it.
LEMMA CutFile ==
  ASSUME file \in Seq(Nat), NEW n \in Nat
  PROVE  LET cut == SubSeq(file, 1, Lower(Size, n))
         IN  /\ cut \in Seq(Nat) /\ Len(cut) \in 0 .. Size
             /\ \A p \in 0 .. Len(cut) - 1 : p \in Slots /\ cut[p + 1] = Slot(p)
<1>1. Size \in Nat /\ Lower(Size, n) \in 0 .. Size
  BY LenProperties DEF Size, Lower
<1> DEFINE cut == SubSeq(file, 1, Lower(Size, n))
<1>2. /\ cut \in Seq(Nat)
      /\ Len(cut) = Lower(Size, n)
      /\ \A i \in 1 .. Lower(Size, n) : cut[i] = file[i]
  <2>1. \A i \in 1 .. Lower(Size, n) : file[i] \in Nat
    BY <1>1, ElementOfSeq DEF Size
  <2> QED
    BY <1>1, <2>1, SubSeqProperties DEF Size
<1> QED
  BY <1>1, <1>2 DEF Slots, Slot

\* Only a log made smaller is truncated.
LEMMA TruncateStep == ASSUME NEW w, Writer = {w}, IInv(w), Truncate(w) PROVE IInv(w)'
<1>1. /\ wpc[w] = "truncate" /\ wpc' = [wpc EXCEPT ![w] = "storePosition"]
      /\ file' = SubSeq(file, 1, Lower(Size, maxRecords)) /\ pos' = 0
      /\ UNCHANGED <<storedPos, storedId, maxRecords, lastId, record, own, crashed, shrunk>>
  BY DEF Truncate, restartVars
<1>2. /\ file' \in Seq(Nat) /\ Size' \in Nat
      /\ \A p \in Slots' : p \in Slots /\ Slot(p)' = Slot(p)
  <2>1. file \in Seq(Nat) /\ maxRecords \in Nat
    BY DEF IInv, BaseInv
  <2>2. Size \in Nat
    BY <2>1, LenProperties DEF Size
  <2> QED
    BY <1>1, <2>1, <2>2, CutFile DEF Slots, Size, Slot
<1>3. wpc'[w] = "storePosition"
  BY <1>1 DEF IInv, BaseInv
<1>4. BaseInv(w)'
  BY <1>1, <1>2 DEF IInv, BaseInv
<1>5. StageInv(w)'
  BY <1>1, <1>3 DEF IInv, BaseInv, StageInv
<1>6. Newest(w)' = Newest(w)
  BY <1>1, <1>3 DEF Newest
<1>7. UniqueInv(w)'
  BY <1>1, <1>2, <1>6 DEF IInv, UniqueInv, UniqueIds, Slots
<1>8. shrunk'
  BY <1>1 DEF IInv, RingInv, PositionInv
<1> QED
  BY <1>4, <1>5, <1>7, <1>8 DEF IInv, RingInv

-----------------------------------------------------------------------------
\* The record goes to the slot at the position, or to a new one behind the last.
LEMMA WrittenFile ==
  ASSUME NEW w, Writer = {w}, IInv(w), WriteRecord(w)
  PROVE  /\ file' \in Seq(Nat) /\ Size \in Nat
         /\ Size' = IF pos < Size THEN Size ELSE Size + 1
         /\ \A p \in Slots' : IF p = pos THEN Slot(p)' = lastId
                              ELSE p \in Slots /\ Slot(p)' = Slot(p)
<1>1. /\ wpc[w] = "write" /\ record = lastId /\ lastId \in Nat /\ file \in Seq(Nat)
      /\ file' = IF pos < Size THEN [file EXCEPT ![pos + 1] = record] ELSE Append(file, record)
  BY DEF IInv, BaseInv, StageInv, WriteRecord
<1>2. Size \in Nat /\ pos \in 0 .. Size
  BY <1>1, LenProperties DEF IInv, BaseInv, Size
<1>3. CASE pos < Size
  <2>1. file' = [file EXCEPT ![pos + 1] = lastId]
    BY <1>1, <1>3
  <2>2. /\ file' \in Seq(Nat) /\ Len(file') = Len(file)
        /\ \A i \in 1 .. Len(file) : file'[i] = IF i = pos + 1 THEN lastId ELSE file[i]
    BY <1>1, <1>2, <1>3, <2>1, ExceptSeq DEF Size
  <2> QED
    BY <1>2, <1>3, <2>2 DEF Slots, Slot, Size
<1>4. CASE ~(pos < Size)
  <2>1. file' = Append(file, lastId) /\ pos = Size
    BY <1>1, <1>2, <1>4
  <2>2. /\ file' \in Seq(Nat) /\ Len(file') = Len(file) + 1
        /\ \A i \in 1 .. Len(file) : file'[i] = file[i]
        /\ file'[Len(file) + 1] = lastId
    BY <1>1, <2>1, AppendProperties
  <2> QED
    BY <1>2, <1>4, <2>1, <2>2 DEF Slots, Slot, Size
<1> QED
  BY <1>3, <1>4

\* The slot written last is the youngest, and the others stay in order.
LEMMA AgeAfterWrite ==
  ASSUME Size \in Nat, maxRecords \in Nat \ {0}, pos \in 0 .. Size,
         Size <= maxRecords, pos < maxRecords,
         Size' = IF pos < Size THEN Size ELSE Size + 1,
         pos' = IF pos + 1 >= maxRecords THEN 0 ELSE pos + 1
  PROVE  \A p \in Slots' : /\ p \in Nat
                           /\ Age(p)' = IF p = pos THEN pos' + Size' - 1
                                        ELSE Age(p) + pos' + Size' - pos - Size - 1
                           /\ Age(p)' \in Nat /\ Age(p)' <= pos' + Size' - 1
                           /\ pos < Size /\ p # pos => Age(pos) < Age(p)
<1> SUFFICES ASSUME NEW p \in Slots'
             PROVE  /\ p \in Nat
                    /\ Age(p)' = IF p = pos THEN pos' + Size' - 1
                                 ELSE Age(p) + pos' + Size' - pos - Size - 1
                    /\ Age(p)' \in Nat /\ Age(p)' <= pos' + Size' - 1
                    /\ pos < Size /\ p # pos => Age(pos) < Age(p)
  OBVIOUS
<1>1. Size' \in Nat /\ pos' \in Nat /\ p \in 0 .. Size' - 1
  BY DEF Slots
<1>2. Age(p)' = IF p < pos' THEN p + Size' ELSE p
  BY DEF Age
<1>3. Age(p) = (IF p < pos THEN p + Size ELSE p) /\ Age(pos) = pos
  BY DEF Age
<1>4. CASE pos < Size /\ pos + 1 < maxRecords
  BY <1>1, <1>2, <1>3, <1>4
<1>5. CASE pos < Size /\ pos + 1 >= maxRecords
  BY <1>1, <1>2, <1>3, <1>5
<1>6. CASE ~(pos < Size) /\ pos + 1 < maxRecords
  BY <1>1, <1>2, <1>3, <1>6
<1>7. CASE ~(pos < Size) /\ pos + 1 >= maxRecords
  BY <1>1, <1>2, <1>3, <1>7
<1> QED
  BY <1>4, <1>5, <1>6, <1>7

\* The oldest record is replaced by the newest.
LEMMA WriteRecordStep == ASSUME NEW w, Writer = {w}, IInv(w), WriteRecord(w) PROVE IInv(w)'
<1>1. /\ wpc[w] = "write" /\ lastId \in Nat
      /\ IF pos + 1 >= maxRecords /\ Size' > maxRecords
           THEN /\ pos' = pos + 1
                /\ wpc' = [wpc EXCEPT ![w] = "truncate"]
           ELSE /\ pos' = IF pos + 1 >= maxRecords THEN 0 ELSE pos + 1
                /\ wpc' = [wpc EXCEPT ![w] = "storePosition"]
      /\ UNCHANGED <<storedPos, storedId, maxRecords, lastId, record, own, crashed, shrunk>>
  BY DEF WriteRecord, Size, restartVars, IInv, BaseInv
<1>2. /\ file' \in Seq(Nat) /\ Size \in Nat
      /\ Size' = IF pos < Size THEN Size ELSE Size + 1
      /\ \A p \in Slots' : IF p = pos THEN Slot(p)' = lastId ELSE p \in Slots /\ Slot(p)' = Slot(p)
  BY WrittenFile
<1>3. /\ pos \in 0 .. Size /\ maxRecords \in Nat \ {0}
      /\ wpc'[w] \in {"truncate", "storePosition"}
      /\ wpc' \in [{w} -> {"idle", "write", "truncate", "storePosition", "storeId"}]
      /\ Newest(w) = lastId - 1 /\ Newest(w)' = lastId
      /\ \A p \in Slots : Slot(p) \in Nat
  <2>1. wpc'[w] \in {"truncate", "storePosition"}
    BY <1>1 DEF IInv, BaseInv
  <2>2. \A p \in Slots : Slot(p) \in Nat
    BY <1>2, ElementOfSeq DEF IInv, BaseInv, Slots, Slot, Size
  <2> QED
    BY <1>1, <2>1, <2>2 DEF IInv, BaseInv, Newest
<1>4. lastId \in Nat /\ pos \in Nat /\ Size \in Nat
  BY <1>1, <1>2, <1>3
<1>5. BaseInv(w)'
  <2>1. pos' \in 0 .. Size'
    BY <1>1, <1>2, <1>3
  <2> QED
    BY <1>1, <1>2, <1>3, <2>1 DEF IInv, BaseInv
<1>6. StageInv(w)'
  BY <1>1, <1>3 DEF IInv, StageInv
<1>7. UniqueInv(w)'
  <2> SUFFICES ASSUME ~crashed PROVE UniqueIds' /\ \A p \in Slots' : Slot(p)' <= Newest(w)'
    BY <1>1 DEF UniqueInv
  <2>1. \A p \in Slots : Slot(p) <= lastId - 1
    BY <1>3 DEF IInv, UniqueInv
  <2>2. \A p, q \in Slots : Slot(p) = Slot(q) => p = q
    BY DEF IInv, UniqueInv, UniqueIds, Slots
  <2>3. \A p, q \in Slots' : Slot(p)' = Slot(q)' => p = q
    BY <1>1, <1>2, <1>3, <2>1, <2>2
  <2>4. \A p \in Slots' : Slot(p)' <= lastId
    BY <1>1, <1>2, <1>3, <2>1
  <2> QED
    BY <1>3, <2>3, <2>4 DEF UniqueIds, Slots
<1>8. RingInv(w)'
  <2> SUFFICES ASSUME ~shrunk
               PROVE  PositionInv(w)' /\ OrderInv(w)' /\ HolesInv(w)' /\ LimitInv(w)' /\ SortedInv(w)'
    BY <1>1 DEF RingInv
  <2>1. PositionInv(w) /\ OrderInv(w) /\ HolesInv(w) /\ LimitInv(w) /\ SortedInv(w)
    BY DEF IInv, RingInv
  <2>2. Size <= maxRecords /\ pos < maxRecords /\ (storedPos = pos \/ (storedPos = -1 /\ Size = 0))
    BY <1>1, <2>1 DEF PositionInv
  <2>3. /\ pos' = IF pos + 1 >= maxRecords THEN 0 ELSE pos + 1
        /\ wpc'[w] = "storePosition"
        /\ pos' \in Nat /\ Size' \in Nat
    BY <1>1, <1>2, <1>3, <2>2 DEF IInv, BaseInv
  <2>4. \A p \in Slots : Slot(p) <= lastId
    BY <1>1, <1>3, <2>1 DEF LimitInv
  <2>5. \A p \in Slots' : /\ p \in Nat
                          /\ Age(p)' = IF p = pos THEN pos' + Size' - 1
                                       ELSE Age(p) + pos' + Size' - pos - Size - 1
                          /\ Age(p)' \in Nat /\ Age(p)' <= pos' + Size' - 1
                          /\ pos < Size /\ p # pos => Age(pos) < Age(p)
    BY <1>2, <1>3, <2>2, <2>3, AgeAfterWrite
  <2>6. pos \in Slots' /\ file'[pos + 1] = lastId
    <3>1. pos \in Slots'
      BY <1>2, <1>3 DEF Slots
    <3> QED
      BY <1>2, <3>1 DEF Slot
  <2>7. \A p \in Slots : Age(p) \in Nat
    BY <1>2, <1>3 DEF Slots, Age
  <2>8. PositionInv(w)'
    <3>1. Size' <= maxRecords' /\ pos' < maxRecords' /\ wpc'[w] = "storePosition"
      BY <1>1, <1>2, <1>3, <2>2, <2>3
    <3>2. WrittenSlot' = pos /\ (storedPos' = -1 => Size' = 1)
      BY <1>1, <1>2, <1>3, <2>2 DEF WrittenSlot
    <3>3. WrittenSlot' \in Slots' /\ Slot(WrittenSlot)' = lastId'
      <4>1. Slot(WrittenSlot)' = file'[WrittenSlot' + 1]
        BY DEF Slot
      <4> QED
        BY <1>1, <2>6, <3>2, <4>1
    <3> QED
      BY <1>1, <2>3, <3>1, <3>2, <3>3 DEF PositionInv
  <2>9. LimitInv(w)'
    BY <1>1, <1>2, <1>3, <2>3, <2>4 DEF LimitInv
  <2>10. OrderInv(w)'
    <3> SUFFICES ASSUME NEW p \in Slots', NEW q \in Slots', Age(p)' < Age(q)'
                 PROVE  Slot(p)' <= Slot(q)'
      BY DEF OrderInv
    <3>1. p # pos
      BY <2>3, <2>5
    <3>2. CASE q = pos
      BY <1>2, <2>4, <3>1, <3>2
    <3>3. CASE q # pos
      <4>1. p \in Slots /\ q \in Slots /\ Slot(p)' = Slot(p) /\ Slot(q)' = Slot(q)
        BY <1>2, <3>1, <3>3
      <4>2. /\ Age(p)' = Age(p) + pos' + Size' - pos - Size - 1
            /\ Age(q)' = Age(q) + pos' + Size' - pos - Size - 1
        BY <2>5, <3>1, <3>3
      <4>3. Age(p) < Age(q)
        BY <1>4, <2>3, <2>7, <4>1, <4>2
      <4> QED
        BY <2>1, <3>1, <4>1, <4>3 DEF OrderInv
    <3> QED
      BY <3>2, <3>3
  <2>11. HolesInv(w)'
    <3> SUFFICES ASSUME NEW p \in Slots', Slot(p)' + 1 <= lastId
                 PROVE  \E q \in Slots' : Slot(q)' = Slot(p)' + 1
      BY <1>3 DEF HolesInv
    <3>1. p # pos /\ p \in Slots /\ Slot(p)' = Slot(p)
      BY <1>1, <1>2, <2>6
    <3>2. CASE Slot(p) + 1 = lastId
      <4>1. PICK q \in Slots' : q = pos
        BY <2>6
      <4> QED
        BY <1>2, <3>1, <3>2, <4>1
    <3>3. CASE Slot(p) + 1 # lastId
      <4>1. Slot(p) + 1 <= Newest(w)
        BY <1>1, <1>3, <3>1, <3>3
      <4>2. PICK q \in Slots : Slot(q) = Slot(p) + 1
        BY <2>1, <3>1, <4>1 DEF HolesInv
      <4>3. q # pos
        <5> SUFFICES ASSUME q = pos PROVE FALSE
          OBVIOUS
        <5>1. Age(q) < Age(p)
          <6>1. pos < Size
            BY <1>4 DEF Slots
          <6> QED
            BY <2>5, <3>1, <6>1
        <5>2. Slot(q) # Newest(w) + 1
          BY <1>1, <1>3, <4>1, <4>2, <3>1
        <5>3. Slot(q) <= Slot(p)
          BY <2>1, <3>1, <5>1, <5>2 DEF OrderInv
        <5> QED
          BY <1>3, <3>1, <4>2, <5>3
      <4>4. q \in Slots'
        BY <1>2 DEF Slots
      <4> QED
        BY <1>2, <3>1, <4>2, <4>3, <4>4
    <3> QED
      BY <3>2, <3>3
  <2>12. SortedInv(w)'
    <3> SUFFICES ASSUME ~crashed, NEW p \in Slots'
                 PROVE  Slot(p)' + pos' + Size' = lastId + 1 + Age(p)'
      BY <1>1, <1>3 DEF SortedInv
    <3>1. CASE p = pos
      <4>1. Slot(p)' = lastId /\ Age(p)' = pos' + Size' - 1
        BY <1>2, <2>5, <3>1
      <4> QED
        BY <1>4, <2>3, <4>1
    <3>2. CASE p # pos
      <4>1. /\ p \in Slots /\ Slot(p)' = Slot(p) /\ Slot(p) + pos + Size = lastId + Age(p)
            /\ Slot(p) \in Nat
        BY <1>1, <1>2, <1>3, <2>1, <2>7, <3>2 DEF SortedInv
      <4>2. Age(p)' = Age(p) + pos' + Size' - pos - Size - 1
        BY <2>5, <3>2
      <4> QED
        BY <1>4, <2>3, <2>7, <4>1, <4>2
    <3> QED
      BY <3>1, <3>2
  <2> QED
    BY <2>8, <2>9, <2>10, <2>11, <2>12
<1> QED
  BY <1>5, <1>6, <1>7, <1>8 DEF IInv

-----------------------------------------------------------------------------
\* The log is opened again with what was stored.
LEMMA ReopenedLog ==
  ASSUME NEW w, Writer = {w}, IInv(w), Restart
  PROVE  /\ wpc' = [v \in {w} |-> "idle"] /\ own' = [v \in {w} |-> 0]
         /\ wpc'[w] = "idle" /\ Newest(w)' = storedId /\ lastId' = storedId /\ record' = 0
         /\ UNCHANGED <<storedPos, storedId>>
         /\ maxRecords' \in Nat \ {0} /\ crashed' \in BOOLEAN /\ shrunk' \in BOOLEAN
         /\ crashed' = (crashed \/ wpc[w] # "idle")
         /\ ~shrunk' => ~shrunk /\ maxRecords <= maxRecords'
         /\ file' \in Seq(Nat) /\ Size' \in Nat /\ pos' \in 0 .. Size'
         /\ \A p \in Slots' : p \in Slots /\ Slot(p)' = Slot(p)
         /\ storedPos = -1 => file' = <<>> /\ Size' = 0 /\ pos' = 0
         /\ storedPos \in 0 .. Size /\ storedPos < maxRecords'
              => file' = file /\ Size' = Size /\ pos' = storedPos
<1>1. PICK max \in Sizes : /\ maxRecords' = max
                           /\ shrunk' = (shrunk \/ max < maxRecords)
                           /\ pos' = Reopened(max).pos
                           /\ file' = Reopened(max).file
  BY DEF Restart
<1>2. /\ wpc' = [v \in {w} |-> "idle"] /\ own' = [v \in {w} |-> 0]
      /\ lastId' = storedId /\ record' = 0 /\ UNCHANGED <<storedPos, storedId>>
  BY DEF Restart
<1>3. crashed' = (crashed \/ wpc[w] # "idle")
  BY DEF Restart
<1>4. /\ max \in Nat \ {0} /\ file \in Seq(Nat) /\ maxRecords \in Nat /\ storedPos \in Nat \cup {-1}
      /\ crashed \in BOOLEAN /\ shrunk \in BOOLEAN /\ Size \in Nat
  <2>1. file \in Seq(Nat) /\ maxRecords \in Nat /\ storedPos \in Nat \cup {-1}
    BY DEF IInv, BaseInv
  <2>2. crashed \in BOOLEAN /\ shrunk \in BOOLEAN
    BY DEF IInv, BaseInv
  <2> QED
    BY <2>1, <2>2, SizeAssumption, LenProperties DEF Size
<1>5. wpc'[w] = "idle" /\ Newest(w)' = storedId
  BY <1>2 DEF Newest
<1>6. /\ file' \in Seq(Nat) /\ Size' \in Nat /\ pos' \in 0 .. Size'
      /\ \A p \in Slots' : p \in Slots /\ Slot(p)' = Slot(p)
      /\ storedPos = -1 => file' = <<>> /\ Size' = 0 /\ pos' = 0
      /\ storedPos \in 0 .. Size /\ storedPos < max => file' = file /\ Size' = Size /\ pos' = storedPos
  <2>1. CASE storedPos = -1
    <3>1. file' = <<>> /\ pos' = 0
      BY <1>1, <2>1 DEF Reopened
    <3>2. file' \in Seq(Nat) /\ Size' = 0
      BY <3>1, EmptySeq DEF Size
    <3> QED
      BY <2>1, <3>1, <3>2 DEF Slots
  <2>2. CASE storedPos \in Nat /\ storedPos >= max
    <3>1. file' = SubSeq(file, 1, Lower(Size, max)) /\ pos' = 0
      <4>1. ~(storedPos < 0)
        BY <2>2
      <4>2. Reopened(max).pos = 0 /\ Reopened(max).file = SubSeq(file, 1, Lower(Size, max))
        BY <2>2, <4>1 DEF Reopened
      <4> QED
        BY <1>1, <4>2
    <3>2. /\ file' \in Seq(Nat) /\ Len(file') \in 0 .. Size
          /\ \A p \in 0 .. Len(file') - 1 : p \in Slots /\ file'[p + 1] = Slot(p)
      BY <1>4, <3>1, CutFile
    <3> QED
      BY <1>4, <2>2, <3>1, <3>2 DEF Slots, Slot, Size
  <2>3. CASE storedPos \in Nat /\ storedPos < max
    <3>1. file' = file /\ pos' = IF storedPos <= Size THEN storedPos ELSE 0
      BY <1>1, <1>4, <2>3 DEF Reopened
    <3>2. Size' = Size /\ Slots' = Slots /\ \A p : Slot(p)' = Slot(p)
      BY <3>1 DEF Size, Slots, Slot
    <3> QED
      BY <1>4, <2>3, <3>1, <3>2
  <2> QED
    BY <1>4, <2>1, <2>2, <2>3
<1>7. ~shrunk' => ~shrunk /\ maxRecords <= maxRecords'
  <2>1. ~shrunk' => ~shrunk /\ ~(max < maxRecords)
    BY <1>1, Zenon
  <2> QED
    BY <1>1, <1>4, <2>1
<1>8. crashed' \in BOOLEAN /\ shrunk' \in BOOLEAN
  BY <1>1, <1>3
<1> QED
  BY <1>1, <1>2, <1>3, <1>4, <1>5, <1>6, <1>7, <1>8

\* Writing goes on where it ended, or, when the position was not stored, with the
\* record that was written last.
LEMMA RestartStep == ASSUME NEW w, Writer = {w}, IInv(w), Restart PROVE IInv(w)'
<1>1. /\ wpc' = [v \in {w} |-> "idle"] /\ own' = [v \in {w} |-> 0]
      /\ wpc'[w] = "idle" /\ Newest(w)' = storedId /\ lastId' = storedId /\ record' = 0
      /\ UNCHANGED <<storedPos, storedId>>
      /\ maxRecords' \in Nat \ {0} /\ crashed' \in BOOLEAN /\ shrunk' \in BOOLEAN
      /\ crashed' = (crashed \/ wpc[w] # "idle")
      /\ ~shrunk' => ~shrunk /\ maxRecords <= maxRecords'
      /\ file' \in Seq(Nat) /\ Size' \in Nat /\ pos' \in 0 .. Size'
      /\ \A p \in Slots' : p \in Slots /\ Slot(p)' = Slot(p)
      /\ storedPos = -1 => file' = <<>> /\ Size' = 0 /\ pos' = 0
      /\ storedPos \in 0 .. Size /\ storedPos < maxRecords'
           => file' = file /\ Size' = Size /\ pos' = storedPos
  BY ReopenedLog
<1>2. /\ lastId \in Nat /\ storedId \in Nat /\ maxRecords \in Nat \ {0} /\ pos \in 0 .. Size
      /\ Size \in Nat /\ storedPos \in Nat \cup {-1}
      /\ \A p \in Slots : Slot(p) \in Nat
  <2>1. file \in Seq(Nat)
    BY DEF IInv, BaseInv
  <2>2. Size \in Nat /\ \A p \in Slots : Slot(p) \in Nat
    BY <2>1, LenProperties, ElementOfSeq DEF Slots, Slot, Size
  <2> QED
    BY <2>2 DEF IInv, BaseInv
<1>3. BaseInv(w)'
  BY <1>1, <1>2 DEF BaseInv
<1>4. StageInv(w)'
  BY <1>1 DEF StageInv
<1>5. UniqueInv(w)'
  <2> SUFFICES ASSUME ~crashed' PROVE UniqueIds' /\ \A p \in Slots' : Slot(p)' <= storedId
    BY <1>1 DEF UniqueInv
  <2>1. ~crashed /\ wpc[w] = "idle" /\ Newest(w) = storedId
    BY <1>1 DEF IInv, BaseInv, StageInv, Newest
  <2>2. /\ \A p, q \in Slots : Slot(p) = Slot(q) => p = q
        /\ \A p \in Slots : Slot(p) <= storedId
    BY <2>1 DEF IInv, UniqueInv, UniqueIds, Slots
  <2>3. \A p, q \in Slots' : Slot(p)' = Slot(q)' => p = q
    BY <1>1, <2>2
  <2>4. \A p \in Slots' : Slot(p)' <= storedId
    BY <1>1, <2>2
  <2> QED
    BY <2>3, <2>4 DEF UniqueIds, Slots
<1>6. RingInv(w)'
  <2> SUFFICES ASSUME ~shrunk'
               PROVE  PositionInv(w)' /\ OrderInv(w)' /\ HolesInv(w)' /\ LimitInv(w)' /\ SortedInv(w)'
    BY DEF RingInv
  <2>1. /\ PositionInv(w) /\ OrderInv(w) /\ HolesInv(w) /\ LimitInv(w) /\ SortedInv(w)
        /\ maxRecords <= maxRecords'
    BY <1>1 DEF IInv, RingInv
  <2>2. Size <= maxRecords /\ pos < maxRecords
    BY <2>1 DEF PositionInv
  <2>3. wpc[w] \in {"idle", "write", "storePosition", "storeId"}
    BY <2>1 DEF IInv, BaseInv, PositionInv
  <2>4. CASE storedPos = -1
    <3>1. Slots' = {} /\ Size' = 0 /\ pos' = 0 /\ storedPos' = -1
      BY <1>1, <2>4 DEF Slots
    <3>2. PositionInv(w)'
      BY <1>1, <3>1 DEF PositionInv
    <3> QED
      BY <3>1, <3>2 DEF OrderInv, HolesInv, LimitInv, SortedInv
  <2>5. CASE wpc[w] \in {"idle", "write"} /\ storedPos # -1
    <3>1. storedPos = pos /\ Newest(w) = storedId
      BY <2>1, <2>5 DEF IInv, StageInv, PositionInv, Newest
    <3>2. file' = file /\ pos' = pos /\ Size' = Size /\ Newest(w)' = Newest(w)
      BY <1>1, <1>2, <2>1, <2>2, <3>1
    <3>3. Slots' = Slots /\ \A p : Slot(p)' = Slot(p) /\ Age(p)' = Age(p)
      BY <3>2 DEF Slots, Slot, Age
    <3>4. PositionInv(w)'
      BY <1>1, <1>2, <2>1, <2>2, <3>1, <3>2 DEF PositionInv
    <3>5. OrderInv(w)' /\ HolesInv(w)'
      BY <2>1, <3>2, <3>3 DEF OrderInv, HolesInv
    <3>6. LimitInv(w)'
      BY <1>1, <2>1, <2>5, <3>2, <3>3 DEF LimitInv
    <3>7. SortedInv(w)'
      BY <1>1, <2>1, <3>2, <3>3 DEF SortedInv
    <3> QED
      BY <3>4, <3>5, <3>6, <3>7
  <2>6. CASE wpc[w] \in {"storePosition", "storeId"} /\ storedPos # -1
    <3>1. /\ Newest(w) = lastId /\ storedId = lastId - 1 /\ crashed'
          /\ \A p \in Slots : Slot(p) <= lastId
      BY <1>1, <2>1, <2>6 DEF IInv, StageInv, LimitInv, Newest
    <3>2. /\ storedPos \in 0 .. Size /\ storedPos < maxRecords'
          /\ wpc[w] = "storeId" => storedPos = pos
          /\ wpc[w] = "storePosition" =>
               /\ storedPos \in Slots /\ Slot(storedPos) = lastId
               /\ pos = IF storedPos + 1 >= maxRecords THEN 0 ELSE storedPos + 1
      BY <1>1, <1>2, <2>1, <2>2, <2>6 DEF PositionInv, WrittenSlot, Slots
    <3>3. file' = file /\ pos' = storedPos /\ Size' = Size
      BY <1>1, <3>2
    <3>4. Slots' = Slots /\ \A p : Slot(p)' = Slot(p)
      BY <3>3 DEF Slots, Slot
    <3>5. PositionInv(w)'
      BY <1>1, <1>2, <2>1, <2>2, <3>2, <3>3 DEF PositionInv
    <3>6. LimitInv(w)'
      BY <1>1, <1>2, <3>1, <3>4 DEF LimitInv
    <3>7. HolesInv(w)'
      <4> SUFFICES ASSUME NEW p \in Slots, Slot(p) + 1 <= storedId
                   PROVE  \E q \in Slots : Slot(q) = Slot(p) + 1
        BY <1>1, <3>4 DEF HolesInv
      <4>1. Slot(p) + 1 <= Newest(w)
        BY <1>2, <3>1
      <4> QED
        BY <2>1, <4>1 DEF HolesInv
    <3>8. OrderInv(w)'
      <4> SUFFICES ASSUME NEW p \in Slots, NEW q \in Slots, Age(p)' < Age(q)',
                          ~(p = pos' /\ Slot(p) = storedId + 1)
                   PROVE  Slot(p) <= Slot(q)
        BY <1>1, <3>4 DEF OrderInv
      <4>1. Age(p) < Age(q)
        <5>1. CASE wpc[w] = "storeId"
          BY <3>2, <3>3, <5>1 DEF Age
        <5>2. CASE wpc[w] = "storePosition"
          <6>1. p # storedPos
            BY <1>2, <3>1, <3>2, <3>3, <5>2
          <6>2. p \in 0 .. Size - 1 /\ q \in 0 .. Size - 1 /\ storedPos \in 0 .. Size - 1
            BY <3>2, <5>2 DEF Slots
          <6>3. /\ Age(p)' = IF p < storedPos THEN p + Size ELSE p
                /\ Age(q)' = IF q < storedPos THEN q + Size ELSE q
            BY <3>3 DEF Age
          <6>4. /\ Age(p) = IF p < pos THEN p + Size ELSE p
                /\ Age(q) = IF q < pos THEN q + Size ELSE q
            BY DEF Age
          <6>5. q # storedPos
            BY <1>2, <6>2, <6>3
          <6>6. CASE storedPos + 1 >= maxRecords
            <7>1. pos = 0 /\ storedPos = Size - 1
              BY <1>2, <2>2, <3>2, <5>2, <6>2, <6>6
            <7> QED
              BY <1>2, <6>1, <6>2, <6>3, <6>4, <6>5, <7>1
          <6>7. CASE storedPos + 1 < maxRecords
            <7>1. pos = storedPos + 1
              BY <1>2, <3>2, <5>2, <6>2, <6>7
            <7> QED
              BY <1>2, <6>1, <6>2, <6>3, <6>4, <6>5, <7>1
          <6> QED
            BY <1>2, <6>2, <6>6, <6>7
        <5> QED
          BY <2>6, <5>1, <5>2
      <4>2. Slot(p) # Newest(w) + 1
        BY <1>2, <3>1
      <4> QED
        BY <2>1, <4>1, <4>2 DEF OrderInv
    <3>9. SortedInv(w)'
      BY <3>1 DEF SortedInv
    <3> QED
      BY <3>5, <3>6, <3>7, <3>8, <3>9
  <2> QED
    BY <2>3, <2>4, <2>5, <2>6
<1> QED
  BY <1>3, <1>4, <1>5, <1>6 DEF IInv

\* Waiting, and all that readers do, leaves the file and the identifiers alone.
LEMMA OtherStep ==
  ASSUME NEW w, Writer = {w}, IInv(w),
         \/ Wait(w) \/ Resume(w) \/ Done \/ UNCHANGED vars
         \/ \E r \in Reader : Seek(r) \/ Replay(r)
  PROVE  IInv(w)'
<1>1. CASE Wait(w) \/ Resume(w)
  BY <1>1, Frame DEF Wait, Resume, core, restartVars
<1>2. CASE Done \/ UNCHANGED vars
  BY <1>2, Frame DEF Done, vars, core, writerVars, restartVars
<1>3. ASSUME NEW r \in Reader, Seek(r) \/ Replay(r) PROVE IInv(w)'
  <2>1. CASE Seek(r)
    BY <2>1, Frame DEF Seek, core, writerVars, restartVars
  <2>2. CASE SearchGreater(r) \/ SearchLess(r)
    BY <2>2, Frame DEF SearchGreater, SearchLess, core, writerVars, restartVars
  <2>3. CASE SeekFound(r) \/ SeekFailed(r)
    BY <2>3, Frame DEF SeekFound, SeekFailed, core, writerVars, restartVars
  <2>4. CASE Close(r) \/ Read(r) \/ CheckExhaust(r)
    BY <2>4, Frame DEF Close, Read, CheckExhaust, core, writerVars, restartVars
  <2> QED
    BY <1>3, <2>1, <2>2, <2>3, <2>4 DEF Replay
<1> QED
  BY <1>1, <1>2, <1>3

\* Every step of the log preserves the invariant.
LEMMA NextIInv == ASSUME NEW w, Writer = {w}, IInv(w), [Next]_vars PROVE IInv(w)'
<1>1. CASE Write(w)
  BY <1>1, LogStep, OtherStep, WriteRecordStep, TruncateStep, StoreStep DEF Write
<1>2. CASE ~Write(w)
  BY <1>2, OtherStep, RestartStep DEF Next
<1> QED
  BY <1>1, <1>2

-----------------------------------------------------------------------------
\* The remainder that turns the end of the ring into its beginning.
LEMMA Remainder ==
  ASSUME NEW n \in Nat \ {0}, NEW k \in 0 .. 2 * n - 1
  PROVE  k % n = IF k < n THEN k ELSE k - n
<1>1. CASE k >= n
  <2>1. k - n \in 0 .. n - 1 /\ k = n + (k - n)
    BY <1>1
  <2> QED
    BY <1>1, <2>1, SMTT(20)
<1> QED
  BY <1>1

\* All events up to the newest are written.
LEMMA LoggedEvents ==
  ASSUME NEW w, Writer = {w}, IInv(w)
  PROVE  /\ Newest(w) \in Nat /\ Logged = Newest(w)
         /\ \A id \in Nat : Written(id + 1) => id + 1 <= Newest(w)
<1>1. lastId \in Nat /\ storedId \in Nat /\ Newest(w) \in Nat
  BY DEF IInv, BaseInv, StageInv, Newest
<1>2. \A id \in 1 .. lastId : Written(id) <=> id <= Newest(w)
  BY <1>1 DEF Written, Newest, IInv, StageInv
<1>3. {id \in 1 .. lastId : Written(id)} = 1 .. Newest(w)
  BY <1>1, <1>2 DEF Newest
<1>4. Logged = Newest(w)
  <2>1. Cardinality(1 .. Newest(w)) = Newest(w)
    BY <1>1, FS_Interval
  <2> QED
    BY <1>3, <2>1, Zenon DEF Logged
<1>5. \A id \in Nat : Written(id + 1) => id + 1 \in 1 .. lastId
  BY DEF Written
<1> QED
  BY <1>1, <1>2, <1>4, <1>5

\* The i-th record of the ring is the one of this age.
LEMMA RingByAge ==
  ASSUME NEW w, IInv(w), NEW i \in 1 .. Size
  PROVE  \E p \in Slots : /\ Ring[i] = Slot(p)
                          /\ Age(p) = pos + i - 1
<1>1. file \in Seq(Nat) /\ pos \in 0 .. Size
  BY DEF IInv, BaseInv
<1>2. Size \in Nat \ {0}
  BY <1>1, LenProperties DEF Size
<1> DEFINE first == IF pos < Size THEN pos ELSE 0
           k == first + i - 1
<1>3. k \in 0 .. 2 * Size - 1
  BY <1>1, <1>2
<1>4. k % Size = IF k < Size THEN k ELSE k - Size
  BY <1>2, <1>3, Remainder
<1>5. Ring[i] = Slot(k % Size)
  BY DEF Ring
<1>6. k % Size \in Slots /\ Age(k % Size) = pos + i - 1
  <2>1. CASE k < Size
    BY <1>1, <1>2, <1>3, <1>4, <2>1 DEF Slots, Age
  <2>2. CASE ~(k < Size)
    BY <1>1, <1>2, <1>3, <1>4, <2>2 DEF Slots, Age
  <2> QED
    BY <2>1, <2>2
<1> QED
  BY <1>5, <1>6

\* The invariant says all the log is to keep.
LEMMA IInvKeepsRing == ASSUME NEW w, Writer = {w}, IInv(w) PROVE RingSurvivesRestarts
<1>1. UniqueIdsUnlessCrashed
  BY DEF IInv, UniqueInv, UniqueIdsUnlessCrashed
<1>2. file \in Seq(Nat) /\ pos \in 0 .. Size /\ Size \in Nat /\ \A p \in Slots : Slot(p) \in Nat
  <2>1. file \in Seq(Nat) /\ pos \in 0 .. Size
    BY DEF IInv, BaseInv
  <2> QED
    BY <2>1, LenProperties, ElementOfSeq DEF Slots, Slot, Size
<1>3. NoHoles
  <2> SUFFICES ASSUME ~shrunk, NEW p \in Slots, Written(Slot(p) + 1)
               PROVE  Slot(p) + 1 \in Stored
    BY DEF NoHoles, Stored, Slots
  <2>1. Slot(p) + 1 <= Newest(w)
    BY <1>2, LoggedEvents
  <2> QED
    BY <2>1 DEF IInv, RingInv, HolesInv, Stored, Slots
<1>4. RingSorted
  <2> SUFFICES ASSUME ~crashed, ~shrunk, NEW i \in 1 .. Size
               PROVE  Ring[i] = Logged - Size + i
    BY DEF RingSorted
  <2>1. PICK p \in Slots : Ring[i] = Slot(p) /\ Age(p) = pos + i - 1
    BY RingByAge
  <2>2. Slot(p) + pos + Size = Newest(w) + 1 + Age(p)
    BY DEF IInv, RingInv, SortedInv
  <2>3. Logged = Newest(w) /\ Newest(w) \in Nat
    BY LoggedEvents
  <2> QED
    BY <1>2, <2>1, <2>2, <2>3
<1> QED
  BY <1>1, <1>3, <1>4 DEF RingSurvivesRestarts

\* With one writer, the ring of a log keeps what its readers rely on through restarts and
\* crashes at any point (CyclicLog.write(), initPosition(), TagLog.log()): identifiers are
\* unique until a crash, no event between two is missing until the log is made smaller, and
\* until either it holds the last events in order, as the binary search expects.
THEOREM RingIsKept == ASSUME NEW w, Writer = {w} PROVE Spec => []RingSurvivesRestarts
<1>1. Init => IInv(w)
  BY InitIInv
<1>2. IInv(w) /\ [Next]_vars => IInv(w)'
  BY NextIInv
<1>3. IInv(w) => RingSurvivesRestarts
  BY IInvKeepsRing
<1> QED
  BY <1>1, <1>2, <1>3, PTL DEF Spec

-----------------------------------------------------------------------------
(* One reader *)

\* The reader holds the only lock, and does so while it searches and reads.
ChainInv(r) ==
  /\ locks \in {<<>>, <<r>>}
  /\ rpc[r] \in {"search", "found", "failed", "notFound", "pull", "check"} => locks = <<r>>

\* What the lock of the only reader says of the file does not depend on what is in it.
FileInv ==
  /\ file \in Seq(Nat) /\ pos \in 0 .. Size
  /\ maxRecords \in Nat /\ storedPos \in Nat \cup {-1}
  /\ lastId \in Nat /\ storedId \in Nat /\ record \in Nat /\ own \in [Writer -> Nat]

\* The bounds of locks and searches are numbers.
RangeInv(r) ==
  /\ range \in [{r} -> [start : Int, end : Int]]
  /\ search \in [{r} -> [start : Int, end : Int, greater : Int]]
  /\ at \in [{r} -> Int]
  /\ rpc \in [{r} -> {"new", "search", "found", "failed", "notFound", "closed",
                       "pull", "check", "exhausted"}]

LInv(r) == FileInv /\ RangeInv(r) /\ ChainInv(r)

-----------------------------------------------------------------------------
(* The one lock *)

\* The bounds of the chain are those of its only lock.
LEMMA OneLock == ASSUME NEW r, locks = <<r>> PROVE Bounds = range[r]
<1>1. Tail(locks) = <<>> /\ locks[1] = r /\ DOMAIN Tail(locks) = {}
  OBVIOUS
<1> DEFINE Fold(it) == it = [s \in SUBSET DOMAIN Tail(locks) |->
                               IF s = {} THEN range[locks[1]]
                               ELSE UpdateBounds(it[s \ {Max(s)}], range[Tail(locks)[Max(s)]])]
           F == [s \in SUBSET {} |-> range[r]]
<1>2. Fold(F)
  BY <1>1, Zenon
<1>3. \A it : Fold(it) => it[{}] = range[r]
  BY <1>1
<1>4. Bounds = (CHOOSE it : Fold(it))[DOMAIN Tail(locks)]
  BY Zenon DEF Bounds, FoldLeft, MapThenFoldSet
<1> HIDE DEF Fold, F
<1>5. Fold(CHOOSE it : Fold(it))
  BY <1>2
<1>6. (CHOOSE it : Fold(it))[{}] = range[r]
  BY <1>3, <1>5
<1> QED
  BY <1>1, <1>4, <1>6

\* Taken out of the chain, the lock leaves it empty.
LEMMA OneUnlocked == ASSUME NEW r, locks \in {<<>>, <<r>>} PROVE Unlocked(r) = <<>> /\ Append(Unlocked(r), r) = <<r>>
<1>1. CASE locks = <<r>>
  BY <1>1 DEF Unlocked, Last
<1>2. CASE locks = <<>>
  BY <1>2 DEF Unlocked, Last
<1> QED
  BY <1>1, <1>2

-----------------------------------------------------------------------------
(* The reader holds the only lock *)

LEMMA InitLInv == ASSUME NEW r, Reader = {r}, Init PROVE LInv(r)
<1>1. FileInv
  <2>1. file \in Seq(Nat) /\ Size = 0
    BY EmptySeq DEF Init, Size
  <2>2. own \in [Writer -> Nat]
    BY DEF Init
  <2>3. maxRecords \in Nat
    BY SizeAssumption DEF Init
  <2> QED
    BY <2>1, <2>2, <2>3 DEF Init, FileInv
<1>2. RangeInv(r)
  <2>1. range[r] = [start |-> 0, end |-> 0] /\ search[r] = [start |-> 0, end |-> 0, greater |-> -1]
    BY DEF Init, Closed, NoSearch
  <2>2. /\ range = [q \in {r} |-> Closed] /\ search = [q \in {r} |-> NoSearch]
        /\ at = [q \in {r} |-> 0] /\ rpc = [q \in {r} |-> "new"]
    BY DEF Init
  <2> QED
    BY <2>2 DEF RangeInv, Closed, NoSearch
<1>3. ChainInv(r)
  BY DEF Init, ChainInv
<1> QED
  BY <1>1, <1>2, <1>3 DEF LInv

\* The slot half way is a number.
LEMMA MiddleInt ==
  ASSUME Size \in Nat, NEW s \in Int, NEW e \in Int PROVE Middle(s, e) \in Int
BY DEF Middle

\* A writer's step leaves the readers alone.
LEMMA WriterLInv == ASSUME NEW r, Reader = {r}, LInv(r), NEW w \in Writer, Write(w) PROVE LInv(r)'
<1>1. FileInv'
  <2> USE DEF LInv, FileInv
  <2>1. Size \in Nat
    BY LenProperties DEF Size
  <2>2. CASE Log(w)
    BY <2>2 DEF Log, fileVars, Size
  <2>3. CASE Wait(w) \/ Resume(w)
    BY <2>3 DEF Wait, Resume, fileVars, Size
  <2>4. CASE WriteRecord(w)
    <3>1. /\ file' = IF pos < Size THEN [file EXCEPT ![pos + 1] = record] ELSE Append(file, record)
          /\ pos' \in {0, pos + 1}
          /\ UNCHANGED <<storedPos, storedId, maxRecords, lastId, record, own>>
      BY <2>4 DEF WriteRecord
    <3>2. file' \in Seq(Nat) /\ Len(file') >= pos + 1 /\ Len(file') \in Nat
      <4>1. CASE pos < Size
        BY <2>1, <3>1, <4>1, ExceptSeq DEF Size
      <4>2. CASE ~(pos < Size)
        BY <2>1, <3>1, <4>2, AppendProperties DEF Size
      <4> QED
        BY <4>1, <4>2
    <3> QED
      BY <2>1, <3>1, <3>2 DEF Size
  <2>5. CASE Truncate(w)
    <3>1. /\ file' = SubSeq(file, 1, Lower(Size, maxRecords)) /\ pos' = 0
          /\ UNCHANGED <<storedPos, storedId, maxRecords, lastId, record, own>>
      BY <2>5 DEF Truncate
    <3>2. file' \in Seq(Nat) /\ Len(file') \in Nat
      BY <2>1, <3>1, CutFile
    <3> QED
      BY <3>1, <3>2 DEF Size
  <2>6. CASE StorePosition(w) \/ StoreId(w)
    BY <2>1, <2>6 DEF StorePosition, StoreId, Size
  <2> QED
    BY <2>2, <2>3, <2>4, <2>5, <2>6 DEF Write
<1>2. UNCHANGED <<locks, range, rpc, at, search>>
  BY DEF Write, Log, Wait, Resume, WriteRecord, Truncate, StorePosition, StoreId, readerVars
<1> QED
  BY <1>1, <1>2 DEF LInv, RangeInv, ChainInv

LEMMA RestartLInv == ASSUME NEW r, Reader = {r}, LInv(r), Restart PROVE LInv(r)'
<1>1. PICK max \in Sizes : maxRecords' = max /\ pos' = Reopened(max).pos /\ file' = Reopened(max).file
  BY DEF Restart
<1>2. max \in Nat /\ Size \in Nat /\ file \in Seq(Nat) /\ pos \in 0 .. Size /\ storedPos \in Int
  BY SizeAssumption, LenProperties DEF LInv, FileInv, Size
<1>3. file' \in Seq(Nat) /\ pos' \in 0 .. Len(file')
  <2>1. CASE storedPos < 0
    BY <1>1, <1>2, <2>1, EmptySeq DEF Reopened
  <2>2. CASE storedPos >= 0 /\ storedPos >= max
    <3>1. file' = SubSeq(file, 1, Lower(Size, max)) /\ pos' = 0
      <4>1. ~(storedPos < 0)
        BY <1>2, <2>2
      <4>2. Reopened(max).pos = 0 /\ Reopened(max).file = SubSeq(file, 1, Lower(Size, max))
        BY <2>2, <4>1 DEF Reopened
      <4> QED
        BY <1>1, <4>2
    <3> QED
      BY <1>2, <3>1, CutFile
  <2>3. CASE storedPos >= 0 /\ storedPos < max
    BY <1>1, <1>2, <2>3 DEF Reopened, Size
  <2> QED
    BY <1>2, <2>1, <2>2, <2>3
<1>4. FileInv'
  BY <1>1, <1>2, <1>3 DEF LInv, FileInv, Restart, Size
<1>5. RangeInv(r)' /\ ChainInv(r)'
  <2>1. /\ range' = [q \in {r} |-> Closed] /\ search' = [q \in {r} |-> NoSearch]
        /\ at' = [q \in {r} |-> 0] /\ rpc' = [q \in {r} |-> "new"] /\ locks' = <<>>
    BY DEF Restart
  <2> QED
    BY <2>1 DEF RangeInv, ChainInv, Closed, NoSearch
<1> QED
  BY <1>4, <1>5 DEF LInv

\* A reader's step keeps the lock in the chain until it gives it up.
LEMMA ReaderLInv == ASSUME NEW r, Reader = {r}, LInv(r), Seek(r) \/ Replay(r) PROVE LInv(r)'
<1>1. FileInv'
  <2>1. UNCHANGED <<file, pos, storedPos, maxRecords, lastId, storedId, record, own>>
    BY DEF Seek, Replay, SearchGreater, SearchLess, SeekFound, SeekFailed, Close, Read, CheckExhaust,
           fileVars, writerVars
  <2> QED
    BY <2>1 DEF LInv, FileInv, Size
<1>2. Unlocked(r) = <<>> /\ Append(Unlocked(r), r) = <<r>>
  BY OneUnlocked DEF LInv, ChainInv
<1>3. Size \in Nat /\ pos \in Nat /\ maxRecords \in Nat
  BY LenProperties DEF LInv, FileInv, Size
<1> USE DEF LInv, RangeInv
<1>4. CASE Seek(r)
  <2> DEFINE s == IF pos + 1 >= Size THEN 0 ELSE pos
  <2>1. at' = [at EXCEPT ![r] = IF Size = 0 THEN 0 ELSE Middle(s, pos)] /\ Middle(s, pos) \in Int
    <3>1. s \in Int
      BY <1>3
    <3> HIDE DEF s
    <3>2. Middle(s, pos) \in Int
      BY <1>3, <3>1, MiddleInt
    <3>3. at' = [at EXCEPT ![r] = IF Size = 0 THEN 0 ELSE Middle(s, pos)]
      BY <1>4 DEF Seek, s
    <3> QED
      BY <3>2, <3>3
  <2>2. RangeInv(r)'
    BY <1>3, <1>4, <2>1 DEF Seek
  <2>3. locks' = <<r>>
    BY <1>2, <1>4 DEF Seek
  <2> QED
    BY <1>1, <2>2, <2>3 DEF ChainInv
<1>5. CASE SearchGreater(r)
  <2>1. at' \in [{r} -> Int]
    <3>1. Middle(search[r].start, at[r]) \in Int
      BY <1>3, MiddleInt
    <3> QED
      BY <1>5, <3>1 DEF SearchGreater
  <2>2. search' \in [{r} -> [start : Int, end : Int, greater : Int]]
    BY <1>5 DEF SearchGreater
  <2> QED
    BY <1>1, <1>5, <2>1, <2>2 DEF SearchGreater, ChainInv
<1>6. CASE SearchLess(r)
  <2> DEFINE s == NextRecord(at[r], search[r].end)
  <2>1. s \in Int
    BY <1>3 DEF NextRecord
  <2>2. Middle(s, search[r].end) \in Int
    BY <1>3, <2>1, MiddleInt
  <2> HIDE DEF s
  <2>3. CASE s < 0
    BY <1>1, <1>6, <2>3 DEF SearchLess, ChainInv, s
  <2>4. CASE ~(s < 0)
    <3>1. /\ locks' = <<r>> /\ range' = [range EXCEPT ![r] = [start |-> s, end |-> pos]]
          /\ search' = [search EXCEPT ![r].start = s]
          /\ at' = [at EXCEPT ![r] = Middle(s, search[r].end)]
          /\ rpc' = rpc
      BY <1>2, <1>6, <2>4 DEF SearchLess, Relock, s
    <3>2. RangeInv(r)'
      BY <1>3, <2>1, <2>2, <3>1
    <3> QED
      BY <1>1, <3>1, <3>2 DEF ChainInv
  <2> QED
    BY <2>3, <2>4
<1>7. CASE SeekFound(r)
  BY <1>1, <1>2, <1>3, <1>7 DEF SeekFound, Relock, ChainInv
<1>8. CASE SeekFailed(r)
  BY <1>1, <1>2, <1>3, <1>8 DEF SeekFailed, Relock, ChainInv
<1>9. CASE Close(r)
  BY <1>1, <1>2, <1>9 DEF Close, ChainInv
<1>10. CASE Read(r)
  BY <1>1, <1>3, <1>10 DEF Read, ChainInv
<1>11. CASE CheckExhaust(r)
  BY <1>1, <1>2, <1>3, <1>11 DEF CheckExhaust, Relock, ChainInv
<1> QED
  BY <1>4, <1>5, <1>6, <1>7, <1>8, <1>9, <1>10, <1>11 DEF Replay

LEMMA NextLInv == ASSUME NEW r, Reader = {r}, LInv(r), [Next]_vars PROVE LInv(r)'
<1>1. CASE Done \/ UNCHANGED vars
  BY <1>1 DEF Done, vars, fileVars, writerVars, readerVars, LInv, FileInv, RangeInv, ChainInv, Size
<1> QED
  BY <1>1, WriterLInv, RestartLInv, ReaderLInv DEF Next

\* A writer writes outside of the lock, and truncates behind it.
LEMMA KeepsLocked ==
  ASSUME NEW r, Reader = {r}, LInv(r), [Next]_vars, ~Restart,
         rpc[r] \in {"search", "found", "pull", "check"}
  PROVE  LockKept(r)
<1> SUFFICES ASSUME NEW p \in 0 .. Size - 1, Covers(range[r], p)
             PROVE  Size' > p /\ file'[p + 1] = file[p + 1]
  BY DEF LockKept
<1>1. /\ Bounds = range[r] /\ locks # <<>>
      /\ range[r].start \in Int /\ range[r].end \in Int
  BY OneLock DEF LInv, ChainInv, RangeInv
<1>2. Size \in Nat /\ pos \in 0 .. Size /\ maxRecords \in Nat /\ file \in Seq(Nat)
  BY LenProperties DEF LInv, FileInv, Size
<1>3. ASSUME NEW w \in Writer, WriteRecord(w) PROVE Size' > p /\ file'[p + 1] = file[p + 1]
  <2>1. p # pos
    BY <1>1, <1>2, <1>3 DEF WriteRecord, MayWrite, Covers
  <2>2. record \in Nat /\ file' = IF pos < Size THEN [file EXCEPT ![pos + 1] = record] ELSE Append(file, record)
    BY <1>3 DEF WriteRecord, LInv, FileInv
  <2>3. CASE pos < Size
    BY <1>2, <2>1, <2>2, <2>3, ExceptSeq DEF Size
  <2>4. CASE ~(pos < Size)
    BY <1>2, <2>1, <2>2, <2>4, AppendProperties DEF Size
  <2> QED
    BY <2>3, <2>4
<1>4. ASSUME NEW w \in Writer, Truncate(w) PROVE Size' > p /\ file'[p + 1] = file[p + 1]
  <2>1. p < Lower(Size, maxRecords) /\ Lower(Size, maxRecords) \in 0 .. Size
    BY <1>1, <1>2, <1>4 DEF Truncate, MayTruncate, Covers, Lower
  <2>2. file' = SubSeq(file, 1, Lower(Size, maxRecords))
    BY <1>4 DEF Truncate
  <2> QED
    BY <1>2, <2>1, <2>2, SubSeqProperties DEF Size
<1>5. ASSUME UNCHANGED file PROVE Size' > p /\ file'[p + 1] = file[p + 1]
  BY <1>2, <1>5 DEF Size
<1>6. \/ \E w \in Writer : WriteRecord(w) \/ Truncate(w)
      \/ UNCHANGED file
  BY DEF Next, Write, Replay, Log, Wait, Resume, StorePosition, StoreId, Seek, SearchGreater,
         SearchLess, SeekFound, SeekFailed, Close, Read, CheckExhaust, Done, vars, fileVars
<1> QED
  BY <1>3, <1>4, <1>5, <1>6

\* A record that the only reader has locked is neither overwritten nor truncated
\* (CyclicLog.waitToWrite(), waitToTruncate(); CyclicLogReader.relockFrom()),
\* whatever the sizes, however many writers there are and whenever the process ends.
THEOREM LockedIsKept == ASSUME NEW q, Reader = {q} PROVE Spec => LockedRecordsKept
<1>1. Init => LInv(q)
  BY InitLInv
<1>2. LInv(q) /\ [Next]_vars => LInv(q)'
  BY NextLInv
<1>3. LInv(q) /\ [Next]_vars =>
        [\A r \in Reader :
           ~Restart /\ rpc[r] \in {"search", "found", "pull", "check"} => LockKept(r)]_vars
  BY KeepsLocked
<1> QED
  BY <1>1, <1>2, <1>3, PTL DEF Spec, LockedRecordsKept

-----------------------------------------------------------------------------
(* The log of EventLog: one writer and one reader of a log that runs on *)

Plain ==
  /\ restarts = 0 /\ crashed = FALSE /\ shrunk = FALSE /\ maxRecords = FirstSize
  /\ lastId <= MaxId

\* A log that is not full yet has all events, and is written at its end.
SizeInv(w) ==
  Size <= Newest(w) /\ (Size < FirstSize => pos = Size /\ Newest(w) = Size)

\* The lock holds the records from its start to the one before its end.
LockInv(r) ==
  rpc[r] \in {"search", "found", "pull", "check"} =>
    /\ range[r].start \in Slots /\ range[r].end \in 0 .. Size
    /\ range[r].end = 0 => Size = FirstSize
    /\ Slot(range[r].start) <= Slot(Before(range[r].end))

\* The search goes on within the lock, between records known to be older than
\* wanted and the oldest one known not to be.
SearchInv(r) ==
  rpc[r] = "search" =>
    /\ search[r].start = range[r].start /\ search[r].end \in 0 .. Size
    /\ at[r] \in Slots /\ Slot(range[r].start) <= Slot(at[r])
    /\ search[r].greater < 0 =>
         /\ search[r].end = 0 => Size = FirstSize
         /\ at[r] = search[r].end => FirstSize = 1
         /\ Slot(at[r]) <= Slot(Before(search[r].end))
         /\ Slot(Before(search[r].end)) <= Slot(Before(range[r].end))
    /\ search[r].greater >= 0 =>
         /\ search[r].greater = search[r].end /\ search[r].end \in Slots
         /\ from[r] <= Slot(search[r].end) /\ Slot(at[r]) < Slot(search[r].end)
         /\ Slot(search[r].end) <= Slot(Before(range[r].end))

\* The event to return next is the one sought or the oldest one locked.
DueInv(r) ==
  /\ rpc[r] = "search" =>
       /\ Slot(range[r].start) <= due[r]
       /\ due[r] = from[r] \/ (from[r] < due[r] /\ due[r] = Slot(range[r].start))
  /\ rpc[r] = "found" =>
       /\ search[r].greater \in Slots /\ Slot(search[r].greater) = due[r]
       /\ Slot(range[r].start) <= due[r] /\ due[r] <= Slot(Before(range[r].end))
  /\ rpc[r] = "pull" => at[r] = range[r].start /\ Slot(at[r]) = due[r]
  /\ rpc[r] = "check" =>
       /\ Slot(range[r].start) = due[r] /\ got[r] = due[r]
       /\ at[r] = IF range[r].start + 1 >= FirstSize THEN 0 ELSE range[r].start + 1
  /\ rpc[r] = "failed" /\ Size = 0 => range[r].start = 0 /\ range[r].end = 0

EventInv(r) ==
  from \in [{r} -> Nat] /\ due \in [{r} -> Nat] /\ got \in [{r} -> Nat]

RInv(w, r) ==
  /\ IInv(w) /\ LInv(r)
  /\ Plain /\ SizeInv(w) /\ EventInv(r) /\ LockInv(r) /\ SearchInv(r) /\ DueInv(r)

-----------------------------------------------------------------------------
(* The ring, in numbers *)

\* What the lemmas on the ring need to know of it.
RingFacts(w) ==
  /\ FirstSize \in Nat \ {0} /\ Size \in 0 .. FirstSize
  /\ pos \in 0 .. FirstSize - 1 /\ pos <= Size
  /\ Newest(w) \in Nat /\ Size <= Newest(w)
  /\ Size < FirstSize => pos = Size /\ Newest(w) = Size
  /\ \A p \in Slots : Slot(p) \in Nat /\ Slot(p) + pos + Size = Newest(w) + 1 + Age(p)

LEMMA KnownRing ==
  ASSUME NEW w, Writer = {w}, IInv(w), Plain, SizeInv(w)
  PROVE  RingFacts(w) /\ Logged = Newest(w) /\ wpc[w] # "truncate"
<1>1. FirstSize \in Nat \ {0} /\ maxRecords = FirstSize /\ ~crashed /\ ~shrunk
  BY SizeAssumption DEF Plain
<1>2. /\ file \in Seq(Nat) /\ pos \in 0 .. Size /\ Size <= maxRecords /\ pos < maxRecords
      /\ wpc[w] # "truncate"
      /\ \A p \in Slots : Slot(p) + pos + Size = Newest(w) + 1 + Age(p)
  BY <1>1 DEF IInv, BaseInv, RingInv, PositionInv, SortedInv
<1>3. Size \in Nat /\ \A p \in Slots : Slot(p) \in Nat
  BY <1>2, LenProperties, ElementOfSeq DEF Slots, Slot, Size
<1>4. Newest(w) \in Nat /\ Logged = Newest(w)
  BY LoggedEvents
<1> QED
  BY <1>1, <1>2, <1>3, <1>4 DEF RingFacts, SizeInv

\* The records are as old as their slots.
LEMMA ByAge ==
  ASSUME NEW w, RingFacts(w), NEW p \in Slots, NEW q \in Slots
  PROVE  /\ p \in Nat /\ q \in Nat /\ p < Size /\ q < Size
         /\ Slot(p) <= Slot(q) <=> Age(p) <= Age(q)
         /\ Slot(p) = Slot(q) + 1 <=> Age(p) = Age(q) + 1
         /\ Slot(p) \in Nat /\ Slot(p) <= Newest(w)
<1>1. /\ Slot(p) \in Nat /\ Slot(p) + pos + Size = Newest(w) + 1 + Age(p)
      /\ Slot(q) \in Nat /\ Slot(q) + pos + Size = Newest(w) + 1 + Age(q)
  BY DEF RingFacts
<1>2. p \in 0 .. Size - 1 /\ q \in 0 .. Size - 1 /\ Size \in Nat /\ pos \in Nat /\ Newest(w) \in Nat
  BY DEF RingFacts, Slots
<1>3. Age(p) \in Nat /\ Age(q) \in Nat /\ Age(p) < pos + Size
  BY <1>2 DEF Age, RingFacts
<1> QED
  BY <1>1, <1>2, <1>3

\* A range of the ring that does not go past the newest record.
Span(s, e) ==
  /\ s \in Slots /\ e \in 0 .. Size
  /\ e = 0 => Size = FirstSize
  /\ Slot(s) <= Slot(Before(e))

LEMMA SpanAges ==
  ASSUME NEW w, RingFacts(w), NEW s, NEW e, Span(s, e)
  PROVE  /\ Before(e) \in Slots /\ Age(s) <= Age(Before(e))
         /\ s \in 0 .. Size - 1 /\ e \in 0 .. Size /\ Size \in Nat \ {0}
<1>1. s \in 0 .. Size - 1 /\ e \in 0 .. Size /\ Size \in Nat \ {0}
  BY DEF Span, Slots, RingFacts
<1>2. Before(e) \in Slots
  BY <1>1 DEF Before, Slots
<1> QED
  BY <1>1, <1>2, ByAge DEF Span

\* A range covers the slots of its records.
LEMMA SpanCovers ==
  ASSUME NEW w, RingFacts(w), NEW s, NEW e, Span(s, e),
         NEW p \in Slots, Slot(s) <= Slot(p), Slot(p) <= Slot(Before(e))
  PROVE  Covers([start |-> s, end |-> e], p)
<1>1. /\ Before(e) \in Slots /\ s \in 0 .. Size - 1 /\ e \in 0 .. Size /\ Size \in Nat \ {0}
      /\ s \in Slots
  BY SpanAges DEF Span
<1>2. Age(s) <= Age(p) /\ Age(p) <= Age(Before(e)) /\ p \in 0 .. Size - 1
  BY <1>1, ByAge DEF Slots
<1>3. pos \in Nat /\ pos <= Size
  BY DEF RingFacts
<1>4. s < e => p \in s .. e - 1
  BY <1>1, <1>2, <1>3 DEF Age, Before
<1>5. ~(s < e) => p >= s \/ p < e
  BY <1>1, <1>2, <1>3 DEF Age, Before
<1> QED
  BY <1>4, <1>5 DEF Covers

\* The search looks at a record of the range.
LEMMA MiddleSlot ==
  ASSUME NEW w, RingFacts(w), NEW s, NEW e, Span(s, e)
  PROVE  /\ Middle(s, e) \in Slots
         /\ Slot(s) <= Slot(Middle(s, e)) /\ Slot(Middle(s, e)) <= Slot(Before(e))
         /\ Middle(s, e) = e => FirstSize = 1
<1>1. /\ Before(e) \in Slots /\ s \in 0 .. Size - 1 /\ e \in 0 .. Size /\ Size \in Nat \ {0}
      /\ s \in Slots /\ Age(s) <= Age(Before(e))
      /\ e = 0 => Size = FirstSize
  BY SpanAges DEF Span
<1>2. /\ pos \in Nat /\ pos <= Size /\ FirstSize \in Nat /\ Size <= FirstSize
      /\ Size < FirstSize => pos = Size
  BY DEF RingFacts
<1> DEFINE m == Middle(s, e)
<1>3. CASE s < e
  <2>1. m = s + (e - s) \div 2
    BY <1>3 DEF Middle
  <2>2. m \in s .. e - 1
    BY <1>1, <1>3, <2>1
  <2>3. Before(e) = e - 1
    BY <1>1, <1>3 DEF Before
  <2> HIDE DEF m
  <2>4. Age(s) <= Age(m) /\ Age(m) <= Age(e - 1)
    BY <1>1, <1>2, <1>3, <2>2, <2>3 DEF Age
  <2>5. m \in Slots
    BY <1>1, <2>2 DEF Slots
  <2> QED
    BY <1>1, <2>2, <2>3, <2>4, <2>5, ByAge DEF m
<1>4. CASE ~(s < e)
  <2> DEFINE tail == Size - s
             mid == (tail + e) \div 2
  <2>1. m = IF mid < tail THEN s + mid ELSE mid - tail
    BY <1>4 DEF Middle
  <2>2. mid \in 0 .. tail + e - 1 /\ tail \in 1 .. Size /\ (tail + e > 1 => mid > 0) /\ tail + e <= Size
    BY <1>1, <1>4
  <2>3. Size = FirstSize
    BY <1>1, <1>2, <1>4 DEF Age, Before
  <2> HIDE DEF m, mid
  <2>4. m \in 0 .. Size - 1 /\ Age(s) <= Age(m) /\ Age(m) <= Age(Before(e))
    <3>1. CASE mid < tail
      BY <1>1, <1>2, <1>4, <2>1, <2>2, <3>1 DEF Age, Before
    <3>2. CASE ~(mid < tail)
      BY <1>1, <1>2, <1>4, <2>1, <2>2, <3>2 DEF Age, Before
    <3> QED
      BY <3>1, <3>2
  <2>5. m = e => FirstSize = 1
    BY <1>1, <1>4, <2>1, <2>2, <2>3
  <2> QED
    BY <1>1, <2>4, <2>5, ByAge DEF m, Slots
<1> QED
  BY <1>3, <1>4

\* The search goes on with the next record of the range, if there is one.
LEMMA NextSlot ==
  ASSUME NEW w, RingFacts(w), NEW p, NEW e, Span(p, e), p = e => FirstSize = 1
  PROVE  \/ NextRecord(p, e) = -1 /\ p = Before(e)
         \/ /\ NextRecord(p, e) >= 0 /\ Span(NextRecord(p, e), e)
            /\ Slot(NextRecord(p, e)) = Slot(p) + 1
<1>1. /\ Before(e) \in Slots /\ p \in 0 .. Size - 1 /\ e \in 0 .. Size /\ Size \in Nat \ {0}
      /\ p \in Slots /\ Age(p) <= Age(Before(e))
      /\ e = 0 => Size = FirstSize
  BY SpanAges DEF Span
<1>2. pos \in Nat /\ pos <= Size /\ FirstSize \in Nat /\ Size <= FirstSize /\ (Size < FirstSize => pos = Size)
  BY DEF RingFacts
<1> DEFINE n == NextRecord(p, e)
<1>3. CASE p = e \/ p + 1 = e
  BY <1>1, <1>2, <1>3 DEF NextRecord, Before
<1>4. CASE ~(p = e \/ p + 1 = e) /\ p + 2 > Size /\ e = 0
  BY <1>1, <1>4 DEF NextRecord, Before
<1>5. CASE ~(p = e \/ p + 1 = e) /\ ~(p + 2 > Size /\ e = 0)
  <2>1. n = IF p + 2 > Size THEN 0 ELSE p + 1
    BY <1>1, <1>5 DEF NextRecord
  <2> HIDE DEF n
  <2>2. n \in 0 .. Size - 1 /\ Age(n) = Age(p) + 1 /\ Age(n) <= Age(Before(e))
    BY <1>1, <1>2, <1>5, <2>1 DEF Age, Before
  <2>3. n \in Slots
    BY <2>2 DEF Slots
  <2>4. Slot(n) = Slot(p) + 1 /\ Slot(n) <= Slot(Before(e))
    BY <1>1, <2>2, <2>3, ByAge
  <2> QED
    BY <1>1, <2>2, <2>3, <2>4 DEF Span, n
<1> QED
  BY <1>3, <1>4, <1>5

\* A record that is not the oldest follows the one in the slot before it.
LEMMA BeforeSlot ==
  ASSUME NEW w, RingFacts(w), NEW p \in Slots, NEW e \in Slots, Slot(p) < Slot(e)
  PROVE  Span(p, e) /\ p # e /\ Slot(e) = Slot(Before(e)) + 1
<1>1. p \in 0 .. Size - 1 /\ e \in 0 .. Size - 1 /\ Size \in Nat \ {0} /\ Slot(p) \in Nat /\ Slot(e) \in Nat
  BY DEF Slots, RingFacts
<1>2. ~(Age(e) <= Age(p))
  BY <1>1, ByAge
<1>3. pos \in Nat /\ pos <= Size /\ FirstSize \in Nat /\ Size <= FirstSize /\ (Size < FirstSize => pos = Size)
  BY DEF RingFacts
<1>4. Before(e) \in 0 .. Size - 1 /\ Age(e) = Age(Before(e)) + 1 /\ (e = 0 => Size = FirstSize)
  BY <1>1, <1>2, <1>3 DEF Age, Before
<1>5. Slot(e) = Slot(Before(e)) + 1
  BY <1>4, ByAge DEF Slots
<1>6. Slot(Before(e)) \in Nat
  BY <1>4 DEF RingFacts, Slots
<1> QED
  BY <1>1, <1>4, <1>5, <1>6 DEF Span, Slots

-----------------------------------------------------------------------------
(* What a reader does, in the words of EventLog *)

PhaseFacts(r) ==
  /\ rpc[r] = "new" => Phase(r) = "new"
  /\ rpc[r] = "failed" => Phase(r) = "ahead"
  /\ rpc[r] = "search" =>
       Phase(r) = IF search[r].greater < 0 /\ Slot(Before(search[r].end)) < from[r]
                    THEN "ahead" ELSE "seeking"
  /\ rpc[r] = "found" => Phase(r) = "seeking"
  /\ rpc[r] \in {"pull", "check"} => Phase(r) = "reading"
  /\ rpc[r] = "notFound" => Phase(r) = "starved"
  /\ rpc[r] = "exhausted" => Phase(r) = "exhausted"
  /\ rpc[r] = "closed" => Phase(r) = "closed"

LEMMA PhaseKnown == ASSUME NEW r PROVE PhaseFacts(r)
BY DEF PhaseFacts, Phase, Ahead

LEMMA PhaseKnownNext == ASSUME NEW r PROVE PhaseFacts(r)'
<1>1. PhaseFacts(r)
  BY PhaseKnown
<1> QED
  BY <1>1, PTL

LEMMA LoggedKnown ==
  ASSUME NEW w, Writer = {w}
  PROVE  /\ IInv(w) /\ Plain /\ SizeInv(w) => Logged = Newest(w) /\ RingFacts(w)
         /\ IInv(w)' /\ Plain' /\ SizeInv(w)' => Logged' = Newest(w)' /\ RingFacts(w)'
<1>1. IInv(w) /\ Plain /\ SizeInv(w) => Logged = Newest(w) /\ RingFacts(w)
  BY KnownRing
<1>2. (IInv(w) /\ Plain /\ SizeInv(w) => Logged = Newest(w) /\ RingFacts(w))'
  BY <1>1, PTL
<1> QED
  BY <1>1, <1>2

\* The abstract log as the only reader sees it.
LEMMA Mapped ==
  ASSUME NEW r, Reader = {r}
  PROVE  /\ [q \in Reader |-> Phase(q)] = [q \in {r} |-> Phase(r)]
         /\ [q \in Reader |-> Phase(q)]' = [q \in {r} |-> Phase(r)']
OBVIOUS

LEMMA Stutter ==
  ASSUME NEW r, Reader = {r}, Logged' = Logged, Phase(r)' = Phase(r), due' = due
  PROVE  UNCHANGED Promise!vars
BY Mapped DEF Promise!vars

-----------------------------------------------------------------------------
(* Steps of the writer *)

\* A step that writes no record changes nothing the readers see.
LEMMA QuietStep ==
  ASSUME NEW w, NEW r, Writer = {w}, Reader = {r}, RInv(w, r), IInv(w)', LInv(r)',
         UNCHANGED <<file, pos, maxRecords, readerVars, restartVars>>, Newest(w)' = Newest(w),
         lastId' <= MaxId
  PROVE  RInv(w, r)' /\ UNCHANGED Promise!vars
<1>1. /\ UNCHANGED <<file, pos, maxRecords, restarts, crashed, shrunk>>
      /\ UNCHANGED <<locks, range, rpc, from, at, search, got, due>>
  BY DEF readerVars, restartVars
<1>2. Size' = Size /\ Slots' = Slots
  BY <1>1 DEF Size, Slots
<1>3. \A p : Slot(p)' = Slot(p) /\ Before(p)' = Before(p)
  BY <1>1, <1>2 DEF Slot, Before
<1>4. Plain' /\ SizeInv(w)' /\ EventInv(r)'
  BY <1>1, <1>2 DEF RInv, Plain, SizeInv, EventInv
<1>5. LockInv(r)'
  <2>1. LockInv(r)
    BY DEF RInv
  <2>2. Slot(range[r].start)' = Slot(range[r].start) /\ Slot(Before(range[r].end))' = Slot(Before(range[r].end))
    BY <1>1, <1>2 DEF Slot, Before
  <2> QED
    BY <1>1, <1>2, <2>1, <2>2 DEF LockInv
<1>6. SearchInv(r)' /\ DueInv(r)'
  BY <1>1, <1>2 DEF RInv, SearchInv, DueInv, Slot, Before
<1>7. Phase(r)' = Phase(r)
  BY <1>1, <1>2 DEF Phase, Ahead, Slot, Before
<1>8. Logged' = Logged
  BY <1>4, LoggedKnown DEF RInv
<1> QED
  BY <1>1, <1>4, <1>5, <1>6, <1>7, <1>8, Stutter DEF RInv

\* The records a reader has locked stay where they are.
LEMMA LockedStay ==
  ASSUME NEW w, NEW r, Writer = {w}, Reader = {r}, RInv(w, r), WriteRecord(w)
  PROVE  /\ Size \in Nat /\ Size' \in {Size, Size + 1} /\ (Size = FirstSize => Size' = Size)
         /\ \A p \in Slots : p # pos => p \in Slots' /\ file'[p + 1] = Slot(p)
         /\ rpc[r] \in {"search", "found", "pull", "check"} =>
              /\ Span(range[r].start, range[r].end)
              /\ pos \in Slots => ~( /\ Slot(range[r].start) <= Slot(pos)
                                     /\ Slot(pos) <= Slot(Before(range[r].end)))
<1>1. /\ Size \in Nat /\ Size' = IF pos < Size THEN Size ELSE Size + 1
      /\ \A p \in Slots' : IF p = pos THEN Slot(p)' = lastId ELSE p \in Slots /\ Slot(p)' = Slot(p)
  BY WrittenFile DEF RInv
<1>2. RingFacts(w)
  BY LoggedKnown DEF RInv
<1>3. Size = FirstSize => Size' = Size
  BY <1>1, <1>2 DEF RingFacts
<1>4. ASSUME NEW p \in Slots, p # pos PROVE p \in Slots' /\ file'[p + 1] = Slot(p)
  <2>1. p \in Slots'
    BY <1>1, <1>4 DEF Slots
  <2> QED
    BY <1>1, <1>4, <2>1 DEF Slot
<1>5. ASSUME rpc[r] \in {"search", "found", "pull", "check"}
      PROVE  /\ Span(range[r].start, range[r].end)
             /\ pos \in Slots => ~( /\ Slot(range[r].start) <= Slot(pos)
                                    /\ Slot(pos) <= Slot(Before(range[r].end)))
  <2>1. Span(range[r].start, range[r].end)
    BY <1>5 DEF RInv, LockInv, Span
  <2>2. range[r] \in [start : Int, end : Int] /\ locks = <<r>> /\ MayWrite
    BY <1>5 DEF RInv, LInv, RangeInv, ChainInv, WriteRecord
  <2>5. Bounds = range[r] /\ locks # <<>> /\ pos \in Nat
    BY <1>2, <2>2, OneLock DEF RingFacts
  <2>3. ~Covers(range[r], pos)
    BY <2>2, <2>5 DEF MayWrite, Covers
  <2>4. Covers([start |-> range[r].start, end |-> range[r].end], pos) = Covers(range[r], pos)
    BY DEF Covers
  <2> QED
    BY <1>2, <2>1, <2>3, <2>4, SpanCovers
<1> QED
  BY <1>1, <1>3, <1>4, <1>5

\* An event is written: it is logged.
LEMMA WriteStep ==
  ASSUME NEW w, NEW r, Writer = {w}, Reader = {r}, RInv(w, r), IInv(w)', LInv(r)', WriteRecord(w)
  PROVE  RInv(w, r)' /\ Promise!Append
<1>1. /\ UNCHANGED <<locks, range, rpc, from, at, search, got, due, restarts, crashed, shrunk, maxRecords>>
      /\ wpc[w] = "write" /\ wpc'[w] # "write" /\ lastId' = lastId /\ lastId \in Nat
      /\ pos' = IF pos + 1 >= FirstSize THEN 0 ELSE pos + 1
  <2>1. Size' <= FirstSize
    BY LockedStay, LoggedKnown DEF RInv, RingFacts
  <2>2. maxRecords = FirstSize /\ FirstSize \in Nat /\ Len(file') <= FirstSize /\ Len(file') \in Nat
    BY <2>1, LockedStay, SizeAssumption DEF RInv, Plain, Size
  <2>3. ~(Len(file') > maxRecords)
    BY <2>2
  <2> QED
    BY <2>2, <2>3 DEF WriteRecord, readerVars, restartVars, RInv, IInv, BaseInv
<1>2. RingFacts(w) /\ Logged = Newest(w)
  BY LoggedKnown DEF RInv
<1>3. Newest(w) = lastId - 1 /\ Newest(w)' = lastId
  BY <1>1 DEF Newest
<1>4. Size' = IF pos < Size THEN Size ELSE Size + 1
  BY WrittenFile DEF RInv
<1>5. Plain' /\ SizeInv(w)' /\ EventInv(r)'
  <2>1. SizeInv(w)'
    BY <1>1, <1>2, <1>3, <1>4 DEF SizeInv, RingFacts
  <2> QED
    BY <1>1, <2>1 DEF RInv, Plain, EventInv
<1>6. Logged' = Logged + 1
  BY <1>1, <1>2, <1>3, <1>5, LoggedKnown DEF RInv
<1>7. ASSUME NEW e, e \in 0 .. Size, e = 0 => Size = FirstSize
      PROVE  Before(e)' = Before(e) /\ e \in 0 .. Size'
  BY <1>7, LockedStay DEF Before
<1>8. ASSUME rpc[r] \in {"search", "found", "pull", "check"}
      PROVE  /\ Span(range[r].start, range[r].end)
             /\ \A p \in Slots :
                  Slot(range[r].start) <= Slot(p) /\ Slot(p) <= Slot(Before(range[r].end)) =>
                    p # pos /\ p \in Slots' /\ file'[p + 1] = Slot(p)
  BY <1>8, LockedStay
<1>9. Slots # {} => Size > 0
  BY <1>2 DEF Slots, RingFacts
<1>10. \A p \in Slots : Slot(p) \in Nat
  BY <1>2 DEF RingFacts
<1>11. LockInv(r)'
  <2> SUFFICES ASSUME rpc[r] \in {"search", "found", "pull", "check"}
               PROVE  LockInv(r)'
    BY <1>1 DEF LockInv
  <2>1. Span(range[r].start, range[r].end) /\ Before(range[r].end) \in Slots
    BY <1>2, <1>8, SpanAges
  <2>2. range[r].start \in Slots' /\ Slot(range[r].start)' = Slot(range[r].start)
    BY <1>1, <1>8, <1>10, <2>1 DEF Span, Slot
  <2>3. Before(range[r].end)' = Before(range[r].end) /\ range[r].end \in 0 .. Size'
    BY <1>1, <1>7, <2>1 DEF Span, Before
  <2>4. file'[Before(range[r].end) + 1] = Slot(Before(range[r].end))
    BY <1>8, <1>10, <2>1 DEF Span
  <2>5. /\ range'[r].start \in Slots' /\ range'[r].end \in 0 .. Size'
        /\ range'[r].end = 0 => Size' = FirstSize
        /\ Slot(range[r].start)' <= Slot(Before(range[r].end))'
    BY <1>1, <2>1, <2>2, <2>3, <2>4, LockedStay DEF Span, Slot
  <2> QED
    BY <2>5 DEF LockInv
<1>12. SearchInv(r)' /\ Phase(r)' = Phase(r)
  <2>1. CASE rpc[r] # "search"
    BY <1>1, <2>1, PhaseKnown, PhaseKnownNext DEF SearchInv, PhaseFacts, Phase, Ahead
  <2>2. CASE rpc[r] = "search"
    <3>1. /\ Size \in Nat \ {0} /\ range[r].start \in Slots /\ at[r] \in Slots
          /\ Before(range[r].end) \in Slots /\ range[r].end \in 0 .. Size
          /\ search[r].start = range[r].start /\ search[r].end \in 0 .. Size
          /\ search[r].greater \in Int
      BY <1>2, <1>8, <2>2, SpanAges DEF RInv, SearchInv, LInv, RangeInv, Span
    <3>2. Before(search[r].end) \in Slots
      BY <3>1 DEF Before, Slots
    <3>3. /\ Slot(range[r].start) \in Nat /\ Slot(at[r]) \in Nat
          /\ Slot(Before(range[r].end)) \in Nat /\ Slot(Before(search[r].end)) \in Nat
          /\ search[r].end \in Slots => Slot(search[r].end) \in Nat
      BY <1>10, <3>1, <3>2
    <3>4. /\ Slot(range[r].start) <= Slot(at[r]) /\ Slot(at[r]) <= Slot(Before(range[r].end))
          /\ search[r].greater < 0 =>
               /\ Slot(at[r]) <= Slot(Before(search[r].end))
               /\ Slot(Before(search[r].end)) <= Slot(Before(range[r].end))
          /\ search[r].greater >= 0 =>
               /\ search[r].end \in Slots /\ Slot(at[r]) < Slot(search[r].end)
               /\ Slot(search[r].end) <= Slot(Before(range[r].end))
      <4>1. SearchInv(r)
        BY DEF RInv
      <4> QED
        BY <2>2, <3>1, <3>3, <4>1 DEF SearchInv
    <3>5. /\ at[r] \in Slots' /\ file'[at[r] + 1] = Slot(at[r])
          /\ range[r].start \in Slots' /\ file'[range[r].start + 1] = Slot(range[r].start)
          /\ file'[Before(range[r].end) + 1] = Slot(Before(range[r].end))
          /\ search[r].greater < 0 =>
               file'[Before(search[r].end) + 1] = Slot(Before(search[r].end))
          /\ search[r].greater >= 0 =>
               search[r].end \in Slots' /\ file'[search[r].end + 1] = Slot(search[r].end)
      BY <1>8, <2>2, <3>1, <3>2, <3>3, <3>4
    <3>6. /\ search[r].greater < 0 /\ search[r].end = 0 => Size = FirstSize
          /\ search[r].greater < 0 => Before(search[r].end)' = Before(search[r].end)
          /\ search[r].end \in 0 .. Size'
      <4>1. search[r].greater < 0 /\ search[r].end = 0 => Size = FirstSize
        BY <2>2 DEF RInv, SearchInv
      <4> QED
        BY <1>1, <1>7, <3>1, <4>1, LockedStay DEF Before
    <3>7. Before(range[r].end)' = Before(range[r].end)
      BY <1>1, <1>7, <1>8, <2>2, <3>1 DEF Span, Before
    <3>8. /\ Slot(range[r].start)' = Slot(range[r].start) /\ Slot(at[r])' = Slot(at[r])
          /\ Slot(Before(range[r].end))' = Slot(Before(range[r].end))
          /\ search[r].greater < 0 =>
               Slot(Before(search[r].end))' = Slot(Before(search[r].end))
          /\ search[r].greater >= 0 => Slot(search[r].end)' = Slot(search[r].end)
      BY <1>1, <3>5, <3>6, <3>7 DEF Slot
    <3>9. SearchInv(r)'
      <4>1. SearchInv(r)
        BY DEF RInv
      <4>2. search[r].greater < 0 /\ search[r].end = 0 => Size' = FirstSize
        BY <3>6, LockedStay
      <4> HIDE DEF Before
      <4> QED
        BY <1>1, <2>2, <3>5, <3>6, <3>8, <4>1, <4>2 DEF SearchInv
    <3>10. Phase(r)' = Phase(r)
      BY <1>1, <2>2, <3>1, <3>8, PhaseKnown, PhaseKnownNext DEF PhaseFacts
    <3> QED
      BY <3>9, <3>10
  <2> QED
    BY <2>1, <2>2
<1>13. DueInv(r)'
  <2>1. DueInv(r) /\ range[r] \in [start : Int, end : Int]
    BY DEF RInv, LInv, RangeInv
  <2>2. ASSUME rpc[r] \in {"search", "found", "pull", "check"}
        PROVE  Slot(range[r].start)' = Slot(range[r].start)
    BY <1>1, <1>2, <1>8, <1>10, <2>2, SpanAges DEF Span, Slot
  <2>3. ASSUME rpc[r] = "found"
        PROVE  /\ search[r].greater \in Slots' /\ Slot(search[r].greater)' = Slot(search[r].greater)
               /\ Slot(Before(range[r].end))' = Slot(Before(range[r].end))
    <3>1. /\ Span(range[r].start, range[r].end) /\ Before(range[r].end) \in Slots
          /\ range[r].start \in Slots
      BY <1>2, <1>8, <2>3, SpanAges DEF Span
    <3>2. Before(range[r].end)' = Before(range[r].end)
      BY <1>1, <1>7, <3>1 DEF Span, Before
    <3>3. file'[Before(range[r].end) + 1] = Slot(Before(range[r].end))
      BY <1>8, <1>10, <2>3, <3>1 DEF Span
    <3>4. search[r].greater \in Slots' /\ file'[search[r].greater + 1] = Slot(search[r].greater)
      BY <1>8, <2>1, <2>3 DEF DueInv
    <3> QED
      BY <1>1, <3>2, <3>3, <3>4 DEF Slot
  <2>4. Size' = 0 => Size = 0
    BY LockedStay
  <2>5. rpc[r] = "pull" => Slot(at[r])' = Slot(at[r])
    BY <1>1, <2>1, <2>2 DEF DueInv, Slot
  <2> QED
    BY <1>1, <2>1, <2>2, <2>3, <2>4, <2>5 DEF DueInv
<1>14. RInv(w, r)'
  BY <1>5, <1>11, <1>12, <1>13 DEF RInv
<1>15. Promise!Append
  <2>1. Logged < MaxId
    BY <1>1, <1>2, <1>3, BoundAssumption DEF RInv, Plain
  <2>2. ASSUME rpc[r] \in {"search", "found", "pull", "check"}
        PROVE  due[r] > Logged + 1 - FirstSize
    <3>1. range[r].start \in Slots /\ range[r].start # pos
      <4>1. /\ Span(range[r].start, range[r].end) /\ Before(range[r].end) \in Slots
            /\ range[r].start \in Slots
        BY <1>2, <1>8, <2>2, SpanAges DEF Span
      <4> QED
        BY <1>8, <1>10, <2>2, <4>1 DEF Span
    <3>2. Slot(range[r].start) <= due[r]
      BY <1>10, <2>2, <3>1 DEF RInv, DueInv, EventInv
    <3>3. Slot(range[r].start) + pos + Size = Newest(w) + 1 + Age(range[r].start)
      BY <1>2, <3>1 DEF RingFacts
    <3>4. /\ range[r].start \in 0 .. Size - 1 /\ due[r] \in Nat /\ Slot(range[r].start) \in Nat
          /\ Size \in Nat /\ FirstSize \in Nat /\ pos \in Nat /\ Newest(w) \in Nat
          /\ pos <= Size /\ Size <= FirstSize /\ (Size < FirstSize => pos = Size)
          /\ (Size = FirstSize => pos < Size)
          /\ (Size < FirstSize => Newest(w) = Size)
      BY <1>2, <1>10, <3>1 DEF RingFacts, Slots, RInv, EventInv
    <3> QED
      BY <1>2, <3>1, <3>2, <3>3, <3>4 DEF Age
  <2>3. ASSUME rpc[r] \in {"search", "failed"} PROVE Logged > 0
    <3>1. SUFFICES Size # 0
      BY <1>2 DEF RingFacts
    <3>2. CASE rpc[r] = "search"
      BY <1>2, <3>2 DEF RInv, SearchInv, RingFacts, Slots
    <3>3. CASE rpc[r] = "failed" /\ Size = 0
      <4>1. locks = <<r>> /\ range[r].start = 0 /\ range[r].end = 0 /\ pos = 0
        BY <1>2, <3>3 DEF RInv, LInv, ChainInv, DueInv, RingFacts
      <4>2. Bounds = range[r] /\ locks # <<>> /\ MayWrite
        BY <4>1, OneLock DEF WriteRecord
      <4> QED
        BY <4>1, <4>2 DEF MayWrite
    <3> QED
      BY <2>3, <3>2, <3>3
  <2>4. /\ Phase(r) \in {"seeking", "reading"} => rpc[r] \in {"search", "found", "pull", "check"}
        /\ Phase(r) = "ahead" => rpc[r] \in {"search", "failed"}
    BY DEF Phase, Ahead, RInv, LInv, RangeInv
  <2>5. [q \in Reader |-> Phase(q)]' = [q \in Reader |-> Phase(q)]
    BY <1>12
  <2>6. due' = due
    BY <1>1
  <2> QED
    BY <1>6, <2>1, <2>2, <2>3, <2>4, <2>5, <2>6 DEF Promise!Append
<1> QED
  BY <1>14, <1>15

-----------------------------------------------------------------------------
(* Steps of the reader *)

\* The reader leaves the file and the writer alone.
LEMMA ReaderFrame ==
  ASSUME NEW w, NEW r, Writer = {w}, Reader = {r}, RInv(w, r), Seek(r) \/ Replay(r)
  PROVE  /\ UNCHANGED <<file, pos, maxRecords>> /\ Size' = Size /\ Slots' = Slots
         /\ IInv(w)' /\ LInv(r)' /\ Plain' /\ SizeInv(w)'
         /\ Logged' = Logged /\ Logged = Newest(w) /\ RingFacts(w)
         /\ maxRecords = FirstSize
<1>1. UNCHANGED <<fileVars, maxRecords, writerVars, restartVars>>
  BY DEF Seek, Replay, SearchGreater, SearchLess, SeekFound, SeekFailed, Close, Read, CheckExhaust
<1>2. UNCHANGED <<file, storedPos, storedId, maxRecords, pos, lastId, record, wpc, own, restarts, crashed, shrunk>>
  BY <1>1 DEF fileVars, writerVars, restartVars
<1>3. IInv(w)' /\ LInv(r)'
  BY <1>2, Frame, ReaderLInv DEF RInv, core, fileVars
<1>4. Size' = Size /\ Slots' = Slots /\ Newest(w)' = Newest(w)
  BY <1>2 DEF Size, Slots, Newest
<1>5. Plain' /\ SizeInv(w)'
  BY <1>2, <1>4 DEF RInv, Plain, SizeInv
<1>6. maxRecords = FirstSize
  BY DEF RInv, Plain
<1>7. Logged' = Newest(w)' /\ Logged = Newest(w) /\ RingFacts(w)
  BY <1>3, <1>5, LoggedKnown DEF RInv
<1> QED
  BY <1>2, <1>3, <1>4, <1>5, <1>6, <1>7

\* What the step of the only reader is in EventLog.
LEMMA PhaseUpdate ==
  ASSUME NEW r, Reader = {r}, NEW v, Phase(r)' = v
  PROVE  [q \in Reader |-> Phase(q)]' = [[q \in Reader |-> Phase(q)] EXCEPT ![r] = v]
OBVIOUS

\* The range a reader seeks in: to the newest record from the oldest, or the one after it.
LEMMA SeekSlot ==
  ASSUME NEW w, RingFacts(w), Size # 0, NEW s, s = IF pos + 1 >= Size THEN 0 ELSE pos
  PROVE  /\ Span(s, pos) /\ Slot(Before(pos)) = Newest(w)
         /\ \/ Slot(s) = Newest(w) + 1 - Size
            \/ Slot(s) = Newest(w) + 2 - Size /\ Size = FirstSize /\ Slot(s) <= Newest(w)
<1>1. /\ FirstSize \in Nat \ {0} /\ Size \in 1 .. FirstSize /\ Newest(w) \in Nat
      /\ pos \in 0 .. FirstSize - 1 /\ pos <= Size
      /\ Size < FirstSize => pos = Size
  BY DEF RingFacts
<1>2. s \in Slots /\ Before(pos) \in Slots
  BY <1>1 DEF Slots, Before
<1>3. /\ Slot(s) \in Nat /\ Slot(s) + pos + Size = Newest(w) + 1 + Age(s)
      /\ Slot(Before(pos)) \in Nat
      /\ Slot(Before(pos)) + pos + Size = Newest(w) + 1 + Age(Before(pos))
  BY <1>2 DEF RingFacts
<1>4. Age(Before(pos)) = pos + Size - 1
  BY <1>1 DEF Age, Before
<1>5. Age(s) = pos \/ (Age(s) = pos + 1 /\ Size = FirstSize /\ Size > 1)
  BY <1>1 DEF Age
<1>6. pos \in 0 .. Size /\ (pos = 0 => Size = FirstSize)
  BY <1>1
<1> QED
  BY <1>1, <1>2, <1>3, <1>4, <1>5, <1>6 DEF Span

LEMMA SeekStep ==
  ASSUME NEW w, NEW r, Writer = {w}, Reader = {r}, RInv(w, r), Seek(r)
  PROVE  RInv(w, r)' /\ \E id \in From : Promise!Seek(r, id)
<1>1. PICK id \in From : from' = [from EXCEPT ![r] = id]
  BY DEF Seek
<1>2. /\ UNCHANGED <<file, pos, maxRecords>> /\ Size' = Size /\ Slots' = Slots
      /\ IInv(w)' /\ LInv(r)' /\ Plain' /\ SizeInv(w)'
      /\ Logged' = Logged /\ Logged = Newest(w) /\ RingFacts(w)
  BY ReaderFrame
<1> DEFINE s == IF pos + 1 >= Size THEN 0 ELSE pos
<1>3. /\ range' = [range EXCEPT ![r] = [start |-> s, end |-> pos]]
      /\ search' = [search EXCEPT ![r] = [start |-> s, end |-> pos, greater |-> -1]]
      /\ rpc' = [rpc EXCEPT ![r] = IF Size = 0 THEN "failed" ELSE "search"]
      /\ at' = [at EXCEPT ![r] = IF Size = 0 THEN 0 ELSE Middle(s, pos)]
      /\ due' = [due EXCEPT ![r] = Higher(from'[r], IF Size = 0 THEN 1 ELSE Slot(s))]
      /\ got' = got /\ rpc[r] = "new"
  BY DEF Seek
<1>4. id \in Nat /\ from'[r] = id /\ EventInv(r)
  BY <1>1, BoundAssumption DEF RInv, EventInv
<1>5. /\ range'[r].start = s /\ range'[r].end = pos
      /\ search'[r].start = s /\ search'[r].end = pos /\ search'[r].greater = -1
      /\ rpc'[r] = IF Size = 0 THEN "failed" ELSE "search"
      /\ at'[r] = IF Size = 0 THEN 0 ELSE Middle(s, pos)
  BY <1>3 DEF RInv, LInv, RangeInv
<1>6. Phase(r) = "new"
  BY <1>3, PhaseKnown DEF PhaseFacts
<1>7. CASE Size = 0
  <2>1. pos = 0 /\ Newest(w) = 0 /\ FirstSize \in Nat \ {0}
    BY <1>2, <1>7 DEF RingFacts
  <2>2. due' = [due EXCEPT ![r] = IF id >= 1 THEN id ELSE 1]
    BY <1>3, <1>4, <1>7 DEF Higher
  <2>3. due'[r] > Logged /\ EventInv(r)'
    BY <1>1, <1>2, <1>3, <1>4, <2>1, <2>2 DEF EventInv
  <2>4. LockInv(r)' /\ SearchInv(r)' /\ DueInv(r)'
    BY <1>2, <1>5, <1>7, <2>1 DEF LockInv, SearchInv, DueInv
  <2>5. Phase(r)' = "ahead"
    BY <1>5, <1>7, PhaseKnownNext DEF PhaseFacts
  <2>6. Promise!Oldest = 1
    BY <1>2, <2>1 DEF Promise!Oldest
  <2>7. due'[r] \in Nat /\ Logged \in Nat
    BY <1>2, <2>1, <2>3 DEF EventInv
  <2>8. [q \in Reader |-> Phase(q)]' = [[q \in Reader |-> Phase(q)] EXCEPT ![r] = "ahead"]
    BY <2>5, PhaseUpdate
  <2>9. Promise!Seek(r, id)
    <3>1. (IF due'[r] <= Logged THEN "seeking" ELSE "ahead") = "ahead"
      BY <2>3, <2>7
    <3> QED
      BY <1>2, <1>6, <2>2, <2>6, <2>8, <3>1 DEF Promise!Seek
  <2> QED
    BY <1>2, <2>3, <2>4, <2>9 DEF RInv
<1>8. CASE Size # 0
  <2> HIDE DEF s
  <2>1. /\ Span(s, pos) /\ Slot(Before(pos)) = Newest(w)
        /\ \/ Slot(s) = Newest(w) + 1 - Size
           \/ Slot(s) = Newest(w) + 2 - Size /\ Size = FirstSize /\ Slot(s) <= Newest(w)
    BY <1>2, <1>8, SeekSlot DEF s
  <2>2. /\ Middle(s, pos) \in Slots
        /\ Slot(s) <= Slot(Middle(s, pos)) /\ Slot(Middle(s, pos)) <= Slot(Before(pos))
        /\ Middle(s, pos) = pos => FirstSize = 1
    BY <1>2, <2>1, MiddleSlot
  <2>3. Slot(s) \in Nat /\ Newest(w) \in Nat /\ s \in Slots
    BY <1>2, <2>1 DEF Span, RingFacts
  <2>4. due' = [due EXCEPT ![r] = IF id >= Slot(s) THEN id ELSE Slot(s)]
    BY <1>3, <1>4, <1>8 DEF Higher
  <2>5. EventInv(r)' /\ due'[r] = IF id >= Slot(s) THEN id ELSE Slot(s)
    BY <1>1, <1>3, <1>4, <2>3, <2>4 DEF EventInv
  <2>6. LockInv(r)' /\ SearchInv(r)' /\ DueInv(r)'
    <3>1. /\ rpc'[r] = "search" /\ at'[r] = Middle(s, pos) /\ from'[r] = id
          /\ range'[r].start = s /\ range'[r].end = pos
          /\ search'[r].start = s /\ search'[r].end = pos /\ search'[r].greater = -1
      BY <1>4, <1>5, <1>8 DEF s
    <3>2. Slot(Before(range[r].end))' = Slot(Before(pos)) /\ Slot(Before(search[r].end))' = Slot(Before(pos))
      BY <1>2, <3>1 DEF Slot, Before
    <3>3. Slot(range[r].start)' = Slot(s) /\ Slot(at[r])' = Slot(Middle(s, pos))
      BY <1>2, <3>1 DEF Slot
    <3>4. Slot(Before(pos)) \in Nat
      BY <2>1, <2>3
    <3> HIDE DEF Slot, Before, Middle
    <3>5. LockInv(r)'
      BY <1>2, <2>1, <3>1, <3>2, <3>3 DEF LockInv, Span
    <3>6. SearchInv(r)'
      BY <1>2, <2>1, <2>2, <3>1, <3>2, <3>3, <3>4 DEF SearchInv, Span
    <3>7. DueInv(r)'
      BY <1>4, <2>3, <2>5, <3>1, <3>3 DEF DueInv
    <3> QED
      BY <3>5, <3>6, <3>7
  <2>7. Phase(r)' = IF due'[r] <= Logged THEN "seeking" ELSE "ahead"
    <3>1. /\ rpc'[r] = "search" /\ from'[r] = id
          /\ search'[r].end = pos /\ search'[r].greater = -1
      BY <1>4, <1>5, <1>8
    <3>2. Slot(Before(search[r].end))' = Newest(w)
      BY <1>2, <2>1, <3>1 DEF Slot, Before
    <3>3. Phase(r)' = IF Newest(w) < id THEN "ahead" ELSE "seeking"
      BY <3>1, <3>2, PhaseKnownNext DEF PhaseFacts
    <3>4. due'[r] <= Newest(w) <=> ~(Newest(w) < id)
      BY <1>2, <1>4, <1>8, <2>1, <2>3, <2>5 DEF RingFacts
    <3> QED
      BY <1>2, <3>3, <3>4
  <2>8. Promise!Oldest = Newest(w) + 1 - Size
    BY <1>2, <1>8 DEF Promise!Oldest, RingFacts
  <2>9. [q \in Reader |-> Phase(q)]' =
          [[q \in Reader |-> Phase(q)] EXCEPT ![r] = IF due'[r] <= Logged THEN "seeking" ELSE "ahead"]
    BY <2>7
  <2>10. Promise!Seek(r, id)
    <3>1. Slot(s) \in {Promise!Oldest} \cup ({Promise!Oldest + 1} \cap 1 .. Logged)
      BY <1>2, <1>8, <2>1, <2>3, <2>8 DEF RingFacts
    <3> QED
      BY <1>2, <1>6, <2>4, <2>9, <3>1 DEF Promise!Seek
  <2> QED
    BY <1>2, <2>5, <2>6, <2>10 DEF RInv
<1> QED
  BY <1>7, <1>8

\* Different slots hold different records.
LEMMA DistinctSlots ==
  ASSUME NEW w, RingFacts(w), NEW p \in Slots, NEW q \in Slots, p # q
  PROVE  Slot(p) # Slot(q)
<1>1. p \in 0 .. Size - 1 /\ q \in 0 .. Size - 1 /\ pos \in Nat /\ Size \in Nat
  BY DEF RingFacts, Slots
<1>2. Age(p) # Age(q) /\ Age(p) \in Nat /\ Age(q) \in Nat
  BY <1>1 DEF Age
<1>3. /\ Slot(p) \in Nat /\ Slot(p) + pos + Size = Newest(w) + 1 + Age(p)
      /\ Slot(q) \in Nat /\ Slot(q) + pos + Size = Newest(w) + 1 + Age(q)
      /\ Newest(w) \in Nat
  BY DEF RingFacts
<1> QED
  BY <1>1, <1>2, <1>3

\* What is known while a reader searches.
Searching(r) ==
  /\ Span(range[r].start, range[r].end) /\ Before(range[r].end) \in Slots
  /\ search[r].start = range[r].start /\ search[r].end \in 0 .. Size /\ Size > 0
  /\ at[r] \in Slots /\ range[r].start \in Slots
  /\ search[r].greater \in Int
  /\ \A p \in Slots : Slot(p) \in Nat
  /\ from[r] \in Nat /\ due[r] \in Nat
  /\ Slot(range[r].start) <= Slot(at[r]) /\ Slot(at[r]) <= Slot(Before(range[r].end))
  /\ Slot(range[r].start) <= due[r]
  /\ due[r] = from[r] \/ (from[r] < due[r] /\ due[r] = Slot(range[r].start))
  /\ search[r].greater < 0 =>
       /\ Span(at[r], search[r].end) /\ Before(search[r].end) \in Slots
       /\ at[r] = search[r].end => FirstSize = 1
       /\ Slot(Before(search[r].end)) <= Slot(Before(range[r].end))
  /\ search[r].greater >= 0 =>
       /\ search[r].greater = search[r].end /\ search[r].end \in Slots
       /\ from[r] <= Slot(search[r].end) /\ Slot(at[r]) < Slot(search[r].end)
       /\ Slot(search[r].end) <= Slot(Before(range[r].end))
  /\ ReadAt(r, at[r]) = Slot(at[r])

LEMMA SearchKnown ==
  ASSUME NEW w, NEW r, Writer = {w}, Reader = {r}, RInv(w, r), rpc[r] = "search"
  PROVE  RingFacts(w) /\ Searching(r)
<1>1. RingFacts(w)
  BY LoggedKnown DEF RInv
<1>2. Span(range[r].start, range[r].end)
  BY DEF RInv, LockInv, Span
<1>3. /\ Before(range[r].end) \in Slots /\ range[r].start \in Slots /\ Size \in Nat \ {0}
      /\ \A p \in Slots : Slot(p) \in Nat
  BY <1>1, <1>2, SpanAges DEF Span, RingFacts
<1>4. SearchInv(r) /\ DueInv(r) /\ EventInv(r)
  BY DEF RInv
<1>5. from[r] \in Nat /\ due[r] \in Nat /\ search[r].greater \in Int /\ Size > 0
  BY <1>3 DEF EventInv, RInv, LInv, RangeInv
<1>6. /\ search[r].start = range[r].start /\ search[r].end \in 0 .. Size
      /\ at[r] \in Slots /\ Slot(range[r].start) <= Slot(at[r])
      /\ search[r].greater < 0 =>
           /\ search[r].end = 0 => Size = FirstSize
           /\ at[r] = search[r].end => FirstSize = 1
           /\ Slot(at[r]) <= Slot(Before(search[r].end))
           /\ Slot(Before(search[r].end)) <= Slot(Before(range[r].end))
      /\ search[r].greater >= 0 =>
           /\ search[r].greater = search[r].end /\ search[r].end \in Slots
           /\ from[r] <= Slot(search[r].end) /\ Slot(at[r]) < Slot(search[r].end)
           /\ Slot(search[r].end) <= Slot(Before(range[r].end))
  BY <1>4 DEF SearchInv
<1>7. search[r].greater < 0 => Span(at[r], search[r].end) /\ Before(search[r].end) \in Slots
  BY <1>1, <1>6, SpanAges DEF Span
<1>8. Slot(at[r]) <= Slot(Before(range[r].end))
  <2>1. /\ Slot(at[r]) \in Nat /\ Slot(Before(range[r].end)) \in Nat
        /\ search[r].greater < 0 => Slot(Before(search[r].end)) \in Nat
        /\ search[r].greater >= 0 => Slot(search[r].end) \in Nat
    BY <1>3, <1>6, <1>7
  <2> QED
    BY <1>5, <1>6, <2>1
<1>9. /\ Slot(range[r].start) <= due[r]
      /\ due[r] = from[r] \/ (from[r] < due[r] /\ due[r] = Slot(range[r].start))
  BY <1>4 DEF DueInv
<1>10. ReadAt(r, at[r]) = Slot(at[r])
  BY <1>3, <1>6 DEF ReadAt, Slots
<1> QED
  BY <1>1, <1>2, <1>3, <1>5, <1>6, <1>7, <1>8, <1>9, <1>10 DEF Searching

\* What is from a record on reaches to the newest one.
LEMMA UpToNow ==
  ASSUME NEW w, RingFacts(w), NEW p \in Slots
  PROVE  Span(p, pos) /\ Slot(Before(pos)) = Newest(w) /\ Slot(p) <= Newest(w)
<1>1. Size # 0
  BY DEF Slots, RingFacts
<1> DEFINE s == IF pos + 1 >= Size THEN 0 ELSE pos
<1>2. Span(s, pos) /\ Slot(Before(pos)) = Newest(w)
  BY <1>1, SeekSlot
<1>3. Slot(p) <= Newest(w)
  BY ByAge
<1> QED
  BY <1>2, <1>3 DEF Span

\* The reader that relocks from a record on has locked the records to the newest one.
LEMMA Relocked ==
  ASSUME NEW w, NEW r, RingFacts(w), LInv(r), UNCHANGED <<file, pos>>,
         NEW p \in Slots, Relock(r, p)
  PROVE  /\ LockInv(r)' /\ range'[r].start = p /\ range'[r].end = pos
         /\ Slot(range[r].start)' = Slot(p) /\ Slot(Before(range[r].end))' = Newest(w)
<1>1. range'[r].start = p /\ range'[r].end = pos /\ Size' = Size /\ Slots' = Slots
  BY DEF Relock, LInv, RangeInv, Size, Slots
<1>2. Slot(range[r].start)' = Slot(p)
  BY <1>1 DEF Slot
<1>3. Slot(Before(range[r].end))' = Slot(Before(pos))
  BY <1>1 DEF Slot, Before
<1>4. Span(p, pos) /\ Slot(Before(pos)) = Newest(w)
  BY UpToNow
<1> HIDE DEF Slot, Before
<1> QED
  BY <1>1, <1>2, <1>3, <1>4 DEF LockInv, Span

\* A record that is not older than wanted: the search goes on before it, or is over.
LEMMA SearchGreaterStep ==
  ASSUME NEW w, NEW r, Writer = {w}, Reader = {r}, RInv(w, r), SearchGreater(r)
  PROVE  RInv(w, r)' /\ UNCHANGED Promise!vars
<1>1. /\ UNCHANGED <<file, pos, maxRecords>> /\ Size' = Size /\ Slots' = Slots
      /\ IInv(w)' /\ LInv(r)' /\ Plain' /\ SizeInv(w)' /\ Logged' = Logged
  BY ReaderFrame DEF Replay
<1>2. RingFacts(w) /\ Searching(r) /\ rpc[r] = "search"
  BY SearchKnown DEF SearchGreater
<1>3. /\ from[r] <= Slot(at[r]) /\ got' = [got EXCEPT ![r] = Slot(at[r])]
      /\ search' = [search EXCEPT ![r] = [@ EXCEPT !.end = at[r], !.greater = at[r]]]
      /\ UNCHANGED <<locks, range, from, due>>
      /\ IF at[r] = search[r].start
           THEN rpc' = [rpc EXCEPT ![r] = "found"] /\ at' = at
           ELSE at' = [at EXCEPT ![r] = Middle(search[r].start, at[r])] /\ rpc' = rpc
  BY <1>2 DEF SearchGreater, Searching
<1>4. /\ search'[r].start = range[r].start /\ search'[r].end = at[r] /\ search'[r].greater = at[r]
      /\ rpc'[r] = IF at[r] = range[r].start THEN "found" ELSE "search"
      /\ at'[r] = IF at[r] = range[r].start THEN at[r] ELSE Middle(range[r].start, at[r])
  BY <1>2, <1>3 DEF RInv, LInv, RangeInv, Searching
<1>5. /\ Slot(at[r]) \in Nat /\ Slot(range[r].start) \in Nat /\ Slot(Before(range[r].end)) \in Nat
      /\ at[r] \in Slots /\ at[r] \in Nat /\ from[r] \in Nat /\ due[r] \in Nat
  BY <1>2 DEF Searching, RingFacts, Slots
<1>6. EventInv(r)'
  BY <1>3, <1>5 DEF RInv, EventInv
<1>7. /\ Slot(range[r].start)' = Slot(range[r].start) /\ Before(range[r].end)' = Before(range[r].end)
      /\ Slot(Before(range[r].end))' = Slot(Before(range[r].end))
      /\ Slot(search[r].end)' = Slot(at[r]) /\ Slot(search[r].greater)' = Slot(at[r])
  BY <1>1, <1>3, <1>4 DEF Slot, Before
<1>8. LockInv(r)'
  BY <1>1, <1>2, <1>3, <1>7 DEF LockInv, Searching, Span
<1>9. Phase(r) = "seeking"
  <2>1. ~(search[r].greater < 0 /\ Slot(Before(search[r].end)) < from[r])
    BY <1>2, <1>3, <1>5 DEF Searching, Span
  <2> QED
    BY <1>2, <2>1, PhaseKnown DEF PhaseFacts
<1>10. Phase(r)' = "seeking"
  BY <1>4, <1>5, PhaseKnownNext DEF PhaseFacts
<1>11. CASE at[r] = range[r].start
  <2>1. rpc'[r] = "found" /\ SearchInv(r)'
    BY <1>4, <1>11 DEF SearchInv
  <2>2. Slot(at[r]) = due[r] /\ due[r] <= Slot(Before(range[r].end))
    BY <1>2, <1>3, <1>5, <1>11 DEF Searching
  <2>3. DueInv(r)'
    BY <1>1, <1>3, <1>4, <1>5, <1>7, <2>1, <2>2, <1>11 DEF DueInv
  <2> QED
    BY <1>1, <1>3, <1>6, <1>8, <1>9, <1>10, <2>1, <2>3, Stutter DEF RInv
<1>12. CASE at[r] # range[r].start
  <2>1. Slot(range[r].start) < Slot(at[r]) /\ range[r].start \in Slots
    BY <1>2, <1>5, <1>12, DistinctSlots DEF Searching
  <2>2. Span(range[r].start, at[r]) /\ range[r].start # at[r] /\ Slot(at[r]) = Slot(Before(at[r])) + 1
    BY <1>2, <1>5, <2>1, BeforeSlot
  <2> DEFINE m == Middle(range[r].start, at[r])
  <2>3. /\ m \in Slots /\ Slot(range[r].start) <= Slot(m) /\ Slot(m) <= Slot(Before(at[r]))
        /\ Slot(m) \in Nat /\ Slot(Before(at[r])) \in Nat
    <3>1. /\ m \in Slots /\ Slot(range[r].start) <= Slot(m) /\ Slot(m) <= Slot(Before(at[r]))
      BY <1>2, <2>2, MiddleSlot
    <3>2. Before(at[r]) \in Slots
      BY <1>2, <2>2, SpanAges
    <3> HIDE DEF m
    <3> QED
      BY <1>2, <3>1, <3>2 DEF RingFacts
  <2> HIDE DEF m
  <2>4. rpc'[r] = "search" /\ at'[r] = m /\ Slot(at[r])' = Slot(m)
    BY <1>1, <1>4, <1>12 DEF m, Slot
  <2>5. SearchInv(r)'
    <3>1. /\ at[r] \in 0 .. Size /\ Slot(m) < Slot(at[r])
      BY <1>2, <1>5, <2>2, <2>3 DEF RingFacts, Slots
    <3> HIDE DEF Slot, Before
    <3> QED
      BY <1>1, <1>2, <1>3, <1>4, <1>5, <1>7, <2>3, <2>4, <3>1 DEF SearchInv, Searching
  <2>6. DueInv(r)'
    BY <1>2, <1>3, <1>4, <1>7, <2>4 DEF DueInv, Searching
  <2> QED
    BY <1>1, <1>3, <1>6, <1>8, <1>9, <1>10, <2>5, <2>6, Stutter DEF RInv
<1> QED
  BY <1>11, <1>12

\* An older record: the search goes on after it, or is over.
LEMMA SearchLessStep ==
  ASSUME NEW w, NEW r, Writer = {w}, Reader = {r}, RInv(w, r), SearchLess(r)
  PROVE  RInv(w, r)' /\ UNCHANGED Promise!vars
<1>1. /\ UNCHANGED <<file, pos, maxRecords>> /\ Size' = Size /\ Slots' = Slots
      /\ IInv(w)' /\ LInv(r)' /\ Plain' /\ SizeInv(w)' /\ Logged' = Logged
  BY ReaderFrame DEF Replay
<1>2. RingFacts(w) /\ Searching(r) /\ rpc[r] = "search"
  BY SearchKnown DEF SearchLess
<1> DEFINE e == search[r].end
           n == NextRecord(at[r], e)
<1>3. /\ Slot(at[r]) < from[r] /\ got' = [got EXCEPT ![r] = Slot(at[r])]
      /\ UNCHANGED <<from, due>>
      /\ IF n < 0
           THEN /\ rpc' = [rpc EXCEPT ![r] = IF search[r].greater < 0 THEN "failed" ELSE "found"]
                /\ UNCHANGED <<locks, range, search, at>>
           ELSE /\ Relock(r, n)
                /\ search' = [search EXCEPT ![r].start = n]
                /\ at' = [at EXCEPT ![r] = Middle(n, e)]
                /\ rpc' = rpc
  BY <1>2 DEF SearchLess, Searching
<1>4. /\ Slot(at[r]) \in Nat /\ Slot(range[r].start) \in Nat /\ Slot(Before(range[r].end)) \in Nat
      /\ at[r] \in Slots /\ from[r] \in Nat /\ due[r] \in Nat /\ search[r].greater \in Int
  BY <1>2 DEF Searching
<1>5. due[r] = from[r]
  BY <1>2, <1>3, <1>4 DEF Searching
<1>6. EventInv(r)'
  BY <1>3, <1>4 DEF RInv, EventInv
<1>7. /\ Span(at[r], e) /\ (at[r] = e => FirstSize = 1) /\ Before(e) \in Slots
      /\ search[r].greater >= 0 => e \in Slots /\ Slot(e) = Slot(Before(e)) + 1
  <2>1. CASE search[r].greater < 0
    BY <1>2, <1>4, <2>1 DEF Searching
  <2>2. CASE search[r].greater >= 0
    <3>1. e \in Slots /\ Slot(at[r]) < Slot(e)
      BY <1>2, <2>2 DEF Searching
    <3>2. Span(at[r], e) /\ at[r] # e /\ Slot(e) = Slot(Before(e)) + 1
      BY <1>2, <1>4, <3>1, BeforeSlot
    <3> QED
      BY <1>2, <3>1, <3>2, SpanAges
  <2> QED
    BY <1>4, <2>1, <2>2
<1>8. Slot(Before(e)) \in Nat /\ (search[r].greater >= 0 => Slot(e) \in Nat)
  BY <1>2, <1>7 DEF Searching
<1>9. \/ n = -1 /\ at[r] = Before(e)
      \/ n >= 0 /\ Span(n, e) /\ Slot(n) = Slot(at[r]) + 1
  BY <1>2, <1>7, NextSlot
<1>10. CASE n = -1 /\ at[r] = Before(e)
  <2>1. /\ UNCHANGED <<locks, range, search, at>>
        /\ rpc'[r] = IF search[r].greater < 0 THEN "failed" ELSE "found"
    BY <1>3, <1>10 DEF RInv, LInv, RangeInv
  <2>2. /\ Slot(range[r].start)' = Slot(range[r].start) /\ Before(range[r].end)' = Before(range[r].end)
        /\ Slot(Before(range[r].end))' = Slot(Before(range[r].end))
        /\ Slot(search[r].greater)' = Slot(search[r].greater)
    BY <1>1, <2>1 DEF Slot, Before
  <2>3. LockInv(r)' /\ SearchInv(r)'
    BY <1>1, <1>2, <2>1, <2>2 DEF LockInv, SearchInv, Searching, Span
  <2>4. DueInv(r)' /\ Phase(r)' = Phase(r)
    <3>1. CASE search[r].greater < 0
      <4>1. Phase(r) = "ahead" /\ rpc'[r] = "failed"
        BY <1>2, <1>3, <1>10, <2>1, <3>1, PhaseKnown DEF PhaseFacts
      <4>2. DueInv(r)'
        BY <1>1, <1>2, <4>1 DEF DueInv, Searching
      <4> QED
        BY <4>1, <4>2, PhaseKnownNext DEF PhaseFacts
    <3>2. CASE search[r].greater >= 0
      <4>1. /\ search[r].greater = e /\ from[r] <= Slot(e) /\ Slot(e) <= Slot(Before(range[r].end))
            /\ e \in Slots /\ rpc'[r] = "found" /\ Slot(range[r].start) <= due[r]
        BY <1>2, <2>1, <3>2 DEF Searching
      <4>2. Slot(e) = due[r]
        BY <1>3, <1>4, <1>5, <1>7, <1>8, <1>10, <3>2, <4>1
      <4>3. DueInv(r)'
        BY <1>1, <1>3, <2>1, <2>2, <4>1, <4>2 DEF DueInv
      <4>4. Phase(r) = "seeking" /\ Phase(r)' = "seeking"
        BY <1>2, <3>2, <4>1, PhaseKnown, PhaseKnownNext DEF PhaseFacts, Searching
      <4> QED
        BY <4>3, <4>4
    <3> QED
      BY <1>4, <3>1, <3>2
  <2> QED
    BY <1>1, <1>3, <1>6, <2>3, <2>4, Stutter DEF RInv
<1>11. CASE n >= 0 /\ Span(n, e) /\ Slot(n) = Slot(at[r]) + 1
  <2> HIDE DEF n
  <2> DEFINE m == Middle(n, e)
  <2>1. /\ Relock(r, n) /\ rpc' = rpc /\ at'[r] = m
        /\ search'[r].start = n /\ search'[r].end = e /\ search'[r].greater = search[r].greater
    <3>1. ~(n < 0)
      BY <1>2, <1>11 DEF Span, Slots, RingFacts
    <3> QED
      BY <1>3, <3>1 DEF RInv, LInv, RangeInv, m, n
  <2>2. n \in Slots /\ Slot(n) \in Nat
    BY <1>2, <1>11 DEF Span, RingFacts
  <2>3. /\ LockInv(r)' /\ range'[r].start = n /\ range'[r].end = pos
        /\ Slot(range[r].start)' = Slot(n) /\ Slot(Before(range[r].end))' = Newest(w)
    BY <1>1, <1>2, <2>1, <2>2, Relocked DEF RInv
  <2>4. /\ m \in Slots /\ Slot(n) <= Slot(m) /\ Slot(m) <= Slot(Before(e))
        /\ m = e => FirstSize = 1
    BY <1>2, <1>11, MiddleSlot
  <2> HIDE DEF m
  <2>5. /\ Slot(at[r])' = Slot(m) /\ Slot(Before(search[r].end))' = Slot(Before(e))
        /\ Slot(search[r].end)' = Slot(e) /\ Slot(m) \in Nat
    BY <1>1, <1>2, <2>1, <2>4 DEF Slot, Before, RingFacts
  <2>6. Slot(Before(e)) <= Newest(w) /\ (search[r].greater >= 0 => Slot(e) <= Newest(w))
    BY <1>2, <1>7, ByAge
  <2>7. SearchInv(r)'
    <3>1. search[r].greater >= 0 =>
            search[r].greater = e /\ from[r] <= Slot(e) /\ Slot(m) < Slot(e)
      BY <1>2, <1>7, <1>8, <2>4, <2>5 DEF Searching
    <3>2. e \in 0 .. Size /\ (e = 0 => Size = FirstSize)
      BY <1>7 DEF Span
    <3> HIDE DEF Slot, Before
    <3> QED
      BY <1>1, <1>2, <1>3, <1>7, <2>1, <2>3, <2>4, <2>5, <2>6, <3>1, <3>2 DEF SearchInv
  <2>8. DueInv(r)'
    BY <1>2, <1>3, <1>4, <1>5, <1>11, <2>1, <2>3 DEF DueInv
  <2>9. Phase(r)' = Phase(r)
    BY <1>2, <1>3, <2>1, <2>5, PhaseKnown, PhaseKnownNext DEF PhaseFacts
  <2> QED
    BY <1>1, <1>3, <1>6, <2>3, <2>7, <2>8, <2>9, Stutter DEF RInv
<1> QED
  BY <1>9, <1>10, <1>11

\* The record is found: the reader pulls from it on.
LEMMA SeekFoundStep ==
  ASSUME NEW w, NEW r, Writer = {w}, Reader = {r}, RInv(w, r), SeekFound(r)
  PROVE  RInv(w, r)' /\ Promise!Found(r)
<1>1. /\ UNCHANGED <<file, pos, maxRecords>> /\ Size' = Size /\ Slots' = Slots
      /\ IInv(w)' /\ LInv(r)' /\ Plain' /\ SizeInv(w)' /\ Logged' = Logged /\ RingFacts(w)
  BY ReaderFrame DEF Replay
<1>2. /\ rpc[r] = "found" /\ Relock(r, search[r].greater) /\ UNCHANGED <<from, search, got, due>>
      /\ at' = [at EXCEPT ![r] = search[r].greater] /\ rpc' = [rpc EXCEPT ![r] = "pull"]
  BY DEF SeekFound
<1>3. search[r].greater \in Slots /\ Slot(search[r].greater) = due[r]
  BY <1>2 DEF RInv, DueInv
<1>4. /\ LockInv(r)' /\ range'[r].start = search[r].greater
      /\ Slot(range[r].start)' = Slot(search[r].greater)
  BY <1>1, <1>2, <1>3, Relocked DEF RInv
<1>5. rpc'[r] = "pull" /\ at'[r] = search[r].greater
  BY <1>2 DEF RInv, LInv, RangeInv
<1>6. Slot(at[r])' = Slot(search[r].greater)
  BY <1>1, <1>5 DEF Slot
<1>7. SearchInv(r)' /\ DueInv(r)' /\ EventInv(r)'
  BY <1>2, <1>3, <1>4, <1>5, <1>6 DEF SearchInv, DueInv, EventInv, RInv
<1>8. Phase(r) = "seeking" /\ Phase(r)' = "reading"
  BY <1>2, <1>5, PhaseKnown, PhaseKnownNext DEF PhaseFacts
<1>9. Promise!Found(r)
  BY <1>1, <1>2, <1>8, PhaseUpdate DEF Promise!Found
<1> QED
  BY <1>1, <1>4, <1>7, <1>9 DEF RInv

\* No record is found: the reader is exhausted, or has missed what was logged.
LEMMA SeekFailedStep ==
  ASSUME NEW w, NEW r, Writer = {w}, Reader = {r}, RInv(w, r), SeekFailed(r)
  PROVE  RInv(w, r)' /\ (Promise!NotFound(r) \/ Promise!Starve(r))
<1>1. /\ UNCHANGED <<file, pos, maxRecords>> /\ Size' = Size /\ Slots' = Slots
      /\ IInv(w)' /\ LInv(r)' /\ Plain' /\ SizeInv(w)' /\ Logged' = Logged
      /\ Logged = Newest(w) /\ RingFacts(w)
  BY ReaderFrame DEF Replay
<1>2. /\ rpc[r] = "failed" /\ UNCHANGED <<from, at, search, got, due>>
      /\ rpc' = [rpc EXCEPT ![r] = IF range[r].end = pos THEN "exhausted" ELSE "notFound"]
  BY DEF SeekFailed
<1>3. rpc'[r] = IF range[r].end = pos THEN "exhausted" ELSE "notFound"
  BY <1>2 DEF RInv, LInv, RangeInv
<1>4. LockInv(r)' /\ SearchInv(r)' /\ DueInv(r)' /\ EventInv(r)'
  BY <1>2, <1>3 DEF LockInv, SearchInv, DueInv, EventInv, RInv
<1>5. Phase(r) = "ahead" /\ Phase(r)' = IF range[r].end = pos THEN "exhausted" ELSE "starved"
  BY <1>2, <1>3, PhaseKnown, PhaseKnownNext DEF PhaseFacts
<1>6. CASE range[r].end = pos
  <2>1. Phase(r)' = "exhausted"
    BY <1>5, <1>6
  <2>2. Promise!NotFound(r)
    BY <1>1, <1>2, <1>5, <2>1, PhaseUpdate DEF Promise!NotFound
  <2> QED
    BY <1>1, <1>4, <2>2 DEF RInv
<1>7. CASE range[r].end # pos
  <2>1. Phase(r)' = "starved"
    BY <1>5, <1>7
  <2>2. Size # 0
    BY <1>1, <1>2, <1>7 DEF RInv, DueInv, RingFacts
  <2>3. Logged > 0
    BY <1>1, <2>2 DEF RingFacts
  <2>4. Promise!Starve(r)
    BY <1>1, <1>2, <1>5, <2>1, <2>3, PhaseUpdate DEF Promise!Starve
  <2> QED
    BY <1>1, <1>4, <2>4 DEF RInv
<1> QED
  BY <1>6, <1>7

\* The client closes its reader.
LEMMA CloseStep ==
  ASSUME NEW w, NEW r, Writer = {w}, Reader = {r}, RInv(w, r), Close(r)
  PROVE  RInv(w, r)' /\ Promise!Close(r)
<1>1. /\ IInv(w)' /\ LInv(r)' /\ Plain' /\ SizeInv(w)' /\ Logged' = Logged
  BY ReaderFrame DEF Replay
<1>2. /\ rpc[r] \in {"notFound", "pull"} /\ UNCHANGED <<from, at, search, got, due>>
      /\ rpc' = [rpc EXCEPT ![r] = "closed"]
  BY DEF Close
<1>3. rpc'[r] = "closed"
  BY <1>2 DEF RInv, LInv, RangeInv
<1>4. LockInv(r)' /\ SearchInv(r)' /\ DueInv(r)' /\ EventInv(r)'
  BY <1>2, <1>3 DEF LockInv, SearchInv, DueInv, EventInv, RInv
<1>5. Phase(r) \in {"reading", "starved"} /\ Phase(r)' = "closed"
  BY <1>2, <1>3, PhaseKnown, PhaseKnownNext DEF PhaseFacts
<1>6. Promise!Close(r)
  BY <1>1, <1>2, <1>5, PhaseUpdate DEF Promise!Close
<1> QED
  BY <1>1, <1>4, <1>6 DEF RInv

\* The record at the start of the lock is read.
LEMMA ReadStep ==
  ASSUME NEW w, NEW r, Writer = {w}, Reader = {r}, RInv(w, r), Read(r)
  PROVE  RInv(w, r)' /\ UNCHANGED Promise!vars
<1>1. /\ UNCHANGED <<file, pos, maxRecords>> /\ Size' = Size /\ Slots' = Slots
      /\ IInv(w)' /\ LInv(r)' /\ Plain' /\ SizeInv(w)' /\ Logged' = Logged
      /\ RingFacts(w) /\ maxRecords = FirstSize
  BY ReaderFrame DEF Replay
<1>2. /\ rpc[r] = "pull" /\ UNCHANGED <<range, from, search, due>>
      /\ rpc' = [rpc EXCEPT ![r] = "check"]
      /\ got' = [got EXCEPT ![r] = ReadAt(r, at[r])]
      /\ at' = [at EXCEPT ![r] = LET p == IF at[r] < Size THEN at[r] + 1 ELSE at[r]
                                 IN  IF p >= maxRecords THEN 0 ELSE p]
  BY DEF Read
<1>3. at[r] = range[r].start /\ Slot(at[r]) = due[r] /\ at[r] \in Slots /\ LockInv(r) /\ due[r] \in Nat
  BY <1>2 DEF RInv, DueInv, LockInv, EventInv
<1>4. at[r] \in 0 .. Size - 1 /\ Size \in Nat
  BY <1>1, <1>3 DEF Slots, RingFacts
<1>5. /\ rpc'[r] = "check" /\ got'[r] = due[r]
      /\ at'[r] = IF at[r] + 1 >= FirstSize THEN 0 ELSE at[r] + 1
  BY <1>1, <1>2, <1>3, <1>4 DEF RInv, LInv, RangeInv, EventInv, ReadAt
<1>6. /\ Slot(range[r].start)' = Slot(range[r].start) /\ Before(range[r].end)' = Before(range[r].end)
      /\ Slot(Before(range[r].end))' = Slot(Before(range[r].end))
  BY <1>1, <1>2 DEF Slot, Before
<1>7. LockInv(r)'
  BY <1>1, <1>2, <1>3, <1>6 DEF LockInv
<1>8. SearchInv(r)' /\ DueInv(r)'
  BY <1>1, <1>2, <1>3, <1>5, <1>6 DEF SearchInv, DueInv
<1>9. EventInv(r)'
  BY <1>2, <1>3, <1>4 DEF EventInv, RInv, ReadAt
<1>10. Phase(r)' = Phase(r)
  BY <1>2, <1>5, PhaseKnown, PhaseKnownNext DEF PhaseFacts
<1> QED
  BY <1>1, <1>2, <1>7, <1>8, <1>9, <1>10, Stutter DEF RInv

\* After a record comes the next one, unless it is the newest.
LEMMA SlotAfter ==
  ASSUME NEW w, RingFacts(w), NEW p \in Slots, NEW n, n = IF p + 1 >= FirstSize THEN 0 ELSE p + 1
  PROVE  /\ n = pos => Slot(p) = Newest(w)
         /\ n # pos => n \in Slots /\ Slot(n) = Slot(p) + 1 /\ Slot(p) < Newest(w)
<1>1. /\ p \in 0 .. Size - 1 /\ Size \in Nat /\ pos \in Nat /\ pos <= Size /\ pos < FirstSize
      /\ FirstSize \in Nat /\ Size <= FirstSize /\ (Size < FirstSize => pos = Size)
  BY DEF RingFacts, Slots
<1>2. CASE n = pos
  <2>1. p = Before(pos)
    BY <1>1, <1>2 DEF Before
  <2> QED
    BY <1>2, <2>1, UpToNow
<1>3. CASE n # pos
  <2>1. n \in 0 .. Size - 1 /\ Age(n) = Age(p) + 1
    BY <1>1, <1>3 DEF Age
  <2>2. n \in Slots
    BY <2>1 DEF Slots
  <2>3. Slot(n) = Slot(p) + 1 /\ Slot(p) \in Nat /\ Slot(n) \in Nat /\ Slot(n) <= Newest(w) /\ Newest(w) \in Nat
    BY <2>1, <2>2, ByAge DEF RingFacts
  <2> QED
    BY <1>3, <2>2, <2>3
<1> QED
  BY <1>2, <1>3

\* The record is returned; the reader is exhausted exactly with the newest one.
LEMMA CheckExhaustStep ==
  ASSUME NEW w, NEW r, Writer = {w}, Reader = {r}, RInv(w, r), CheckExhaust(r)
  PROVE  RInv(w, r)' /\ Promise!Pull(r)
<1>1. /\ UNCHANGED <<file, pos, maxRecords>> /\ Size' = Size /\ Slots' = Slots
      /\ IInv(w)' /\ LInv(r)' /\ Plain' /\ SizeInv(w)' /\ Logged' = Logged
      /\ Logged = Newest(w) /\ RingFacts(w)
  BY ReaderFrame DEF Replay
<1>2. /\ rpc[r] = "check" /\ UNCHANGED <<from, at, search, got>>
      /\ due' = [due EXCEPT ![r] = got[r] + 1]
      /\ IF at[r] # pos
           THEN Relock(r, at[r]) /\ rpc' = [rpc EXCEPT ![r] = "pull"]
           ELSE rpc' = [rpc EXCEPT ![r] = "exhausted"]
  BY DEF CheckExhaust
<1>3. /\ range[r].start \in Slots /\ Slot(range[r].start) = due[r] /\ got[r] = due[r] /\ due[r] \in Nat
      /\ at[r] = IF range[r].start + 1 >= FirstSize THEN 0 ELSE range[r].start + 1
  BY <1>2 DEF RInv, LockInv, DueInv, EventInv
<1>4. /\ at[r] = pos => due[r] = Newest(w)
      /\ at[r] # pos => at[r] \in Slots /\ Slot(at[r]) = due[r] + 1 /\ due[r] < Newest(w)
  BY <1>1, <1>3, SlotAfter
<1>5. /\ rpc'[r] = IF at[r] # pos THEN "pull" ELSE "exhausted"
      /\ due' = [due EXCEPT ![r] = due[r] + 1] /\ due'[r] = due[r] + 1
      /\ EventInv(r)'
  BY <1>2, <1>3 DEF RInv, LInv, RangeInv, EventInv
<1>6. LockInv(r)' /\ SearchInv(r)' /\ DueInv(r)'
  <2>1. CASE at[r] # pos
    <3>1. /\ LockInv(r)' /\ range'[r].start = at[r] /\ Slot(range[r].start)' = Slot(at[r])
      BY <1>1, <1>2, <1>4, <2>1, Relocked DEF RInv
    <3>2. Slot(at[r])' = Slot(at[r])
      BY <1>1, <1>2 DEF Slot
    <3> QED
      BY <1>2, <1>4, <1>5, <2>1, <3>1, <3>2 DEF SearchInv, DueInv
  <2>2. CASE at[r] = pos
    BY <1>5, <2>2 DEF LockInv, SearchInv, DueInv
  <2> QED
    BY <2>1, <2>2
<1>7. Phase(r) = "reading" /\ Phase(r)' = IF due[r] = Logged THEN "exhausted" ELSE "reading"
  <2>1. due[r] = Logged <=> at[r] = pos
    BY <1>1, <1>3, <1>4 DEF RingFacts
  <2> QED
    BY <1>2, <1>5, <2>1, PhaseKnown, PhaseKnownNext DEF PhaseFacts
<1>8. due[r] <= Logged
  BY <1>1, <1>3, <1>4 DEF RingFacts
<1>9. [q \in Reader |-> Phase(q)]' =
        [[q \in Reader |-> Phase(q)] EXCEPT ![r] = IF due[r] = Logged THEN "exhausted" ELSE "reading"]
  BY <1>7
<1>10. Promise!Pull(r)
  BY <1>1, <1>5, <1>7, <1>8, <1>9 DEF Promise!Pull
<1> QED
  BY <1>1, <1>5, <1>6, <1>10 DEF RInv

-----------------------------------------------------------------------------
(* Every step *)

LEMMA InitRInv ==
  ASSUME NEW w, NEW r, Writer = {w}, Reader = {r}, Init
  PROVE  RInv(w, r) /\ Promise!Init
<1>1. IInv(w) /\ LInv(r) /\ Size = 0
  BY InitIInv, InitLInv DEF Init, Size
<1>2. Plain
  BY BoundAssumption DEF Init, Plain
<1>3. Newest(w) = 0
  BY DEF Init, Newest
<1>4. SizeInv(w)
  BY <1>1, <1>3 DEF SizeInv, Init
<1>5. EventInv(r) /\ LockInv(r) /\ SearchInv(r) /\ DueInv(r)
  BY DEF Init, EventInv, LockInv, SearchInv, DueInv
<1>6. Logged = 0
  BY <1>1, <1>2, <1>3, <1>4, LoggedKnown
<1>7. Phase(r) = "new"
  BY PhaseKnown DEF PhaseFacts, Init
<1>8. [q \in Reader |-> Phase(q)] = [q \in Reader |-> "new"]
  BY <1>7
<1>9. Promise!Init
  BY <1>6, <1>8 DEF Promise!Init, Init
<1> QED
  BY <1>1, <1>2, <1>4, <1>5, <1>9 DEF RInv

LEMMA WriterStep ==
  ASSUME NEW w, NEW r, Writer = {w}, Reader = {r}, RInv(w, r), IInv(w)', LInv(r)', Write(w)
  PROVE  RInv(w, r)' /\ (Promise!Append \/ UNCHANGED Promise!vars)
<1>1. lastId \in Nat /\ lastId <= MaxId /\ wpc[w] # "truncate"
      /\ wpc \in [{w} -> {"idle", "write", "truncate", "storePosition", "storeId"}]
  <2>1. wpc[w] # "truncate"
    BY KnownRing DEF RInv
  <2> QED
    BY <2>1 DEF RInv, Plain, IInv, BaseInv
<1>2. CASE WriteRecord(w)
  BY <1>2, WriteStep
<1>3. CASE Truncate(w)
  BY <1>1, <1>3 DEF Truncate
<1>4. CASE Log(w)
  <2>1. UNCHANGED <<file, pos, maxRecords, readerVars, restartVars>> /\ lastId' <= MaxId
    BY <1>1, <1>4, BoundAssumption DEF Log, fileVars
  <2>2. Newest(w)' = Newest(w)
    BY <1>1, <1>4 DEF Log, Newest
  <2> QED
    BY <2>1, <2>2, QuietStep
<1>5. CASE Wait(w) \/ Resume(w) \/ StorePosition(w) \/ StoreId(w)
  <2>1. UNCHANGED <<file, pos, maxRecords, readerVars, restartVars>> /\ lastId' <= MaxId
    BY <1>1, <1>5 DEF Wait, Resume, StorePosition, StoreId, fileVars
  <2>2. Newest(w)' = Newest(w)
    BY <1>1, <1>5 DEF Wait, Resume, StorePosition, StoreId, Newest
  <2> QED
    BY <2>1, <2>2, QuietStep
<1> QED
  BY <1>2, <1>3, <1>4, <1>5 DEF Write

LEMMA ReaderStep ==
  ASSUME NEW w, NEW r, Writer = {w}, Reader = {r}, RInv(w, r), Seek(r) \/ Replay(r)
  PROVE  RInv(w, r)' /\ (Promise!Next \/ UNCHANGED Promise!vars)
<1>1. CASE Seek(r)
  BY <1>1, SeekStep DEF Promise!Next
<1>2. CASE SearchGreater(r)
  BY <1>2, SearchGreaterStep
<1>3. CASE SearchLess(r)
  BY <1>3, SearchLessStep
<1>4. CASE SeekFound(r)
  BY <1>4, SeekFoundStep DEF Promise!Next
<1>5. CASE SeekFailed(r)
  BY <1>5, SeekFailedStep DEF Promise!Next
<1>6. CASE Close(r)
  BY <1>6, CloseStep DEF Promise!Next
<1>7. CASE Read(r)
  BY <1>7, ReadStep
<1>8. CASE CheckExhaust(r)
  BY <1>8, CheckExhaustStep DEF Promise!Next
<1> QED
  BY <1>1, <1>2, <1>3, <1>4, <1>5, <1>6, <1>7, <1>8 DEF Replay

LEMMA NextRInv ==
  ASSUME NEW w, NEW r, Writer = {w}, Reader = {r}, MaxRestarts = 0, RInv(w, r), [Next]_vars
  PROVE  RInv(w, r)' /\ [Promise!Next]_(Promise!vars)
<1>1. IInv(w)' /\ LInv(r)'
  BY NextIInv, NextLInv DEF RInv
<1>2. CASE Write(w)
  BY <1>1, <1>2, WriterStep DEF Promise!Next
<1>3. CASE Seek(r) \/ Replay(r)
  BY <1>3, ReaderStep
<1>4. CASE Restart
  BY <1>4 DEF Restart, RInv, Plain
<1>5. CASE Done \/ UNCHANGED vars
  <2>1. UNCHANGED <<file, pos, maxRecords, readerVars, restartVars, lastId, wpc>>
    BY <1>5 DEF Done, vars, fileVars, writerVars
  <2>2. Newest(w)' = Newest(w) /\ lastId' <= MaxId
    BY <2>1 DEF Newest, RInv, Plain
  <2> QED
    BY <1>1, <2>1, <2>2, QuietStep
<1> QED
  BY <1>2, <1>3, <1>4, <1>5 DEF Next

\* The ring, the lock and the binary search keep the promise of EventLog: the reader
\* gets every event from the one sought on, in order and once, is exhausted exactly
\* with the last one, and the writer waits rather than overwrite an event it is to get
\* (CyclicLog, CyclicLogLock, CyclicLogReader), for one writer and one reader of a log
\* of any size that is not restarted.
THEOREM LogKeepsItsPromise ==
  ASSUME NEW w, NEW r, Writer = {w}, Reader = {r}, MaxRestarts = 0
  PROVE  Spec => ImplementsEventLog
<1>1. Init => RInv(w, r) /\ Promise!Init
  BY InitRInv
<1>2. RInv(w, r) /\ [Next]_vars => RInv(w, r)' /\ [Promise!Next]_(Promise!vars)
  BY NextRInv
<1> QED
  BY <1>1, <1>2, PTL DEF Spec, ImplementsEventLog, Promise!Spec

-----------------------------------------------------------------------------
(* Types: nothing counts further than the events *)

TypeInv(w, r) ==
  /\ record \in 0 .. MaxId /\ own \in [{w} -> 0 .. MaxId]
  /\ monitor \in {w, Nobody}
  /\ from \in [{r} -> From \cup {0}]
  /\ range \in [{r} -> [start : 0 .. MaxId, end : 0 .. MaxId]]
  /\ at \in [{r} -> 0 .. MaxId]
  /\ search \in [{r} -> [start : 0 .. MaxId, end : 0 .. MaxId, greater : -1 .. MaxId]]
  /\ got \in [{r} -> 0 .. MaxId]

LEMMA Bounded ==
  ASSUME NEW w, NEW r, Writer = {w}, Reader = {r}, RInv(w, r)
  PROVE  /\ RingFacts(w) /\ Size \in 0 .. MaxId /\ pos \in 0 .. MaxId
         /\ \A p \in Slots : p \in 0 .. MaxId /\ Slot(p) \in 0 .. MaxId
<1>1. RingFacts(w) /\ lastId \in Nat /\ lastId <= MaxId /\ MaxId \in Nat
  BY LoggedKnown, BoundAssumption DEF RInv, Plain, IInv, BaseInv
<1>2. Newest(w) <= MaxId /\ Newest(w) \in Nat /\ Size \in Nat /\ Size <= Newest(w) /\ pos \in Nat /\ pos <= Size
  BY <1>1 DEF Newest, RingFacts
<1>3. ASSUME NEW p \in Slots PROVE p \in 0 .. MaxId /\ Slot(p) \in 0 .. MaxId
  <2>1. p \in Nat /\ p < Size /\ Slot(p) \in Nat /\ Slot(p) <= Newest(w)
    BY <1>1, ByAge
  <2> QED
    BY <1>1, <1>2, <2>1
<1> QED
  BY <1>1, <1>2, <1>3

LEMMA WriterTypeInv ==
  ASSUME NEW w, NEW r, Writer = {w}, Reader = {r}, RInv(w, r), TypeInv(w, r), Write(w)
  PROVE  TypeInv(w, r)'
<1>1. UNCHANGED <<from, range, at, search, got>> /\ monitor' \in {w, Nobody}
  BY DEF Write, Log, Wait, Resume, WriteRecord, Truncate, StorePosition, StoreId, readerVars, TypeInv
<1>2. lastId \in Nat /\ MaxId \in Nat
  BY BoundAssumption DEF RInv, IInv, BaseInv
<1>3. record' \in 0 .. MaxId /\ own' \in [{w} -> 0 .. MaxId]
  BY <1>2 DEF Write, Log, Wait, Resume, WriteRecord, Truncate, StorePosition, StoreId, TypeInv
<1> QED
  BY <1>1, <1>3 DEF TypeInv

LEMMA ReaderTypeInv ==
  ASSUME NEW w, NEW r, Writer = {w}, Reader = {r}, RInv(w, r), TypeInv(w, r), Seek(r) \/ Replay(r)
  PROVE  TypeInv(w, r)'
<1>1. UNCHANGED <<record, own, monitor>>
  BY DEF Seek, Replay, SearchGreater, SearchLess, SeekFound, SeekFailed, Close, Read, CheckExhaust, writerVars
<1>2. /\ RingFacts(w) /\ Size \in 0 .. MaxId /\ pos \in 0 .. MaxId /\ MaxId \in Nat
      /\ \A p \in Slots : p \in 0 .. MaxId /\ Slot(p) \in 0 .. MaxId
  BY Bounded, BoundAssumption
<1> USE DEF TypeInv
<1>3. CASE Seek(r)
  <2> DEFINE s == IF pos + 1 >= Size THEN 0 ELSE pos
  <2>1. Size # 0 => Middle(s, pos) \in 0 .. MaxId
    BY <1>2, SeekSlot, MiddleSlot
  <2>2. s \in 0 .. MaxId
    BY <1>2
  <2>3. /\ range' = [range EXCEPT ![r] = [start |-> s, end |-> pos]]
        /\ search' = [search EXCEPT ![r] = [start |-> s, end |-> pos, greater |-> -1]]
        /\ at' = [at EXCEPT ![r] = IF Size = 0 THEN 0 ELSE Middle(s, pos)]
        /\ \E id \in From : from' = [from EXCEPT ![r] = id]
        /\ got' = got
    BY <1>3 DEF Seek
  <2> HIDE DEF s
  <2> QED
    BY <1>1, <1>2, <2>1, <2>2, <2>3
<1>4. CASE SearchGreater(r)
  <2>1. at'[r] \in Slots /\ Slot(at[r]) \in 0 .. MaxId /\ ReadAt(r, at[r]) = Slot(at[r])
    <3>1. RInv(w, r)' /\ Slots' = Slots
      BY <1>4, SearchGreaterStep, ReaderFrame DEF Replay
    <3>2. Searching(r)
      BY <1>4, SearchKnown DEF SearchGreater
    <3>3. at'[r] \in Slots
      BY <1>4, <3>1, <3>2 DEF RInv, SearchInv, SearchGreater, Searching, LInv, RangeInv
    <3> QED
      BY <1>2, <3>2, <3>3 DEF Searching
  <2>2. UNCHANGED <<from, range>> /\ got' = [got EXCEPT ![r] = Slot(at[r])]
    BY <1>4, <2>1 DEF SearchGreater
  <2>3. search' \in [{r} -> [start : 0 .. MaxId, end : 0 .. MaxId, greater : -1 .. MaxId]]
    <3>1. search[r] \in [start : 0 .. MaxId, end : 0 .. MaxId, greater : -1 .. MaxId] /\ at[r] \in 0 .. MaxId
      OBVIOUS
    <3>2. search'[r] = [search[r] EXCEPT !.end = at[r], !.greater = at[r]]
      BY <1>4 DEF SearchGreater
    <3>3. search'[r] = [start |-> search[r].start, end |-> at[r], greater |-> at[r]]
      BY <3>1, <3>2
    <3>4. search'[r] \in [start : 0 .. MaxId, end : 0 .. MaxId, greater : -1 .. MaxId]
      BY <1>2, <3>1, <3>3
    <3> QED
      BY <1>4, <3>4 DEF SearchGreater
  <2>4. at' \in [{r} -> 0 .. MaxId]
    BY <1>2, <1>4, <2>1 DEF SearchGreater
  <2> QED
    BY <1>1, <2>1, <2>2, <2>3, <2>4
<1>5. CASE SearchLess(r)
  <2>1. RInv(w, r)' /\ Slots' = Slots /\ Searching(r) /\ rpc[r] = "search"
    BY <1>5, SearchLessStep, ReaderFrame, SearchKnown DEF Replay, SearchLess
  <2>2. UNCHANGED from /\ got' \in [{r} -> 0 .. MaxId]
    BY <1>2, <1>5, <2>1 DEF SearchLess, Searching
  <2> DEFINE n == NextRecord(at[r], search[r].end)
  <2>3. CASE n < 0
    BY <1>1, <1>5, <2>2, <2>3 DEF SearchLess
  <2>4. CASE ~(n < 0)
    <3>1. /\ range' = [range EXCEPT ![r] = [start |-> n, end |-> pos]]
          /\ search' = [search EXCEPT ![r].start = n]
          /\ at' = [at EXCEPT ![r] = Middle(n, search[r].end)] /\ rpc' = rpc
      BY <1>5, <2>4 DEF SearchLess, Relock
    <3>2. n \in Slots /\ at'[r] \in Slots
      <4>1. SearchInv(r)' /\ LockInv(r)'
        BY <2>1 DEF RInv
      <4> HIDE DEF n
      <4>2. range'[r].start = n
        BY <3>1
      <4> QED
        BY <2>1, <3>1, <4>1, <4>2 DEF SearchInv, LockInv
    <3> HIDE DEF n
    <3> QED
      BY <1>1, <1>2, <2>2, <3>1, <3>2
  <2> QED
    BY <2>3, <2>4
<1>6. CASE SeekFound(r)
  BY <1>1, <1>2, <1>6 DEF SeekFound, Relock, RInv, DueInv
<1>7. CASE SeekFailed(r)
  BY <1>1, <1>2, <1>7 DEF SeekFailed, Relock
<1>8. CASE Close(r)
  BY <1>1, <1>8 DEF Close
<1>9. CASE Read(r)
  <2>1. at[r] \in Slots
    BY <1>9 DEF Read, RInv, DueInv, LockInv
  <2>2. at[r] \in 0 .. Size - 1 /\ Slot(at[r]) \in 0 .. MaxId
    BY <1>2, <2>1 DEF Slots
  <2> QED
    BY <1>1, <1>2, <1>9, <2>2 DEF Read, ReadAt
<1>10. CASE CheckExhaust(r)
  BY <1>1, <1>2, <1>10 DEF CheckExhaust, Relock
<1> QED
  BY <1>3, <1>4, <1>5, <1>6, <1>7, <1>8, <1>9, <1>10 DEF Replay

\* Every variable has its type, bounded by the number of events, for one writer and
\* one reader of a log of any size that is not restarted: no search and no lock
\* leaves the file.
THEOREM LogTypes ==
  ASSUME NEW w, NEW r, Writer = {w}, Reader = {r}, MaxRestarts = 0
  PROVE  Spec => []TypeOK
<1>1. Init => RInv(w, r) /\ TypeInv(w, r)
  <2> SUFFICES ASSUME Init PROVE TypeInv(w, r)
    BY InitRInv
  <2>1. MaxId \in Nat
    BY BoundAssumption
  <2>2. /\ range = [q \in {r} |-> Closed] /\ search = [q \in {r} |-> NoSearch]
        /\ at = [q \in {r} |-> 0] /\ from = [q \in {r} |-> 0] /\ got = [q \in {r} |-> 0]
        /\ own = [v \in {w} |-> 0] /\ record = 0 /\ monitor = Nobody
    BY DEF Init
  <2> QED
    BY <2>1, <2>2 DEF TypeInv, Closed, NoSearch
<1>2. RInv(w, r) /\ TypeInv(w, r) /\ [Next]_vars => RInv(w, r)' /\ TypeInv(w, r)'
  <2> SUFFICES ASSUME RInv(w, r), TypeInv(w, r), [Next]_vars PROVE TypeInv(w, r)'
    BY NextRInv
  <2>1. CASE Done \/ UNCHANGED vars
    BY <2>1 DEF Done, vars, writerVars, readerVars, TypeInv
  <2>2. CASE Restart
    BY <2>2 DEF Restart, RInv, Plain
  <2> QED
    BY <2>1, <2>2, WriterTypeInv, ReaderTypeInv DEF Next
<1>3. RInv(w, r) /\ TypeInv(w, r) => TypeOK
  <2> SUFFICES ASSUME RInv(w, r), TypeInv(w, r) PROVE TypeOK
    OBVIOUS
  <2>1. /\ RingFacts(w) /\ Size \in 0 .. MaxId /\ pos \in 0 .. MaxId /\ MaxId \in Nat
        /\ \A p \in Slots : Slot(p) \in 0 .. MaxId
    BY Bounded, BoundAssumption
  <2>2. IInv(w) /\ LInv(r) /\ Plain /\ EventInv(r)
    BY DEF RInv
  <2>3. file \in Seq(0 .. MaxId)
    <3>1. file \in Seq(Nat) /\ Size \in Nat
      BY <2>1, <2>2 DEF IInv, BaseInv
    <3>2. \A i \in 1 .. Len(file) : file[i] \in 0 .. MaxId
      <4> SUFFICES ASSUME NEW i \in 1 .. Len(file) PROVE file[i] \in 0 .. MaxId
        OBVIOUS
      <4>1. i - 1 \in Slots /\ (i - 1) + 1 = i
        BY <3>1 DEF Slots, Size
      <4> QED
        BY <2>1, <4>1 DEF Slot
    <3> QED
      <4>1. file \in [1 .. Len(file) -> 0 .. MaxId] /\ Len(file) \in Nat
        BY <3>1, <3>2, LenProperties
      <4> QED
        BY <4>1, SeqDef, Zenon
  <2>4. storedPos \in -1 .. MaxId /\ storedId \in 0 .. MaxId /\ lastId \in 0 .. MaxId
    <3>1. PositionInv(w) /\ BaseInv(w) /\ StageInv(w) /\ lastId <= MaxId
      BY <2>2 DEF IInv, RingInv, Plain
    <3>2. storedPos \in -1 .. MaxId
      <4>1. WrittenSlot \in Slots => WrittenSlot \in 0 .. MaxId
        BY <2>1 DEF Slots
      <4>2. CASE wpc[w] = "storePosition"
        BY <2>1, <3>1, <4>1, <4>2 DEF PositionInv, BaseInv, WrittenSlot
      <4>3. CASE wpc[w] # "storePosition"
        BY <2>1, <3>1, <4>3 DEF PositionInv, BaseInv
      <4> QED
        BY <4>2, <4>3
    <3>3. storedId \in 0 .. MaxId /\ lastId \in 0 .. MaxId
      BY <2>1, <3>1 DEF BaseInv, StageInv
    <3> QED
      BY <3>2, <3>3
  <2>5. locks \in Seq(Reader) /\ IsInjective(locks)
    <3>1. locks \in {<<>>, <<r>>}
      BY <2>2 DEF LInv, ChainInv
    <3>2. locks \in Seq(Reader)
      <4>1. r \in Reader
        OBVIOUS
      <4>2. <<r>> \in Seq(Reader) /\ <<>> \in Seq(Reader)
        BY ONLY <4>1
      <4> QED
        BY <3>1, <4>2, Zenon
    <3>3. \A i, j \in DOMAIN locks : i = j
      BY <3>1
    <3> QED
      BY <3>2, <3>3 DEF IsInjective
  <2>6. /\ maxRecords \in Sizes \cup {FirstSize} /\ pos \in 0 .. Size
        /\ restarts \in 0 .. MaxRestarts /\ crashed \in BOOLEAN /\ shrunk \in BOOLEAN
    <3>1. crashed \in BOOLEAN /\ shrunk \in BOOLEAN
      BY <2>2 DEF Plain
    <3>2. maxRecords \in Sizes \cup {FirstSize} /\ restarts \in 0 .. MaxRestarts
      BY <2>2 DEF Plain
    <3>3. pos \in 0 .. Size
      BY <2>1 DEF RingFacts
    <3> QED
      BY <3>1, <3>2, <3>3
  <2>7. /\ wpc \in [Writer -> {"idle", "write", "truncate", "storePosition", "storeId"}]
        /\ rpc \in [Reader -> {"new", "search", "found", "failed", "notFound", "closed",
                               "pull", "check", "exhausted"}]
        /\ due \in [Reader -> Nat]
    BY <2>2 DEF IInv, BaseInv, LInv, RangeInv, EventInv
  <2>8. /\ record \in 0 .. MaxId /\ own \in [Writer -> 0 .. MaxId] /\ monitor \in Writer \cup {Nobody}
        /\ from \in [Reader -> From \cup {0}]
        /\ range \in [Reader -> [start : 0 .. MaxId, end : 0 .. MaxId]]
        /\ at \in [Reader -> 0 .. MaxId]
        /\ search \in [Reader -> [start : 0 .. MaxId, end : 0 .. MaxId, greater : -1 .. MaxId]]
        /\ got \in [Reader -> 0 .. MaxId]
    BY DEF TypeInv
  <2> QED
    BY <2>3, <2>4, <2>5, <2>6, <2>7, <2>8 DEF TypeOK
<1> QED
  BY <1>1, <1>2, <1>3, PTL DEF Spec
=============================================================================
