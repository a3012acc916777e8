----------------------- MODULE MsgSubscriptionsProofs -----------------------
(***************************************************************************)
(* Proofs about MsgSubscriptions, for any set of threads and of handles:   *)
(* the list stays well formed under every interleaving, and a message      *)
(* reaches every handle of the list exactly once.                          *)
(***************************************************************************)
EXTENDS MsgSubscriptions, TLAPS

\* Who owns the lock is told by what the threads do.
LockInv ==
  /\ writer # None => readers = {}
  /\ \A t \in Thread : t \in readers <=> pc[t] = "send"
  /\ \A t \in Thread : writer = t <=> pc[t] = "unsubscribeAll"

\* What the flag of a handle says of it.
FlagInv ==
  /\ \A h \in Handle : stage[h] = "new" => ~flag[h]
  /\ \A h \in Handle : stage[h] = "unlinked" => flag[h]
  /\ \A h \in Linked : flag[h] =>
       \E t \in Thread : pc[t] = "unsubscribe" /\ arg[t] = h

\* The handle each call works with.
CallInv ==
  /\ \A t \in Thread : pc[t] = "idle" => arg[t] = None
  /\ \A t \in Thread : pc[t] = "subscribe" =>
       arg[t] \in Handle /\ stage[arg[t]] = "new"
  /\ \A t \in Thread : pc[t] = "unsubscribe" =>
       arg[t] \in Linked /\ flag[arg[t]]
  /\ \A t \in Thread : pc[t] \in {"send", "unsubscribeAll"} =>
       arg[t] \in Linked \cup {None}
  /\ \A t, u \in Thread :
       (/\ pc[t] \in {"subscribe", "unsubscribe"}
        /\ pc[u] \in {"subscribe", "unsubscribe"}
        /\ arg[t] = arg[u]) => t = u

\* unsubscribeAll() has dealt with every handle before its cursor.
WalkInv ==
  \A t \in Thread : pc[t] = "unsubscribeAll" =>
    \A h \in Before(arg[t]) : flag[h]

\* A ticket is drawn from the counter.
TicketInv == \A h \in Linked : ticket[h] < tickets

IInv ==
  /\ TypeOK
  /\ ListIntegrity
  /\ LockInv
  /\ FlagInv
  /\ CallInv
  /\ WalkInv
  /\ TicketInv
  /\ DeliveryInOrder

-----------------------------------------------------------------------------
(* Linking and unlinking *)

\* Appending a new handle with the highest ticket keeps the list well formed.
LEMMA LinkKeepsList ==
  ASSUME TypeOK, ListIntegrity, TicketInv,
         NEW h \in Handle, stage[h] = "new", Link(h),
         ticket' = [ticket EXCEPT ![h] = tickets], tickets' = tickets + 1
  PROVE  /\ ListIntegrity'
         /\ TicketInv'
         /\ Linked' = Linked \cup {h}
         /\ \A k \in Linked : ticket'[k] = ticket[k]
<1> USE NoneAssumption
<1>1. Linked' = Linked \cup {h} /\ h \notin Linked
  BY DEF TypeOK, Link, Linked
<1>2. \A k \in Linked : ticket'[k] = ticket[k]
  BY <1>1 DEF TypeOK, Linked
<1>3. ticket'[h] = tickets /\ (\A k \in Linked : ticket'[k] < ticket'[h])
  BY <1>2 DEF TypeOK, TicketInv
<1>4. TicketInv'
  BY <1>1, <1>2, <1>3 DEF TypeOK, TicketInv, Linked
<1>5. LinksMutual'
  <2>1. CASE first = None
    BY <2>1, <1>1 DEF TypeOK, Link, ListIntegrity, LinksMutual, ListOrdered, Linked
  <2>2. CASE first # None
    <3>1. last \in Linked /\ next[last] = None /\ last # h
      BY <2>2, <1>1 DEF ListIntegrity, LinksMutual
    <3>2. /\ next' = [next EXCEPT ![last] = h]
          /\ prev' = [prev EXCEPT ![h] = last]
          /\ first' = first /\ last' = h
      BY <2>2 DEF Link
    <3> QED
      BY <2>2, <3>1, <3>2, <1>1 DEF TypeOK, ListIntegrity, LinksMutual, Linked
  <2> QED BY <2>1, <2>2
<1>6. ListOrdered'
  <2>1. CASE first = None
    <3>1. Linked' = {h} /\ first' = h /\ last' = h /\ next' = next /\ next[h] = None
      BY <2>1, <1>1 DEF Link, ListIntegrity, LinksMutual, ListOrdered, Linked
    <3> QED BY <3>1, <1>3 DEF TypeOK, ListOrdered
  <2>2. CASE first # None
    <3>1. last \in Linked /\ next[last] = None /\ last # h
      BY <2>2, <1>1 DEF ListIntegrity, LinksMutual
    <3>2. next' = [next EXCEPT ![last] = h] /\ first' = first /\ last' = h
      BY <2>2 DEF Link
    <3>3. next[h] = None
      BY <1>1 DEF ListIntegrity, LinksMutual
    <3> QED
      BY <2>2, <3>1, <3>2, <3>3, <1>1, <1>2, <1>3
      DEF TypeOK, ListIntegrity, LinksMutual, ListOrdered, Linked
  <2> QED BY <2>1, <2>2
<1> QED BY <1>1, <1>2, <1>4, <1>5, <1>6 DEF ListIntegrity

\* Removing any handle of the list keeps it well formed.
LEMMA UnlinkKeepsList ==
  ASSUME TypeOK, ListIntegrity, NEW h \in Linked, Unlink(h), ticket' = ticket
  PROVE  ListIntegrity' /\ Linked' = Linked \ {h}
<1> USE NoneAssumption
<1>1. Linked' = Linked \ {h}
  BY DEF TypeOK, Unlink, Linked
<1>2. h \in Handle /\ h # None
  BY DEF Linked
<1>3. /\ next' = UnlinkedNext(h) /\ prev' = UnlinkedPrev(h)
      /\ first' = IF first = h THEN next[h] ELSE first
      /\ last' = IF last = h THEN prev[h] ELSE last
  BY DEF Unlink
<1>4. LinksMutual'
  BY <1>1, <1>2, <1>3
  DEF TypeOK, ListIntegrity, LinksMutual, UnlinkedNext, UnlinkedPrev, Linked
<1>5. \A k \in Linked : ticket[k] \in Nat
  BY DEF TypeOK, Linked
<1>6. ListOrdered'
  <2> SUFFICES /\ \A k, m \in Linked \ {h} : ticket[k] = ticket[m] => k = m
               /\ \A k \in Linked \ {h} : first' # None /\ ticket[first'] <= ticket[k]
               /\ \A k \in Linked \ {h} : last' # None /\ ticket[k] <= ticket[last']
               /\ \A k \in Linked \ {h} : next'[k] # None =>
                    /\ ticket[k] < ticket[next'[k]]
                    /\ \A m \in Linked \ {h} :
                         ticket[m] <= ticket[k] \/ ticket[next'[k]] <= ticket[m]
    BY <1>1 DEF ListOrdered
  <2>1. \A k, m \in Linked \ {h} : ticket[k] = ticket[m] => k = m
    BY DEF ListIntegrity, ListOrdered
  <2>2. ASSUME NEW k \in Linked \ {h}
        PROVE  first' # None /\ ticket[first'] <= ticket[k]
    <3>1. CASE first = h
      <4>1. ticket[h] < ticket[k]
        BY <3>1, <1>5 DEF ListIntegrity, ListOrdered
      <4>2. next[h] # None
        BY <4>1, <1>5 DEF ListIntegrity, ListOrdered, LinksMutual
      <4> QED BY <3>1, <4>1, <4>2, <1>3, <1>5 DEF ListIntegrity, ListOrdered, LinksMutual
    <3>2. CASE first # h
      BY <3>2, <1>3 DEF ListIntegrity, ListOrdered
    <3> QED BY <3>1, <3>2
  <2>3. ASSUME NEW k \in Linked \ {h}
        PROVE  last' # None /\ ticket[k] <= ticket[last']
    <3>1. CASE last = h
      <4>1. ticket[k] < ticket[h]
        BY <3>1, <1>5 DEF ListIntegrity, ListOrdered
      <4>2. prev[h] # None
        BY <4>1, <1>5 DEF ListIntegrity, ListOrdered, LinksMutual
      <4>3. prev[h] \in Linked /\ next[prev[h]] = h
        BY <4>2 DEF ListIntegrity, LinksMutual
      <4>4. ticket[k] <= ticket[prev[h]] \/ ticket[h] <= ticket[k]
        BY <4>3, <1>2 DEF ListIntegrity, ListOrdered
      <4> QED BY <3>1, <4>1, <4>2, <4>3, <4>4, <1>3, <1>5
    <3>2. CASE last # h
      BY <3>2, <1>3 DEF ListIntegrity, ListOrdered
    <3> QED BY <3>1, <3>2
  <2>4. ASSUME NEW k \in Linked \ {h}, next'[k] # None
        PROVE  /\ ticket[k] < ticket[next'[k]]
               /\ \A m \in Linked \ {h} :
                    ticket[m] <= ticket[k] \/ ticket[next'[k]] <= ticket[m]
    <3>1. next'[k] = IF k = prev[h] THEN next[h] ELSE next[k]
      BY <1>3 DEF UnlinkedNext, Linked
    <3>2. CASE k = prev[h]
      <4>1. next[k] = h /\ next[h] \in Linked
        BY <3>1, <3>2, <2>4 DEF ListIntegrity, LinksMutual, Linked
      <4>2. /\ ticket[k] < ticket[h] /\ ticket[h] < ticket[next[h]]
            /\ \A m \in Linked : ticket[m] <= ticket[k] \/ ticket[h] <= ticket[m]
            /\ \A m \in Linked : ticket[m] <= ticket[h] \/ ticket[next[h]] <= ticket[m]
        BY <4>1, <1>2, <3>1, <3>2, <2>4 DEF ListIntegrity, ListOrdered
      <4>3. \A m \in Linked \ {h} : ticket[m] # ticket[h]
        BY DEF ListIntegrity, ListOrdered
      <4> QED BY <3>1, <3>2, <4>1, <4>2, <4>3, <1>5
    <3>3. CASE k # prev[h]
      BY <3>1, <3>3, <2>4 DEF ListIntegrity, ListOrdered
    <3> QED BY <3>2, <3>3
  <2> QED BY <2>1, <2>2, <2>3, <2>4
<1> QED BY <1>1, <1>4, <1>6 DEF ListIntegrity

-----------------------------------------------------------------------------
(* Invariance *)

LEMMA InitIInv == Init => IInv
<1> SUFFICES ASSUME Init PROVE IInv
  OBVIOUS
<1> USE NoneAssumption DEF Init
<1>1. Linked = {}
  BY DEF Linked
<1>2. TypeOK
  BY DEF TypeOK
<1>3. ListIntegrity /\ TicketInv
  BY <1>1 DEF ListIntegrity, LinksMutual, ListOrdered, TicketInv
<1>4. LockInv
  BY DEF LockInv
<1>5. FlagInv
  BY <1>1 DEF FlagInv
<1>6. CallInv
  BY DEF CallInv
<1>7. WalkInv /\ DeliveryInOrder
  BY DEF WalkInv, DeliveryInOrder
<1> QED BY <1>2, <1>3, <1>4, <1>5, <1>6, <1>7 DEF IInv

LEMMA NextTypeOK == TypeOK /\ CallInv /\ [Next]_vars => TypeOK'
<1> SUFFICES ASSUME TypeOK, CallInv, [Next]_vars PROVE TypeOK'
  OBVIOUS
<1> USE NoneAssumption DEF TypeOK, listVars, lockVars, history
<1>1. ASSUME NEW t \in Thread, NEW h \in Handle, Subscribe(t, h) PROVE TypeOK'
  BY <1>1 DEF Subscribe
<1>2. ASSUME NEW t \in Thread, NEW h \in Handle, Unsubscribe(t, h) PROVE TypeOK'
  BY <1>2 DEF Unsubscribe
<1>3. ASSUME NEW t \in Thread, DoSubscribe(t) PROVE TypeOK'
  <2>1. arg[t] \in Handle
    BY <1>3 DEF DoSubscribe, CallInv
  <2>2. opened' \in BOOLEAN /\ thrown' \in BOOLEAN
    BY <1>3 DEF DoSubscribe, Link, FirstSubscribed
  <2> QED BY <1>3, <2>1, <2>2 DEF DoSubscribe, Link
<1>4. ASSUME NEW t \in Thread, DoUnsubscribe(t) PROVE TypeOK'
  <2>1. arg[t] \in Handle
    BY <1>4 DEF DoUnsubscribe, CallInv, Linked
  <2>2. opened' \in BOOLEAN /\ thrown' \in BOOLEAN
    BY <1>4 DEF DoUnsubscribe, Unlink, LastUnsubscribed
  <2> QED BY <1>4, <2>1, <2>2 DEF DoUnsubscribe, Unlink, UnlinkedNext, UnlinkedPrev
<1>5. ASSUME NEW t \in Thread, UnsubscribeAll(t) PROVE TypeOK'
  BY <1>5 DEF UnsubscribeAll
<1>6. ASSUME NEW t \in Thread, UnsubscribeAllStep(t) PROVE TypeOK'
  <2>1. arg[t] \in Handle
    BY <1>6 DEF UnsubscribeAllStep
  <2>2. opened' \in BOOLEAN /\ thrown' \in BOOLEAN
    BY <1>6 DEF UnsubscribeAllStep, Unlink, LastUnsubscribed
  <2> QED
    BY <1>6, <2>1, <2>2 DEF UnsubscribeAllStep, Unlink, UnlinkedNext, UnlinkedPrev
<1>7. ASSUME NEW t \in Thread, UnsubscribeAllEnd(t) PROVE TypeOK'
  BY <1>7 DEF UnsubscribeAllEnd
<1>8. ASSUME NEW t \in Thread, Send(t) PROVE TypeOK'
  BY <1>8 DEF Send
<1>9. ASSUME NEW t \in Thread, Deliver(t) PROVE TypeOK'
  <2>1. arg[t] \in Handle
    BY <1>9 DEF Deliver
  <2> QED BY <1>9, <2>1 DEF Deliver
<1>10. ASSUME NEW t \in Thread, SendEnd(t) PROVE TypeOK'
  BY <1>10 DEF SendEnd
<1>11. ASSUME NEW t \in Thread, DeliverFails(t) PROVE TypeOK'
  BY <1>11 DEF DeliverFails
<1>12. CASE UNCHANGED vars
  BY <1>12 DEF vars, threadVars
<1>13. CASE Next
  BY <1>13, <1>1, <1>2, <1>3, <1>4, <1>5, <1>6, <1>7, <1>8, <1>9, <1>10, <1>11, Zenon
  DEF Next
<1> QED BY <1>12, <1>13

\* A step that leaves the list alone keeps what is said of the list.
LEMMA SameList ==
  ASSUME UNCHANGED listVars, UNCHANGED history
  PROVE  /\ ListIntegrity <=> ListIntegrity'
         /\ TicketInv <=> TicketInv'
         /\ Linked' = Linked
         /\ \A h : Before(h)' = Before(h)
  BY DEF listVars, history, ListIntegrity, LinksMutual, ListOrdered, TicketInv,
         Linked, Before

\* A walk of the list starts with nothing behind it.
LEMMA NothingBeforeFirst ==
  ASSUME TypeOK, ListIntegrity
  PROVE  Before(first) = {}
<1>1. \A k \in Linked : first # None /\ ~(ticket[k] < ticket[first])
  BY DEF TypeOK, ListIntegrity, ListOrdered, LinksMutual, Linked
<1> QED BY <1>1 DEF Before

\* Stepping to the next handle leaves exactly one more handle behind.
LEMMA BeforeNext ==
  ASSUME TypeOK, ListIntegrity, NEW h \in Linked
  PROVE  Before(next[h]) = Before(h) \cup {h}
<1> USE NoneAssumption
<1>1. \A k \in Linked : ticket[k] \in Nat
  BY DEF TypeOK, Linked
<1>2. h # None
  BY DEF Linked
<1>3. CASE next[h] = None
  <2>1. h = last
    BY <1>3 DEF ListIntegrity, LinksMutual
  <2>2. \A k \in Linked : ticket[k] < ticket[h] \/ k = h
    BY <2>1, <1>1 DEF ListIntegrity, ListOrdered
  <2> QED BY <1>2, <1>3, <2>2 DEF Before
<1>4. CASE next[h] # None
  <2>1. /\ ticket[h] < ticket[next[h]]
        /\ \A k \in Linked : ticket[k] <= ticket[h] \/ ticket[next[h]] <= ticket[k]
        /\ \A k \in Linked : ticket[k] = ticket[h] => k = h
        /\ next[h] \in Linked
    BY <1>4 DEF ListIntegrity, ListOrdered, LinksMutual, Linked
  <2> QED BY <1>1, <1>2, <1>4, <2>1 DEF Before
<1> QED BY <1>3, <1>4

\* The steps that leave the list alone.
LEMMA CallSteps ==
  ASSUME IInv, TypeOK', NEW t \in Thread,
         \/ \E h \in Handle : Subscribe(t, h) \/ Unsubscribe(t, h)
         \/ UnsubscribeAll(t) \/ UnsubscribeAllEnd(t)
         \/ Send(t) \/ Deliver(t) \/ SendEnd(t) \/ DeliverFails(t)
  PROVE  IInv'
<1> USE NoneAssumption
<1>1. UNCHANGED listVars /\ UNCHANGED history
  BY DEF Subscribe, Unsubscribe, UnsubscribeAll, UnsubscribeAllEnd, Send, Deliver, SendEnd,
      DeliverFails
<1>2. /\ ListIntegrity' /\ TicketInv' /\ Linked' = Linked
      /\ \A h : Before(h)' = Before(h)
      /\ UNCHANGED <<first, last, prev, next, stage, opened, thrown, ticket, tickets>>
  BY <1>1, SameList DEF IInv, listVars, history
<1>3. LockInv' /\ FlagInv' /\ CallInv' /\ WalkInv' /\ DeliveryInOrder'
  <2>1. ASSUME NEW h \in Handle, Subscribe(t, h)
        PROVE  LockInv' /\ FlagInv' /\ CallInv' /\ WalkInv' /\ DeliveryInOrder'
    <3>1. LockInv'
      BY <2>1 DEF IInv, TypeOK, Subscribe, LockInv, lockVars
    <3>2. FlagInv'
      BY <2>1, <1>2 DEF IInv, TypeOK, Subscribe, FlagInv
    <3>3. CallInv'
      BY <2>1, <1>2 DEF IInv, TypeOK, Subscribe, CallInv
    <3>4. WalkInv'
      BY <2>1, <1>2 DEF IInv, TypeOK, Subscribe, WalkInv, Before
    <3>5. DeliveryInOrder'
      BY <2>1, <1>2 DEF IInv, TypeOK, Subscribe, DeliveryInOrder, Before
    <3> QED BY <3>1, <3>2, <3>3, <3>4, <3>5
  <2>2. ASSUME NEW h \in Handle, Unsubscribe(t, h)
        PROVE  LockInv' /\ FlagInv' /\ CallInv' /\ WalkInv' /\ DeliveryInOrder'
    <3>1. LockInv'
      BY <2>2 DEF IInv, TypeOK, Unsubscribe, LockInv, lockVars
    <3>2. h \in Linked
      BY <2>2 DEF IInv, TypeOK, Unsubscribe, FlagInv, Linked
    <3>3. FlagInv'
      BY <2>2, <1>2, <3>2 DEF IInv, TypeOK, Unsubscribe, FlagInv, Linked
    <3>4. CallInv'
      BY <2>2, <1>2, <3>2 DEF IInv, TypeOK, Unsubscribe, CallInv, Linked
    <3>5. WalkInv'
      BY <2>2, <1>2 DEF IInv, TypeOK, Unsubscribe, WalkInv, Before, Linked
    <3>6. DeliveryInOrder'
      BY <2>2, <1>2 DEF IInv, TypeOK, Unsubscribe, DeliveryInOrder, Before
    <3> QED BY <3>1, <3>3, <3>4, <3>5, <3>6
  <2>3. ASSUME UnsubscribeAll(t)
        PROVE  LockInv' /\ FlagInv' /\ CallInv' /\ WalkInv' /\ DeliveryInOrder'
    <3>1. LockInv'
      BY <2>3 DEF IInv, TypeOK, UnsubscribeAll, LockInv, CanWrite
    <3>2. FlagInv'
      BY <2>3, <1>2 DEF IInv, TypeOK, UnsubscribeAll, FlagInv
    <3>3. CallInv'
      BY <2>3, <1>2 DEF IInv, TypeOK, UnsubscribeAll, CallInv, ListIntegrity, LinksMutual
    <3>4. Before(first) = {}
      BY NothingBeforeFirst DEF IInv
    <3>5. WalkInv'
      BY <2>3, <1>2, <3>4 DEF IInv, TypeOK, UnsubscribeAll, WalkInv, Before
    <3>6. DeliveryInOrder'
      BY <2>3, <1>2 DEF IInv, TypeOK, UnsubscribeAll, DeliveryInOrder, Before
    <3> QED BY <3>1, <3>2, <3>3, <3>5, <3>6
  <2>4. ASSUME UnsubscribeAllEnd(t)
        PROVE  LockInv' /\ FlagInv' /\ CallInv' /\ WalkInv' /\ DeliveryInOrder'
    <3>1. LockInv'
      BY <2>4 DEF IInv, TypeOK, UnsubscribeAllEnd, LockInv
    <3>2. FlagInv'
      BY <2>4, <1>2 DEF IInv, TypeOK, UnsubscribeAllEnd, FlagInv
    <3>3. CallInv'
      BY <2>4, <1>2 DEF IInv, TypeOK, UnsubscribeAllEnd, CallInv
    <3>4. WalkInv' /\ DeliveryInOrder'
      BY <2>4, <1>2 DEF IInv, TypeOK, UnsubscribeAllEnd, WalkInv, DeliveryInOrder, Before
    <3> QED BY <3>1, <3>2, <3>3, <3>4
  <2>5. ASSUME Send(t)
        PROVE  LockInv' /\ FlagInv' /\ CallInv' /\ WalkInv' /\ DeliveryInOrder'
    <3>1. LockInv'
      BY <2>5 DEF IInv, TypeOK, Send, LockInv, CanRead
    <3>2. FlagInv'
      BY <2>5, <1>2 DEF IInv, TypeOK, Send, FlagInv
    <3>3. CallInv'
      BY <2>5, <1>2 DEF IInv, TypeOK, Send, CallInv, ListIntegrity, LinksMutual
    <3>4. WalkInv'
      BY <2>5, <1>2 DEF IInv, TypeOK, Send, WalkInv, Before
    <3>5. Before(first) = {}
      BY NothingBeforeFirst DEF IInv
    <3>6. DeliveryInOrder'
      BY <2>5, <1>2, <3>5 DEF IInv, TypeOK, Send, DeliveryInOrder, Before
    <3> QED BY <3>1, <3>2, <3>3, <3>4, <3>6
  <2>6. ASSUME Deliver(t)
        PROVE  LockInv' /\ FlagInv' /\ CallInv' /\ WalkInv' /\ DeliveryInOrder'
    <3>1. LockInv' /\ FlagInv'
      BY <2>6, <1>2 DEF IInv, TypeOK, Deliver, LockInv, FlagInv, lockVars
    <3>2. arg[t] \in Linked /\ next[arg[t]] \in Linked \cup {None}
      BY <2>6 DEF IInv, Deliver, CallInv, ListIntegrity, LinksMutual
    <3>3. CallInv'
      BY <2>6, <1>2, <3>2 DEF IInv, TypeOK, Deliver, CallInv
    <3>4. WalkInv'
      BY <2>6, <1>2 DEF IInv, TypeOK, Deliver, WalkInv, Before
    <3>5. Before(next[arg[t]]) = Before(arg[t]) \cup {arg[t]}
      BY <3>2, BeforeNext DEF IInv
    <3>6. DeliveryInOrder'
      BY <2>6, <1>2, <3>5 DEF IInv, TypeOK, Deliver, DeliveryInOrder, Before
    <3> QED BY <3>1, <3>3, <3>4, <3>6
  <2>7. ASSUME SendEnd(t)
        PROVE  LockInv' /\ FlagInv' /\ CallInv' /\ WalkInv' /\ DeliveryInOrder'
    <3>1. LockInv'
      BY <2>7 DEF IInv, TypeOK, SendEnd, LockInv
    <3>2. FlagInv'
      BY <2>7, <1>2 DEF IInv, TypeOK, SendEnd, FlagInv
    <3>3. CallInv'
      BY <2>7, <1>2 DEF IInv, TypeOK, SendEnd, CallInv
    <3>4. WalkInv' /\ DeliveryInOrder'
      BY <2>7, <1>2 DEF IInv, TypeOK, SendEnd, WalkInv, DeliveryInOrder, Before
    <3> QED BY <3>1, <3>2, <3>3, <3>4
  <2>8. ASSUME DeliverFails(t)
        PROVE  LockInv' /\ FlagInv' /\ CallInv' /\ WalkInv' /\ DeliveryInOrder'
    <3>1. LockInv'
      BY <2>8 DEF IInv, TypeOK, DeliverFails, LockInv
    <3>2. FlagInv'
      BY <2>8, <1>2 DEF IInv, TypeOK, DeliverFails, FlagInv
    <3>3. CallInv'
      BY <2>8, <1>2 DEF IInv, TypeOK, DeliverFails, CallInv
    <3>4. WalkInv' /\ DeliveryInOrder'
      BY <2>8, <1>2 DEF IInv, TypeOK, DeliverFails, WalkInv, DeliveryInOrder, Before
    <3> QED BY <3>1, <3>2, <3>3, <3>4
  <2> QED BY <2>1, <2>2, <2>3, <2>4, <2>5, <2>6, <2>7, <2>8
<1> QED BY <1>2, <1>3 DEF IInv

\* A write-locked step by which thread t removes handle h from the list.
LEMMA RemovingStep ==
  ASSUME IInv, TypeOK', NEW t \in Thread, NEW h \in Linked,
         Unlink(h), UNCHANGED history, flag' = [flag EXCEPT ![h] = TRUE],
         UNCHANGED <<lockVars, received>>, readers = {},
         \A u \in Thread : u # t => pc'[u] = pc[u] /\ arg'[u] = arg[u],
         \A u \in Thread : u # t =>
           ~(pc[u] \in {"subscribe", "unsubscribe"} /\ arg[u] = h),
         \/ /\ pc[t] = "unsubscribe" /\ arg[t] = h /\ writer = None
            /\ pc'[t] = "idle" /\ arg'[t] = None
         \/ /\ pc[t] = "unsubscribeAll" /\ arg[t] = h
            /\ pc'[t] = "unsubscribeAll" /\ arg'[t] = next[h]
  PROVE  IInv'
<1> USE NoneAssumption
<1>1. ListIntegrity' /\ Linked' = Linked \ {h} /\ ticket' = ticket /\ tickets' = tickets
  BY UnlinkKeepsList DEF IInv, history
<1>2. TicketInv'
  BY <1>1 DEF IInv, TicketInv
<1>3. stage' = [stage EXCEPT ![h] = "unlinked"] /\ h \in Handle
  BY DEF Unlink, Linked
<1>4. LockInv'
  BY DEF IInv, TypeOK, LockInv, lockVars
<1>5. FlagInv'
  BY <1>1, <1>3 DEF IInv, TypeOK, FlagInv, Linked
<1>6. \A u \in Thread : u # t => pc[u] \notin {"send", "unsubscribeAll"}
  BY DEF IInv, LockInv
<1>7. next[h] \in Linked \cup {None} /\ next[h] # h
  BY DEF IInv, TypeOK, ListIntegrity, LinksMutual, ListOrdered, Linked
<1>8. CallInv'
  BY <1>1, <1>3, <1>6, <1>7 DEF IInv, TypeOK, CallInv, Linked
<1>9. WalkInv'
  <2> SUFFICES ASSUME pc'[t] = "unsubscribeAll", NEW k \in Before(arg[t])' PROVE flag'[k]
    BY <1>6, <1>8 DEF WalkInv
  <2>1. pc[t] = "unsubscribeAll" /\ arg[t] = h /\ arg'[t] = next[h]
    BY DEF IInv, CallInv
  <2>2. k \in Linked \ {h} /\ (next[h] = None \/ ticket[k] < ticket[next[h]])
    BY <1>1, <2>1 DEF Before
  <2>3. \A m \in Linked : ticket[m] \in Nat
    BY DEF IInv, TypeOK, Linked
  <2>4. ticket[k] # ticket[h]
    BY <2>2 DEF IInv, ListIntegrity, ListOrdered
  <2>5. ticket[k] <= ticket[h]
    <3>1. CASE next[h] = None
      <4>1. h = last
        BY <3>1 DEF IInv, ListIntegrity, LinksMutual
      <4> QED BY <4>1, <2>2 DEF IInv, ListIntegrity, ListOrdered
    <3>2. CASE next[h] # None
      BY <3>2, <2>2, <2>3, <1>7 DEF IInv, ListIntegrity, ListOrdered
    <3> QED BY <3>1, <3>2
  <2>6. k \in Before(h)
    BY <2>2, <2>3, <2>4, <2>5 DEF Before
  <2>7. flag[k]
    BY <2>1, <2>6 DEF IInv, WalkInv
  <2> QED BY <2>2, <2>7 DEF IInv, TypeOK, Linked
<1>10. DeliveryInOrder'
  BY <1>6, <1>4, <1>8 DEF DeliveryInOrder, IInv, LockInv, lockVars
<1> QED BY <1>1, <1>2, <1>4, <1>5, <1>8, <1>9, <1>10 DEF IInv

LEMMA DoSubscribeStep ==
  ASSUME IInv, TypeOK', NEW t \in Thread, DoSubscribe(t)
  PROVE  IInv'
<1> USE NoneAssumption
<1> DEFINE h == arg[t]
<1>1. h \in Handle /\ stage[h] = "new" /\ h \notin Linked
  BY DEF IInv, DoSubscribe, CallInv, Linked
<1>2. /\ ListIntegrity' /\ TicketInv' /\ Linked' = Linked \cup {h}
      /\ \A k \in Linked : ticket'[k] = ticket[k]
  BY <1>1, LinkKeepsList DEF IInv, DoSubscribe
<1>3. stage' = [stage EXCEPT ![h] = "linked"]
  BY DEF DoSubscribe, Link
<1>4. LockInv'
  BY DEF IInv, TypeOK, LockInv, DoSubscribe, lockVars, CanWrite
<1>5. FlagInv'
  BY <1>1, <1>2, <1>3 DEF IInv, TypeOK, FlagInv, DoSubscribe
<1>6. \A u \in Thread : pc'[u] \notin {"send", "unsubscribeAll"}
  BY DEF IInv, TypeOK, LockInv, DoSubscribe, CanWrite
<1>7. CallInv'
  BY <1>1, <1>2, <1>3, <1>6 DEF IInv, TypeOK, CallInv, DoSubscribe
<1>8. WalkInv' /\ DeliveryInOrder'
  BY <1>6 DEF WalkInv, DeliveryInOrder
<1> QED BY <1>2, <1>4, <1>5, <1>7, <1>8 DEF IInv

LEMMA NextIInv == IInv /\ [Next]_vars => IInv'
<1> SUFFICES ASSUME IInv, [Next]_vars PROVE IInv'
  OBVIOUS
<1> USE NoneAssumption
<1>1. TypeOK'
  BY NextTypeOK DEF IInv
<1>2. ASSUME NEW t \in Thread, DoUnsubscribe(t) PROVE IInv'
  <2> DEFINE h == arg[t]
  <2>1. h \in Linked /\ flag[h] /\ h \in Handle
    BY <1>2 DEF IInv, DoUnsubscribe, CallInv, Linked
  <2>2. flag' = [flag EXCEPT ![h] = TRUE]
    BY <1>2, <2>1 DEF DoUnsubscribe, IInv, TypeOK
  <2>3. \A u \in Thread : u # t =>
          /\ pc'[u] = pc[u] /\ arg'[u] = arg[u]
          /\ ~(pc[u] \in {"subscribe", "unsubscribe"} /\ arg[u] = h)
    BY <1>2 DEF DoUnsubscribe, IInv, TypeOK, CallInv
  <2>4. /\ pc[t] = "unsubscribe" /\ writer = None /\ readers = {} /\ Unlink(h)
        /\ pc'[t] = "idle" /\ arg'[t] = None
        /\ UNCHANGED history /\ UNCHANGED <<lockVars, received>>
    BY <1>2 DEF DoUnsubscribe, CanWrite, IInv, TypeOK
  <2>5. \/ /\ pc[t] = "unsubscribe" /\ arg[t] = h /\ writer = None
           /\ pc'[t] = "idle" /\ arg'[t] = None
        \/ /\ pc[t] = "unsubscribeAll" /\ arg[t] = h
           /\ pc'[t] = "unsubscribeAll" /\ arg'[t] = next[h]
    BY <2>4
  <2> HIDE DEF h
  <2>6. \A u \in Thread : u # t => pc'[u] = pc[u] /\ arg'[u] = arg[u]
    BY <2>3
  <2>7. \A u \in Thread : u # t =>
          ~(pc[u] \in {"subscribe", "unsubscribe"} /\ arg[u] = h)
    BY <2>3
  <2> QED BY <1>1, <2>1, <2>2, <2>4, <2>5, <2>6, <2>7, RemovingStep
<1>3. ASSUME NEW t \in Thread, UnsubscribeAllStep(t) PROVE IInv'
  <2> DEFINE h == arg[t]
  <2>1. h \in Linked /\ h \in Handle /\ pc[t] = "unsubscribeAll" /\ writer = t /\ readers = {}
    BY <1>3 DEF IInv, UnsubscribeAllStep, CallInv, LockInv, Linked
  <2>2. CASE ~flag[h]
    <3>1. \A u \in Thread : u # t =>
            /\ pc'[u] = pc[u] /\ arg'[u] = arg[u]
            /\ ~(pc[u] \in {"subscribe", "unsubscribe"} /\ arg[u] = h)
      BY <1>3, <2>1, <2>2 DEF UnsubscribeAllStep, IInv, TypeOK, CallInv, Linked
    <3>2. /\ Unlink(h) /\ pc'[t] = "unsubscribeAll" /\ arg'[t] = next[h]
          /\ flag' = [flag EXCEPT ![h] = TRUE]
          /\ UNCHANGED history /\ UNCHANGED <<lockVars, received>>
      BY <1>3, <2>1, <2>2 DEF UnsubscribeAllStep, IInv, TypeOK
    <3> QED BY <1>1, <2>1, <3>1, <3>2, RemovingStep
  <2>3. CASE flag[h]
    <3>1. UNCHANGED <<listVars, flag, lockVars, pc, received, history>>
      BY <1>3, <2>1, <2>3 DEF UnsubscribeAllStep, IInv, TypeOK
    <3>2. ListIntegrity' /\ TicketInv' /\ Linked' = Linked /\ ticket' = ticket /\ stage' = stage
      BY <3>1, SameList DEF IInv, history, listVars
    <3>3. arg' = [arg EXCEPT ![t] = next[h]]
      BY <1>3 DEF UnsubscribeAllStep
    <3>4. LockInv' /\ FlagInv'
      BY <3>1, <3>2, <3>3, <2>1 DEF IInv, TypeOK, LockInv, FlagInv, lockVars
    <3>5. CallInv'
      BY <3>1, <3>2, <3>3, <2>1
      DEF IInv, TypeOK, CallInv, ListIntegrity, LinksMutual
    <3>6. \A u \in Thread : u # t => pc[u] \notin {"send", "unsubscribeAll"}
      BY <2>1 DEF IInv, LockInv
    <3>7. \A k \in Before(next[h]) : k = h \/ k \in Before(h)
      BY <2>1, BeforeNext DEF IInv
    <3>8. WalkInv'
      BY <3>1, <3>2, <3>3, <3>6, <3>7, <2>1, <2>3
      DEF IInv, TypeOK, WalkInv, Before
    <3>9. DeliveryInOrder'
      BY <3>1, <3>6, <2>1 DEF DeliveryInOrder
    <3> QED BY <1>1, <3>2, <3>4, <3>5, <3>8, <3>9 DEF IInv
  <2> QED BY <2>2, <2>3
<1>4. CASE UNCHANGED vars
  BY <1>4, <1>1, SameList
  DEF vars, lockVars, threadVars, IInv, LockInv, FlagInv, CallInv, WalkInv,
      DeliveryInOrder, listVars
<1>5. CASE Next
  BY <1>1, <1>2, <1>3, <1>5, DoSubscribeStep, CallSteps, Zenon DEF Next
<1> QED BY <1>4, <1>5

\* The inductive invariant holds of every reachable state.
THEOREM Invariance == Spec => []IInv
<1>1. Init => IInv
  BY InitIInv
<1>2. IInv /\ [Next]_vars => IInv'
  BY NextIInv
<1> QED BY <1>1, <1>2, PTL DEF Spec

\* Every variable of the subscription list keeps its type.
THEOREM TypeCorrect == Spec => []TypeOK
<1>1. IInv => TypeOK
  BY DEF IInv
<1> QED BY <1>1, Invariance, PTL

\* For any number of threads and handles, no interleaving of subscribe(),
\* unsubscribe(), unsubscribeAll() and sendMessage() damages the list.
THEOREM ListStaysWellFormed == Spec => []ListIntegrity
<1>1. IInv => ListIntegrity
  BY DEF IInv
<1> QED BY <1>1, Invariance, PTL

\* A sender has always delivered to exactly the handles before its cursor.
THEOREM SendsInOrder == Spec => []DeliveryInOrder
<1>1. IInv => DeliveryInOrder
  BY DEF IInv
<1> QED BY <1>1, Invariance, PTL

\* A message reaches every handle of the list, each once, and never one that
\* left the list before.
THEOREM EveryConsumerIsServed == Spec => EveryConsumerServed
<1>1. IInv => \A t \in Thread :
         /\ SendEnd(t) => received[t] = Linked
         /\ Deliver(t) => arg[t] \in Linked \ received[t]
  <2> SUFFICES ASSUME IInv, NEW t \in Thread
               PROVE  /\ SendEnd(t) => received[t] = Linked
                      /\ Deliver(t) => arg[t] \in Linked \ received[t]
    OBVIOUS
  <2>1. SendEnd(t) => received[t] = Linked
    BY DEF IInv, DeliveryInOrder, SendEnd, Before
  <2>2. Deliver(t) => arg[t] \in Linked
    BY DEF IInv, CallInv, Deliver
  <2>3. arg[t] \in Linked => arg[t] \notin Before(arg[t])
    BY NoneAssumption DEF Before, Linked, IInv, TypeOK
  <2>4. Deliver(t) => arg[t] \notin received[t]
    BY <2>2, <2>3 DEF IInv, DeliveryInOrder, Deliver
  <2> QED BY <2>1, <2>2, <2>4
<1>2. IInv => [\A t \in Thread :
         /\ SendEnd(t) => received[t] = Linked
         /\ Deliver(t) => arg[t] \in Linked \ received[t]]_vars
  BY <1>1
<1> QED BY <1>2, Invariance, PTL DEF EveryConsumerServed

\* unsubscribeAll() leaves only handles another thread is unsubscribing.
THEOREM NobodyForgotten == Spec => AllUnsubscribed
<1>1. IInv => \A t \in Thread : UnsubscribeAllEnd(t) =>
         \A h \in Linked : \E u \in Thread : pc[u] = "unsubscribe" /\ arg[u] = h
  <2> SUFFICES ASSUME IInv, NEW t \in Thread, UnsubscribeAllEnd(t), NEW h \in Linked
               PROVE  \E u \in Thread : pc[u] = "unsubscribe" /\ arg[u] = h
    OBVIOUS
  <2>1. h \in Before(arg[t])
    BY DEF Before, UnsubscribeAllEnd
  <2>2. flag[h]
    BY <2>1 DEF IInv, WalkInv, UnsubscribeAllEnd
  <2> QED BY <2>2 DEF IInv, FlagInv
<1>2. IInv => [\A t \in Thread : UnsubscribeAllEnd(t) =>
         \A h \in Linked : \E u \in Thread : pc[u] = "unsubscribe" /\ arg[u] = h]_vars
  BY <1>1
<1> QED BY <1>2, Invariance, PTL DEF AllUnsubscribed

\* Until a subscription that starts or stops it throws, the service of a list
\* runs exactly while somebody is subscribed.
THEOREM ServiceRunsWhenNeeded == Spec => []ServiceFollowsList
<1>1. Init => ServiceFollowsList
  BY DEF Init, ServiceFollowsList
<1>2. IInv /\ ServiceFollowsList /\ [Next]_vars => ServiceFollowsList'
  <2> SUFFICES ASSUME IInv, ServiceFollowsList, [Next]_vars PROVE ServiceFollowsList'
    OBVIOUS
  <2> USE NoneAssumption DEF ServiceFollowsList
  <2>1. ASSUME NEW h \in Linked, Unlink(h) PROVE ServiceFollowsList'
    <3>1. first # None
      BY DEF IInv, ListIntegrity, ListOrdered
    <3>2. ~thrown' => ~thrown /\ opened' = IF first' # None THEN opened ELSE FALSE
      BY <2>1 DEF Unlink, LastUnsubscribed
    <3> QED BY <3>1, <3>2
  <2>2. ASSUME NEW h \in Handle, Link(h) PROVE ServiceFollowsList'
    BY <2>2 DEF IInv, TypeOK, Link, FirstSubscribed
  <2>3. ASSUME UNCHANGED listVars PROVE ServiceFollowsList'
    BY <2>3 DEF listVars
  <2>4. ASSUME NEW t \in Thread, NEW h \in Handle, Subscribe(t, h) \/ Unsubscribe(t, h)
        PROVE  UNCHANGED listVars
    BY <2>4 DEF Subscribe, Unsubscribe
  <2>5. ASSUME NEW t \in Thread,
               \/ UnsubscribeAll(t) \/ UnsubscribeAllEnd(t)
               \/ Send(t) \/ Deliver(t) \/ SendEnd(t) \/ DeliverFails(t)
        PROVE  UNCHANGED listVars
    BY <2>5 DEF UnsubscribeAll, UnsubscribeAllEnd, Send, Deliver, SendEnd,
      DeliverFails
  <2>6. ASSUME NEW t \in Thread, DoSubscribe(t) PROVE ServiceFollowsList'
    BY <2>6, <2>2 DEF DoSubscribe, IInv, CallInv
  <2>7. ASSUME NEW t \in Thread, DoUnsubscribe(t) PROVE ServiceFollowsList'
    BY <2>7, <2>1 DEF DoUnsubscribe, IInv, CallInv
  <2>8. ASSUME NEW t \in Thread, UnsubscribeAllStep(t) PROVE ServiceFollowsList'
    BY <2>8, <2>1, <2>3 DEF UnsubscribeAllStep, IInv, CallInv
  <2>9. CASE UNCHANGED vars
    BY <2>9, <2>3 DEF vars
  <2>10. CASE Next
    BY <2>10, <2>3, <2>4, <2>5, <2>6, <2>7, <2>8, Zenon DEF Next
  <2> QED BY <2>9, <2>10
<1> QED BY <1>1, <1>2, Invariance, PTL DEF Spec
=============================================================================
