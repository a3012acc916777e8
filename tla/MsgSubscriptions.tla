-------------------------- MODULE MsgSubscriptions --------------------------
(***************************************************************************)
(* The subscription list of the message library: MsgSubscriptions and the  *)
(* linked list of MsgHandle it keeps under a ReentrantReadWriteLock.       *)
(*                                                                         *)
(* Every list of consumers in the framework is one of these: the status,   *)
(* tag appearance and raw data of a reader, a collector or a log target.   *)
(* Threads subscribe, unsubscribe, unsubscribe everybody and send messages *)
(* concurrently.  A message is sent under the read lock, one consumer at a *)
(* time; the list is relinked under the write lock.  The unsubscribed flag *)
(* of a handle is set by a compare-and-set BEFORE the lock is taken.       *)
(*                                                                         *)
(* A write-locked section that runs no loop is one step: everything it     *)
(* writes is read under the lock only.  unsubscribeAll() is stepwise, as   *)
(* other threads set flags (without the lock) while it walks the list.     *)
(***************************************************************************)
EXTENDS Naturals

CONSTANTS
  Thread,   \* the threads that use the list
  Handle,   \* the handles they may create, each for one subscription
  Faulty,   \* the handles whose consumers, or services, may throw
  None      \* no handle and no thread

ASSUME NoneAssumption == None \notin Handle /\ None \notin Thread
ASSUME FaultyAssumption == Faulty \subseteq Handle

VARIABLES
  first, last,   \* the ends of the list
  prev, next,    \* the links of the handles
  flag,          \* MsgHandle.unsubscribed, the atomic flags
  stage,         \* "new", "linked" or "unlinked": where a handle's life is
  opened,        \* whether the service of the list runs
  thrown,        \* history: whether starting or stopping it was cut short
  writer,        \* the owner of the write lock
  readers,       \* the owners of the read lock
  pc,            \* what each thread does
  arg,           \* the handle it does it with: a parameter or a loop cursor
  received,      \* the handles that received the message a thread sends
  ticket,        \* history: the number of each subscription, in list order
  tickets        \* history: the number of subscriptions made so far

listVars == <<first, last, prev, next, stage, opened, thrown>>
lockVars == <<writer, readers>>
threadVars == <<pc, arg, received>>
history == <<ticket, tickets>>
vars == <<listVars, flag, lockVars, threadVars, history>>

Linked == {h \in Handle : stage[h] = "linked"}

-----------------------------------------------------------------------------
(* The links *)

\* The list without h: MsgSubscriptions.unsubscribe(H) with MsgHandle.remove().
UnlinkedNext(h) ==
  [k \in Handle |-> IF k = h THEN None
                    ELSE IF k = prev[h] THEN next[h] ELSE next[k]]

\* Mutant: the next handle keeps its link to the removed one.
UnlinkedPrevForgetful(h) == [k \in Handle |-> IF k = h THEN None ELSE prev[k]]

UnlinkedPrev(h) ==
  [k \in Handle |-> IF k = h THEN None
                    ELSE IF k = next[h] THEN prev[h] ELSE prev[k]]

\* firstSubscribed(h): a service calls startService() and then the consumer,
\* and either may throw.
FirstSubscribed(h) ==
  \/ opened' = TRUE /\ UNCHANGED thrown
  \/ h \in Faulty /\ opened' \in BOOLEAN /\ thrown' = TRUE

\* Mutant: the service is not stopped.
ServiceLeftRunning(h) == UNCHANGED <<opened, thrown>>

\* lastUnsubscribed(h): stopService() is called after the consumer, and not at
\* all when the consumer throws.
LastUnsubscribed(h) ==
  \/ opened' = FALSE /\ UNCHANGED thrown
  \/ h \in Faulty /\ opened' \in {opened, FALSE} /\ thrown' = TRUE

\* MsgHandle.remove() and the hooks run after it.
Unlink(h) ==
  /\ first' = IF first = h THEN next[h] ELSE first
  /\ last' = IF last = h THEN prev[h] ELSE last
  /\ next' = UnlinkedNext(h)
  /\ prev' = UnlinkedPrev(h)
  /\ stage' = [stage EXCEPT ![h] = "unlinked"]
  /\ IF first' # None
       THEN UNCHANGED <<opened, thrown>>
       ELSE LastUnsubscribed(h)

\* The handle is linked before any hook runs: one whose hooks throw stays in
\* the list.
Link(h) ==
  /\ IF first = None
       THEN /\ first' = h
            /\ FirstSubscribed(h)
            /\ UNCHANGED <<prev, next>>
       ELSE /\ next' = [next EXCEPT ![last] = h]
            /\ prev' = [prev EXCEPT ![h] = last]
            /\ UNCHANGED <<first, opened, thrown>>
  /\ last' = h
  /\ stage' = [stage EXCEPT ![h] = "linked"]

-----------------------------------------------------------------------------
(* The lock *)

\* Mutant: readers do not hold a writer off.
CanWriteAnyway == writer = None

CanWrite == writer = None /\ readers = {}

CanRead == writer = None

-----------------------------------------------------------------------------
Init ==
  /\ first = None /\ last = None
  /\ prev = [h \in Handle |-> None]
  /\ next = [h \in Handle |-> None]
  /\ flag = [h \in Handle |-> FALSE]
  /\ stage = [h \in Handle |-> "new"]
  /\ opened = FALSE /\ thrown = FALSE
  /\ writer = None
  /\ readers = {}
  /\ pc = [t \in Thread |-> "idle"]
  /\ arg = [t \in Thread |-> None]
  /\ received = [t \in Thread |-> {}]
  /\ ticket = [h \in Handle |-> 0]
  /\ tickets = 0

\* createHandle(): the handle is not in the list yet.
Subscribe(t, h) ==
  /\ pc[t] = "idle"
  /\ stage[h] = "new"
  /\ \A u \in Thread : arg[u] # h
  /\ pc' = [pc EXCEPT ![t] = "subscribe"]
  /\ arg' = [arg EXCEPT ![t] = h]
  /\ UNCHANGED <<listVars, flag, lockVars, received, history>>

\* The write-locked part of subscribe().
DoSubscribe(t) ==
  /\ pc[t] = "subscribe"
  /\ CanWrite
  /\ Link(arg[t])
  /\ ticket' = [ticket EXCEPT ![arg[t]] = tickets]
  /\ tickets' = tickets + 1
  /\ pc' = [pc EXCEPT ![t] = "idle"]
  /\ arg' = [arg EXCEPT ![t] = None]
  /\ UNCHANGED <<flag, lockVars, received>>

\* MsgHandle.unsubscribe() up to the lock.  The handle was handed out by
\* consumerSubscribed() or returned by subscribe(), both after it was linked.
\* A second call finds the flag set and does nothing.
Unsubscribe(t, h) ==
  /\ pc[t] = "idle"
  /\ stage[h] # "new"
  /\ ~flag[h]
  /\ flag' = [flag EXCEPT ![h] = TRUE]
  /\ pc' = [pc EXCEPT ![t] = "unsubscribe"]
  /\ arg' = [arg EXCEPT ![t] = h]
  /\ UNCHANGED <<listVars, lockVars, received, history>>

\* The write-locked part of MsgSubscriptions.unsubscribe(H).
DoUnsubscribe(t) ==
  /\ pc[t] = "unsubscribe"
  /\ CanWrite
  /\ Unlink(arg[t])
  /\ pc' = [pc EXCEPT ![t] = "idle"]
  /\ arg' = [arg EXCEPT ![t] = None]
  /\ UNCHANGED <<flag, lockVars, received, history>>

\* unsubscribeAll() takes the write lock and keeps it while it walks.
UnsubscribeAll(t) ==
  /\ pc[t] = "idle"
  /\ CanWrite
  /\ writer' = t
  /\ pc' = [pc EXCEPT ![t] = "unsubscribeAll"]
  /\ arg' = [arg EXCEPT ![t] = first]
  /\ UNCHANGED <<listVars, flag, readers, received, history>>

\* Mutant: the next handle is looked up after the current one was removed.
UnsubscribeAllStepLate(t) ==
  /\ pc[t] = "unsubscribeAll"
  /\ arg[t] # None
  /\ LET h == arg[t]
     IN  /\ flag' = [flag EXCEPT ![h] = TRUE]
         /\ IF flag[h] THEN UNCHANGED listVars ELSE Unlink(h)
         /\ arg' = [arg EXCEPT ![t] = next'[h]]
  /\ UNCHANGED <<lockVars, pc, received, history>>

\* One turn of the loop: the next handle is saved, then the current one is
\* unsubscribed unless another thread has set its flag already.
UnsubscribeAllStep(t) ==
  /\ pc[t] = "unsubscribeAll"
  /\ arg[t] # None
  /\ LET h == arg[t]
     IN  /\ arg' = [arg EXCEPT ![t] = next[h]]
         /\ flag' = [flag EXCEPT ![h] = TRUE]
         /\ IF flag[h] THEN UNCHANGED listVars ELSE Unlink(h)
  /\ UNCHANGED <<lockVars, pc, received, history>>

\* Mutant: the lock is not released.
UnsubscribeAllEndLocked(t) ==
  /\ pc[t] = "unsubscribeAll"
  /\ arg[t] = None
  /\ pc' = [pc EXCEPT ![t] = "idle"]
  /\ UNCHANGED <<listVars, flag, lockVars, arg, received, history>>

UnsubscribeAllEnd(t) ==
  /\ pc[t] = "unsubscribeAll"
  /\ arg[t] = None
  /\ writer' = None
  /\ pc' = [pc EXCEPT ![t] = "idle"]
  /\ UNCHANGED <<listVars, flag, readers, arg, received, history>>

\* sendMessage() takes the read lock and starts from the first handle.
Send(t) ==
  /\ pc[t] = "idle"
  /\ CanRead
  /\ readers' = readers \cup {t}
  /\ pc' = [pc EXCEPT ![t] = "send"]
  /\ arg' = [arg EXCEPT ![t] = first]
  /\ received' = [received EXCEPT ![t] = {}]
  /\ UNCHANGED <<listVars, flag, writer, history>>

Deliver(t) ==
  /\ pc[t] = "send"
  /\ arg[t] # None
  /\ received' = [received EXCEPT ![t] = @ \cup {arg[t]}]
  /\ arg' = [arg EXCEPT ![t] = next[arg[t]]]
  /\ UNCHANGED <<listVars, flag, lockVars, pc, history>>

SendEnd(t) ==
  /\ pc[t] = "send"
  /\ arg[t] = None
  /\ readers' = readers \ {t}
  /\ pc' = [pc EXCEPT ![t] = "idle"]
  /\ UNCHANGED <<listVars, flag, writer, arg, received, history>>

\* A consumer that throws ends sendMessage(): the rest of the list is not served.
DeliverFails(t) ==
  /\ pc[t] = "send"
  /\ arg[t] \in Faulty
  /\ readers' = readers \ {t}
  /\ pc' = [pc EXCEPT ![t] = "idle"]
  /\ arg' = [arg EXCEPT ![t] = None]
  /\ UNCHANGED <<listVars, flag, writer, received, history>>

Next ==
  \E t \in Thread :
    \/ \E h \in Handle : Subscribe(t, h) \/ Unsubscribe(t, h)
    \/ DoSubscribe(t)
    \/ DoUnsubscribe(t)
    \/ UnsubscribeAll(t)
    \/ UnsubscribeAllStep(t)
    \/ UnsubscribeAllEnd(t)
    \/ Send(t)
    \/ Deliver(t)
    \/ SendEnd(t)
    \/ DeliverFails(t)

\* A call that was started goes on; a thread that waits for the write lock
\* gets it, as the lock lets no new reader pass a waiting writer.
Fairness ==
  \A t \in Thread :
    /\ WF_vars(Deliver(t) \/ SendEnd(t))
    /\ WF_vars(UnsubscribeAllStep(t) \/ UnsubscribeAllEnd(t))
    /\ SF_vars(DoSubscribe(t) \/ DoUnsubscribe(t))

Spec == Init /\ [][Next]_vars

FairSpec == Spec /\ Fairness

-----------------------------------------------------------------------------
(* Properties *)

\* Every variable has its type.
TypeOK ==
  /\ first \in Handle \cup {None}
  /\ last \in Handle \cup {None}
  /\ prev \in [Handle -> Handle \cup {None}]
  /\ next \in [Handle -> Handle \cup {None}]
  /\ flag \in [Handle -> BOOLEAN]
  /\ stage \in [Handle -> {"new", "linked", "unlinked"}]
  /\ opened \in BOOLEAN /\ thrown \in BOOLEAN
  /\ writer \in Thread \cup {None}
  /\ readers \in SUBSET Thread
  /\ pc \in [Thread -> {"idle", "subscribe", "unsubscribe",
                        "unsubscribeAll", "send"}]
  /\ arg \in [Thread -> Handle \cup {None}]
  /\ received \in [Thread -> SUBSET Handle]
  /\ ticket \in [Handle -> Nat]
  /\ tickets \in Nat

\* The handles linked before handle h, or all of them before the list's end.
Before(h) == {k \in Linked : h = None \/ ticket[k] < ticket[h]}

\* The list holds the linked handles and no other: its ends are linked or
\* absent, links are mutual and never lead out of it.
LinksMutual ==
  /\ first = None <=> last = None
  /\ first # None => first \in Linked /\ prev[first] = None
  /\ last # None => last \in Linked /\ next[last] = None
  /\ \A h \in Linked :
       /\ prev[h] = None <=> h = first
       /\ next[h] = None <=> h = last
       /\ prev[h] # None => prev[h] \in Linked /\ next[prev[h]] = h
       /\ next[h] # None => next[h] \in Linked /\ prev[next[h]] = h
  /\ \A h \in Handle \ Linked : prev[h] = None /\ next[h] = None

\* The list is in the order of subscription and skips nobody: between a
\* handle and the next one no other handle was subscribed.
ListOrdered ==
  /\ \A h, k \in Linked : ticket[h] = ticket[k] => h = k
  /\ \A h \in Linked : first # None /\ ticket[first] <= ticket[h]
  /\ \A h \in Linked : last # None /\ ticket[h] <= ticket[last]
  /\ \A h \in Linked : next[h] # None =>
       /\ ticket[h] < ticket[next[h]]
       /\ \A k \in Linked : ticket[k] <= ticket[h] \/ ticket[next[h]] <= ticket[k]

\* The structure of the list survives every interleaving of subscribe(),
\* unsubscribe() and unsubscribeAll().
ListIntegrity == LinksMutual /\ ListOrdered

\* sendMessage() hands the message over in the order of subscription: what a
\* sender has delivered is what is linked before the handle it is to serve.
DeliveryInOrder ==
  \A t \in Thread : pc[t] = "send" => received[t] = Before(arg[t])

\* When sendMessage() returns, every handle of the list got the message once,
\* and no handle got it whose unsubscribe() had returned.
EveryConsumerServed ==
  [][\A t \in Thread :
       /\ SendEnd(t) => received[t] = Linked
       /\ Deliver(t) => arg[t] \in Linked \ received[t]]_vars

\* When unsubscribeAll() returns, a handle is left in the list only if another
\* thread is already unsubscribing it.
AllUnsubscribed ==
  [][\A t \in Thread : UnsubscribeAllEnd(t) =>
       \A h \in Linked : \E u \in Thread : pc[u] = "unsubscribe" /\ arg[u] = h]_vars

\* The service of a list runs exactly while it has a subscriber, until a
\* subscription that starts or stops it throws.
ServiceFollowsList == ~thrown => (opened <=> first # None)

\* A started call returns, whatever the other threads go on doing.
CallsReturn == \A t \in Thread : pc[t] # "idle" ~> pc[t] = "idle"

=============================================================================
