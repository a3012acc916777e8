---------------------------- MODULE LogConsumer ----------------------------
(***************************************************************************)
(* One subscriber to the tag events of a logged reader: LogConsumer between*)
(* the log (EventLog) and the threads that log and dispatch new events     *)
(* (LogRfTarget.logTag).                                                   *)
(*                                                                         *)
(* The subscriber names the last event it knows.  A sender thread replays  *)
(* the later ones from the log while new events are dropped; when the log  *)
(* tells that it is exhausted, the consumer starts to pass new events      *)
(* through.  Logging an event and dispatching it are two steps, and so are *)
(* pulling a record and handing it over.                                   *)
(***************************************************************************)
EXTENDS Integers, Sequences, FiniteSets, Functions

CONSTANTS
  Thread,       \* the threads that report tags
  Sender,       \* the consumer's sender thread, the reader of the log
  Capacity,     \* the number of events the log keeps
  Known,        \* the last events a subscriber may know
  MaxId         \* bound: events logged

ASSUME ThreadAssumption == Sender \notin Thread
ASSUME KnownAssumption == Known \subseteq Nat
ASSUME BoundAssumption == Capacity \in Nat \ {0} /\ MaxId \in Nat

VARIABLES
  logged, phase, due,  \* the log
  pending,      \* the event each thread logged and has yet to dispatch, or 0
  subscription, \* "none", "made" or "revoked"
  lastEventId,  \* the last event the subscriber knows
  sending,      \* whether LogConsumer.sender is set
  passthrough,  \* LogConsumer.passthrough
  hand,         \* the record pulled and yet to be handed over, or 0
  delivered,    \* the events the subscriber received, in order
  replayFrom,   \* history: the first event to replay
  lost          \* history: the events logged and dispatched during a search in vain

Log == INSTANCE EventLog WITH Reader <- {Sender}, From <- Known

logVars == <<logged, phase, due>>
consumerVars == <<subscription, lastEventId, sending, passthrough>>
subscriberVars == <<delivered, replayFrom, lost>>
vars == <<logVars, pending, consumerVars, hand, subscriberVars>>

Init ==
  /\ Log!Init
  /\ pending = [t \in Thread |-> 0]
  /\ subscription = "none"
  /\ lastEventId = 0
  /\ sending = FALSE
  /\ passthrough = FALSE
  /\ hand = 0
  /\ delivered = <<>>
  /\ replayFrom = 0
  /\ lost = {}

-----------------------------------------------------------------------------
(* Threads that report tags: LogRfTarget.logTag() *)

\* The event is logged, ...
LogTag(t) ==
  /\ pending[t] = 0
  /\ Log!Append
  /\ pending' = [pending EXCEPT ![t] = logged + 1]
  /\ UNCHANGED <<consumerVars, hand, subscriberVars>>

\* Mutant: new events are passed through during the replay.
DispatchAlways(t) ==
  /\ pending[t] # 0
  /\ pending' = [pending EXCEPT ![t] = 0]
  /\ delivered' = IF subscription = "made" THEN Append(delivered, pending[t]) ELSE delivered
  /\ UNCHANGED <<logVars, consumerVars, hand, replayFrom, lost>>

\* ... and then sent to the subscribers; the consumer drops it unless it passes
\* events through.
Dispatch(t) ==
  /\ pending[t] # 0
  /\ pending' = [pending EXCEPT ![t] = 0]
  /\ delivered' = IF subscription = "made" /\ passthrough
                    THEN Append(delivered, pending[t]) ELSE delivered
  /\ UNCHANGED <<logVars, consumerVars, hand, replayFrom, lost>>

-----------------------------------------------------------------------------
(* The subscriber *)

\* consumerSubscribed() starts the sender.
Subscribe(id) ==
  /\ subscription = "none"
  /\ subscription' = "made"
  /\ lastEventId' = id
  /\ sending' = TRUE
  /\ UNCHANGED <<logVars, pending, passthrough, hand, subscriberVars>>

\* consumerUnsubscribed() asks the sender to stop.
Unsubscribe ==
  /\ subscription = "made"
  /\ subscription' = "revoked"
  /\ sending' = FALSE
  /\ UNCHANGED <<logVars, pending, lastEventId, passthrough, hand, subscriberVars>>

-----------------------------------------------------------------------------
(* The sender thread *)

\* requestMessages(): the filter looks for the event known last.
Seek ==
  /\ subscription # "none"
  /\ Log!Seek(Sender, lastEventId)
  /\ replayFrom' = due'[Sender]
  /\ UNCHANGED <<pending, consumerVars, hand, delivered, lost>>

Found ==
  /\ Log!Found(Sender)
  /\ UNCHANGED <<pending, consumerVars, hand, subscriberVars>>

\* The events that threads have logged and not dispatched yet.
OnTheWay == {pending[t] : t \in Thread}

\* There is nothing to replay: readerExhausted() inside seek().  What was logged
\* during the search and dispatched by now is neither replayed nor passed through.
NotFound ==
  /\ Log!NotFound(Sender)
  /\ passthrough' = TRUE
  /\ sending' = FALSE
  /\ lost' = (due[Sender] .. logged) \ OnTheWay
  /\ UNCHANGED <<pending, subscription, lastEventId, hand, delivered, replayFrom>>

\* Events were logged during the search: the sender ends and nothing is ever
\* passed through.
Starve ==
  /\ Log!Starve(Sender)
  /\ UNCHANGED <<pending, consumerVars, hand, subscriberVars>>

\* sendMessages(): the next record, and readerExhausted() with the last one.
Pull ==
  /\ sending /\ hand = 0
  /\ Log!Pull(Sender)
  /\ hand' = due[Sender]
  /\ IF phase'[Sender] = "exhausted"
       THEN passthrough' = TRUE /\ sending' = FALSE
       ELSE UNCHANGED <<passthrough, sending>>
  /\ UNCHANGED <<pending, subscription, lastEventId, subscriberVars>>

\* Mutant: the sender is checked after the record was pulled.
HandOverWhileSending ==
  /\ hand # 0
  /\ delivered' = IF sending THEN Append(delivered, hand) ELSE delivered
  /\ hand' = 0
  /\ UNCHANGED <<logVars, pending, consumerVars, replayFrom, lost>>

\* The record is handed over, to a subscriber that may have left meanwhile.
HandOver ==
  /\ hand # 0
  /\ delivered' = Append(delivered, hand)
  /\ hand' = 0
  /\ UNCHANGED <<logVars, pending, consumerVars, replayFrom, lost>>

\* Mutant: the sender that was asked to stop returns and leaves its reader open.
StopWithoutClose ==
  /\ hand = 0
  /\ \/ /\ phase[Sender] = "starved"
        /\ Log!Close(Sender)
     \/ /\ ~sending
        /\ UNCHANGED logVars
  /\ UNCHANGED <<pending, consumerVars, hand, subscriberVars>>

\* The sender that was asked to stop, or was starved, closes its reader.
StopSending ==
  /\ hand = 0
  /\ phase[Sender] = "starved" \/ ~sending
  /\ Log!Close(Sender)
  /\ UNCHANGED <<pending, consumerVars, hand, subscriberVars>>

\* A failure to read is reported and new events are passed through.
ReadFails ==
  /\ sending /\ hand = 0
  /\ phase[Sender] = "reading"
  /\ Log!Close(Sender)
  /\ passthrough' = TRUE
  /\ UNCHANGED <<pending, subscription, lastEventId, sending, hand, subscriberVars>>

\* Nothing more is to happen.
Done ==
  /\ logged = MaxId /\ \A t \in Thread : pending[t] = 0
  /\ subscription = "revoked" /\ hand = 0
  /\ phase[Sender] \in {"exhausted", "closed"}
  /\ UNCHANGED vars

Send == Seek \/ Found \/ NotFound \/ Pull \/ HandOver \/ StopSending

Next ==
  \/ \E t \in Thread : LogTag(t) \/ Dispatch(t)
  \/ \E id \in Known : Subscribe(id)
  \/ Unsubscribe
  \/ Send
  \/ Starve
  \/ ReadFails
  \/ Done

Spec == Init /\ [][Next]_vars

\* The sender goes on and an event that was logged is dispatched.
Fairness == WF_vars(Send) /\ \A t \in Thread : WF_vars(Dispatch(t))

FairSpec == Spec /\ Fairness

-----------------------------------------------------------------------------
(* Properties *)

\* Every variable has its type.
TypeOK ==
  /\ logged \in Nat
  /\ phase \in [{Sender} -> {"new", "seeking", "ahead", "reading", "exhausted", "starved", "closed"}]
  /\ due \in [{Sender} -> Nat]
  /\ pending \in [Thread -> Nat]
  /\ subscription \in {"none", "made", "revoked"}
  /\ lastEventId \in Nat
  /\ sending \in BOOLEAN /\ passthrough \in BOOLEAN
  /\ hand \in Nat /\ replayFrom \in Nat
  /\ delivered \in Seq(Nat)
  /\ lost \subseteq Nat

\* What the subscriber received, is about to receive from the sender or is
\* about to receive from the threads that logged it.
Received == Range(delivered) \cup {hand}

\* No event is lost between the replay and the live events: once a subscriber
\* is passed new events, every event since the first one to replay was
\* received, is in the sender's hand or is yet to be dispatched.  Only one who
\* names an event that is yet to be logged may lose some, from that event on.
\* (A reader that is closed then is one that failed to read.)
NothingLost ==
  subscription = "made" /\ passthrough /\ phase[Sender] # "closed" =>
    /\ \A id \in replayFrom .. logged : id \in Received \cup OnTheWay \cup lost
    /\ lost # {} => replayFrom = lastEventId

\* Until new events are passed through, the subscriber received the replayed
\* ones exactly: from the first one on, in order, none left out.
ReplayIsExact ==
  ~passthrough =>
    \A i \in 1 .. Len(delivered) : delivered[i] = replayFrom + i - 1

\* "The consumer will receive messages with identifiers greater than the
\* lastEventId, in order" (RfCollectorHandle:48-50).
InOrder == \A i, j \in 1 .. Len(delivered) : i < j => delivered[i] < delivered[j]

\* Every event logged since the first one to replay arrives in the end, unless
\* it was lost to a search in vain, or that was starved, or the subscriber left.
EventsArrive ==
  \A id \in 1 .. MaxId :
    subscription = "made" /\ phase[Sender] # "new" /\ replayFrom <= id /\ id <= logged
      ~> \/ id \in Range(delivered) \cup lost
         \/ subscription = "revoked" \/ phase[Sender] \in {"starved", "closed"}

\* A subscriber that leaves gives the log back, at whatever point of the search
\* or of the replay it does: the threads that log would wait for its reader for
\* good (the reader of requestMessages() is closed on every path).
LeaverLetsGo ==
  subscription = "revoked" ~> phase[Sender] \in {"exhausted", "closed"}
=============================================================================
