---------------------------- MODULE MCCyclicLog ----------------------------
(* Instances of CyclicLog for TLC. *)
EXTENDS CyclicLog

\* The slot before p round the ring.
Before(p) == IF p = 0 THEN Size - 1 ELSE p - 1

\* All records that the search of r began with are older than it wants.
Ahead(r) ==
  \/ rpc[r] = "failed"
  \/ rpc[r] = "search" /\ search[r].greater < 0 /\ Slot(Before(search[r].end)) < from[r]

\* What a reader of the log does, in the words of EventLog.
Phase(r) ==
  CASE Ahead(r) -> "ahead"
    [] ~Ahead(r) /\ rpc[r] \in {"search", "found"} -> "seeking"
    [] rpc[r] \in {"pull", "check"} -> "reading"
    [] rpc[r] = "notFound" -> "starved"
    [] OTHER -> rpc[r]

Promise == INSTANCE EventLog WITH
  Capacity <- FirstSize,
  logged <- Logged,
  phase <- [r \in Reader |-> Phase(r)]

\* The ring, its locks and the binary search implement the log of EventLog:
\* readers get every event from the one sought on, in order and once, and are
\* exhausted exactly when they returned the last one.
ImplementsEventLog == Promise!Spec
=============================================================================
