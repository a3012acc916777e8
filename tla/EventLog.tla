------------------------------ MODULE EventLog ------------------------------
(***************************************************************************)
(* What the log of tag events promises to those who replay it: TagLog and  *)
(* CyclicLogReader without the ring, the locks and the binary search.      *)
(*                                                                         *)
(* Events are numbered from 1 and the log keeps the latest of them.  A     *)
(* reader gets every event from the one it seeks, or from the oldest kept, *)
(* in order and once, and is exhausted exactly with the last one; the      *)
(* writer waits rather than drop an event that a reader is to get.  An     *)
(* event that is not logged when the search for it begins is not found,    *)
(* even if it is logged meanwhile.                                         *)
(* CyclicLog is shown to implement this for one reader of a log that keeps *)
(* its size, and LogConsumer is built on it.                               *)
(***************************************************************************)
EXTENDS Integers

CONSTANTS
  Reader,    \* readers of the log
  Capacity,  \* the maximum number of events kept
  From,      \* the identifiers the readers seek
  MaxId      \* bound: events logged

VARIABLES
  logged,  \* the number of events logged, and the identifier of the last one
  phase,   \* what each reader does
  due      \* the event each reader has to return next

vars == <<logged, phase, due>>

\* The oldest event kept.
Oldest == IF logged < Capacity THEN 1 ELSE logged - Capacity + 1

Init ==
  /\ logged = 0
  /\ phase = [r \in Reader |-> "new"]
  /\ due = [r \in Reader |-> 0]

\* TagLog.log(): the event overwrites the one Capacity before it.  A reader that
\* seeks in an empty log locks all of it.
Append ==
  /\ logged < MaxId
  /\ \A r \in Reader :
       /\ phase[r] \in {"seeking", "reading"} => due[r] > logged + 1 - Capacity
       /\ phase[r] = "ahead" => logged > 0
  /\ logged' = logged + 1
  /\ UNCHANGED <<phase, due>>

\* seek() locks the events it searches; the oldest is left out when its record
\* is the last one of the file.  The reader is ahead of the log when the event
\* is not logged yet.
Seek(r, id) ==
  /\ phase[r] = "new"
  /\ \E oldest \in {Oldest} \cup ({Oldest + 1} \cap 1 .. logged) :
       due' = [due EXCEPT ![r] = IF id >= oldest THEN id ELSE oldest]
  /\ phase' = [phase EXCEPT ![r] = IF due'[r] <= logged THEN "seeking" ELSE "ahead"]
  /\ UNCHANGED logged

\* seek() returns true.
Found(r) ==
  /\ phase[r] = "seeking"
  /\ phase' = [phase EXCEPT ![r] = "reading"]
  /\ UNCHANGED <<logged, due>>

\* seek() returns false and the reader is exhausted: the events it searched are
\* older, and those logged meanwhile were not looked at.
NotFound(r) ==
  /\ phase[r] = "ahead"
  /\ phase' = [phase EXCEPT ![r] = "exhausted"]
  /\ UNCHANGED <<logged, due>>

\* seek() returns false and nobody is told: events were logged meanwhile.
Starve(r) ==
  /\ phase[r] = "ahead"
  /\ logged > 0
  /\ phase' = [phase EXCEPT ![r] = "starved"]
  /\ UNCHANGED <<logged, due>>

\* pull() returns the due event, the last one when the reader is exhausted.
Pull(r) ==
  /\ phase[r] = "reading"
  /\ due[r] <= logged
  /\ due' = [due EXCEPT ![r] = @ + 1]
  /\ phase' = [phase EXCEPT ![r] = IF due[r] = logged THEN "exhausted" ELSE "reading"]
  /\ UNCHANGED logged

\* The client closes its reader: nothing is kept for it any longer.
Close(r) ==
  /\ phase[r] \in {"reading", "starved"}
  /\ phase' = [phase EXCEPT ![r] = "closed"]
  /\ UNCHANGED <<logged, due>>

Next ==
  \/ Append
  \/ \E r \in Reader :
       \/ \E id \in From : Seek(r, id)
       \/ Found(r)
       \/ NotFound(r)
       \/ Starve(r)
       \/ Pull(r)
       \/ Close(r)

Spec == Init /\ [][Next]_vars
=============================================================================
