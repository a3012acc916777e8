------------------------ MODULE SingleThreadExecutor ------------------------
(***************************************************************************)
(* SingleThreadExecutor: tasks that run one after another in a thread of   *)
(* their own.  An HTTP client of the collector's server sends its messages *)
(* by one.                                                                 *)
(*                                                                         *)
(* Clients submit tasks to a bounded queue, waiting for room, or offer     *)
(* them, not waiting; any of them may shut the executor down.  The flag is *)
(* read before the queue is touched and shutdown() takes four steps, so a  *)
(* task may enter the queue of an executor that has been shut down.        *)
(***************************************************************************)
EXTENDS Naturals, Sequences, Functions

CONSTANTS
  Client,    \* threads that use the executor
  Task,      \* the tasks they may submit, each once
  Capacity,  \* of the queue
  Stop       \* the poison pill

ASSUME StopAssumption == Stop \notin Task
ASSUME CapacityAssumption == Capacity \in Nat \ {0}

VARIABLES
  tasks,        \* the queue
  shutdown,     \* the volatile flag
  pc,           \* what each client does
  arg,          \* the task it does it with, or Stop
  interrupt,    \* whether it is to interrupt the worker
  worker,       \* "take", "run" or "stopped"
  running,      \* the task that runs, or Stop
  interrupted,  \* the worker's interrupt status
  accepted,     \* history: the tasks whose submission succeeded
  late,         \* history: those of them queued after the flag was set
  ran,          \* history: the tasks that were run
  cleared,      \* history: whether a shutdown has emptied the queue
  refused       \* history: whether the queue had no room for the poison pill

clientVars == <<pc, arg, interrupt>>
workerVars == <<worker, running, interrupted>>
history == <<accepted, late, ran, cleared, refused>>
exVars == <<tasks, shutdown, clientVars, workerVars, history>>

ExInit ==
  /\ tasks = <<>>
  /\ shutdown = FALSE
  /\ pc = [c \in Client |-> "idle"]
  /\ arg = [c \in Client |-> Stop]
  /\ interrupt = [c \in Client |-> FALSE]
  /\ worker = "take"
  /\ running = Stop
  /\ interrupted = FALSE
  /\ accepted = {} /\ late = {} /\ ran = {}
  /\ cleared = FALSE /\ refused = FALSE

Fresh(k) == k \notin accepted /\ \A c \in Client : arg[c] # k

Becomes(c, state) == pc' = [pc EXCEPT ![c] = state]

Enqueue(k) ==
  /\ tasks' = Append(tasks, k)
  /\ accepted' = accepted \cup {k}
  /\ late' = IF shutdown THEN late \cup {k} ELSE late

-----------------------------------------------------------------------------
(* Clients *)

\* submit() and offer() read the flag first.
Begin(c, k, call) ==
  /\ pc[c] = "idle" /\ Fresh(k)
  /\ ~shutdown
  /\ Becomes(c, call)
  /\ arg' = [arg EXCEPT ![c] = k]
  /\ UNCHANGED <<tasks, shutdown, interrupt, workerVars, history>>

\* submit() waits for room.
Put(c) ==
  /\ pc[c] = "submit"
  /\ Len(tasks) < Capacity
  /\ Enqueue(arg[c])
  /\ Becomes(c, "idle")
  /\ arg' = [arg EXCEPT ![c] = Stop]
  /\ UNCHANGED <<shutdown, interrupt, workerVars, ran, cleared, refused>>

\* offer() fails when there is none.
OfferTask(c) ==
  /\ pc[c] = "offer"
  /\ IF Len(tasks) < Capacity
       THEN Enqueue(arg[c])
       ELSE UNCHANGED <<tasks, accepted, late>>
  /\ Becomes(c, "idle")
  /\ arg' = [arg EXCEPT ![c] = Stop]
  /\ UNCHANGED <<shutdown, interrupt, workerVars, ran, cleared, refused>>

\* shutdown(interrupt) does nothing when the flag is set.
Shutdown(c, i) ==
  /\ pc[c] = "idle"
  /\ ~shutdown
  /\ Becomes(c, "mark")
  /\ interrupt' = [interrupt EXCEPT ![c] = i]
  /\ UNCHANGED <<tasks, shutdown, arg, workerVars, history>>

Mark(c) ==
  /\ pc[c] = "mark"
  /\ shutdown' = TRUE
  /\ Becomes(c, "clear")
  /\ UNCHANGED <<tasks, arg, interrupt, workerVars, history>>

\* Mutant: the queue is left as it is.
ClearNothing(c) ==
  /\ pc[c] = "clear"
  /\ cleared' = TRUE
  /\ Becomes(c, "stop")
  /\ UNCHANGED <<tasks, shutdown, arg, interrupt, workerVars, accepted, late, ran,
                 refused>>

Clear(c) ==
  /\ pc[c] = "clear"
  /\ tasks' = <<>>
  /\ cleared' = TRUE
  /\ Becomes(c, "stop")
  /\ UNCHANGED <<shutdown, arg, interrupt, workerVars, accepted, late, ran,
                 refused>>

\* Mutant: a worker that is to be interrupted gets no poison pill.
AddStopOrInterrupt(c) ==
  /\ pc[c] = "stop"
  /\ IF interrupt[c]
       THEN Becomes(c, "interrupt") /\ UNCHANGED tasks
       ELSE Becomes(c, "idle") /\ tasks' = Append(tasks, Stop)
  /\ UNCHANGED <<shutdown, arg, interrupt, workerVars, history>>

\* add() throws when late tasks have filled the queue again.
AddStop(c) ==
  /\ pc[c] = "stop"
  /\ IF Len(tasks) < Capacity
       THEN /\ tasks' = Append(tasks, Stop)
            /\ Becomes(c, IF interrupt[c] THEN "interrupt" ELSE "idle")
            /\ UNCHANGED refused
       ELSE /\ refused' = TRUE
            /\ Becomes(c, "idle")
            /\ UNCHANGED tasks
  /\ UNCHANGED <<shutdown, arg, interrupt, workerVars, accepted, late, ran, cleared>>

Interrupt(c) ==
  /\ pc[c] = "interrupt"
  /\ interrupted' = (worker # "stopped")
  /\ Becomes(c, "idle")
  /\ UNCHANGED <<tasks, shutdown, arg, interrupt, worker, running, history>>

-----------------------------------------------------------------------------
(* The worker: runTasks() *)

Take ==
  /\ worker = "take" /\ ~interrupted
  /\ tasks # <<>>
  /\ tasks' = Tail(tasks)
  /\ running' = Head(tasks)
  /\ worker' = IF Head(tasks) = Stop THEN "stopped" ELSE "run"
  /\ UNCHANGED <<shutdown, clientVars, interrupted, history>>

\* take() throws InterruptedException.
TakeInterrupted ==
  /\ worker = "take" /\ interrupted
  /\ worker' = "stopped"
  /\ interrupted' = FALSE
  /\ UNCHANGED <<tasks, shutdown, clientVars, running, history>>

\* Mutant: a task that throws ends the worker.
TaskEndsWorker ==
  /\ worker = "run"
  /\ worker' \in {"take", "stopped"}
  /\ ran' = ran \cup {running}
  /\ running' = Stop
  /\ interrupted' \in {interrupted, FALSE}
  /\ UNCHANGED <<tasks, shutdown, clientVars, accepted, late, cleared, refused>>

\* A task returns or throws; it may have consumed the interrupt.
TaskEnds ==
  /\ worker = "run"
  /\ worker' = "take"
  /\ ran' = ran \cup {running}
  /\ running' = Stop
  /\ interrupted' \in {interrupted, FALSE}
  /\ UNCHANGED <<tasks, shutdown, clientVars, accepted, late, cleared, refused>>

\* Nothing more is to happen: the worker has stopped and no call waits.
Done ==
  /\ worker = "stopped"
  /\ \A c \in Client : pc[c] = "idle"
  /\ UNCHANGED exVars

Close(c) == Mark(c) \/ Clear(c) \/ AddStop(c) \/ Interrupt(c)

Work == Take \/ TakeInterrupted \/ TaskEnds

ExNext ==
  \/ \E c \in Client :
       \/ \E k \in Task, call \in {"submit", "offer"} : Begin(c, k, call)
       \/ Put(c)
       \/ OfferTask(c)
       \/ \E i \in BOOLEAN : Shutdown(c, i)
       \/ Close(c)
  \/ Work
  \/ Done

ExSpec == ExInit /\ [][ExNext]_exVars

\* The worker works, a started shutdown goes on, and a waiting submitter gets
\* room when there is some again and again.
ExFairness ==
  /\ WF_exVars(Work)
  /\ \A c \in Client : WF_exVars(Close(c)) /\ WF_exVars(OfferTask(c)) /\ SF_exVars(Put(c))

ExFairSpec == ExSpec /\ ExFairness

-----------------------------------------------------------------------------
(* Properties *)

\* Every variable has its type.
ExTypeOK ==
  /\ tasks \in Seq(Task \cup {Stop})
  /\ shutdown \in BOOLEAN
  /\ pc \in [Client -> {"idle", "submit", "offer", "mark", "clear", "stop", "interrupt"}]
  /\ arg \in [Client -> Task \cup {Stop}]
  /\ interrupt \in [Client -> BOOLEAN]
  /\ worker \in {"take", "run", "stopped"}
  /\ running \in Task \cup {Stop}
  /\ interrupted \in BOOLEAN
  /\ accepted \subseteq Task /\ late \subseteq Task /\ ran \subseteq Task
  /\ cleared \in BOOLEAN /\ refused \in BOOLEAN

\* A task is left in the queue of a stopped executor only when it entered it
\* after the executor was shut down: those before it are run or discarded.
OnlyLateTasksStranded ==
  worker = "stopped" => Range(tasks) \ {Stop} \subseteq late

\* The worker stops in the end once the executor is shut down, unless late
\* tasks left no room for the poison pill.
WorkerStops == shutdown ~> worker = "stopped" \/ refused

\* An accepted task is run in the end, or the executor is shut down.
TasksRun == \A k \in Task : k \in accepted ~> k \in ran \/ shutdown
=============================================================================
