------------------------------- MODULE Promise -------------------------------
(***************************************************************************)
(* What a promise promises ($q of angular.js): it is settled at most once, *)
(* and who asks for its outcome is told it once, when it is settled.       *)
(***************************************************************************)
EXTENDS Integers, FiniteSets

CONSTANT Deferreds

VARIABLES outcome,  \* of each promise: "none", "ok" or "no"
          after,    \* the promise another one was made from by then(), or 0
          heard     \* the outcome that was told to who asked by it

promiseVars == <<outcome, after, heard>>

Init ==
  /\ outcome = [d \in Deferreds |-> "none"]
  /\ after = [d \in Deferreds |-> 0]
  /\ heard = [d \in Deferreds |-> "none"]

\* Promises that wait for each other are settled together.
Settle ==
  /\ \E o \in {"ok", "no"} :
       outcome' \in [Deferreds -> {"none", "ok", "no"}]
       /\ \A d \in Deferreds : outcome'[d] \in {outcome[d], o}
  /\ \A d \in Deferreds : outcome[d] # "none" => outcome'[d] = outcome[d]

Then(p, c) == after[c] = 0 /\ outcome[c] = "none" /\ after' = [after EXCEPT ![c] = p]

Tell(c) ==
  /\ after[c] # 0 /\ heard[c] = "none"
  /\ outcome[after[c]] # "none"
  /\ heard' = [heard EXCEPT ![c] = outcome[after[c]]]

Next ==
  \/ Settle /\ UNCHANGED <<after, heard>>
  \/ \E c \in Deferreds : Tell(c) /\ (Settle \/ UNCHANGED outcome) /\ UNCHANGED after
  \/ \E p, c \in Deferreds : Then(p, c) /\ UNCHANGED <<outcome, heard>>

Spec == Init /\ [][Next]_promiseVars
===============================================================================
