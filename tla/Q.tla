----------------------------------- MODULE Q -----------------------------------
(***************************************************************************)
(* Promises of angular.js ($q).  A deferred keeps a list of callbacks until *)
(* it is resolved, with a value, a rejection or another promise that it     *)
(* then stands for.  Callbacks are called in later ticks (expressions of    *)
(* the root scope, evaluated by a digest); each one resolves the deferred   *)
(* its then() has made.                                                     *)
(***************************************************************************)
EXTENDS Integers, Sequences, FiniteSets, SequencesExt

CONSTANT MaxDeferreds

VARIABLES deferreds, \* state, value and pending callbacks of each deferred
          ticks,     \* functions given to nextTick()
          after, heard, told

qVars == <<deferreds, ticks, after, heard, told>>

Deferreds == 1 .. MaxDeferreds
Ok == 0
No == -1 \* a rejection

Free == {d \in Deferreds : deferreds[d].state = "free"}
NextFree == CHOOSE d \in Free : \A e \in Free : d <= e
Used == Deferreds \ Free

QInit ==
  /\ deferreds = [d \in Deferreds |-> [state |-> "free", value |-> Ok, pending |-> <<>>,
                                     of |-> {}, left |-> 0]]
  /\ ticks = <<>>
  /\ after = [d \in Deferreds |-> 0]
  /\ heard = [d \in Deferreds |-> "none"]
  /\ told = <<>>

\* The promise that d stands for in the end: itself while it is pending.
RECURSIVE Follow(_)
Follow(v) == IF v \in Deferreds /\ deferreds[v].state = "done" THEN Follow(deferreds[v].value) ELSE v

\* A deferred is not resolved with a promise that waits for it.
Returned(c) == {Ok, No} \cup {p \in Used : Follow(p) # c /\ p # c}

\* value.then(): a value calls back in a tick of its own, a promise keeps the callback or
\* passes it on to what it was resolved with.  b are the deferreds and the ticks.
RECURSIVE Attach(_, _, _)
Attach(b, v, callback) ==
  IF v \notin Deferreds
  THEN [b EXCEPT !.ticks = Append(@, [call |-> <<callback>>, value |-> v, now |-> TRUE])]
  ELSE IF b.deferreds[v].state = "pending"
  THEN [b EXCEPT !.deferreds[v].pending = Append(@, callback)]
  ELSE Attach(b, b.deferreds[v].value, callback)

\* Mutant: a deferred can be resolved again.
ResolvedAgain(b, d, v) ==
  [b EXCEPT !.deferreds[d].state = "done", !.deferreds[d].value = v, !.deferreds[d].pending = <<>>,
            !.ticks = Append(@, [call |-> b.deferreds[d].pending, value |-> v, now |-> FALSE])]

\* deferred.resolve(): the callbacks are passed on in the next tick.
Resolved(b, d, v) ==
  IF b.deferreds[d].state # "pending" THEN b
  ELSE [b EXCEPT !.deferreds[d].state = "done", !.deferreds[d].value = v,
                 !.deferreds[d].pending = <<>>,
                 !.ticks = IF b.deferreds[d].pending = <<>> THEN @
                           ELSE Append(@, [call |-> b.deferreds[d].pending, value |-> v, now |-> FALSE])]

Both == [deferreds |-> deferreds, ticks |-> ticks]
Become(b) == deferreds' = b.deferreds /\ ticks' = b.ticks

\* A new deferred, of the promises all() counts.
Made(b, d, of) == [b EXCEPT !.deferreds[d] = [@ EXCEPT !.state = "pending", !.of = of,
                                                       !.left = Cardinality(of)]]

\* $q.defer()
Defer ==
  /\ Free # {}
  /\ Become(Made(Both, NextFree, {}))
  /\ UNCHANGED <<after, heard, told>>

\* resolve() and reject(), called by whoever made the deferred, once or more often.
Resolve(d, v) ==
  /\ deferreds[d].state = "pending" \/ (deferreds[d].state = "done" /\ v = No)
  /\ after[d] = 0 /\ deferreds[d].of = {} /\ v \in Returned(d)
  /\ Become(Resolved(Both, d, v))
  /\ UNCHANGED <<after, heard, told>>

\* promise.then()
Then(p) ==
  /\ Free # {} /\ p \in Used
  /\ Become(Attach(Made(Both, NextFree, {}), p,
                   [kind |-> "then", to |-> NextFree, early |-> deferreds[p].state = "pending"]))
  /\ after' = [after EXCEPT ![NextFree] = p]
  /\ UNCHANGED <<heard, told>>

\* $q.all() of two promises
All(p, r) ==
  LET callback == [kind |-> "all", to |-> NextFree, early |-> FALSE] IN
  /\ Free # {} /\ p \in Used /\ r \in Used /\ p # r
  /\ Become(Attach(Attach(Made(Both, NextFree, {p, r}), p, callback), r, callback))
  /\ UNCHANGED <<after, heard, told>>

\* Callbacks that were passed on: each is attached to what the deferred was resolved with.
RECURSIVE AttachAll(_, _, _)
AttachAll(b, v, callbacks) ==
  IF callbacks = <<>> THEN b
  ELSE AttachAll(Attach(b, v, Head(callbacks)), v, Tail(callbacks))

Ticked == [Both EXCEPT !.ticks = Tail(@)]

PassOn ==
  /\ ticks # <<>> /\ ~Head(ticks).now
  /\ Become(AttachAll(Ticked, Head(ticks).value, Head(ticks).call))
  /\ UNCHANGED <<after, heard, told>>

\* Mutant: all() is resolved by the first one of its promises.
AllCountedOnce(d) == Resolved(Ticked, d, Ok)

\* all() counts its promises.
AllCounted(d) ==
  LET counted == [Ticked EXCEPT !.deferreds[d].left = @ - 1] IN
  IF deferreds[d].left = 1 THEN Resolved(counted, d, Ok) ELSE counted

\* A callback is called; then() resolves its deferred with what it returns, throws or, when
\* there is none, with the outcome itself.
CallBack ==
  LET job == Head(ticks)
      c == job.call[1]
  IN
  /\ ticks # <<>> /\ job.now
  /\ IF c.kind = "all"
     THEN /\ Become(IF job.value = No THEN Resolved(Ticked, c.to, No) ELSE AllCounted(c.to))
          /\ UNCHANGED <<heard, told>>
     ELSE /\ \E v \in Returned(c.to) : Become(Resolved(Ticked, c.to, v))
          /\ heard' = [heard EXCEPT ![c.to] = IF job.value = No THEN "no" ELSE "ok"]
          /\ told' = Append(told, c)
  /\ UNCHANGED after

QNext ==
  \/ Defer
  \/ \E d \in Deferreds, v \in -1 .. MaxDeferreds : Resolve(d, v)
  \/ \E p \in Deferreds : Then(p)
  \/ \E p, r \in Deferreds : All(p, r)
  \/ PassOn \/ CallBack

QSpec == QInit /\ [][QNext]_qVars

-----------------------------------------------------------------------------
(* Properties *)

\* Type correctness of the deferreds and the ticks.
QTypeOK ==
  /\ \A d \in Deferreds : /\ deferreds[d].state \in {"free", "pending", "done"}
                          /\ deferreds[d].value \in -1 .. MaxDeferreds
                          /\ deferreds[d].left \in 0 .. 2
  /\ heard \in [Deferreds -> {"none", "ok", "no"}]

Outcome(d) == LET v == Follow(d) IN IF v = Ok THEN "ok" ELSE IF v = No THEN "no" ELSE "none"

Promised == INSTANCE Promise WITH outcome <- [d \in Deferreds |-> Outcome(d)]

\* Deferreds, ticks and promises that stand for others implement the promise: nothing is
\* settled twice, and a callback is called once, with the outcome, never before it.
ImplementsPromise == Promised!Spec

\* When no tick is left, everybody has been told what is known; all() is settled when its
\* promises are, by the first one that fails or by the last one.
NobodyWaits ==
  \A c \in Deferreds :
    LET of == deferreds[c].of
        all == {Outcome(d) : d \in of}
    IN
    /\ ticks = <<>> /\ after[c] # 0 /\ Outcome(after[c]) # "none" => heard[c] # "none"
    /\ of # {} => /\ Outcome(c) = "ok" => all = {"ok"}
                  /\ Outcome(c) = "no" => "no" \in all
                  /\ ticks = <<>> /\ Outcome(c) = "none" => "none" \in all /\ "no" \notin all

\* Callbacks that were given before a promise was resolved are called in their order.
\* (One that is given between the resolution and its tick overtakes them.)
CalledInOrder ==
  \A i, j \in DOMAIN told :
    told[i].early /\ told[j].early /\ after[told[i].to] = after[told[j].to] /\ i < j
      => told[i].to < told[j].to
===============================================================================
