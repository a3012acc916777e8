-------------------------------- MODULE Scope --------------------------------
(***************************************************************************)
(* The scopes of angular.js ($RootScopeProvider): a tree of scopes, linked *)
(* by head, tail and siblings, each with watchers and expressions to be    *)
(* evaluated soon, and the digest that walks over it until nothing changes *)
(* any more.  What a digest calls - a listener, an expression - may change *)
(* all that it walks over: it sets what is watched, adds and revokes       *)
(* watchers, makes and destroys scopes, or starts a digest within.         *)
(***************************************************************************)
EXTENDS Integers, Sequences, FiniteSets, SequencesExt

CONSTANTS Scopes, Root, NoScope,  \* scopes that are ever made
          Watchers, Watched,      \* watchers and the value each one watches
          Vars, Start,            \* values, and the scope each watcher starts in or NoScope
          TTL,                    \* passes of a digest, but one
          MaxCalls                \* changes that are made by what is called

VARIABLES links,    \* the tree: made, destroyed, parent, head, tail, next and prev
          watchers, \* $$watchers of each scope
          last,     \* what a watcher saw last, -1 (initWatchVal) before it looked
          queue,    \* how many expressions $$asyncQueue of a scope holds
          values,
          phase,    \* $$phase of the root
          digests,  \* the digests that run, the innermost one last
          calls,
          unsettled \* "aborted" when the last digest gave up or lost its way, "async" when
                    \* it evaluated an expression below the root, "no" otherwise

scVars == <<links, watchers, last, queue, values, phase, digests, calls, unsettled>>

Fresh == [made |-> FALSE, destroyed |-> FALSE, parent |-> NoScope, head |-> NoScope,
          tail |-> NoScope, next |-> NoScope, prev |-> NoScope]

\* The links with field f of scope s set to v, if there is such a scope.
Set(l, s, f, v) == IF s = NoScope THEN l ELSE [l EXCEPT ![s][f] = v]

\* $new()
Linked(l, s, c) ==
  LET made == [l EXCEPT ![c] = [Fresh EXCEPT !.made = TRUE, !.parent = s, !.prev = l[s].tail]]
      chained == IF l[s].head # NoScope THEN Set(made, l[s].tail, "next", c)
                 ELSE Set(made, s, "head", c)
  IN Set(chained, s, "tail", c)

\* Mutant: the sibling after the scope still names it.
UnlinkedHalf(l, s) ==
  LET p == l[s].parent
      ends == [l EXCEPT ![p].head = IF @ = s THEN l[s].next ELSE @,
                        ![p].tail = IF @ = s THEN l[s].prev ELSE @]
  IN [Set(ends, l[s].prev, "next", l[s].next) EXCEPT
        ![s] = [Fresh EXCEPT !.made = TRUE, !.destroyed = TRUE]]

\* $destroy(): the scopes below keep their links.
Unlinked(l, s) ==
  LET p == l[s].parent
      ends == [l EXCEPT ![p].head = IF @ = s THEN l[s].next ELSE @,
                        ![p].tail = IF @ = s THEN l[s].prev ELSE @]
      around == Set(Set(ends, l[s].prev, "next", l[s].next), l[s].next, "prev", l[s].prev)
  IN [around EXCEPT ![s] = [Fresh EXCEPT !.made = TRUE, !.destroyed = TRUE]]

Made == {s \in Scopes : links[s].made}
Idle == {w \in Watchers : \A s \in Scopes : ~Contains(watchers[s], w)}

ScInit ==
  /\ links = [s \in Scopes |-> IF s = Root THEN [Fresh EXCEPT !.made = TRUE] ELSE Fresh]
  /\ watchers = [s \in Scopes |-> SetToSeq({w \in Watchers : Start[w] = s})]
  /\ last = [w \in Watchers |-> -1]
  /\ queue = [s \in Scopes |-> 0]
  /\ values = [v \in Vars |-> 0]
  /\ phase = "none" /\ digests = <<>> /\ calls = 0 /\ unsettled = "no"

-----------------------------------------------------------------------------
(* What a listener or an expression does, if anything; ds are the digests it *)
(* leaves running, ls and qs what watchers saw and the expressions to come.  *)

Digest == [current |-> Root, left |-> 0, stage |-> "async", dirty |-> FALSE, ttl |-> TTL]

Quiet(ds, ls, qs) ==
  /\ digests' = ds /\ last' = ls /\ queue' = qs
  /\ UNCHANGED <<links, watchers, values, calls>>

SetValue(ds, ls, qs) ==
  /\ \E v \in Vars : values' = [values EXCEPT ![v] = 1 - @]
  /\ digests' = ds /\ last' = ls /\ queue' = qs
  /\ UNCHANGED <<links, watchers>>

\* $watch(): the watcher is put in front of the others, which are walked from the end.
Watch(ds, ls, qs) ==
  /\ \E s \in Made, w \in Idle :
       /\ watchers' = [watchers EXCEPT ![s] = <<w>> \o @]
       /\ last' = [ls EXCEPT ![w] = -1]
  /\ digests' = ds /\ queue' = qs
  /\ UNCHANGED <<links, values>>

Unwatch(ds, ls, qs) ==
  /\ \E s \in Made : \E w \in ToSet(watchers[s]) :
       watchers' = [watchers EXCEPT ![s] = SelectSeq(@, LAMBDA v : v # w)]
  /\ digests' = ds /\ last' = ls /\ queue' = qs
  /\ UNCHANGED <<links, values>>

New(ds, ls, qs) ==
  /\ \E s \in Made, c \in Scopes \ Made :
       c = (CHOOSE d \in Scopes \ Made : TRUE) /\ links' = Linked(links, s, c)
  /\ digests' = ds /\ last' = ls /\ queue' = qs
  /\ UNCHANGED <<watchers, values>>

Destroy(ds, ls, qs) ==
  /\ \E s \in Made \ {Root} : ~links[s].destroyed /\ links' = Unlinked(links, s)
  /\ digests' = ds /\ last' = ls /\ queue' = qs
  /\ UNCHANGED <<watchers, values>>

EvalAsync(ds, ls, qs) ==
  /\ \E s \in Made : queue' = [qs EXCEPT ![s] = @ + 1]
  /\ digests' = ds /\ last' = ls
  /\ UNCHANGED <<links, watchers, values>>

\* $apply() within a digest: it fails to begin, ends the phase of the outer digest
\* and starts one of its own.
ApplyWithin(ds, ls, qs) ==
  /\ ds # <<>>
  /\ digests' = Append(ds, Digest)
  /\ last' = ls /\ queue' = qs
  /\ UNCHANGED <<links, watchers, values>>

Call(ds, ls, qs) ==
  \/ Quiet(ds, ls, qs)
  \/ /\ calls < MaxCalls /\ calls' = calls + 1
     /\ \/ SetValue(ds, ls, qs) \/ Watch(ds, ls, qs) \/ Unwatch(ds, ls, qs)
        \/ New(ds, ls, qs) \/ Destroy(ds, ls, qs)
        \/ EvalAsync(ds, ls, qs) \/ ApplyWithin(ds, ls, qs)

-----------------------------------------------------------------------------
(* $apply() and $digest() *)

\* An event of the page: when a digest was left in its phase, what the event does is
\* not called; its own digest follows all the same.
Apply ==
  /\ digests = <<>>
  /\ phase = "none" \/ calls < MaxCalls
  /\ IF phase = "none"
     THEN /\ calls < MaxCalls /\ calls' = calls + 1
          /\ \/ SetValue(<<Digest>>, last, queue) \/ Watch(<<Digest>>, last, queue)
             \/ New(<<Digest>>, last, queue) \/ EvalAsync(<<Digest>>, last, queue)
     ELSE /\ digests' = <<Digest>>
          /\ UNCHANGED <<links, watchers, last, queue, values, calls>>
  /\ phase' = "$digest"
  /\ unsettled' = "no"

D == digests[Len(digests)]
With(d) == [digests EXCEPT ![Len(digests)] = d]
Running(stage) == digests # <<>> /\ D.stage = stage

\* Mutant: the walk begins with the watcher after the last one looked at.
FromEndAgain(s) == Len(watchers[s]) - 1

FromEnd(s) == Len(watchers[s])

\* A digest that was started within has the phase now.
PassPhase == phase' = IF Len(digests') > Len(digests) THEN "$digest" ELSE phase

RunAsync ==
  /\ Running("async") /\ queue[D.current] > 0
  /\ Call(digests, last, [queue EXCEPT ![D.current] = @ - 1])
  /\ PassPhase
  /\ unsettled' = IF D.current # Root /\ unsettled = "no" THEN "async" ELSE unsettled

AsyncDone ==
  /\ Running("async") /\ queue[D.current] = 0
  /\ digests' = With([D EXCEPT !.stage = "watch", !.left = FromEnd(D.current)])
  /\ UNCHANGED <<links, watchers, last, queue, values, phase, calls, unsettled>>

\* The next watcher, if it is still there, and its listener if it sees a new value.
Check ==
  LET ws == watchers[D.current]
      w == ws[D.left]
      step == With([D EXCEPT !.left = @ - 1])
      changed == D.left \in DOMAIN ws /\ last[w] # values[Watched[w]]
  IN
  /\ Running("watch") /\ D.left > 0
  /\ IF changed
     THEN Call(With([D EXCEPT !.left = @ - 1, !.dirty = TRUE]),
               [last EXCEPT ![w] = values[Watched[w]]], queue)
     ELSE Quiet(step, last, queue)
  /\ PassPhase
  /\ UNCHANGED unsettled

\* The scope after s in the walk: below it, beside it or beside the first one above it
\* that has a sibling.  A scope that was destroyed meanwhile leads nowhere.
RECURSIVE Beside(_)
Beside(s) == IF s = NoScope THEN "lost"
             ELSE IF s = Root THEN NoScope
             ELSE IF links[s].next # NoScope THEN links[s].next
             ELSE Beside(links[s].parent)

NextScope(s) == IF links[s].head # NoScope THEN links[s].head ELSE Beside(s)

Walked == Running("watch") /\ D.left = 0

NextOne ==
  /\ Walked /\ NextScope(D.current) \notin {NoScope, "lost"}
  /\ digests' = With([D EXCEPT !.current = NextScope(D.current), !.stage = "async"])
  /\ UNCHANGED <<links, watchers, last, queue, values, phase, calls, unsettled>>

\* Another pass: only the queue of the last scope is looked at.
Again == D.dirty \/ queue[D.current] > 0

NextPass ==
  /\ Walked /\ NextScope(D.current) = NoScope
  /\ Again /\ ~(D.dirty /\ D.ttl = 0)
  /\ digests' = With([Digest EXCEPT !.ttl = IF D.dirty THEN D.ttl - 1 ELSE D.ttl])
  /\ UNCHANGED <<links, watchers, last, queue, values, phase, calls, unsettled>>

\* The digest is done, or gives up.
EndDigest ==
  /\ Walked /\ NextScope(D.current) = NoScope
  /\ ~Again \/ (D.dirty /\ D.ttl = 0)
  /\ digests' = Front(digests)
  /\ phase' = "none"
  /\ unsettled' = IF Again THEN "aborted" ELSE unsettled
  /\ UNCHANGED <<links, watchers, last, queue, values, calls>>

\* parent is null: the digest ends by an exception, and nobody ends its phase.
Lost ==
  /\ Walked /\ NextScope(D.current) = "lost"
  /\ digests' = Front(digests)
  /\ unsettled' = "aborted"
  /\ UNCHANGED <<links, watchers, last, queue, values, phase, calls>>

ScNext == Apply \/ RunAsync \/ AsyncDone \/ Check \/ NextOne \/ NextPass \/ EndDigest \/ Lost

ScSpec == ScInit /\ [][ScNext]_scVars

-----------------------------------------------------------------------------
(* Properties *)

\* Type correctness of the tree, the watchers and the digests.
ScTypeOK ==
  /\ \A s \in Scopes : ToSet(watchers[s]) \subseteq Watchers /\ queue[s] \in 0 .. MaxCalls
  /\ last \in [Watchers -> -1 .. 1] /\ values \in [Vars -> 0 .. 1]
  /\ phase \in {"none", "$digest"} /\ calls \in 0 .. MaxCalls
  /\ \A i \in DOMAIN digests : digests[i].ttl \in 0 .. TTL /\ digests[i].current \in Made

Children(s) == {c \in Made : links[c].parent = s}

\* The links of a scope that is in use, whoever made and destroyed scopes around it:
\* its children are a list from head to tail, linked both ways.
TreeWellLinked ==
  \A s \in Made : ~links[s].destroyed =>
    /\ (links[s].head = NoScope) = (Children(s) = {})
    /\ (links[s].tail = NoScope) = (Children(s) = {})
    /\ \A c \in Children(s) :
         /\ IF links[c].prev = NoScope THEN links[s].head = c ELSE links[links[c].prev].next = c
         /\ IF links[c].next = NoScope THEN links[s].tail = c ELSE links[links[c].next].prev = c

RECURSIVE Attached(_)
Attached(s) == s = Root \/ (s # NoScope /\ links[s].made /\ Attached(links[s].parent))

Settled ==
  calls > 0 => \A s \in Made : Attached(s) =>
    /\ queue[s] = 0
    /\ \A w \in ToSet(watchers[s]) : last[w] = values[Watched[w]]

\* Once a digest is done, every watcher of the tree has seen the value it watches and
\* every expression has been evaluated, whatever was changed under the digest's feet;
\* but for expressions evaluated below the root, after what they change was looked at.
DigestSettles == digests = <<>> /\ unsettled = "no" => Settled

\* A scope that is in the phase of a digest has one, or one was lost with a scope.
PhaseEnds == digests = <<>> /\ unsettled # "aborted" => phase = "none"

\* "It will execute in the current script execution context (before any DOM rendering)
\* - at least one $digest cycle will be performed after expression execution"
\* ($evalAsync, angular.js:8230-8233): what an expression changes is seen.
EvalAsyncIsDigested == digests = <<>> /\ unsettled # "aborted" => Settled
===============================================================================
