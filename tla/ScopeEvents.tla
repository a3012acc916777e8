----------------------------- MODULE ScopeEvents -----------------------------
(***************************************************************************)
(* Events of angular.js ($on, $emit and $broadcast of $RootScopeProvider)  *)
(* with one name, in a chain of scopes.  A listener that is revoked leaves *)
(* a hole, and the next event that comes by closes it; what a listener     *)
(* does may revoke and add listeners and send the event again.             *)
(***************************************************************************)
EXTENDS Integers, Sequences, FiniteSets, SequencesExt

CONSTANTS Depth,      \* scopes, 1 is the root
          Listeners,
          Hole,       \* null in the list of listeners
          MaxActs     \* what listeners and the page do

VARIABLES listeners,  \* $$listeners of each scope
          events,     \* the events that are on their way, the innermost one last
          acts,
          missed      \* an event has left a listener out that nothing had disturbed

evVars == <<listeners, events, acts, missed>>

On(s) == ToSet(listeners[s]) \ {Hole}
Free == Listeners \ UNION {On(s) : s \in 1 .. Depth}

EvInit ==
  /\ listeners = [s \in 1 .. Depth |-> <<>>]
  /\ events = <<>> /\ acts = 0 /\ missed = FALSE

Up(s) == [i \in 1 .. s |-> s + 1 - i]
Down(s) == [i \in 1 .. Depth + 1 - s |-> s + i - 1]

\* An event on its way along path, at listener i of n of its first scope.
Event(path, l) ==
  [path |-> path, i |-> 1, n |-> Len(l[Head(path)]), called |-> <<>>, disturbed |-> FALSE,
   due |-> UNION {ToSet(l[s]) : s \in ToSet(path)} \ {Hole}]

\* What the page or a listener does; evs are the events then on their way.
Act(evs) ==
  /\ acts < MaxActs /\ acts' = acts + 1
  /\ \/ /\ \E s \in 1 .. Depth, l \in Free : listeners' = [listeners EXCEPT ![s] = Append(@, l)]
        /\ events' = evs
     \/ \E s \in 1 .. Depth : \E l \in On(s) :
          /\ listeners' = [listeners EXCEPT ![s] = [i \in DOMAIN @ |-> IF @[i] = l THEN Hole ELSE @[i]]]
          /\ events' = [k \in DOMAIN evs |-> [evs[k] EXCEPT !.due = @ \ {l}]]
     \/ \E path \in UNION {{Up(s), Down(s)} : s \in 1 .. Depth} :
          events' = Append(evs, Event(path, listeners)) /\ UNCHANGED listeners

Page == events = <<>> /\ Act(<<>>) /\ UNCHANGED missed

-----------------------------------------------------------------------------
E == events[Len(events)]
Scope == Head(E.path)
Going(e) == [events EXCEPT ![Len(events)] = e]

\* Listener i is called, and does something or nothing.
CallListener ==
  LET l == listeners[Scope][E.i]
      on == Going([E EXCEPT !.i = @ + 1, !.called = Append(@, l)])
  IN
  /\ events # <<>> /\ E.i <= E.n
  /\ E.i <= Len(listeners[Scope]) /\ l # Hole
  /\ \/ Act(on)
     \/ events' = on /\ UNCHANGED <<listeners, acts>>
  /\ UNCHANGED missed

\* Mutant: the loop goes on with the listener after the one that took the hole's place.
AfterHole(i) == i + 1

\* Where the loop goes on when it has closed the hole at i.
AtHole(i) == i

\* The hole at i is closed; another event that is in the middle of the list is disturbed.
CloseHole ==
  /\ events # <<>> /\ E.i <= E.n
  /\ E.i <= Len(listeners[Scope]) => listeners[Scope][E.i] = Hole
  /\ listeners' = [listeners EXCEPT ![Scope] =
                     IF E.i \in DOMAIN @ THEN RemoveAt(@, E.i) ELSE @]
  /\ events' = [k \in DOMAIN events |->
       IF k = Len(events) THEN [E EXCEPT !.i = AtHole(E.i), !.n = @ - 1]
       ELSE [events[k] EXCEPT !.disturbed = @ \/ Head(events[k].path) = Scope]]
  /\ UNCHANGED <<acts, missed>>

\* A listener of an $emit may stop it.
Stop ==
  /\ events # <<>> /\ E.called # <<>> /\ E.path = Up(Scope)
  /\ events' = Front(events)
  /\ UNCHANGED <<listeners, acts, missed>>

NextListeners ==
  /\ events # <<>> /\ E.i > E.n
  /\ IF Len(E.path) > 1
     THEN /\ events' = Going([E EXCEPT !.path = Tail(@), !.i = 1,
                                       !.n = Len(listeners[E.path[2]])])
          /\ UNCHANGED missed
     ELSE /\ events' = Front(events)
          /\ missed' = (missed \/ (~E.disturbed /\ ~(E.due \subseteq ToSet(E.called))))
  /\ UNCHANGED <<listeners, acts>>

EvNext == Page \/ CallListener \/ CloseHole \/ Stop \/ NextListeners

EvSpec == EvInit /\ [][EvNext]_evVars

-----------------------------------------------------------------------------
\* Type correctness of the lists and the events.
EvTypeOK ==
  /\ \A s \in 1 .. Depth : ToSet(listeners[s]) \subseteq Listeners \cup {Hole}
  /\ \A k \in DOMAIN events : events[k].i \in 1 .. events[k].n + 1

\* An event reaches every listener of its path that stays registered, unless a listener
\* sent the event again while there were holes (the nested event closes them).
EventReachesAll == ~missed

\* And none of those registered all along twice, though holes are closed while the list is walked over.
CalledOnce ==
  \A k \in DOMAIN events :
    ~events[k].disturbed =>
      IsInjective(SelectSeq(events[k].called, LAMBDA l : l \in events[k].due))
===============================================================================
