------------------------------- MODULE MCAngular -------------------------------
(***************************************************************************)
(* The services of angular.js that the pages of the store run on, checked  *)
(* side by side: the start of the application with its modules and the     *)
(* injector, scopes and their digests, events, promises, expressions, the  *)
(* compiler, repeated rows and $resource.  A behaviour is one of the part  *)
(* it shows; the other parts keep one initial state.  $http, the caches,   *)
(* $location and the routes are checked with the pages (MCPages).          *)
(***************************************************************************)
EXTENDS Integers, Sequences, FiniteSets

CONSTANTS Scopes, Root, NoScope, Watchers, Vars, TTL, MaxCalls,
          Depth, Listeners, Hole, MaxActs,
          MaxDeferreds,
          MaxChars, MaxNodes, MaxDepth,
          MaxDirectives, MaxClones, MaxBindingChanges,
          RowValues, MaxLength, MaxSince,
          MaxSegments

VARIABLES shown,
          arrived, lost, modules, injector, broken,
          links, watchers, last, queue, values, phase, digests, calls, unsettled,
          listeners, events, acts, missed,
          deferreds, ticks, after, heard, told,
          text, tree, object, size,
          directives, template, clones, linkQueue, binding, attribute,
          collection, rows, dom, lastOrder, since,
          segments, urlValues, hasBody, args

\* Two watchers of the root and one of a scope that is made later; two of them see the
\* same value.
Watched == [w \in Watchers |-> IF w = "w2" THEN "y" ELSE "x"]
Start == [w \in Watchers |-> IF w = "w3" THEN NoScope ELSE Root]

A == INSTANCE AppStart
S == INSTANCE Scope
E == INSTANCE ScopeEvents
D == INSTANCE Q
X == INSTANCE Parse
C == INSTANCE Compile WITH queue <- linkQueue, MaxChanges <- MaxBindingChanges
N == INSTANCE Repeat WITH Values <- RowValues
U == INSTANCE Resource WITH template <- segments, values <- urlValues

startVars == <<arrived, lost, modules, injector, broken>>
scopeVars == <<links, watchers, last, queue, values, phase, digests, calls, unsettled>>
eventVars == <<listeners, events, acts, missed>>
promiseVars == <<deferreds, ticks, after, heard, told>>
parseVars == <<text, tree, object, size>>
compileVars == <<directives, template, clones, linkQueue, binding, attribute>>
repeatVars == <<collection, rows, dom, lastOrder, since>>
resourceVars == <<segments, urlValues, hasBody, args>>
\* Two groups, so that a part names those it is not in and not every variable.
scopesAndEvents == <<startVars, scopeVars, eventVars, promiseVars>>
markup == <<parseVars, compileVars, repeatVars, resourceVars>>
vars == <<shown, scopesAndEvents, markup>>

Init ==
  /\ shown \in {"start", "scopes", "events", "promises", "expressions", "compiler", "rows",
                "resources"}
  /\ A!StInit /\ (shown = "start" \/ broken = "none")
  /\ S!ScInit /\ E!EvInit /\ D!QInit /\ X!PaInit /\ N!RpInit
  /\ C!CoInit /\ (shown = "compiler" \/ directives = <<>>)
  /\ U!ReInit /\ (shown = "resources" \/ (~hasBody /\ urlValues = [a |-> <<>>, b |-> <<"x">>]))

Starting ==
  /\ shown = "start" /\ A!StNext
  /\ UNCHANGED <<shown, scopeVars, eventVars, promiseVars, markup>>
Digesting ==
  /\ shown = "scopes" /\ S!ScNext
  /\ UNCHANGED <<shown, startVars, eventVars, promiseVars, markup>>
Events ==
  /\ shown = "events" /\ E!EvNext
  /\ UNCHANGED <<shown, startVars, scopeVars, promiseVars, markup>>
Promises ==
  /\ shown = "promises" /\ D!QNext
  /\ UNCHANGED <<shown, startVars, scopeVars, eventVars, markup>>
Expressions ==
  /\ shown = "expressions" /\ X!PaNext
  /\ UNCHANGED <<shown, compileVars, repeatVars, resourceVars, scopesAndEvents>>
Compiler ==
  /\ shown = "compiler" /\ C!CoNext
  /\ UNCHANGED <<shown, parseVars, repeatVars, resourceVars, scopesAndEvents>>
Repeating ==
  /\ shown = "rows" /\ N!RpNext
  /\ UNCHANGED <<shown, parseVars, compileVars, resourceVars, scopesAndEvents>>
Resources ==
  /\ shown = "resources" /\ U!ReNext
  /\ UNCHANGED <<shown, parseVars, compileVars, repeatVars, scopesAndEvents>>
Next ==
  \/ Starting \/ Digesting \/ Events \/ Promises \/ Expressions \/ Compiler \/ Repeating
  \/ Resources

Spec == Init /\ [][Next]_vars

-----------------------------------------------------------------------------
(* The properties of the parts, put together: each is stated in its module,    *)
(* the type invariants too, and asked of the behaviours that show the part.    *)

\* However the scripts come and whatever fails, modules and services are loaded once
\* and after what they need, with the Russian locale, and no circle is reported that
\* is not one (app.js, loadModules, getService).
StartsInOrder ==
  shown = "start" =>
    /\ A!StTypeOK
    /\ A!ModulesInOrder /\ A!LocaleOfTheScript
    /\ A!InstancesInOrder /\ A!CircleOnlyAfterFailure

\* Whatever watchers, listeners and callbacks do to the scopes and promises while a digest,
\* an event or a tick walks over them: the tree stays linked, a digest that ends leaves
\* nothing unseen and the phase is given back; an event calls every listener nobody
\* disturbed, and none twice; callbacks of promises are called, in their order.
DigestsAndEvents ==
  /\ shown = "scopes" => S!ScTypeOK /\ S!TreeWellLinked /\ S!DigestSettles /\ S!PhaseEnds
  /\ shown = "events" => E!EvTypeOK /\ E!EventReachesAll /\ E!CalledOnce
  /\ shown = "promises" => D!QTypeOK /\ D!NobodyWaits /\ D!CalledInOrder

\* What a page is written in means what it says: expressions are cut and grouped as
\* written, a function is called once; directives are linked once, in their order and for
\* every clone, however late their templates come; bindings and observers are in step;
\* repeated rows lie in the order of what they show; $resource asks for the url that its
\* template spells, with the callbacks it was given.
MarkupIsFollowed ==
  /\ shown = "expressions" =>
       /\ X!PaTypeOK /\ X!TokensAreTheText /\ X!ReadAsMeant
       /\ X!CalledOnce /\ X!AssignedIsRead
  /\ shown = "compiler" =>
       /\ C!CoTypeOK /\ C!LinkedOnce /\ C!LinkedInOrder /\ C!NobodyForgotten
       /\ C!BoundAlike /\ C!ObserversTold
  /\ shown = "rows" => N!RpTypeOK /\ N!ListedAsItIs /\ N!FoundAgain
  /\ shown = "resources" => U!ReTypeOK /\ U!UrlOfSegments /\ U!CallsAsDocumented

\* What a step may never do: settle a promise twice or tell another outcome ($q implements
\* the promise), or give a value that stays another row.
StepsKept == D!ImplementsPromise /\ N!RowsKept
===============================================================================
