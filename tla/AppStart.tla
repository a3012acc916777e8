------------------------------- MODULE AppStart -------------------------------
(***************************************************************************)
(* How the pages of the store start (js/app.js): the scripts of the page   *)
(* and of the plug-ins are loaded in any order, each of them declares its  *)
(* modules, and the last one to come starts the application.  Its injector *)
(* then loads the modules, those a module requires before the module, and  *)
(* makes the services when they are asked for (angular.js: module,         *)
(* createInjector).                                                        *)
(***************************************************************************)
EXTENDS Integers, Sequences, FiniteSets, SequencesExt

VARIABLES arrived,   \* scripts that were loaded
          lost,      \* scripts that were not
          modules,   \* who declared the modules that are known
          injector,  \* what has been loaded and made
          broken     \* a service whose factory throws, or "none"

stVars == <<arrived, lost, modules, injector, broken>>

\* The scripts of init(), named for the module they declare; the last two are plug-ins.
Script == {"ngLocale", "ngResource", "ui", "notifier", "receivers", "rcm", "tags", "default", "ctg"}

\* What the modules require, in their order.
Requires(m) ==
  CASE m = "app"       -> <<"ngResource", "ui", "notifier", "receivers", "tags", "default", "ctg">>
    [] m = "ng"        -> <<"ngLocale">>
    [] m = "notifier"  -> <<"ui">>
    [] m = "receivers" -> <<"ngResource", "notifier", "rcm">>
    [] m = "tags"      -> <<"notifier", "receivers">>
    [] OTHER           -> <<>>

Services(m) ==
  CASE m = "ng"         -> {"$http", "$timeout", "$rootScope"}
    [] m = "ngLocale"   -> {"$locale"}
    [] m = "ngResource" -> {"$resource"}
    [] m = "ui"         -> {"$modal"}
    [] m = "notifier"   -> {"$notifier"}
    [] m = "receivers"  -> {"$rfReceivers"}
    [] m = "rcm"        -> {"$rcm"}
    [] OTHER            -> {}

Service == UNION {Services(m) : m \in Script \cup {"ng"}}

\* What a factory has injected.
Injects(s) ==
  CASE s = "$resource"    -> <<"$http">>
    [] s = "$modal"       -> <<"$http", "$rootScope">>
    [] s = "$notifier"    -> <<"$timeout">>
    [] s = "$rcm"         -> <<"$http", "$modal", "$rootScope">>
    [] s = "$rfReceivers" -> <<"$resource", "$timeout", "$notifier">>
    [] OTHER              -> <<>>

\* What the controllers of the pages have injected.
Wanted == {<<"$notifier">>, <<"$rfReceivers">>, <<"$rcm">>, <<"$modal">>, <<"$locale">>,
           <<"$http", "$notifier", "$timeout", "$rfReceivers">>}

NotStarted == [started |-> FALSE, loaded |-> <<>>, providers |-> [s \in Service |-> "none"],
               cache |-> [s \in Service |-> "none"], made |-> <<>>, error |-> "none"]

\* angular.js declares ng and a locale of its own before any script is loaded.
StInit ==
  /\ arrived = {} /\ lost = {}
  /\ modules = [m \in {"ng", "ngLocale"} |-> "angular"]
  /\ injector = NotStarted
  /\ broken \in {"none", "$modal", "$notifier", "$http"}

-----------------------------------------------------------------------------
(* loadModules(): a module is marked before the modules it requires are loaded, *)
(* so that each one is loaded once; its providers follow theirs.                *)

\* Mutant: a module is loaded once for every module that requires it.
MarkSeenNot(i, m) == i

MarkSeen(i, m) == [i EXCEPT !.seen = @ \cup {m}]

RECURSIVE LoadModules(_, _)
LoadModules(i, ms) ==
  IF ms = <<>> THEN i
  ELSE LET m == Head(ms)
           required == LoadModules(MarkSeen(i, m), Requires(m))
           provided == [required EXCEPT
             !.loaded = Append(@, m),
             !.providers = [s \in Service |-> IF s \in Services(m) THEN modules'[m] ELSE @[s]]]
       IN IF m \in i.seen THEN LoadModules(i, Tail(ms))
          ELSE LoadModules(provided, Tail(ms))

Seen(i) == [started |-> TRUE, seen |-> {}, loaded |-> i.loaded, providers |-> i.providers,
            cache |-> i.cache, made |-> i.made, error |-> i.error]

\* angular.module(name, requires) replaces a module of that name.
Declare(m, by) == modules' = [n \in DOMAIN modules \cup {m} |-> IF n = m THEN by ELSE modules[n]]

\* createInjector()
Bootstrap == injector' = LoadModules(Seen(injector), <<"ng", "app">>)

\* Mutant: the application starts without waiting for the locale.
AllLoadedButLocale(s) == arrived \cup {s, "ngLocale"} = Script

AllLoaded(s) == arrived \cup {s} = Script

\* The load event of a script: the last one starts the application.
ScriptLoads(s) ==
  /\ s \notin arrived \cup lost
  /\ arrived' = arrived \cup {s}
  /\ IF AllLoaded(s)
     THEN modules' = [n \in DOMAIN modules \cup {s, "app"} |->
                        IF n = s THEN "script" ELSE IF n = "app" THEN "bootstrap" ELSE modules[n]]
          /\ Bootstrap
     ELSE Declare(s, "script") /\ UNCHANGED injector
  /\ UNCHANGED <<lost, broken>>

\* A script that does not load has no load event.
ScriptFails(s) ==
  /\ s \notin arrived \cup lost
  /\ lost' = lost \cup {s}
  /\ UNCHANGED <<arrived, modules, injector, broken>>

-----------------------------------------------------------------------------
(* getService(): a service is marked while its factory runs; a factory that *)
(* throws leaves the mark.                                                  *)

\* Mutant: the factory runs each time.
CachedNever(i, s) == IF i.cache[s] = "ready" THEN "none" ELSE i.cache[s]

Cached(i, s) == i.cache[s]

\* Mutant: the mark stays.
MadeMarked(i, s) == [i EXCEPT !.made = Append(@, s)]

Made(i, s) == [i EXCEPT !.cache[s] = "ready", !.made = Append(@, s)]

RECURSIVE GetServices(_, _)
GetServices(i, ss) ==
  IF ss = <<>> \/ i.error # "none" THEN i
  ELSE LET s == Head(ss)
           injected == GetServices([i EXCEPT !.cache[s] = "instantiating"], Injects(s))
           made == IF injected.error # "none" THEN injected
                   ELSE IF s = broken THEN [injected EXCEPT !.error = "thrown"]
                   ELSE Made(injected, s)
           next == CASE Cached(i, s) = "ready" -> i
                     [] Cached(i, s) = "instantiating" -> [i EXCEPT !.error = "circular"]
                     [] Cached(i, s) = "none" -> made
       IN GetServices(next, Tail(ss))

\* A controller is made: its services are, too.
Instantiate(ss) ==
  /\ injector.started
  /\ injector' = GetServices([injector EXCEPT !.error = "none"], ss)
  /\ UNCHANGED <<arrived, lost, modules, broken>>

StNext ==
  \/ \E s \in Script : ScriptLoads(s)
  \/ \E s \in Script : ScriptFails(s)
  \/ \E ss \in Wanted : Instantiate(ss)

StSpec == StInit /\ [][StNext]_stVars

-----------------------------------------------------------------------------
\* Type correctness of the scripts, the modules and the cache.
StTypeOK ==
  /\ arrived \subseteq Script /\ lost \subseteq Script
  /\ injector.error \in {"none", "thrown", "circular"}
  /\ \A s \in Service : injector.cache[s] \in {"none", "instantiating", "ready"}

Position(q, x) == CHOOSE i \in DOMAIN q : q[i] = x

\* In whatever order the scripts come, every module is loaded once and after the
\* modules it requires (init, loadModules).
ModulesInOrder ==
  injector.started =>
    /\ ToSet(injector.loaded) = Script \cup {"ng", "app"}
    /\ IsInjective(injector.loaded)
    /\ \A m \in Script \cup {"ng", "app"} : \A r \in ToSet(Requires(m)) :
         Position(injector.loaded, r) < Position(injector.loaded, m)

\* The pages show Russian dates: the locale of the script replaces the one of
\* angular.js, because nothing starts before the last script has come.
LocaleOfTheScript == injector.started => injector.providers["$locale"] = "script"

\* There is one instance of a service, made after those it is made of, however the
\* controllers ask for them and whatever failed before.
InstancesInOrder ==
  /\ IsInjective(injector.made)
  /\ \A s \in ToSet(injector.made) : \A d \in ToSet(Injects(s)) :
       Contains(injector.made, d) /\ Position(injector.made, d) < Position(injector.made, s)

\* A circular dependency is reported only where a factory has thrown before: the
\* services of the pages do not depend on each other in a circle.
CircleOnlyAfterFailure ==
  injector.error = "circular" => broken # "none" /\ injector.cache[broken] = "instantiating"
===============================================================================
