-------------------------------- MODULE MCPages --------------------------------
(***************************************************************************)
(* The parts of the store's pages that share no state, checked side by     *)
(* side: the dialog of a new receiver, the page that searches for tags,    *)
(* the messages and the pagination, which that page composes, on their own *)
(* and with larger bounds, and what all pages stand on of angular.js: the  *)
(* requests and caches they ask through, the address and the route that    *)
(* say which page it is.  A behaviour is one of the part it shows; the     *)
(* other parts keep one initial state.                                     *)
(***************************************************************************)
EXTENDS Integers, Sequences, FiniteSets

CONSTANTS NoUrl, Url, ProfileId, Bare, Connected, MaxClicks, MaxReceivers,
          MaxRequests,
          Filter, MaxEvents, MaxSearches, MaxFailures, MaxStored,
          MaxMessages,
          MaxItems, MaxPage, PerPage, MaxSize,
          Sites, MaxAsked,
          Keys, NoKey, Capacity, MaxUndefined,
          OpenedPaths, AppPaths, AppSearches, Hashes, Passes, MaxChanges,
          MaxMoves

ASSUME PagesAssumption ==
  /\ NoUrl \notin Url /\ IsFiniteSet(ProfileId) /\ 1 \in ProfileId /\ ProfileId \subseteq Nat \ {0}
  /\ IsFiniteSet(Url) /\ Bare \subseteq Url /\ Connected \subseteq Url \ Bare
  /\ MaxClicks \in Nat /\ MaxReceivers \in Nat /\ MaxRequests \in Nat
  /\ MaxEvents \in Nat /\ MaxSearches \in Nat /\ MaxFailures \in Nat /\ MaxStored \in Nat
  /\ MaxMessages \in Nat
  /\ MaxItems \in Nat /\ MaxPage \in Nat /\ PerPage \subseteq Nat \ {0} /\ MaxSize \in Nat \ {0}
  /\ MaxAsked \in Nat
  /\ IsFiniteSet(Keys) /\ NoKey \notin Keys /\ Capacity \in Nat \ {0} /\ MaxUndefined \in Nat
  /\ OpenedPaths # {} /\ AppSearches # {} /\ Hashes # {}
  /\ Passes \in Nat /\ MaxChanges \in Nat /\ MaxMoves \in Nat

VARIABLES shown,
          collectors, receivers, page, nested, asks, searches, dialogs, raced, outOfStep,
          found, version, tagPage, tagSearches, failures,
          messages, lastNo, timers,
          total, perPage, rotate, pager,
          requests, cached, pending, httpTimers, outstanding, idle, early, lost,
          data, lruHash, staler, fresher, freshEnd, staleEnd, cacheSize, used, odd,
          hasHistory, history, at, event, seen, replaced, location, asyncQueue, counter,
          digest, announced, changes, entry, trouble,
          otherwise, reloadOnSearch, address, redirecting, moves, current, routeParams, templates,
          waits, failed, view, viewed, include

\* Addresses that are typed: as $location writes them, in another way, and without '#!',
\* so that it cannot read them.
OpenedUrls ==
  [path : OpenedPaths, search : AppSearches, hash : Hashes, form : {"plain", "raw", "bad"}]

\* Addresses that are searched for: of collectors, and of the profiles of those whose first
\* profile has a receiver.
Searched == [url : Url, id : {0}] \cup [url : Connected, id : ProfileId \ {1}]

D == INSTANCE NewRfReceiver
T == INSTANCE RfTags WITH page <- tagPage, searches <- tagSearches
M == INSTANCE Notifier
P == INSTANCE Pagination
Rq == INSTANCE Http WITH Urls <- Sites, MaxRequests <- MaxAsked, timers <- httpTimers
Ca == INSTANCE CacheFactory WITH
        MaxSize <- MaxUndefined, size <- cacheSize, p <- staler, n <- fresher
Lo == INSTANCE Location WITH
        Typed <- OpenedUrls, queue <- asyncQueue, TTL <- Passes,
        Paths <- AppPaths, Searches <- AppSearches
Ro == INSTANCE Route

dialogVars == <<collectors, receivers, page, nested, asks, searches, dialogs, raced, outOfStep>>
tagVars == <<found, version, tagPage, tagSearches, failures>>
messageVars == <<messages, lastNo, timers>>
pagerVars == <<total, perPage, rotate, pager>>
requestVars == <<requests, cached, pending, httpTimers, outstanding, idle, early, lost>>
cacheVars == <<data, lruHash, staler, fresher, freshEnd, staleEnd, cacheSize, used, odd>>
locationVars == <<hasHistory, history, at, event, seen, replaced, location, asyncQueue, counter,
                  digest, announced, changes, entry, trouble>>
routeVars == <<otherwise, reloadOnSearch, address, redirecting, moves, current, routeParams,
               templates, waits, failed, view, viewed, include>>
\* Three groups, so that a part names those it is not in and not every variable.
pageVars == <<dialogVars, tagVars, messageVars, pagerVars>>
askingVars == <<requestVars, cacheVars>>
addressVars == <<locationVars, routeVars>>
vars == <<shown, pageVars, askingVars, addressVars>>

Init ==
  /\ shown \in {"dialog", "tags", "messages", "pagination", "requests", "caches", "location",
                "routes"}
  /\ D!NrInit /\ T!TgInit /\ M!NtInit
  /\ P!PgInit /\ (shown = "pagination" \/ (perPage = 1 /\ rotate /\ pager.page = 1))
  /\ Rq!HtInit /\ Ca!CfInit
  /\ Lo!LoInit
  /\ shown = "location" \/
     (hasHistory /\ seen = Lo!Parsed(CHOOSE url \in OpenedUrls : ~Lo!Throws(url)))
  /\ Ro!RoInit /\ (shown = "routes" \/ (otherwise /\ reloadOnSearch))

Dialog ==
  /\ shown = "dialog" /\ D!NrNext
  /\ UNCHANGED <<shown, tagVars, messageVars, pagerVars, askingVars, addressVars>>
Tags ==
  /\ shown = "tags" /\ T!TgNext
  /\ UNCHANGED <<shown, dialogVars, messageVars, pagerVars, askingVars, addressVars>>
Messages ==
  /\ shown = "messages" /\ M!NtNext
  /\ UNCHANGED <<shown, dialogVars, tagVars, pagerVars, askingVars, addressVars>>
Pager ==
  /\ shown = "pagination" /\ P!PgNext
  /\ UNCHANGED <<shown, dialogVars, tagVars, messageVars, askingVars, addressVars>>
Asking ==
  shown = "requests" /\ Rq!HtNext /\ UNCHANGED <<shown, pageVars, cacheVars, addressVars>>
Caching ==
  shown = "caches" /\ Ca!CfNext /\ UNCHANGED <<shown, pageVars, requestVars, addressVars>>
Locating ==
  shown = "location" /\ Lo!LoNext /\ UNCHANGED <<shown, pageVars, askingVars, routeVars>>
Routing ==
  shown = "routes" /\ Ro!RoNext /\ UNCHANGED <<shown, pageVars, askingVars, locationVars>>

Next ==
  \/ Dialog \/ Tags \/ Messages \/ Pager \/ Asking \/ Caching \/ Locating \/ Routing

Spec == Init /\ [][Next]_vars

-----------------------------------------------------------------------------
(* The properties of the parts, put together: each is stated in its module. *)

\* Type correctness of every part.
TypeOK ==
  /\ D!NrTypeOK /\ T!TgTypeOK /\ M!NtTypeOK /\ P!PgTypeOK
  /\ Rq!HtTypeOK /\ Ca!CfTypeOK /\ Lo!LoTypeOK /\ Ro!RoTypeOK

\* The dialog of a new receiver lists the profiles of the collector searched for last,
\* selects one of those listed and gets its buttons back,
DialogInOrder ==
  D!ProfilesOfLastSearch /\ D!ListOfOneCollector /\ D!SelectedIsListed /\ D!ButtonsComeBack

\* and lists only profiles that the collector has, with receivers that there are.
DialogInStep == DialogInOrder /\ D!ListedProfilesExist

\* The page of tags tells that it searches exactly as long as it does, and what it
\* shows is what its address says.
SearchInStep ==
  /\ T!LoadingMessagesEnd /\ T!SearchingEnds
  /\ T!ResultsMatchAddress /\ T!NoPageBeyondTheLast

\* Errors have a timer that closes them, temporary messages stand alone, and the links
\* of the pagination are the pages in a row that hold the current one.
MessagesAndLinks ==
  /\ M!ErrorsWillClose /\ M!TemporaryStandsAlone
  /\ P!CurrentPageLinked /\ P!LinksInARow

\* Whoever asks through $http is answered, also who waits for another one in the cache;
\* 'idle' is told when nothing is under way, unless a digest gave up while a request was
\* completed, which is then never counted out; a cache drops what was used longest ago
\* and never has more than its capacity.
AnswersCome ==
  /\ Rq!NobodyIsForgotten /\ Rq!CachedIsUnderWay /\ Rq!IdleIsIdle
  /\ Ca!ListIsByUse /\ Ca!CapacityIsKept

\* Between digests the browser's address is that of $location, every change was announced,
\* and the view and what is included are those of the route and of the last source.
AddressAndView ==
  /\ Lo!AddressInStep /\ Lo!ChangeAnnounced
  /\ Ro!ViewFollowsRoute /\ Ro!IncludeFollowsSource

\* What a step may never do: show older results than before, close a message nobody
\* closed, leave a page that exists (and stay on one that does not), add an entry to the
\* history for a replaced address, or clear the view, or leave it cleared after a redirection,
\* for a route that exists and whose template is there.
NothingGoesBack ==
  /\ T!ResultsNeverGoBack /\ M!CloseTakesNoOther /\ P!ShrinkShowsLastPage
  /\ Lo!ReplaceAddsNoEntry /\ Ro!ViewIsKept
===============================================================================
