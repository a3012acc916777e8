# A verification project for rfid-ltk-framework

TLA+ models of the framework's concurrent core, written in Java, and of the web
application of its store, which runs in a browser: the pages and the vendored libraries
they stand on. They are checked with TLC and, where a result should hold for every number
of threads and every size, proved with TLAPS. Paths below are relative to the repository
(`src/` here); `core`, `message`, `driver.log`, ... stand for the bundles
`ru.aplix.ltk.core` and so on. Scripts are those of `store.web/content`; `angular.js`,
`angular-resource.js` and `ui-bootstrap-tpls.js` are kept in its directory `js`.

## 1. The system

The framework reads RFID tags and delivers tag events. Its bundles:

| component | code | state | operations | status |
|---|---|---|---|---|
| message subscriptions | `message`: `MsgSubscriptions`, `MsgHandle`, `MsgService` | linked list of handles under a read-write lock; an atomic flag per handle | subscribe, unsubscribe, unsubscribeAll, sendMessage | modelled (partly) |
| tag event log | `driver.log`: `CyclicLog`, `CyclicLogLock`, `CyclicLogReader`, `TagLog` | ring file, position file, identifier file, chain of reader locks | log, seek, pull, close, reopen | modelled (partly) |
| replaying subscriber | `driver.log`: `LogConsumer`, `LogRfTarget.logTag` | sender thread, pass-through flag | subscribe, unsubscribe, replay, dispatch | modelled |
| default tag tracker | `core`: `DefaultRfTracker` | cache of tags, current transaction, scheduled checker | rfData, run, stopRfTracking | modelled |
| single thread executor | `core`: `SingleThreadExecutor` | bounded queue, shutdown flag, worker | submit, offer, shutdown, runTasks | modelled |
| log target and trackers | `driver.log`: `LogRfTarget`, `LogRfTracker` | another linked list of trackers | addTracker, removeTracker | planned |
| collector | `core`: `RfCollector`, `RfSourceListener`, `RfReader` | status, tag and data subscriptions stacked on the reader's | subscribe, unsubscribe, status | planned |
| HTTP server | `collector.http.server`: `ClrProfile`, `ClrClient`, `PingSender` | clients by identifier, their executors and ping timers | connect, reconnect, disconnect, send | planned |
| HTTP client | `collector.http.client`: `HttpRfConnection`, `HttpReconnector` | connection, last event identifier, reconnection timer | connect, ping, receive, reconnect | planned |
| tag store | `store`: `RfStoreImpl`, receivers | events in a database, receivers by identifier | save event, start, stop, delete | planned |
| CTG driver | `driver.ctg` | reader thread, LLRP connection | connect, keep alive | planned |
| value classes | `core.util.IntSet`, `Parameters`, ... | none | pure conversions | `IntSet` planned |
| list of receivers | `receivers/receivers.js` | rows, their objects and flags, requests | refresh, create, start and stop, delete | modelled |
| new receiver, profiles | `receivers/receivers.js`, `rcm/rcm.js` | dialogs over each other, profiles of a collector | search, select, save, edit, delete | modelled (partly) |
| tags page, messages, pagination | `tags/tags.js`, `js/notifier.js`, `ui.bootstrap.pagination` | query in the address, searches, messages with timers | search, turn a page, notify, close | modelled |
| start of the application | `js/app.js`, the injector of `angular.js` | scripts loaded, modules, instances | load, require, get a service | modelled |
| services of AngularJS | `angular.js`, `angular-resource.js` | scopes, promises, compiled templates, address, requests, caches | digest, event, then, compile, navigate, request | modelled (partly) |
| forms and selects | `angular.js` | controls, errors, options | type, pick, set, validate | modelled (partly) |
| widgets | `ui-bootstrap-tpls.js` | windows, slides, calendar, time, tooltip, matches, height | open, close, select, type, timers | modelled |
| other directives and filters | `angular.js`, `ui-bootstrap-tpls.js` | a value or a flag each | render, toggle | not modelled |
| monitoring, server side of the web application, user interface, OSGi glue, dummy drivers | `monitor`, `store.web`, `ui`, `osgi`, ... | little | registration, views | not modelled |

How they interact. A *reader* (driver) calls `rfData()` on its tracker for each tag it
sees. The *tracker* turns reads into "appeared" and "disappeared" messages and
hands them to the collector's tag *subscriptions*. A *log target* may sit in
between: it writes each event to the *log* with a growing identifier and
dispatches it to *log consumers*; each of these first replays what its subscriber
missed, in a thread of its own, then lets new events through. An HTTP client is a
subscriber whose messages go through a *single thread executor*. Its peer, the HTTP
connection of the store, remembers the last identifier and names it when it
connects again: that is why no event may be lost, and why the order matters.

The *pages* of the store ask its server with `$resource` and `$http`, whose answers come as
*promises*; a *digest* of the tree of scopes calls who waits for them and brings the page in
step with what they changed. The *address* of the page says which *route*, and so which
template and controller, is shown. Controllers tell the user about requests with the
*messages* of `notifier.js`, and open *dialogs* over the page. Everything runs in one thread,
but in the order in which scripts, templates, answers, timers and the user come.

### What is hard

* **Steps outside of the lock.** `MsgHandle.unsubscribe()` sets its flag before it
  takes the lock; the tracker reports after it left its monitor; `CyclicLogReader`
  reads the file outside of the log's monitor; `LogRfTarget` logs an event and
  dispatches it in two steps; `SingleThreadExecutor` reads its flag before it
  touches the queue. Each is an interleaving no test of the repository runs.
* **A ring with waiting.** The writer waits for readers and readers race with the
  writer; a lock round the whole ring looks like an empty one.
* **Crashes.** A record, the position and the identifier go to three files.
* **Time.** Tags disappear by a timer that works with the reader's guessed clock.
* **Consumers that throw.** Hooks run inside the lock after the list was changed.
* **Answers out of order.** A page asks again before the last answer came, leaves the page, or
  deletes what an answer is about.
* **Walks over what changes.** A digest calls watchers that change the very scopes, watchers
  and listeners it walks over; a list of messages is cleaned by the digest that shows it.
* **Two owners of one value.** The browser and `$location` of the address, the user and the
  model of an input, two scopes of a binding, a widget and the page around it.
* **Timers that outlive their reason**: of messages, tooltips, slides, transitions, requests.

`PROJECT.json` lists every hazard at its line with the properties aimed at it.

### What makes each component correct

* Subscriptions: the list stays well formed; a message reaches every subscriber once
  and in order; unsubscribeAll() forgets nobody; the service runs while it is needed.
* Log: nothing locked is overwritten; no holes; unique identifiers; a replay is
  complete and ordered; writer and reader make progress.
* Subscriber: nothing is lost between replay and live events; events in order; one that leaves keeps no lock.
* Tracker: what is reported agrees with the cache; nothing expires early; what is
  silent disappears.
* Executor: an accepted task runs; what was queued before a shutdown is not stranded;
  the worker stops.
* Pages: the list shows what the store holds in the end and no button stays disabled; a
  dialog lists the profiles of the collector searched for last; results match the address;
  a message is closed by its owner, and errors close in time.
* Services: a digest ends with nothing unseen; an event reaches who listens; a promise is
  settled and told once; expressions mean what is written; nodes are linked once and in order; rows
  follow their values; the address bar and `$location` agree; nobody who asked is forgotten.
* Inputs and widgets: the view is the model, errors are counted right; a window tells its
  result once; what is closed goes; what is superseded does not come back.
* Planned ones: a collector's status messages alternate; no deadlock between the
  subscription lists of a collector and of its reader; a restarted tracker is linked
  once; one client per HTTP connection in the end, with no event between two
  connections lost; an event is stored once; `IntSet` agrees with sets of integers.

## 2. The modules

| module | models | extends / composes |
|---|---|---|
| `MsgSubscriptions` | the list and its lock | |
| `CyclicLog` | ring, locks, readers, files, restarts | implements `EventLog` |
| `EventLog` | the abstract log: numbered events, readers, waiting | |
| `LogConsumer` | subscriber, sender and reporting threads | composed with `EventLog` |
| `DefaultRfTracker` | cache, transactions, checker, reports | |
| `SingleThreadExecutor` | queue, clients, worker | |
| `RfReceivers` | the list of receivers against the store | |
| `NewRfReceiver`, `RfTags`, `Notifier`, `Pagination` | the other parts of the pages | `RfTags` composes `Notifier` and `Pagination`; all together in `MCPages` |
| `Promise` | what a promise promises | |
| `AppStart` | the start of the application, with AngularJS's injector | `MCAngular` |
| `Http`, `CacheFactory` | requests and caches of AngularJS, what the pages ask through | in `MCPages` |
| `Location`, `Route` | addresses and routes of AngularJS, which say what page it is | in `MCPages` |
| `Scope`, `ScopeEvents`, `Q`, `Parse`, `Compile`, `Repeat`, `Resource` | the other services of AngularJS | `Q` implements `Promise`; all together in `MCAngular` |
| `Forms`, `Select`, `Datepicker`, `Timepicker`, `Typeahead`, `Modal`, `Carousel`, `Tooltip`, `Collapse` | inputs and widgets | all together in `MCWidgets` |
| `MC...` | parts put together for TLC; `MCCyclicLog` holds the refinement mapping | |
| `MsgSubscriptionsProofs`, `LogConsumerProofs`, `CyclicLogProofs`, `RfReceiversProofs`, `WidgetsProofs` | theorems about one component each | TLAPS |
| `CoreProofs` | theorems about `DefaultRfTracker` and `SingleThreadExecutor` | TLAPS |
| `PagesProofs`, `ServicesProofs` | theorems about `MCPages`; lemmas about its requests, caches, addresses and routes | TLAPS |

Operators next to a definition that are called *Mutant* are that definition with a
plausible bug. They are used by no specification: they show that the properties notice.

### MsgSubscriptions

`first`, `last`, `prev`, `next` are the fields of the list and its handles, `flag` is
`MsgHandle.unsubscribed`, `writer` and `readers` the `ReentrantReadWriteLock`.
`stage` and `ticket` say where a handle's life is and when it was subscribed.
subscribe() and unsubscribe() are two steps each: up to the lock, and the locked part.
unsubscribeAll() and sendMessage() are one step per handle, since other threads set
flags meanwhile (`UnsubscribeAllStep`), or read the same list (`Deliver`). Handles in
`Faulty` have consumers or services that may throw. Such a handle stays in the list
when its subscription throws, `lastUnsubscribed()` may leave the service running
(`LastUnsubscribed`; the history variable `thrown` remembers it), and a
`messageReceived()` that throws ends the send (`DeliverFails`).
Not modelled: calls from inside a callback on the same thread, sub-subscriptions of
`MsgServiceHandle`, and `AsyncMsgProcessor`.

### CyclicLog and EventLog

Positions are counted in records and a record is its event's identifier. `file`,
`storedPos` and `storedId` survive a restart; `pos`, `lastId`, `record` (the one shared
buffer), `monitor`, `locks` (the chain) and `range` (the bounds each lock covers) do not.
A writer goes `idle -> write -> [truncate ->] storePosition -> storeId -> idle`, inside the
monitor, which `Wait` gives up. A reader goes `new -> search -> found / notFound ->
pull <-> check -> exhausted / closed`. The bounds of a chain of locks are computed by
the code's own formula (`UpdateBounds`), not by the union it is meant to be. `Restart`
may happen at any step of a writer and is then a crash; it may also change the
configured size, so `Reopened` is `initPosition()` with its truncation.

`EventLog` is what users of the log rely on. `ImplementsEventLog` (in `MCCyclicLog`) maps the
number of events to the identifiers whose record is in the file, a reader's phase to
its program counter, and the event it is due to return to the history variable `due`. The
abstract `Seek` may leave out the oldest event: the binary search of a full ring whose
oldest record is the last of the file begins behind it. A reader that looks for an event to come is `ahead`
until it is told so (`NotFound`), and an event may be logged before that: the search has not looked at it (section 5).

### LogConsumer

`Log == INSTANCE EventLog` with the sender as its one reader: each action of the sender
contains an action of the log. `LogTag` and `Dispatch` are the two steps of
`LogRfTarget.logTag()`; `Pull` and `HandOver` those of `sendMessages()`. Between either pair
everything else may happen. `Starve` is the failed search nobody is told of
(see the findings), `ReadFails` an I/O error, and both are left in. The history variable `lost` holds the events that were
logged and dispatched while the sender searched for one to come: its reader is told that the log is exhausted
though they are in it, which is what the properties of the subscriber except.

### DefaultRfTracker

`lastRead` is the cache (without antennas, which no property tells apart). `RfData` is the whole
monitored part of rfData(); its reports follow as steps of their own, first the
appearance, then the disappearances. The checker is `Check` (compute the time outside
of the monitor), `RemoveExpired` (inside), `ReportExpired` (outside). `seen` is what the consumer
believes. A message may be late by a member of `Delays`.

### SingleThreadExecutor

`Begin` reads the flag, `Put` and `OfferTask` touch the queue; `Shutdown` reads the flag, then `Mark`,
`Clear`, `AddStop` and `Interrupt` are the four statements of shutdown(). `AddStop` fails when late
tasks have filled the queue again (`refused`). A task may throw or consume the interrupt (`TaskEnds`).

### The pages (`RfReceivers`, `MCPages`)

A row of `RfReceivers` is the object it shows, whose identity a merge keeps, and the flag of its
controller. `Refresh` sends one more request, whether or not the last was answered; `Serve` is the
server, `Answer` a callback of the page with all it does (`mergeReceivers` with its sort, `endUpdate`),
`Fail` a lost request or answer, and `Elsewhere` the users of other pages. The dialog that asks
before a receiver is deleted is part of `Del`.

`NewRfReceiver` is the dialog that adds a receiver (`page`), the dialogs it opens over itself (`nested`: a profile is created,
configured or deleted, the latter from inside its editor, too) and a request for each thing they ask for. A dialog opens when its template has
come (`DialogOpens`), or it never does. `Carry` is the server with the collectors and the receivers of its store: a search
may find profiles or none (`Bare`), be refused, name something that is no collector, or fail, each of which `find()` treats in a way of its own
(`Heard`). Profiles are deleted with their receiver or without, or the receiver alone. `SelectedProfile.mode()` says which of the buttons there are.
Nobody waits for what is deleted from inside an editor, and a deletion may be confirmed twice: `outOfStep` remembers it, and that a dialog was left
before its answer. `raced` remembers that another profile could be selected while a dialog was to open.

`RfTags` is a controller for every change of the address, each with its searches;
messages (`Notifier`, in which each digest runs `VisibleMessages` and so removes the temporary ones) and links
(`Pagination`: `DigestPager` is what its watchers do in a digest) are state of their own, and are explored with
larger bounds on their own as well.

`Http` and `CacheFactory` are the services of AngularJS the pages ask through. `Http` holds requests (those of `$http` and the
timeouts of `$timeout` alike, as `$browser` counts both), the promises in its cache, the timers
of timeouts, and `$browser`'s count (`outstanding`). `source` names the request whose end a request waits for: its own, or the one it found in the
cache. A call ends with its answer (`Complete`), its timeout (`Abort`) or, for `$timeout`, when it goes off or is cancelled (`GoOff`, `Cancel`); each but the last may
run a digest, in which one more request may be made (`more`), and which may give up (`gaveUp`): it throws, and the call whose answer it brought is never counted
out (`lost`), which the properties except. `CacheFactory` has `lruHash` as links `p` and `n` with its two ends; `used` is a history variable,
the keys in the order of their last use. Its capacity is at least 1 (the code takes 0 for none).

`Location` has the browser's history, `$browser` and `$location` as three owners of the address, with the digest and the event of the browser
as steps that defer to an asynchronous expression. `Route` is `$route` with `ngView` and an `ngInclude`: `UpdateRoute` makes another route the current one at once,
which counts as changed when its template has come (`Change`); who asks for a template that is on its way waits for it (`waits`), and is told in
turn that it came or failed (`Told`). A route that redirects is the current one, and has cleared the view (`Redirect`), until the same digest looks
at the address it leads to (`Follow`).

### AngularJS (`MCAngular`)

`AppStart` is `app.js` with `loadModules()` and the injector's cache of instances, in which an
instance is first `INSTANTIATING`.
`Scope` keeps the links of the scope tree (`$$childHead`, `$$nextSibling`, ...) as the code does. A digest is a chain of
steps: an expression of `$$asyncQueue`, a watcher, the next scope; whatever is called does one of the
things a listener can do (`Call`). `digests` is a stack, since a listener may start one within. `ScopeEvents` does
the same for `$emit` and `$broadcast`, with `Hole` for a listener that was revoked. `Q` has `deferreds` with their pending lists
and `ticks`, the calls of `nextTick()` to come; `ImplementsPromise` maps a deferred to whether
it is settled, with what, and who has been told. `Parse` reads its texts character by character (`Lex`)
and evaluates trees (`Eval`, with the object a function is called on: for one that was computed, the scope). `Compile` sorts, applies and links; its queue
is that of a `templateUrl`. `Repeat` is `ngRepeatWatch` and `HashQueueMap`; `Resource` is the code that replaces parameters
in a url and sorts the arguments of an action.

### Inputs and widgets (`MCWidgets`)

`Forms` is a form with a control of each sort in it and in a form inside, with the counts of `$error`; `Select` is
`render()` with its reused elements, and plain options that come and go. The browser selects an
option of a menu by itself when none is: `SetOn`, `AskForReset` and `Reset` say so. The widgets are what the user, the
timers and the answers do to them: `Modal` with the stack of windows and their deferreds, `Carousel`, `Collapse` and
`Tooltip` with the timeouts and transitions they have started (a transition that was cancelled still has its timeout),
`Datepicker` and `Timepicker` with what was typed and what the page sets, a value that is no date included, `Typeahead` with the lookups on their way.

`MCPages`, `MCAngular` and `MCWidgets` choose in `Init` the part a behaviour shows (`shown`), and the other parts keep one initial
state: so every part is explored completely and none multiplies with another. A property of these modules
is a conjunction of the properties of the parts, each stated and explained in its own module.

## 3. The runs

| run | instance | checks |
|---|---|---|
| `subscriptions` | 2 threads, 3 handles, 1 faulty | list integrity, delivery, service, progress |
| `log_replay` | 1 writer, 1 reader, ring of 4, 8 events | refinement of `EventLog`, locked records, progress |
| `log_restart` | 1 writer, 1 reader, sizes 2 to 4, 5 events, 2 restarts | unique identifiers, holes, ring order, locked records |
| `consumer` | 2 reporting threads, log of 2, 4 events | no loss, exact replay, arrival, a leaver's reader is closed |
| `tracker` | 2 tags, 2 transactions, clock to 7 | reports, expiry |
| `executor` | 3 clients, 2 tasks, queue of 2 | shutdown, progress |
| `receivers` | 4 receivers, 2 requests under way, 3 changes, 1 failure | refreshes, rows, convergence |
| `pages` | 2 addresses, 2 profiles, 3 clicks; 3 searches; 4 messages; 9 items; 3 requests; a cache of 2 and 4 keys; 2 changes of the address; 3 updates of the route | dialog, tags, messages, links, requests and caches (`AnswersCome`), address and routes (`AddressAndView`) |
| `angular` | 3 scopes, 3 watchers; 4 deferreds; texts of 4 characters; ... | start, services of AngularJS, refinement of `Promise` |
| `widgets` | 3 windows, 3 slides, 3 options, ... | forms and selects (`InputsInStep`), the state of the widgets (`WidgetsInStep`) and their steps (`StepsKept`) |
| `log_two_readers`, `log_two_writers` | small | one violated promise each, section 5 |

Bounds, and why they are enough for the questions asked:

* Three handles are the smallest list with an inner handle; two threads put every pair
  of calls against each other. More threads are covered by the proofs.
* A ring of four records has a first, a last and two inner slots, so that a binary search takes more than one step on
  either side of the end of the ring; eight events take the writer round it twice, with the reader locked in each position. `From` includes
  an event that was overwritten and one never to come.
* Two restarts make a shrunk or grown log reopen once more. `NoHoles` and `RingSorted` are
  stated up to the first reduction of the size, `UniqueIdsUnlessCrashed` and `RingSorted` up to the first
  crash: what holds after those is exactly what the findings deny.
* A log of two events and four events let the log drop events before and during a replay.
* The tracker's clock runs on after messages end (`DataUntil`), long enough for every tag to
  expire: a timeout of 2, a checker every 2 and a delay of 1 need five units.
* Two requests of the page of receivers under way are the least that can be answered out of order; a third
  change elsewhere lets a receiver be created, changed and deleted while they are. In the pages three searches supersede each other
  twice, two of them may fail, and the addresses they are made at differ by their page (1 to 3, of which two may exist; one filter, since another one is no more than another
  address); four messages put a temporary one between two others. Three requests of one address are one that is under way, one that waits for it and
one that is made when it fails; four keys in a cache of two let one entry after another be dropped, and something undefined may be put twice.
  Two changes of the address are one that overtakes another, and four passes of a digest (`Passes` and one more) are more than two changes
  need; three updates of the route have room for a redirection and its target behind another route, and of two changes of what is included the template of the first comes after the second.
  Of two collectors one has no profiles, and the profile of the other has a receiver: with one receiver more, and three searches or dialogs, each button of the dialog is there once.
* Three scopes give a parent, and siblings before and after the one a digest is at (a new scope may take the name of a destroyed
  one); `MaxCalls` leaves a listener room to undo what another did. Four deferreds are a chain of three
  and one to resolve it with. Two clones and three directives are the least at which the order of linking can go wrong.
* Texts of four characters hold every pair of tokens, and trees of two operators every pair of precedences.
* Three windows are the least with an inner one, as are three slides. Dates lie at the turn of a year and around
  the 29th of February; times around noon and midnight. The collections of a select name groups in different orders, change the
  place of the items without a group, and hold a value twice. Four toggles let a transition be cancelled by one that is cancelled in turn.
* Two tasks fill a queue of two after it was cleared by a third client, the case that
  refuses the poison pill.

Deadlock is checked, but for `tracker` (its clock stops at a bound), `executor` (a submitter may
wait for ever, see below) and the runs of the pages, where the user and the environment may stop at their bounds. `LogConsumer` and `SingleThreadExecutor`
have a `Done` step for the states in which nothing more is to do.

Fairness, and what justifies it:

* `MsgSubscriptions`: a started call goes on (threads are scheduled); a waiting writer gets the
  lock though others come and go (strong fairness): the non-fair `ReentrantReadWriteLock`
  lets no new reader pass a writer at the head of its queue. Nobody is obliged to start a call.
* `CyclicLog`: started writers and readers go on; a waiting writer is notified on unlock and
  re-enters the monitor, and a reader takes the monitor between writes (strong fairness, as both
  compete). No thread has to log.
* `LogConsumer`: the sender goes on, and a logged event is dispatched. Neither `Starve` nor `ReadFails` is fair.
* `DefaultRfTracker`: time passes, the scheduler runs a due checker, and reports are made. Messages are not fair.
* `RfReceivers`: the timer goes on, requests are served and answered in the end. Neither the users nor the failures are fair.
  The other modules of the pages state safety only: what is to happen in the end is asked of the states in which nothing is under way any more
  (`NobodyIsForgotten`, `LoadingMessagesEnd`, `CollapsedIsHidden`, ...), so that it needs no fairness.
* `SingleThreadExecutor`: the worker works, tasks end, a started shutdown goes on; `put()` gets room if there
  is room again and again.

## 4. What is proved

For every set of threads, handles, clients and tasks, and every capacity; TLC checks each
statement on the instances above.

**MsgSubscriptions** (`TypeCorrect`, `ListStaysWellFormed`, `SendsInOrder`, `EveryConsumerIsServed`, `NobodyForgotten`,
`ServiceRunsWhenNeeded`). Assumptions: `NoneAssumption`. `ListIntegrity` is not inductive. `IInv` adds who
holds the lock (`LockInv`), what a flag says (`FlagInv`: a linked handle whose flag is set has a thread that waits
to remove it, so nobody else unlinks it), which handle a call works on (`CallInv`) and, for the
properties of the two walks, that what lies before the cursor has been dealt with (`WalkInv`, `DeliveryInOrder`). Tickets
order the list: "between a handle and the next one there is no other" replaces an induction along
the links, and `UnlinkKeepsList`, `LinkKeepsList` and `BeforeNext` are the lemmas it rests on.

**LogConsumer** (`TypeCorrect`, `NoEventLost`, `ReplayStaysExact`). Assumptions: those of
the module on its constants. `IInv` follows the phases of the sender: while it reads, what was delivered and is in
hand is exactly the events from the first to replay up to the one before the due one (`Reading`); at the step
that lets events through the due event was the last one logged, so `Covered` begins to hold, and each later event is on
its way before it can be missed (`Live`).

**SingleThreadExecutor** (`CoreProofs`: `ExTypeCorrect`, `OnlyLateStranded`). `ExIInv`: the queue was emptied before anything can stop the
worker (`StoppedAfterClear`), and since then each task in the queue came with the flag set (`QueueIsLate`).

**DefaultRfTracker** (`CoreProofs`: `TypeCorrect`, `ConsumerKnowsCache`, `NothingExpiresEarly`), for any timeouts and delays. Assumptions:
those of the module on its constants. `IInv` says that the reader's clock, as the tracker knows it, is never ahead of the local
one (`ClockInv`: a message is dated before it comes, so that a check never looks further than now), that the checker computes a time
only when it has nothing to report (`CheckInv`), and, until the two threads race, that one of them has nothing to report and that
what the consumer knows, with what the other will tell it, is the cache (`ReportInv`).

**CyclicLog** (`RingIsKept`), for one writer, any number of readers, any sizes and any number of restarts and crashes.
Assumptions: `SizeAssumption`, and a set of writers with one element: two writers do violate it (section 5). What the three files and
the ring hold is a matter of the writer's stage, so `IInv` says for each stage which identifier is stored (`StageInv`)
and how the stored position relates to the real one (`PositionInv`). Numbering the slots by their age from the position on makes
"sorted" a comparison of two numbers instead of an induction round the ring: older slots have smaller identifiers (`OrderInv`), so that the
slot to be overwritten holds the smallest and its loss leaves no hole (`HolesInv`). After a crash the slot at the position may hold the
record of an event that does not count and will be written again, which is the one exception `OrderInv` makes and the reason for `LimitInv`.

**The locks, the search and the promise of CyclicLog** (`CyclicLogProofs`). `LockedIsKept` is about one reader, with any number of
writers, any sizes, restarts and crashes: no step but a restart takes a record it has locked. All it needs is that the chain of
locks is empty or holds that reader's own lock (`LInv`), which is what two readers break (section 5). `LogKeepsItsPromise` and `LogTypes` are
about one writer and one reader of a log that is not restarted (`MaxRestarts = 0`), of any size, with any number of events and any event to start from:
each step of the ring, its lock and the binary search is a step of `EventLog` or none, and every variable keeps its type. The ages of slots, by which
`RingIsKept` orders the ring, change with each write. So the invariant (`RInv`) names the records a reader has locked by
their *identifiers*, which the writer leaves alone: the search goes on between the start of the lock and the oldest record known not to be older than
the event it looks for, and the event that is due lies where the search has found it, then at the start of the lock (`SearchInv`, `DueInv`). A search is a loop, but each of its turns is
a step, so that no induction over data is needed.

**RfReceivers** (`RcvTypes`, `NoStuck`, `RefreshShows`), for any number of changes, of requests under way and of failures. Assumptions: `ReceiversAssumption`.
`NoStuckRow` cannot be shown by following one row to one request: a merge drops and doubles rows, an object may be in two of them, and `endUpdate()` runs for
whichever row of the object is found. What is kept is a comparison of two *numbers*, for each object, the rows that wait and the saves on their way (`StuckInv`), and
the lemmas on `Number` say how each change of a sequence (append, replace, remove, insert, cut) changes it. The rest of `IInv` says that an object has one
identifier wherever it is named (`ObjInv`), that identifiers were given by the server (`IdInv`) and are paid for by the users' changes (`BudgetInv`), and
that answers are sorted (`AnswerInv`). `mergeReceivers()` is a loop within one step; what holds after it is shown by induction on
its turns (`LoopInv`, `TurnKeeps`, `TurnsKeepList`). The library's induction theorems take an operator as a parameter, so `Induction` states the principle for
a set of numbers and rests on `Least`, and `Turns` is a recursive function on the numbers of turns; a turn goes on in the answer or shortens the list, so that
as many turns as both have members are enough.

**The other parts of the pages** (`PagesProofs`, with lemmas of `ServicesProofs`: `Typed`, `DialogStaysInOrder`, `SearchStaysInStep`, `MessagesAndLinksHold`,
`AnswersAlwaysCome`, `AddressAndViewAgree`, `NothingGoesBackEver`), for any collectors, filters, clicks, searches, failures, messages, items and sizes, any number of
requests, a cache of any capacity, any addresses and any number of their changes. Assumptions: `PagesAssumption` (bounds are numbers, keys are finitely many, there is something to open). A step of one
part leaves the others alone, so `IInv` has a conjunct for each:

* *The dialog* (`DialogInv`). What holds unconditionally: the search that is waited for asks for what the
  dialog shows next, and only a collector that was named answers (`Answers`); dialogs and what they have asked carry numbers that were given (`Numbered`), so that an answer
  is about the dialog it is taken for; disabled buttons have a dialog (`Buttons`). The list is inserted into, removed from and
  replaced at positions looked up before, so what it holds depends on what the user did in between. As long as nobody could select another profile while
  a dialog was to open (`raced`), there is no dialog while a search is waited for, which finds nothing listed or selected (`Quiet`), the selected profile is listed (`Selected`), and what is
  listed, the dialogs and their requests are about the collector that is shown (`OfCollector`). `AddCreatedIs`, `RemoveSelectedIs` and `WithProfilesIs` say what the three ways to change the list do.
  `ListedProfilesExist`, the last part of `DialogInStep`, is about the order in which the *collector* serves what was asked, and is only model-checked.
* *The page of tags* (`TagsPart`). A message about a search belongs to a request on its way (`InfoOfRequest`); of the requests of the controller that is
  shown only the last one has its message there (`OldNotShown`), since a new search closes the message of the one before; the page says
  it searches only while that last request is under way (`LastRequest`), whose answer is not older than what is shown (`NotOlder`). That the results match the
  address (`View`) needs the pagination: when the total shrinks, it asks for the last page within the same digest, which is
  why no page beyond the last one is seen.
* *The messages* (`MessagesInv`). `removeTemp()` leaves a temporary message alone in the list or not at all (`Alone`), so closing
  another message finds none to take along (`CloseIs`). `Kept` is a sequence numbered by the ranks of its positions; `PickIs` says that each
  rank up to the size is taken once, and `KeptIs` follows without an induction.
* *The pagination* (`PagerInv`). The links are the window the current page and the total determine; `WindowIs` shows, by the cases of
  `getPages()`, that it is a row of numbers that holds the current page and ends at the last.
* *The requests* (`RequestsInv`). Whoever waits has a source that runs, his own call or one that was there before (`Asker`), and what the cache holds for an address
  is nothing, a response or such a call (`InCache`). The end of a call does many things, and may be nested in a digest in which
  something is asked again; `HttpHolds(b, k)` is what holds of the states between, with a number `k` of ends that happened and are
  not counted out yet: `$browser`'s count is the calls that run, the timers that do, those that a digest that gave up kept from being counted out (`lost`), and `k` (`Counted`). That `k` is 0 between steps is what makes "idle" true, and it
  comes as long as no digest gives up.
* *The cache* (`CacheInv`). The links are those of the list `used` in both directions (`Chained`). The lemmas say what `link()`, `refresh()` and `remove()`
  make of such a list: `remove()` cuts one member out, and `refresh()` does the same before it puts it in front. The size is the number of values unless something
  undefined was put, and below it by no more than the undefined entries that went (`Sized`).
* *The address* (`LocationInv`). What holds when nothing is left to do says nothing of the digest on the way there. `Rests` says that between digests only a change the
  browser has yet to tell of sets its address apart from `$location`'s. `Digests` says that in a digest one expression at most waits, and it is about the address the
  browser tells; behind the watcher the addresses agree unless another pass is to come; and what was announced is that address. Both hold until a digest gives up or
  overtakes the event of a user's change (`trouble`). For the history it says besides that, as long as no change asked for an entry, an address that is still to be set replaces
  another (`ReplaceAddsNoEntry`).
* *The route* (`RouteInv`). `RouteOK(b, a)` is about a state `b` between the calls of one step and an address `a`: no wait is ahead of what it waits for, and
  who waits on behalf of the last change of the ngInclude waits for its source (`InTime`);
  and a route that redirects is current only while its target is still to be looked at, with no view. Those who wait for a template are told in a loop within one step; `Kept` says what telling
  the first `k` of them leaves and makes good, and `ToldKeeps` follows by induction on `k` (`Inductive`), once `TellingIs` has shown that the recursive function `told` exists.

**The widgets** (`WidgetsProofs`: `WidgetsKept`, `WidgetStepsKept`, `CalendarIs`), for any number of windows, slides, contents, typed texts
and events, and for any date. Assumptions: `WidgetsAssumption` (bounds are numbers, windows and slides are finitely many, days and minutes
are numbers, minutes those of a day). A behaviour shows one widget, so the invariant is an implication for each, and each has a strengthening of its own:

* *Windows* (`WindowsInv`). A window is on the stack exactly while it is open, and nobody is told of its result before it leaves. As long as windows
  are closed from the top (`~disordered`) the index of each is its place, so that the backdrop is there while some window wants it.
* *Slides* (`SlidesInv`). One handler or one promise at most knows of the transition that is on, and it leads to the current slide, as
  long as no selection was carried out too late (`late`). When none is put off, the current slide has its place in the list, and the watchers have still to see any other slide that is active:
  so one is active once they have.
* *Tooltips* (`TooltipInv`). Without the slip the code allows (`slips`: a timer that was not cancelled when another took its place, a click that the handlers take for another, or a delayed show that ends after the element went: it
  opens the tooltip if the element still has a parent, and otherwise fails, once it has cancelled the removal of a popup that was fading) there is one removal or one delayed show under way at most.
* *Heights* (`CollapseInv`). The last height still to be set is none for what is collapsed and holds the content of what is not, whatever transitions were cancelled,
  unless the content changed meanwhile (`overtaken`).
* *Time* (`TimeInv`). The copy is a date and a minute of a day, and fields that are shown as valid read back as that time.
* *Lookups* (`TypeaheadInv`). The sign that something is loading has an answer to come.
* *Dates* (`DatesInv`). A date that is not valid is none, or one the page has set: those a user picks or types are dates. So what was picked or typed is
  valid, the calendar knows whether the date is within the limits, and the popup waits for one click while it is open.

`CalendarIs` says that the days shown are whole weeks that begin as they should and hold all of the month, numbered as ISO 8601 does. It rests on lemmas about the numbering of
days: year, month and day of each number are a date and give the number back. Years are counted from March, so that the day a leap year has more is its last; a number of days is put between two multiples of 146097 (400 years), then of a century, of
four years and of one, and each of these brackets is a comparison of linear terms. The month follows by its twelve cases, and the
ISO week from the 4th of January.

Only model-checked: every liveness property (progress under fairness is out of the prover's reach, as is ENABLED); `ListedProfilesExist` of the dialog; `InputsInStep`, since
what a form counts and a select renders are folds and concatenations over sequences of arbitrary length, which need an induction over data; the start of the application and
the services of AngularJS but for requests, caches, addresses and routes (`DigestsAndEvents`, `MarkupIsFollowed`, `StartsInOrder` and `StepsKept` of `MCAngular`), most
of which have recursive operators (parsing, trees of scopes, of promises and of modules) that no backend takes.

## 5. Where the code and its documents disagree

With a run (`findings` of `PROJECT.json`):

* `log_two_readers`: unlocking the newest lock forgets the older ones; a reader's records are overwritten.
* `log_two_writers`: a writer that waits finds the shared buffer refilled by another.

Stated in a module and violated there, without a run of their own (`UniqueIds`, `FailedSeekExhausts` and `NoneLeftWhenExhausted` of
`CyclicLog`, `InOrder` of `LogConsumer`, `ReportsFollowCache` of `DefaultRfTracker`): a crash between the position file and the
identifier file makes two events share an identifier; a search that fails while an event is logged leaves
its client without notice, or with the notice that the log is exhausted though that event is in it (`seek()` goes on with the
end it began with, `CyclicLogReader.java:60-104`, while `relockFrom()` moves the end of the lock and `seekFailed()` compares that one with the position); a live event is delivered twice or before an earlier one; the checker reports a tag gone after the
data thread reported it appeared again. The properties the runs check say what holds besides.

Met while modelling, part of the models:

* a consumer that throws in `consumerUnsubscribed()` leaves the service of an empty list running (`MsgService.java:136`);
* a log made smaller keeps older records and drops the newest (`CyclicLog.java:165`), and its readers wrap at the new size
  before the file has it (`CyclicLogReader.java:47`); a full log made larger makes a reader return its last record again (`CyclicLogReader.java:45`);
* the event the subscriber knows is delivered again (`LogConsumer.java:141` says `>=`), and a record may be
  delivered after `consumerUnsubscribed()` (`LogConsumer.java:100`);
* a tag that expires and is read in one message is reported as appeared twice in a row (`DefaultRfTracker.java:147`), and with a zero
  timeout the end of a transaction removes the tag just read (`DefaultRfTracker.java:280`);
* `submit()` returns true for a task put after the shutdown, and waits for ever for room in the queue of a stopped
  executor (`SingleThreadExecutor.java:119-123`).

In the pages:

* `mergeReceivers()` does not count the rows it inserts: rows behind them are shown twice until the next refresh; a late answer shows
  older receivers again, and overwrites `active` while a row is saved; `updateReceiver()` may put one object in two rows;
  the error callback of a deletion is never called; a second click creates a second receiver;
* the dialog: a new profile may get an identifier that is listed already; the profile added by a template still on
  its way is put at the place of a profile that is not selected any more; saving before the editor of the reader is loaded throws;
  nobody hears of a profile or a receiver that is deleted from inside an editor (`rcm.js:203`), so that both stay in the list; a profile is deleted even when its receiver, which is looked
  up afterwards, is no more, and the answer is then an error; after a search that fails the last collector is forgotten, after one that is refused it is not;
* the error of a superseded tag search is still shown; `removeTemp(0)`, asked to remove the temporary messages before the first, removes all of them;
* a plug-in script that does not load keeps the application from starting, and a factory that throws leaves its service `INSTANTIATING`: whoever
  asks for it later is told of a circle.

In the libraries (quirks a page has to live with):

* scopes: an expression for later below the root is not evaluated unless a digest comes that way, though the comment says that a digest is
  performed (`angular.js:8230`); `$apply()` inside a digest clears the phase of the outer one; a listener that destroys the scope
  the walk is at leaves the phase set; a nested event skips a listener behind a hole;
* promises: a callback attached between the resolution and its tick overtakes the ones before it;
* expressions: `1e` and `.` are `NaN`, `==` and `<` group to the right, `a.(x)` loses its dot, `f()[x]()` calls `f` twice, `(a().x)()` reads `x` from the scope and never calls `a`
  (`angular.js:6533`), `a=b=c` and
  `+ -a` are rejected;
* compiler: nodes that wait for a template are linked with the last clone first, and never when it does not come;
* address: one `$location` would write in another way adds an entry to the history; one without `#!` throws; without the history API a
  replaced address is announced for ever;
* requests: whoever waits for another's request waits past a timeout of its own; a failure removes the promise of a newer request; a
  JSONP request ignores its timeout; an answer from the cache is told in the next digest only; a digest that gives up on an
  answer leaves its request counted for good, so that nobody is told that the page is idle (`angular.js:9520`);
* routes: a template that fails leaves the old view; a redirection by `otherwise` drops the search, and each redirection clears the view before
  its target is shown (`angular.js:7565`); `$routeUpdate` is told while a route is loading;
* caches: something undefined takes an entry that is never counted;
* resources: a value that holds `:b` is replaced again, an absent parameter named twice leaves `//`, and `$delete({...})` drops the identifier of the object;
* `ngRepeat`: a controller that throws leaves its rows for ever;
* forms and selects: radio buttons share a name but not an error; a digest takes a selection back whose event is yet to come; the
  first option without a group may be appended behind the groups; options with equal values in a plain select show the model as unknown;
* calendar: the arrows skip a month from the 29th on; ISO weeks are wrong when a week begins on Sunday; `today` and `clear` leave the
  error of what was typed;
* timepicker: hours out of range are replaced, and the time wraps within its day; a model that is no date is kept, invalid, with the fields of the last time and none marked;
* typeahead: the error of an older lookup clears newer matches; deleting the text does not cancel a lookup that waits;
* windows: dismissing one that is closed throws; closing one that is not open yet is ignored; a controller that throws leaves the result pending;
* slides: a selection put off by a transition is carried out after later ones; the last slide, removed, stays the current one;
* tooltips: `hide()` twice while fading removes the popup of a later `show()` early; a delayed `show()` survives its scope: it opens the tooltip of an element that went
  within its container, and fails for one that went alone, so that a popup
  that was fading stays on the page;
* collapse: the rejection of a cancelled transition forgets the one that replaced it, so that a third toggle cancels nothing; the timeout of a cancelled
  transition still sets its height, which may be that of an older content.

## 6. Not modelled, and hazards without a property

The collector and its source listener, the HTTP server and client, the tag store, the CTG driver and the value classes of the core
come next (section 7). Monitoring, the server side of the web application, the user interface, OSGi glue and the dummy drivers
have little state of their own. Of AngularJS: jqLite, filters, `$interpolate`, HTML5 addresses and link rewriting, animation,
comment and text directives; of UI Bootstrap: accordion, tabs, alert, rating, progress bar, drop-down, buttons: each maps a value to the
page or turns one flag. Headers and transformations of requests, positions on the screen and formatting by locale are data that no property tells apart.

Known hazards that no property is about yet, besides the three in `PROJECT.json` whose notes say why: an event looked up and then stored, which two
deliveries may both find missing (`RfStoreImpl.java:240`); sub-subscriptions added while the service handle
is revoked (`MsgServiceHandle.java:36`); a callback that unsubscribes the saved next handle (`MsgSubscriptions.java:135`); a tracker that is
removed from a log target and started again (`LogRfTarget.java:155`); status messages rejected outside of the monitor
(`RfSourceListener.java:85`); ping timers and failed requests of a client against its reconnection (`ClrClient.java:64`,
`ClrProfile.java:96`); a lost or repeated message between server and connection (`HttpRfConnection.java:136`); the upper
end of a range of integers (`IntSet.java:302`).

## 7. What comes next

In order:

1. `CollectorLocks`: the two subscription lists of `RfCollector` and its reader, stacked on `MsgSubscriptions`: which
   callbacks take which lock (`RfCollector.java:213`), deadlock freedom and its exceptions; `SourceStatus`: `RfSourceListener`
   with `rejectStatus()` outside of the monitor.
2. `ClrProfile`: clients, ping timers and `SingleThreadExecutor` composed; stop, reconnect and failed requests against each other.
3. `HttpDelivery`: `HttpRfConnection` and the server with lost and repeated requests, composed with `EventLog` and the
   store's test for known events; the promise is an abstract "each event once, in order".
4. `RfStore`: life cycle of receivers and saving of events. `LogTrackers`: the list of `LogRfTarget`.
   `MsgServiceHandle`: sub-subscriptions, as an extension of `MsgSubscriptions`. `IntSet` as pure operators, by
   comparison with sets of integers. The CTG reader thread.
5. Proofs: forms (`Forms`), once their counts are written without folds; the parts of `MCAngular` without recursive operators, `ScopeEvents` and `AppStart` first;
   then the new modules' invariants.
