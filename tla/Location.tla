------------------------------ MODULE Location ------------------------------
(***************************************************************************)
(* The address of the page in angular.js: $location, which keeps it parsed *)
(* (after '#!', as app.js configures it), $browser, which sets it in the   *)
(* browser and hears of its changes, and the history of the browser        *)
(* itself.  $location is brought in step by a watcher of the root scope    *)
(* and by a listener of the browser's event; both defer what they do to an *)
(* expression that is evaluated soon, and ask the listeners of             *)
(* $locationChangeStart, which may prevent it.                             *)
(***************************************************************************)
EXTENDS Integers, Sequences, SequencesExt

CONSTANTS Typed,      \* addresses the user opens, types or follows
          Paths, Searches, Hashes, \* arguments of the application's calls
          TTL,        \* passes of a digest, but one
          MaxChanges  \* changes by the user and by the application

VARIABLES hasHistory, \* $sniffer.history: whether the browser has pushState()
          history, at,
          event,      \* a change the browser has yet to tell of
          seen,       \* lastBrowserUrl
          replaced,   \* replacedUrl, or Nowhere
          location,   \* $location: its address and $$replace
          queue,      \* the expressions $$asyncQueue holds
          counter,    \* changeCounter, and what the digest saw of it last
          digest,
          announced,  \* the address that $locationChangeSuccess told last
          changes,
          entry,      \* whether a change is to add an entry to the history
          trouble     \* "aborted" and "overtaken" when that happened

loVars == <<hasHistory, history, at, event, seen, replaced, location, queue, counter, digest,
            announced, changes, entry, trouble>>

\* An address: what stands before '#!' is left out.  Its form is "plain" as $location would
\* write it, "raw" when it says the same otherwise, "bad" without the prefix of its hash.
Address(path, search, hash) == [path |-> path, search |-> search, hash |-> hash, form |-> "plain"]
Nowhere == [form |-> "none"]

\* $$parse() and $$compose()
Parsed(url) == [url EXCEPT !.form = "plain"]
Throws(url) == url.form = "bad"

Href == history[at]

\* $browser.url(): what it says was replaced stands until the address is set without.
Told == IF replaced # Nowhere THEN replaced ELSE Href

\* Mutant: an address that is to replace another is added to the history.
BrowserUrlPushed(url, replace, now, told) ==
  /\ seen' = url
  /\ history' = Append(SubSeq(history, 1, at), url) /\ at' = at + 1
  /\ UNCHANGED replaced /\ event' = told

\* $browser.url(url, replace), with lastBrowserUrl set to now and told that an event waits.
BrowserUrl(url, replace, now, told) ==
  IF now = url THEN seen' = now /\ event' = told /\ UNCHANGED <<history, at, replaced>>
  ELSE
    /\ seen' = url
    /\ IF replace THEN history' = [history EXCEPT ![at] = url] /\ at' = at
       ELSE history' = Append(SubSeq(history, 1, at), url) /\ at' = at + 1
    /\ event' = (told \/ ~hasHistory)
    /\ replaced' = IF replace /\ ~hasHistory THEN url ELSE IF hasHistory THEN replaced ELSE Nowhere

Running == [on |-> TRUE, stage |-> "async", dirty |-> FALSE, ttl |-> TTL]
Stopped == [Running EXCEPT !.on = FALSE]

\* The service is made with a digest to come; the address is rewritten if it has to be.
LoInit ==
  /\ hasHistory \in BOOLEAN
  /\ \E url \in {u \in Typed : ~Throws(u)} :
       /\ history = <<Parsed(url)>> /\ seen = Parsed(url)
       /\ replaced = IF hasHistory \/ url = Parsed(url) THEN Nowhere ELSE Parsed(url)
       /\ event = (~hasHistory /\ url # Parsed(url))
       /\ location = [url |-> Parsed(url), replace |-> FALSE]
  /\ at = 1 /\ queue = <<>> /\ counter = [value |-> 0, last |-> -1]
  /\ digest = Running /\ announced = Nowhere /\ changes = 0 /\ entry = FALSE
  /\ trouble = {}

-----------------------------------------------------------------------------
(* The browser *)

\* The user goes to another entry of the history.
Go(to) ==
  /\ ~digest.on /\ to \in DOMAIN history \ {at} /\ changes < MaxChanges
  /\ at' = to /\ event' = TRUE /\ changes' = changes + 1
  /\ entry' = (entry \/ history[to].form # "plain")
  /\ UNCHANGED <<hasHistory, history, seen, replaced, location, queue, counter, digest, announced,
                 trouble>>

\* The user types an address, or follows a link the application leaves to the browser.
Open(url) ==
  /\ ~digest.on /\ url # Href /\ changes < MaxChanges
  /\ history' = Append(SubSeq(history, 1, at), url) /\ at' = at + 1
  /\ event' = TRUE /\ changes' = changes + 1
  /\ entry' = (entry \/ url.form # "plain")
  /\ UNCHANGED <<hasHistory, seen, replaced, location, queue, counter, digest, announced, trouble>>

\* Mutant: fireUrlChange() does not remember the address.
Forgotten == seen

\* lastBrowserUrl, when the listeners of a change are called
Remembered == Told

\* fireUrlChange() and the listener of $location; the change may be prevented.
UrlChanged ==
  /\ event /\ ~digest.on
  /\ IF seen = Told \/ Told = location.url
     THEN /\ seen' = Remembered /\ event' = FALSE
          /\ UNCHANGED <<history, at, replaced, queue, digest>>
     ELSE \/ /\ BrowserUrl(location.url, FALSE, Remembered, FALSE)
             /\ UNCHANGED <<queue, digest>>
          \/ /\ seen' = Remembered /\ event' = FALSE
             /\ queue' = Append(queue, [kind |-> "event", url |-> Told, replace |-> FALSE])
             /\ digest' = Running
             /\ UNCHANGED <<history, at, replaced>>
  /\ UNCHANGED <<hasHistory, location, counter, announced, changes, entry, trouble>>

-----------------------------------------------------------------------------
(* The application *)

\* What url() is not given of an address.
Omitted == ""

\* What path(), search(), hash() and url() make of an address: url() keeps a path that it
\* is not given, and a search along with it.
Path(url, path) == [url EXCEPT !.path = path]
Search(url, search) == [url EXCEPT !.search = search]
Hash(url, hash) == [url EXCEPT !.hash = hash]
SetUrl(url, path, search, hash) ==
  [url EXCEPT !.path = IF path # Omitted THEN path ELSE @,
              !.search = IF search # Omitted \/ path # Omitted THEN search ELSE @,
              !.hash = hash]

Changed(url) ==
  {Path(url, p) : p \in Paths \ {Omitted}} \cup {Search(url, s) : s \in Searches}
  \cup {Hash(url, h) : h \in Hashes}
  \cup {SetUrl(url, p, s, h) : p \in Paths, s \in Searches, h \in Hashes}

\* The application changes $location, and may have it replace the current entry.
Change(now, replace) ==
  /\ changes < MaxChanges /\ changes' = changes + 1
  /\ \E url \in Changed(now.url) \ {now.url} :
       location' = [url |-> url, replace |-> now.replace \/ replace]

\* It does so in an $apply(), or the user follows a link within it.
ApplyChange(replace) ==
  /\ ~digest.on
  /\ Change(location, replace) /\ entry' = (entry \/ ~replace)
  /\ digest' = Running
  /\ UNCHANGED <<hasHistory, history, at, event, seen, replaced, queue, counter, announced,
                 trouble>>

\* Something else is applied, before the browser tells of a change.
Apply ==
  /\ ~digest.on /\ event /\ trouble = {} /\ digest' = Running
  /\ UNCHANGED <<hasHistory, history, at, event, seen, replaced, location, queue, counter,
                 announced, changes, entry, trouble>>

-----------------------------------------------------------------------------
(* The digest *)

\* A listener of $locationChangeSuccess may send the user elsewhere ($route does, for a
\* route that redirects) in place of where it is.
Succeed(url) ==
  /\ announced' = url
  /\ \/ location' = [location EXCEPT !.url = url] /\ UNCHANGED changes
     \/ Change([location EXCEPT !.url = url], TRUE)

\* The expression of the event: an address without the prefix throws.
ParseEvent(job) ==
  /\ job.kind = "event"
  /\ IF Throws(job.url) THEN UNCHANGED <<announced, location, changes>>
     ELSE Succeed(Parsed(job.url))
  /\ UNCHANGED <<history, at, event, seen, replaced, entry>>

\* The expression of the watcher
SetAddress(job) ==
  /\ job.kind = "watch"
  /\ \/ /\ location' = IF Throws(job.url) THEN location
                       ELSE [location EXCEPT !.url = Parsed(job.url)]
        /\ UNCHANGED <<history, at, event, seen, replaced, announced, changes, entry>>
     \/ /\ BrowserUrl(location.url, job.replace, seen, event)
        /\ Succeed(location.url)
        /\ entry' = FALSE

RunAsync ==
  /\ digest.on /\ digest.stage = "async" /\ queue # <<>>
  /\ queue' = Tail(queue)
  /\ ParseEvent(Head(queue)) \/ SetAddress(Head(queue))
  /\ UNCHANGED <<hasHistory, counter, digest, trouble>>

\* $locationWatch()
LocationWatch ==
  LET differs == counter.value = 0 \/ Told # location.url
      value == counter.value + IF differs THEN 1 ELSE 0
  IN
  /\ digest.on /\ digest.stage = "async" /\ queue = <<>>
  /\ counter' = [value |-> value, last |-> value]
  /\ queue' = IF differs THEN <<[kind |-> "watch", url |-> Told, replace |-> location.replace]>>
              ELSE <<>>
  /\ location' = [location EXCEPT !.replace = FALSE]
  /\ digest' = [digest EXCEPT !.stage = "others", !.dirty = value # counter.last]
  /\ trouble' = trouble \cup IF seen # Told THEN {"overtaken"} ELSE {}
  /\ UNCHANGED <<hasHistory, history, at, event, seen, replaced, announced, changes, entry>>

\* A watcher that is called after it
WatcherChanges(replace) ==
  /\ digest.on /\ digest.stage = "others"
  /\ Change(location, replace) /\ entry' = TRUE
  /\ digest' = [digest EXCEPT !.dirty = TRUE]
  /\ UNCHANGED <<hasHistory, history, at, event, seen, replaced, queue, counter, announced,
                 trouble>>

\* The digest starts over, gives up, or ends.
EndPass ==
  /\ digest.on /\ digest.stage = "others"
  /\ IF digest.dirty /\ digest.ttl = 0
     THEN digest' = Stopped /\ trouble' = trouble \cup {"aborted"}
     ELSE /\ digest' = IF ~digest.dirty /\ queue = <<>> THEN Stopped
                       ELSE [digest EXCEPT !.stage = "async", !.dirty = FALSE,
                                           !.ttl = IF digest.dirty THEN @ - 1 ELSE @]
          /\ UNCHANGED trouble
  /\ UNCHANGED <<hasHistory, history, at, event, seen, replaced, location, queue, counter,
                 announced, changes, entry>>

LoNext ==
  \/ \E to \in DOMAIN history : Go(to)
  \/ \E url \in Typed : Open(url)
  \/ UrlChanged
  \/ \E replace \in BOOLEAN : ApplyChange(replace) \/ WatcherChanges(replace)
  \/ Apply \/ RunAsync \/ LocationWatch \/ EndPass

LoSpec == LoInit /\ [][LoNext]_loVars

-----------------------------------------------------------------------------
(* Properties *)

\* Type correctness of the address and the history.
LoTypeOK ==
  /\ at \in DOMAIN history /\ counter.last <= counter.value
  /\ location.url.form = "plain" /\ location.replace \in BOOLEAN
  /\ digest.ttl \in 0 .. TTL /\ trouble \subseteq {"aborted", "overtaken"}
  /\ hasHistory => replaced = Nowhere

\* Nothing is left to do, no digest gave up, and none came between a change of the user's
\* and its event: such a digest takes the change for one of $location, and what it does
\* about it is not what the event then makes good.
Settled == ~event /\ ~digest.on /\ trouble = {}

\* In the end the address, as the browser tells it, is the one $location has; and it is
\* the one the browser shows, unless it has no pushState() and an entry was replaced: the
\* address that replaced it is told ever after, wherever the user goes.
AddressInStep ==
  Settled => /\ location.url = Told /\ seen = Told
             /\ replaced = Nowhere => location.url = Href

\* In the end the views have heard of the address, once they heard of any.
ChangeAnnounced ==
  Settled /\ announced # Nowhere => announced = location.url

\* A change that is to replace the address, and no other, adds no entry to the history,
\* unless a watcher makes it after $locationWatch was called: its replace() is lost.  An
\* address that $location writes otherwise adds one, and one that can not be gone back to.
ReplaceAddsNoEntry ==
  [][digest.on /\ announced # Nowhere /\ trouble = {} /\ at' > at => entry]_loVars
===============================================================================
