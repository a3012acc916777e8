-------------------------------- MODULE RfTags --------------------------------
(***************************************************************************)
(* The page that searches for tags (tags/tags.js) with the two services it *)
(* depends on: the messages on top of the page (Notifier) and the widget   *)
(* that selects a page of the results (Pagination).                        *)
(*                                                                         *)
(* What is searched for is kept in the address: a search that changes it   *)
(* makes another controller, one that does not is made again by the same.  *)
(* A query is a filter (receiver, tag and time) and a page of one event.   *)
(***************************************************************************)
EXTENDS Integers, Sequences, FiniteSets

CONSTANTS Filter, MaxEvents,
          MaxSearches,   \* searches
          MaxFailures,   \* searches that fail
          MaxStored      \* changes of the stored events

VARIABLES found,     \* the number of events the store has for a filter
          version,   \* counts the changes of found
          page,      \* the page: address, controller, messages
          searches,  \* requests on their way
          failures

tgVars == <<found, version, page, searches, failures>>

N == INSTANCE Notifier WITH MaxMessages <- 2 * MaxSearches, messages <- page.messages,
                            lastNo <- page.lastNo, timers <- page.timers
P == INSTANCE Pagination WITH MaxItems <- MaxEvents, MaxPage <- MaxEvents + 1, PerPage <- {1},
                              MaxSize <- 9, total <- page.result.total, perPage <- 1,
                              rotate <- TRUE, pager <- page.pager

NoResult == [no |-> 0, query |-> [filter |-> "none", page |-> 1], total |-> 0, version |-> 0]
Query == [filter : Filter, page : 1 .. MaxEvents + 1]

\* The requests rs but the k-th, which has been dealt with.
Without(rs, k) == SubSeq(rs, 1, k - 1) \o SubSeq(rs, k + 1, Len(rs))

\* The page state b (the browser's) and the requests rs, changed together.
Both(b, rs) == [page |-> b, searches |-> rs]

Notified(b, kind) ==
  [b EXCEPT !.lastNo = @ + 1,
            !.messages = N!VisibleMessages(N!AddMessage(@, N!Message(b.lastNo + 1, kind))),
            !.timers = IF kind = "error" THEN @ \cup {b.lastNo + 1} ELSE @]

Close(b, no) == [b EXCEPT !.messages = N!VisibleMessages(N!CloseMessage(@, no))]

\* Query.find()
Find(b, rs) ==
  LET told == Notified(b, "info") IN
  Both([told EXCEPT !.loading = told.lastNo, !.inProgress = TRUE],
       Append(rs, [ctrl |-> b.ctrl, no |-> told.lastNo, query |-> b.url, stage |-> "sent",
                   answer |-> NoResult]))

\* Mutant: the controller shows the results of the one before.
NewControllerKeeps(b, rs, q) ==
  Find([b EXCEPT !.url = q, !.ctrl = @ + 1, !.here = TRUE, !.loading = 0], rs)

\* A controller of the page for the query q of the address.
NewController(b, rs, q) ==
  LET pager == [page |-> q.page, self |-> 0, totalPages |-> 0, links |-> <<>>] IN
  Find([b EXCEPT !.url = q, !.ctrl = @ + 1, !.here = TRUE, !.loading = 0, !.result = NoResult,
                 !.pager = P!DigestPager(pager, 0, 1, TRUE)], rs)

\* Query.search(): the message of the last search is closed, and the address set.
Search(b, rs, q) ==
  LET closed == IF b.loading # 0 THEN Close(b, b.loading) ELSE b IN
  IF q = b.url THEN Find(closed, rs) ELSE NewController(closed, rs, q)

Become(both) == page' = both.page /\ searches' = both.searches

TgInit ==
  /\ found = [f \in Filter |-> MaxEvents] /\ version = 0
  /\ page = [url |-> NoResult.query, ctrl |-> 0, here |-> FALSE, loading |-> 0,
             inProgress |-> FALSE, result |-> NoResult,
             pager |-> [page |-> 1, self |-> 1, totalPages |-> 0, links |-> <<>>],
             messages |-> <<>>, lastNo |-> 0, timers |-> {}]
  /\ searches = <<>> /\ failures = 0

-----------------------------------------------------------------------------
MaySearch == page.lastNo + failures < MaxSearches

\* A link, a bookmark or the back button: the address is given (from this page, it is
\* left first).
Navigate(q) ==
  /\ MaySearch /\ ~page.here
  /\ Become(NewController(page, searches, q))
  /\ UNCHANGED <<found, version, failures>>

\* Away from the page: the requests of its controller go on.
Leave ==
  /\ page.here
  /\ page' = [page EXCEPT !.here = FALSE]
  /\ UNCHANGED <<found, version, searches, failures>>

\* newSearch(): a receiver, a tag or a time is clicked, or the button while no search runs.
NewSearch(f) ==
  /\ page.here /\ MaySearch
  /\ Become(Search(page, searches, [filter |-> f, page |-> 1]))
  /\ UNCHANGED <<found, version, failures>>

\* setPage(): a link of the pagination is clicked.
SetPage(n) ==
  /\ page.here /\ MaySearch
  /\ n # page.pager.self /\ n \in 1 .. page.pager.totalPages
  /\ Become(Search([page EXCEPT !.pager.page = n], searches, [page.url EXCEPT !.page = n]))
  /\ UNCHANGED <<found, version, failures>>

\* Mutant: the page asked for is left although it does not exist.
ShownBeyond(b, rs, r) ==
  Both(Close([b EXCEPT !.inProgress = FALSE, !.result = r.answer,
                       !.pager = P!DigestPager(@, r.answer.total, 1, TRUE)], r.no), rs)

\* The answer of a search is shown if it was the last one of the controller; the digest
\* that follows shows another page when the one asked for does not exist.
Shown(b, rs, r) ==
  LET done == Close([b EXCEPT !.inProgress = FALSE, !.result = r.answer], r.no)
      pager == P!DigestPager(b.pager, r.answer.total, 1, TRUE)
      told == [done EXCEPT !.pager = pager]
  IN IF pager.page = b.pager.page THEN Both(told, rs)
     ELSE Search(told, rs, [b.url EXCEPT !.page = pager.page])

\* Mutant: any search of the controller.
IsLastOfCtrl(r) == page.here /\ r.ctrl = page.ctrl

IsLast(r) == page.here /\ r.ctrl = page.ctrl /\ r.no = page.loading

\* Mutant: only the controller of the page is listened to.
DroppedOpen(b, r) == b

\* What a controller that is no more does: it closes its message.
Dropped(b, r) == IF r.ctrl = b.ctrl /\ b.here THEN b ELSE Close(b, r.no)

Success(k) ==
  LET r == searches[k]
      rest == Without(searches, k)
  IN
  /\ r.stage = "done"
  /\ Become(IF IsLast(r) THEN Shown(page, rest, r) ELSE Both(Dropped(page, r), rest))
  /\ UNCHANGED <<found, version, failures>>

\* Mutant: the page goes on to say that it is searching.
FailedSearching(r) == IF IsLast(r) THEN Close(page, r.no) ELSE Dropped(page, r)

Failed(r) ==
  IF IsLast(r) THEN Close([page EXCEPT !.inProgress = FALSE], r.no) ELSE Dropped(page, r)

Failure(k) ==
  /\ failures < MaxFailures
  /\ failures' = failures + 1
  /\ page' = Notified(Failed(searches[k]), "error")
  /\ searches' = Without(searches, k)
  /\ UNCHANGED <<found, version>>

\* The timer of an error, or the user who closes it.
CloseError(no) ==
  /\ page' = [Close(page, no) EXCEPT !.timers = @ \ {no}]
  /\ UNCHANGED <<found, version, searches, failures>>

\* The store answers (RfTagController).
Answer(k) ==
  LET q == searches[k].query IN
  /\ searches[k].stage = "sent"
  /\ searches' = [searches EXCEPT ![k].stage = "done",
                    ![k].answer = [no |-> searches[k].no, query |-> q,
                                   total |-> found[q.filter], version |-> version]]
  /\ UNCHANGED <<found, version, page, failures>>

\* Events are stored, or deleted with their receiver.
Store(f, n) ==
  /\ version < MaxStored
  /\ version' = version + 1
  /\ found' = [found EXCEPT ![f] = n]
  /\ UNCHANGED <<page, searches, failures>>

TgNext ==
  \/ \E q \in Query : Navigate(q)
  \/ Leave
  \/ \E f \in Filter : NewSearch(f)
  \/ \E n \in 1 .. MaxEvents : SetPage(n)
  \/ \E k \in DOMAIN searches : Success(k)
  \/ \E k \in DOMAIN searches : Failure(k)
  \/ \E no \in page.timers : CloseError(no)
  \/ \E k \in DOMAIN searches : Answer(k)
  \/ \E f \in Filter, n \in 0 .. MaxEvents : Store(f, n)

TgSpec == TgInit /\ [][TgNext]_tgVars

-----------------------------------------------------------------------------
\* Type correctness of the address, the searches and what is stored.
TgTypeOK ==
  /\ found \in [Filter -> 0 .. MaxEvents] /\ version \in 0 .. MaxStored
  /\ page.url \in Query \cup {NoResult.query}
  /\ \A k \in DOMAIN searches : searches[k].query \in Query

\* The message of a search goes away with it: one that is shown has a request on its
\* way, whatever controllers came and went meanwhile (search, find).
LoadingMessagesEnd ==
  \A i \in DOMAIN page.messages :
    page.messages[i].kind = "info" =>
      \E k \in DOMAIN searches : searches[k].no = page.messages[i].no

\* A page that says it is searching has its last search on its way.
SearchingEnds ==
  page.here /\ page.inProgress =>
    \E k \in DOMAIN searches : searches[k].ctrl = page.ctrl /\ searches[k].no = page.loading

\* The results, the query and the address of a page belong together.
ResultsMatchAddress == page.result.no # 0 => page.result.query = page.url

\* Answers that come out of order do not take a page back to what was stored earlier.
ResultsNeverGoBack ==
  [][page'.ctrl = page.ctrl => page'.result.version >= page.result.version]_tgVars

\* A page beyond the last one is not shown while there are events: its results make
\* the pagination ask for the last page at once.
NoPageBeyondTheLast ==
  page.result.total > 0 => page.url.page <= page.result.total
===============================================================================
