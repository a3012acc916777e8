---------------------------- MODULE NewRfReceiver ----------------------------
(***************************************************************************)
(* The dialog that adds a receiver (NewRfReceiverCtrl of receivers.js) and *)
(* the dialogs it opens over itself: the editor of a profile and the       *)
(* question whether to delete a profile or its receiver (rcm.js), which    *)
(* the editor asks, too.                                                   *)
(*                                                                         *)
(* A dialog opens some time after it was asked for, when its template has  *)
(* come; until then the dialog below takes the clicks.  Requests are       *)
(* answered in any order.                                                  *)
(***************************************************************************)
EXTENDS Integers, Sequences, FiniteSets, SequencesExt

CONSTANTS Url, NoUrl, ProfileId,
          Bare,        \* collectors without providers
          Connected,   \* collectors whose profile has a receiver at first
          Searched,    \* addresses the user searches for: those of collectors and
                       \* of profiles
          MaxClicks,   \* searches and dialogs the user asks for, at most; receivers are
                       \* created before the last of them
          MaxReceivers,\* receivers there were or are to be, at most
          MaxRequests  \* requests on their way, at most

VARIABLES collectors,  \* the profiles each collector has
          receivers,   \* the addresses the store's receivers have, Nowhere once deleted
          page,        \* the dialog: profiles, query, selectedProfile and newReceiver
          nested,      \* dialogs it has opened, the last one on top
          asks,        \* requests on their way
          searches, dialogs,
          raced,       \* another profile could be selected while a dialog was to open
          outOfStep    \* a dialog was left before its answer came, a listed
                       \* identifier used again, a deletion confirmed twice or from
                       \* inside an editor, where nobody hears of it

nrVars == <<collectors, receivers, page, nested, asks, searches, dialogs, raced, outOfStep>>

\* The address of a profile of a collector, of the collector itself if id is 0.
At(u, id) == [url |-> u, id |-> id]
Nowhere == At(NoUrl, 0)

\* A row of the list.  It was made by a search or, below 0, by a dialog; without settings
\* it stands for no profile or for one the collector does not know; 0 is the new profile
\* of a provider, and receiver 0 is none.
Profile(made, u, id, settings, receiver) ==
  [made |-> made, url |-> u, id |-> id, settings |-> settings, receiver |-> receiver]
NoProfile == Profile(0, NoUrl, 0, FALSE, 0)   \* undefined, null

Sorted(ids) ==
  [i \in 1 .. Cardinality(ids) |-> CHOOSE k \in ids : Cardinality({m \in ids : m <= k}) = i]

NrInit ==
  /\ collectors = [u \in Url |-> IF u \in Bare THEN {} ELSE {1}]
  /\ receivers \in [1 .. Cardinality(Connected) -> {At(u, 1) : u \in Connected}]
  /\ IsInjective(receivers)
  /\ page = [open |-> TRUE, collector |-> Nowhere, list |-> <<>>, selected |-> NoProfile,
             invalid |-> FALSE, inProgress |-> 0, url |-> NoUrl, updating |-> FALSE]
  /\ nested = <<>> /\ asks = <<>>
  /\ searches = 0 /\ dialogs = 0
  /\ raced = FALSE /\ outOfStep = FALSE

-----------------------------------------------------------------------------
Open == {i \in DOMAIN nested : nested[i].open}
OnTop(i) == i \in Open /\ i = Max(Open)
PageOnTop == page.open /\ Open = {}

\* SelectedProfile.mode()
Mode ==
  LET p == page.selected IN
  CASE page.invalid -> "anyway"
    [] ~page.invalid /\ p = NoProfile -> "none"
    [] ~page.invalid /\ p # NoProfile /\ ~p.settings -> IF p.id # 0 THEN "anyway" ELSE "none"
    [] ~page.invalid /\ p.settings ->
         IF p.id = 0 THEN "new" ELSE IF p.receiver # 0 THEN "again" ELSE "connect"

Configurable == Mode \in {"connect", "again"}

Ask(kind, no, address, receiver) ==
  /\ Len(asks) < MaxRequests
  /\ asks' = Append(asks, [kind |-> kind, no |-> no, url |-> address.url, id |-> address.id,
                           receiver |-> receiver, stage |-> "sent", list |-> <<>>])

\* Query.find(): the profiles of the collector before are gone at once.
Searching(u) ==
  [page EXCEPT !.collector = Nowhere, !.list = <<>>, !.selected = NoProfile,
               !.invalid = FALSE, !.inProgress = searches + 1, !.url = u]

Find(address) ==
  /\ PageOnTop /\ searches + dialogs < MaxClicks
  /\ searches' = searches + 1
  /\ page' = Searching(address.url)
  /\ Ask("profiles", searches + 1, address, 0)
  /\ raced' = (raced \/ nested # <<>>)
  /\ UNCHANGED <<collectors, receivers, nested, dialogs, outOfStep>>

\* The select of the dialog: its model becomes the row.
SelectProfile(i) ==
  /\ PageOnTop
  /\ page.list[i] # page.selected
  /\ page' = [page EXCEPT !.selected = page.list[i]]
  /\ raced' = (raced \/ nested # <<>>)
  /\ UNCHANGED <<collectors, receivers, nested, asks, searches, dialogs, outOfStep>>

\* $modal.open(): the template is asked for; over is the editor that asks, 0 the page.
OpenDialog(kind, over, address, made, receiver) ==
  /\ searches + dialogs < MaxClicks
  /\ dialogs' = dialogs + 1
  /\ nested' = Append(nested, [no |-> dialogs + 1, kind |-> kind, over |-> over, open |-> FALSE,
                               url |-> address.url, id |-> address.id, made |-> made,
                               receiver |-> receiver, updating |-> FALSE])
  /\ raced' = (raced \/ (nested # <<>> /\ over = 0))
  /\ UNCHANGED <<collectors, receivers, asks, searches, outOfStep>>

\* SelectedProfile.create()
CreateProfile ==
  /\ PageOnTop /\ ~page.updating /\ Mode = "new"
  /\ OpenDialog("create", 0, At(page.collector.url, 0), 0, 0)
  /\ page' = [page EXCEPT !.updating = TRUE]

\* SelectedProfile.configure() and del() take the selected profile with them.
OpenSelected(kind) ==
  /\ PageOnTop /\ ~page.updating /\ Configurable
  /\ OpenDialog(kind, 0, At(page.collector.url, page.selected.id), page.selected.made,
                page.selected.receiver)
  /\ UNCHANGED page

\* ProfileEditor.del(): offered for a profile with a receiver; nothing waits for its result.
DeleteInside(i) ==
  /\ OnTop(i)
  /\ nested[i].kind = "configure" /\ nested[i].receiver # 0 /\ ~nested[i].updating
  /\ OpenDialog("delete", nested[i].no, nested[i], nested[i].made, nested[i].receiver)
  /\ UNCHANGED page

\* NewReceiver.create(): nothing keeps a second click from creating another one.
CreateReceiver ==
  LET c == page.collector
      creating == {k \in DOMAIN asks : asks[k].kind = "receiver" /\ asks[k].stage = "sent"}
  IN
  /\ searches + dialogs < MaxClicks
  /\ Len(receivers) + Cardinality(creating) < MaxReceivers
  /\ PageOnTop /\ Mode \in {"connect", "again", "anyway"}
  /\ c.url # NoUrl
  /\ Ask("receiver", 0, IF page.selected.id = 0 THEN c
                        ELSE IF c.id = 0 THEN At(c.url, page.selected.id) ELSE Nowhere, 0)
  /\ UNCHANGED <<collectors, receivers, page, nested, searches, dialogs, raced, outOfStep>>

\* The template of a dialog comes: it opens above the others.
DialogOpens(i) ==
  /\ ~nested[i].open
  /\ nested' = Append(RemoveAt(nested, i), [nested[i] EXCEPT !.open = TRUE])
  /\ UNCHANGED <<collectors, receivers, page, asks, searches, dialogs, raced, outOfStep>>

\* Dialog i is no more.
Closed(i) == nested' = RemoveAt(nested, i)

\* SelectedProfile.create() hears that its dialog was dismissed.
Rejected(i) ==
  page' = IF nested[i].kind = "create" THEN [page EXCEPT !.updating = FALSE] ELSE page

DialogFails(i) ==
  /\ ~nested[i].open
  /\ Closed(i) /\ Rejected(i)
  /\ UNCHANGED <<collectors, receivers, asks, searches, dialogs, raced, outOfStep>>

\* $dismiss() of a dialog; a request it has sent goes on.
Dismiss(i) ==
  /\ OnTop(i)
  /\ Closed(i) /\ Rejected(i)
  /\ outOfStep' = (outOfStep \/ \E k \in DOMAIN asks : asks[k].no = nested[i].no
                                    /\ asks[k].kind \in {"save", "delete"})
  /\ UNCHANGED <<collectors, receivers, asks, searches, dialogs, raced>>

\* ProfileEditor.save(): the identifier of a new profile may have been changed.
Save(i, id) ==
  /\ OnTop(i)
  /\ nested[i].kind \in {"create", "configure"} /\ ~nested[i].updating
  /\ nested[i].kind = "configure" => id = nested[i].id
  /\ nested' = [nested EXCEPT ![i].updating = TRUE]
  /\ Ask("save", nested[i].no, At(nested[i].url, id), 0)
  /\ outOfStep' = (outOfStep \/ (/\ nested[i].kind = "create"
                                  /\ \E k \in DOMAIN page.list : page.list[k].id = id))
  /\ UNCHANGED <<collectors, receivers, page, searches, dialogs, raced>>

\* deleteProfile() and deleteReceiver(), without the profile only if there is a receiver:
\* the buttons are not disabled while it is deleting.
ConfirmDelete(i, withProfile) ==
  LET d == nested[i] IN
  /\ OnTop(i) /\ d.kind = "delete"
  /\ withProfile \/ d.receiver # 0
  /\ nested' = [nested EXCEPT ![i].updating = TRUE]
  /\ Ask("delete", d.no, At(d.url, IF withProfile THEN d.id ELSE 0), d.receiver)
  /\ outOfStep' = (outOfStep \/ d.updating \/ d.over # 0)
  /\ UNCHANGED <<collectors, receivers, page, searches, dialogs, raced>>

-----------------------------------------------------------------------------
(* Profiles *)

\* set(): the profile named is selected; when there is none, a row says so, which a
\* list without profiles does not show.
WithProfiles(p, r) ==
  LET ids == Sorted(DOMAIN r.list)
      rows == IF r.url \in Bare THEN <<>>
              ELSE <<Profile(r.no, r.url, 0, TRUE, 0)>> \o
                   [i \in DOMAIN ids |-> Profile(r.no, r.url, ids[i], TRUE, r.list[ids[i]])]
      named == {i \in DOMAIN rows : r.id # 0 /\ rows[i].id = r.id}
      other == Profile(r.no, NoUrl, r.id, FALSE, 0)
      none == named = {} /\ p.selected = NoProfile
  IN [p EXCEPT !.collector = At(r.url, 0),
               !.list = IF none /\ rows # <<>> THEN <<other>> \o rows ELSE rows,
               !.selected = IF named # {} THEN rows[Max(named)]
                            ELSE IF none THEN other ELSE p.selected]

Index(p) == IF Contains(p.list, p.selected)
            THEN Min({i \in DOMAIN p.list : p.list[i] = p.selected}) ELSE 0

\* addCreated(): before the selected row; splice() counts from the end when there is none.
AddCreated(p, created) ==
  LET at == IF Index(p) > 0 THEN Index(p) ELSE Max({1, Len(p.list)}) IN
  [p EXCEPT !.list = InsertAt(@, at, created), !.selected = created, !.updating = FALSE]

\* removeSelected(): the row below is selected; without a selected row the last one goes.
RemoveSelected(p) ==
  LET at == IF Index(p) > 0 THEN Index(p) ELSE Len(p.list)
      rest == IF p.list = <<>> THEN <<>> ELSE RemoveAt(p.list, at)
  IN [p EXCEPT !.list = rest,
               !.selected = IF Index(p) \in DOMAIN rest THEN rest[Index(p)] ELSE NoProfile]

\* removeReceiver() of the row, and update(): what a save answers names no receiver.
WithoutReceiver(p, made, id) ==
  LET Cleared(row) == IF row.made = made /\ row.id = id THEN [row EXCEPT !.receiver = 0] ELSE row
  IN [p EXCEPT !.list = [i \in DOMAIN p.list |-> Cleared(p.list[i])],
               !.selected = Cleared(p.selected)]

\* The dialog that sent a request, none when it is closed: to close it again throws.
Sender(r) == {i \in DOMAIN nested : nested[i].no = r.no /\ nested[i].open}

\* What find() does with an answer: a collector that refuses is remembered all the same,
\* and one that is none can be connected to anyway.
Heard(p, r) ==
  CASE r.stage = "done" -> WithProfiles(p, r)
    [] r.stage = "failed" -> p
    [] r.stage \in {"refused", "invalid"} ->
         [p EXCEPT !.collector = At(r.url, r.id), !.invalid = (r.stage = "invalid")]

\* Mutant: every search is listened to.
FoundAny(r) == Heard([page EXCEPT !.inProgress = 0], r)

\* Only the last search is listened to.
Found(r) == IF page.inProgress # r.no THEN page ELSE Heard([page EXCEPT !.inProgress = 0], r)

\* What the page does with the result of dialog d, for which request r was made.
Resulted(d, r) ==
  CASE d.kind = "create" -> AddCreated(page, Profile(-d.no, r.url, r.id, TRUE, 0))
    [] d.kind = "configure" -> WithoutReceiver(page, d.made, d.id)
    [] d.kind = "delete" /\ d.over # 0 -> page
    [] d.kind = "delete" /\ d.over = 0 ->
         IF r.id # 0 THEN RemoveSelected(page)
         ELSE WithoutReceiver(page, page.selected.made, page.selected.id)

Answered(r) ==
  CASE r.kind = "profiles" ->
         /\ page' = Found(r)
         /\ UNCHANGED nested
    [] r.kind = "receiver" ->
         /\ page' = IF r.stage = "failed" THEN page ELSE [page EXCEPT !.open = FALSE]
         /\ UNCHANGED nested
    [] r.kind \in {"save", "delete"} /\ Sender(r) = {} -> UNCHANGED <<page, nested>>
    [] r.kind \in {"save", "delete"} /\ Sender(r) # {} ->
         LET i == Min(Sender(r)) IN
         IF r.stage = "failed"
         THEN /\ nested' = [nested EXCEPT ![i].updating = (r.kind = "delete")]
              /\ UNCHANGED page
         ELSE Closed(i) /\ page' = Resulted(nested[i], r)

Reply(k) ==
  /\ asks[k].stage # "sent"
  /\ asks' = RemoveAt(asks, k)
  /\ Answered(asks[k])
  /\ UNCHANGED <<collectors, receivers, searches, dialogs, raced, outOfStep>>

\* receiversByURL(): the first receiver there is for an address.
ReceiverOf(address) ==
  LET having == {n \in DOMAIN receivers : receivers[n] = address} IN
  IF having = {} THEN 0 ELSE Min(having)

HasReceiver(n) == n \in DOMAIN receivers /\ receivers[n] # Nowhere

\* The store serves a request (RcmController, RfReceiverController), in vain if why is not
\* "done".  It asks the collector, which has to be named and deletes no profile it does not
\* have; a profile is deleted before its receiver, also when that is no more.
Carry(k, why) ==
  LET r == asks[k]
      profile == r.kind = "delete" /\ r.id # 0
      done == /\ why = "done"
              /\ r.kind \in {"profiles", "save"} \/ profile => r.url \in Url
              /\ profile => r.id \in collectors[r.url]
      gone == r.kind = "delete" /\ r.receiver # 0 /\ ~HasReceiver(r.receiver)
  IN
  /\ r.stage = "sent"
  /\ why \in {"refused", "invalid"} => r.kind = "profiles"
  /\ asks' = [asks EXCEPT
       ![k].stage = IF done /\ ~gone THEN "done" ELSE IF why = "done" THEN "failed" ELSE why,
       ![k].list = IF done /\ r.kind = "profiles"
                   THEN [id \in collectors[r.url] |-> ReceiverOf(At(r.url, id))] ELSE <<>>]
  /\ collectors' = IF done /\ r.kind = "save" THEN [collectors EXCEPT ![r.url] = @ \cup {r.id}]
                   ELSE IF done /\ profile THEN [collectors EXCEPT ![r.url] = @ \ {r.id}]
                   ELSE collectors
  /\ receivers' = IF done /\ r.kind = "receiver" THEN Append(receivers, At(r.url, r.id))
                  ELSE IF done /\ r.kind = "delete" /\ r.receiver # 0 /\ ~gone
                  THEN [receivers EXCEPT ![r.receiver] = Nowhere]
                  ELSE receivers
  /\ UNCHANGED <<page, nested, searches, dialogs, raced, outOfStep>>

NrNext ==
  \/ \E address \in Searched : Find(address)
  \/ \E i \in DOMAIN page.list : SelectProfile(i)
  \/ CreateProfile \/ OpenSelected("configure") \/ OpenSelected("delete") \/ CreateReceiver
  \/ \E i \in DOMAIN nested : DeleteInside(i)
  \/ \E i \in DOMAIN nested : DialogOpens(i)
  \/ \E i \in DOMAIN nested : DialogFails(i)
  \/ \E i \in DOMAIN nested : Dismiss(i)
  \/ \E i \in DOMAIN nested, withProfile \in BOOLEAN : ConfirmDelete(i, withProfile)
  \/ \E i \in DOMAIN nested, id \in ProfileId : Save(i, id)
  \/ \E k \in DOMAIN asks : Reply(k)
  \/ \E k \in DOMAIN asks, why \in {"done", "failed", "refused", "invalid"} : Carry(k, why)

NrSpec == NrInit /\ [][NrNext]_nrVars

-----------------------------------------------------------------------------
(* Properties *)

\* Type correctness of the dialog and of what it has sent.
NrTypeOK ==
  /\ \A u \in Url : collectors[u] \subseteq ProfileId
  /\ page.collector.url \in Url \cup {NoUrl} /\ page.url \in Url \cup {NoUrl}
  /\ page.inProgress \in 0 .. MaxClicks
  /\ Len(nested) <= MaxClicks /\ Len(asks) <= MaxRequests

\* However the answers are ordered, the profiles shown are those of the collector
\* that was asked for last (Query.find).
ProfilesOfLastSearch == page.collector.url \in {NoUrl, page.url}

\* Unless the user searched or selected another one while a dialog was to open,
\* a profile that is listed belongs to the collector the dialog shows.
ListOfOneCollector ==
  ~raced => \A i \in DOMAIN page.list : page.list[i].url \in {page.collector.url, NoUrl}

Deleting == \E k \in DOMAIN asks : asks[k].kind = "delete" /\ asks[k].stage # "failed"

\* What is created is listed and what is deleted is not: unless a dialog was left before its
\* answer came, an identifier used again, or a deletion confirmed twice or from inside an
\* editor, every profile listed is one its collector has, and the receiver it is listed with
\* is there and receives from it (addCreated, removeSelected, removeReceiver, update).
ListedProfilesExist ==
  ~raced /\ ~outOfStep /\ ~Deleting =>
    \A i \in DOMAIN page.list :
      LET row == page.list[i] IN
      row.settings /\ row.id # 0 =>
        /\ row.id \in collectors[row.url]
        /\ row.receiver # 0 => receivers[row.receiver] = At(row.url, row.id)

\* Unless the user went on while a dialog was to open, the selected profile is one of the
\* list, whatever was searched, added and removed, or the list has no profiles at all (set,
\* addCreated, removeSelected).
SelectedIsListed ==
  ~raced /\ page.selected # NoProfile =>
    Contains(page.list, page.selected) \/ (page.list = <<>> /\ ~page.selected.settings)

\* The buttons are disabled only as long as the editor of a new profile is there or
\* is to open: every end of it enables them (SelectedProfile.create).
ButtonsComeBack ==
  page.updating => \E i \in DOMAIN nested : nested[i].kind = "create"
=============================================================================
