----------------------------- MODULE RfReceivers -----------------------------
(***************************************************************************)
(* The receivers a page of the store shows (receivers/receivers.js): the   *)
(* list is asked for every five seconds, whether or not the last answer    *)
(* came, and merged into the rows; at the same time the user creates,      *)
(* starts, stops and deletes receivers and so do the users of other pages. *)
(* Requests are answered and their answers delivered in any order.         *)
(*                                                                         *)
(* A receiver is its identifier and whether it is active.  A row is also   *)
(* the object it shows, which a merge keeps, and the flag of its           *)
(* controller that disables its buttons.                                   *)
(***************************************************************************)
EXTENDS Integers, Sequences, FiniteSets, SequencesExt

CONSTANTS MaxChanges,   \* changes the users make, here and elsewhere
          MaxRequests,  \* requests of this page that are not done, at most
          MaxFailures   \* requests that fail

VARIABLES store,      \* the receivers of the server: id -> active
          lastId,     \* the last id it gave
          rows,       \* receivers.list
          requests,   \* in the order they were sent
          changesLeft,
          failuresLeft

rcvVars == <<store, lastId, rows, requests, changesLeft, failuresLeft>>

ASSUME ReceiversAssumption ==
  MaxChanges \in Nat /\ MaxRequests \in Nat /\ MaxFailures \in Nat

Rows == [obj : Nat \ {0}, id : Nat \ {0}, active : BOOLEAN, updating : BOOLEAN]

Objs(l) == {l[i].obj : i \in DOMAIN l}

\* An object that is new: which one does not matter.
Fresh(used) == CHOOSE o \in 1 .. Cardinality(used) + 1 : o \notin used

\* Mutant: a row is known by its object, not by the identifier of its receiver.
RowByObject(o, id, active) == [obj |-> o, id |-> o, active |-> active, updating |-> FALSE]

Row(o, id, active) == [obj |-> o, id |-> id, active |-> active, updating |-> FALSE]

\* What the server answers to GET receivers/all: sorted by id.
AllReceivers ==
  [i \in 1 .. Cardinality(DOMAIN store) |->
     LET id == CHOOSE j \in DOMAIN store : Cardinality({k \in DOMAIN store : k <= j}) = i
     IN [id |-> id, active |-> store[id]]]

RcvInit ==
  /\ store = [i \in {1} |-> TRUE] /\ lastId = 1
  /\ rows = <<>>
  /\ requests = <<[kind |-> "all", obj |-> 0, id |-> 0, active |-> FALSE, stage |-> "sent", list |-> <<>>]>>
  /\ changesLeft = MaxChanges /\ failuresLeft = MaxFailures

-----------------------------------------------------------------------------
(* mergeReceivers(): m holds the list and the variables len1, i1 and i2     *)
(* (positions count from 1) of the loop.  len1, the length of the list as   *)
(* the loop knows it, does not count what it inserts before a larger id.    *)

Busy == Objs(requests) \cup Objs(rows)

Loop == [list : Seq(Rows), len1 : Nat, i1 : Nat, i2 : Nat]

\* One turn of the loop.
MergeTurn(answer) ==
  [m \in Loop |->
     LET r2 == answer[m.i2]
         r1 == m.list[m.i1]
         new == Row(Fresh(Busy \cup Objs(m.list)), r2.id, r2.active)
         passed == [m EXCEPT !.i1 = @ + 1, !.i2 = @ + 1]
     IN IF m.i2 > Len(answer) THEN m
        ELSE IF m.i1 > m.len1 \/ r1.id > r2.id THEN [passed EXCEPT !.list = InsertAt(@, m.i1, new)]
        ELSE IF r1.id < r2.id THEN [m EXCEPT !.list = RemoveAt(@, m.i1), !.len1 = @ - 1]
        ELSE [passed EXCEPT !.list = [k \in DOMAIN m.list |->
                IF m.list[k].obj = r1.obj THEN [m.list[k] EXCEPT !.active = r2.active] ELSE m.list[k]]]]

\* The loop: each turn goes on in the answer or shortens the list.
Turns(answer) ==
  LET m[t \in 0 .. Len(rows) + Len(answer)] ==
        IF t = 0 THEN [list |-> rows, len1 |-> Len(rows), i1 |-> 1, i2 |-> 1]
        ELSE MergeTurn(answer)[m[t - 1]]
  IN m

\* What is left behind the answer is cut off: splice(i1, len1 - i1).
Spliced(m) ==
  IF m.i1 > m.len1 THEN m.list
  ELSE SubSeq(m.list, 1, m.i1 - 1) \o SubSeq(m.list, m.len1 + 1, Len(m.list))

\* The list as the loop leaves it.
Looped(answer) == Turns(answer)[Len(rows) + Len(answer)]

\* Mutant: an answer as long as the list is taken to bring nothing new.
MergedIfLonger(answer) == IF Len(answer) = Len(rows) THEN rows ELSE Spliced(Looped(answer))

\* Mutant: what is beyond the answer is not cut off.
MergedUncut(answer) == Looped(answer).list

Merged(answer) == Spliced(Looped(answer))

Send(kind, o, id, active) ==
  requests' = Append(requests,
    [kind |-> kind, obj |-> o, id |-> id, active |-> active,
     stage |-> "sent", list |-> <<>>])

-----------------------------------------------------------------------------
(* The page *)

\* The timer of refreshReceivers().
Refresh ==
  /\ Len(requests) < MaxRequests
  /\ Send("all", 0, 0, FALSE)
  /\ UNCHANGED <<store, lastId, rows, changesLeft, failuresLeft>>

Change ==
  /\ changesLeft > 0 /\ Len(requests) < MaxRequests
  /\ changesLeft' = changesLeft - 1

\* newReceiver().create()
Create ==
  /\ Change
  /\ Send("create", Fresh(Busy), 0, TRUE)
  /\ UNCHANGED <<store, lastId, rows, failuresLeft>>

\* start() and stop() of a row: its buttons are disabled while it is updating.
Start(i) ==
  LET r == rows[i] IN
  /\ Change
  /\ ~r.updating
  /\ rows' = [k \in DOMAIN rows |->
                [rows[k] EXCEPT !.active = IF rows[k].obj = r.obj THEN ~r.active ELSE @,
                                !.updating = (k = i) \/ @]]
  /\ Send("save", r.obj, r.id, ~r.active)
  /\ UNCHANGED <<store, lastId, failuresLeft>>

Del(i) ==
  /\ Change
  /\ Send("del", rows[i].obj, rows[i].id, FALSE)
  /\ UNCHANGED <<store, lastId, rows, failuresLeft>>

\* Mutant: the flag is never reset.
EndUpdateNever(l, o) == l

\* endUpdate() of the row that asked; when two rows of one object are updating, the first one
\* stands for it.
EndUpdate(l, o) ==
  LET mine == {k \in DOMAIN l : l[k].obj = o /\ l[k].updating} IN
  IF mine = {} THEN l ELSE [l EXCEPT ![Min(mine)].updating = FALSE]

\* updateReceiver(): the first row of that id, if there is one, now shows the object.
UpdateReceiver(r) ==
  LET copied == [k \in DOMAIN rows |->
                   IF rows[k].obj = r.obj THEN [rows[k] EXCEPT !.active = r.active] ELSE rows[k]]
      found == {k \in DOMAIN rows : rows[k].id = r.id}
      k == Min(found)
  IN IF found = {} \/ rows[k].obj = r.obj THEN copied
     ELSE [copied EXCEPT ![k] = Row(r.obj, r.id, r.active)]

RemoveReceiver(o) ==
  LET mine == {k \in DOMAIN rows : rows[k].obj = o} IN
  IF mine = {} THEN rows ELSE RemoveAt(rows, Min(mine))

\* The answer to request k comes: the callbacks of its kind run.
Answer(k) ==
  LET r == requests[k] IN
  /\ r.stage # "sent"
  /\ requests' = RemoveAt(requests, k)
  /\ rows' = IF r.stage = "failed"
             THEN IF r.kind = "save" THEN EndUpdate(rows, r.obj) ELSE rows
             ELSE CASE r.kind = "all"    -> Merged(r.list)
                    [] r.kind = "create" -> Append(rows, Row(r.obj, r.id, TRUE))
                    [] r.kind = "save"   -> EndUpdate(UpdateReceiver(r), r.obj)
                    [] r.kind = "del"    -> RemoveReceiver(r.obj)
  /\ UNCHANGED <<store, lastId, changesLeft, failuresLeft>>

-----------------------------------------------------------------------------
(* The server (RfReceiverController, RfStoreImpl) *)

With(id, active) == [i \in DOMAIN store \cup {id} |-> IF i = id THEN active ELSE store[i]]
Without(id) == [i \in DOMAIN store \ {id} |-> store[i]]

\* Request k is carried out; one that names a receiver the store does not have fails.
Serve(k) ==
  LET r == requests[k]
      known == r.kind \in {"save", "del"} => r.id \in DOMAIN store
      id == IF r.kind = "create" THEN lastId + 1 ELSE r.id
  IN
  /\ r.stage = "sent"
  /\ store' = CASE r.kind = "all" \/ ~known -> store
                [] r.kind = "del" /\ known  -> Without(r.id)
                [] r.kind \in {"create", "save"} /\ known -> With(id, r.active)
  /\ lastId' = IF r.kind = "create" THEN id ELSE lastId
  /\ requests' = [requests EXCEPT ![k] = [r EXCEPT !.id = id,
                    !.stage = IF known THEN "answered" ELSE "failed",
                    !.list = IF r.kind = "all" THEN AllReceivers ELSE @]]
  /\ UNCHANGED <<rows, changesLeft, failuresLeft>>

\* A request or its answer is lost.
Fail(k) ==
  /\ failuresLeft > 0
  /\ requests[k].stage # "failed"
  /\ requests' = [requests EXCEPT ![k].stage = "failed"]
  /\ failuresLeft' = failuresLeft - 1
  /\ UNCHANGED <<store, lastId, rows, changesLeft>>

\* Another page creates, starts, stops or deletes a receiver.
Elsewhere ==
  /\ changesLeft > 0
  /\ changesLeft' = changesLeft - 1
  /\ \/ store' = With(lastId + 1, TRUE) /\ lastId' = lastId + 1
     \/ \E id \in DOMAIN store : store' = With(id, ~store[id]) /\ UNCHANGED lastId
     \/ \E id \in DOMAIN store : store' = Without(id) /\ UNCHANGED lastId
  /\ UNCHANGED <<rows, requests, failuresLeft>>

ServeAny == \E k \in DOMAIN requests : Serve(k)
AnswerAny == \E k \in DOMAIN requests : Answer(k)

RcvNext ==
  \/ Refresh
  \/ Create
  \/ \E i \in DOMAIN rows : Start(i)
  \/ \E i \in DOMAIN rows : Del(i)
  \/ ServeAny
  \/ AnswerAny
  \/ \E k \in DOMAIN requests : Fail(k)
  \/ Elsewhere

\* The timer goes on, and a request is answered in the end.
RcvSpec ==
  /\ RcvInit /\ [][RcvNext]_rcvVars
  /\ WF_rcvVars(Refresh) /\ WF_rcvVars(ServeAny) /\ WF_rcvVars(AnswerAny)

-----------------------------------------------------------------------------
(* Properties *)

\* Type correctness: what the rows, the requests and the server hold.
RcvTypeOK ==
  /\ DOMAIN store \subseteq 1 .. lastId /\ lastId \in 1 .. MaxChanges + 1
  /\ \A i \in DOMAIN rows : rows[i] \in
       [obj : Nat \ {0}, id : 1 .. lastId, active : BOOLEAN, updating : BOOLEAN]
  /\ \A k \in DOMAIN requests : requests[k].kind \in {"all", "create", "save", "del"}
  /\ changesLeft \in 0 .. MaxChanges /\ failuresLeft \in 0 .. MaxFailures

Shown(l) == [i \in DOMAIN l |-> [id |-> l[i].id, active |-> l[i].active]]

\* An answer to a refresh, however late and whatever the user did meanwhile, is
\* what the first rows of the list show, in its order (mergeReceivers).
RefreshShowsAnswer ==
  [][\A k \in DOMAIN requests :
       (requests[k].kind = "all" /\ requests[k].stage = "answered" /\ Answer(k))
         => IsPrefix(requests[k].list, Shown(rows'))]_rcvVars

\* A row whose buttons are disabled has a save on its way that will enable them:
\* neither a merge nor a lost answer leaves a row that cannot be used (startUpdate, endUpdate).
NoStuckRow ==
  \A o \in Objs(rows) :
    Cardinality({i \in DOMAIN rows : rows[i].obj = o /\ rows[i].updating})
      <= Cardinality({k \in DOMAIN requests : requests[k].obj = o /\ requests[k].kind = "save"})

\* Once the users rest, the list shows what the store holds: reordered and late
\* answers, failures and the rows a merge shows twice all go away (refreshReceivers).
ListConverges == <>[](Shown(rows) = AllReceivers)
=============================================================================
