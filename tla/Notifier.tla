------------------------------- MODULE Notifier -------------------------------
(***************************************************************************)
(* The messages on top of a page (notifier.js).  A message is closed by    *)
(* who added it, by the user, by the timer of an error or with the scope   *)
(* it belongs to, maybe by several of them; one that tells that something  *)
(* was done is temporary and gives way to any other.  The page looks at    *)
(* the messages again in every digest, and that changes them.              *)
(***************************************************************************)
EXTENDS Integers, Sequences, FiniteSets, FiniteSetsExt

CONSTANT MaxMessages \* messages that are ever added

VARIABLES messages,  \* $notifier.messages
          lastNo,    \* messages are told apart by their number
          timers     \* errors whose timer has not fired

ntVars == <<messages, lastNo, timers>>

Message(no, kind) == [no |-> no, kind |-> kind, temp |-> kind = "done"]
Numbers(ms) == {ms[i].no : i \in DOMAIN ms}

\* The messages at the positions P, in their order: what is left when others are spliced out.
Kept(ms, P) ==
  [j \in 1 .. Cardinality(P) |-> ms[CHOOSE i \in P : Cardinality({k \in P : k <= i}) = j]]

\* Mutant: none of the messages are meant when len is 0.
RemoveTempNone(ms, len) == Kept(ms, {i \in DOMAIN ms : i > len \/ ~ms[i].temp})

\* removeTemp(len): of the first len messages, or of all of them when len is 0.
RemoveTemp(ms, len) == Kept(ms, {i \in DOMAIN ms : (len # 0 /\ i > len) \/ ~ms[i].temp})

AddMessage(ms, m) == Append(RemoveTemp(ms, 0), m)

\* Mutant: the last message goes when the one to close is not there.
CloseMessageLast(ms, no) ==
  IF no \in Numbers(ms) THEN Kept(ms, {i \in DOMAIN ms : ms[i].no # no})
  ELSE IF ms = <<>> THEN ms ELSE SubSeq(ms, 1, Len(ms) - 1)

\* Mutant: the first message is never found.
CloseMessageButFirst(ms, no) ==
  IF ms # <<>> /\ ms[1].no = no THEN ms ELSE Kept(ms, {i \in DOMAIN ms : ms[i].no # no})

\* message.close(): nothing happens when the message is not there.
CloseMessage(ms, no) == Kept(ms, {i \in DOMAIN ms : ms[i].no # no})

\* visibleMessages(), from (from 0) on: stops at the first message that stays.
VisibleMessages(ms) ==
  LET stay == {i \in DOMAIN ms : ~ms[i].temp} IN
  IF stay = {} THEN ms ELSE RemoveTemp(ms, Min(stay) - 1)

-----------------------------------------------------------------------------
NtInit == messages = <<>> /\ lastNo = 0 /\ timers = {}

Notify(kind) ==
  /\ lastNo < MaxMessages
  /\ lastNo' = lastNo + 1
  /\ messages' = VisibleMessages(AddMessage(messages, Message(lastNo + 1, kind)))
  /\ timers' = IF kind = "error" THEN timers \cup {lastNo + 1} ELSE timers

Info == Notify("info")
Error == Notify("error")
Done == Notify("done")

\* The user, the owner of the message or the end of its scope; undo() ends like this too.
Close(no) ==
  /\ messages' = VisibleMessages(CloseMessage(messages, no))
  /\ UNCHANGED <<lastNo, timers>>

Expire(no) ==
  /\ timers' = timers \ {no}
  /\ messages' = VisibleMessages(CloseMessage(messages, no))
  /\ UNCHANGED lastNo

NtNext ==
  \/ Info \/ Error \/ Done
  \/ \E no \in 1 .. lastNo : Close(no)
  \/ \E no \in timers : Expire(no)

NtSpec == NtInit /\ [][NtNext]_ntVars

-----------------------------------------------------------------------------
\* Type correctness of the messages and their timers.
NtTypeOK ==
  /\ lastNo \in 0 .. MaxMessages /\ timers \subseteq 1 .. lastNo
  /\ \A i \in DOMAIN messages : messages[i].no \in 1 .. lastNo

\* A message that was closed already takes no other one with it: the timer of an
\* error the user has closed changes nothing, and at any time only temporary
\* messages go besides the one that is closed (close, removeTemp).
CloseTakesNoOther ==
  [][\A no \in timers : Expire(no) =>
       \A i \in DOMAIN messages :
         messages[i].no \notin Numbers(messages') => messages[i].no = no]_messages

\* No error outlives its timer: one that is shown will be closed.
ErrorsWillClose ==
  \A i \in DOMAIN messages : messages[i].kind = "error" => messages[i].no \in timers

\* A temporary message is never shown among others.
TemporaryStandsAlone ==
  \A i \in DOMAIN messages : messages[i].temp => Len(messages) = 1
===============================================================================
