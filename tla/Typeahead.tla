------------------------------ MODULE Typeahead ------------------------------
(***************************************************************************)
(* The typeahead of ui-bootstrap on an input with a model.  What is typed  *)
(* is looked up, at once or when the typing rests, and the matches that    *)
(* come back are listed to choose from.  Answers come in any order, or not *)
(* at all; the page sets the model while they are on their way.            *)
(***************************************************************************)
EXTENDS Integers, Sequences

CONSTANTS Typed,     \* texts that are typed, the empty one among them
          Items,     \* what is looked up
          Found,     \* Found[text]: the matches of a text
          MaxTyped   \* how often something is typed

VARIABLES rests,     \* waitTime > 0
          isEditable,
          view,      \* $viewValue, what the input shows
          model,     \* the value on the scope, $modelValue too but for a digest
          barred,    \* $error.editable
          matches, active, query,
          waiting,   \* texts of timeouts that have not gone off
          requests,  \* texts looked up and not answered
          loading,   \* what typeahead-loading names
          typed, destroyed,
          changed,   \* the input is no longer what was looked up last
          given      \* who gave the input its text: "user", "choice" or "page"

taVars == <<rests, isEditable, view, model, barred, matches, active, query, waiting, requests,
            loading, typed, destroyed, changed, given>>

None == "none"   \* undefined
Texts == Typed \cup Items

TaInit ==
  /\ rests \in BOOLEAN /\ isEditable \in BOOLEAN
  /\ view = None /\ model = None /\ barred = FALSE
  /\ matches = <<>> /\ active = -1 /\ query = None
  /\ waiting = <<>> /\ requests = <<>> /\ loading = FALSE
  /\ typed = 0 /\ destroyed = FALSE /\ changed = FALSE /\ given = "page"

\* resetMatches()
ResetMatches == matches' = <<>> /\ active' = -1

-----------------------------------------------------------------------------
(* The parser, and the timeout it sets *)

\* The beginning of getMatchesAsync()
AskFor(text) == requests' = Append(requests, text) /\ loading' = TRUE /\ changed' = (text # view')

\* Mutant: the timeout of the text before goes off as well.
WaitToo(text) == waiting' = Append(waiting, text)

\* The timeout of the text before is cancelled, if it has not gone off.
WaitFor(text) == waiting' = <<text>>

Type(text) ==
  /\ ~destroyed /\ text # view /\ typed < MaxTyped
  /\ typed' = typed + 1 /\ view' = text /\ given' = "user"
  /\ ResetMatches
  /\ \/ /\ text = ""
        /\ changed' = TRUE /\ UNCHANGED <<waiting, requests, loading>>
     \/ /\ text # "" /\ rests
        /\ WaitFor(text) /\ changed' = TRUE /\ UNCHANGED <<requests, loading>>
     \/ /\ text # "" /\ ~rests
        /\ AskFor(text) /\ UNCHANGED waiting
  /\ IF isEditable THEN model' = text /\ UNCHANGED barred
                   ELSE model' = None /\ barred' = TRUE
  /\ UNCHANGED <<rests, isEditable, query, destroyed>>

Rested ==
  /\ waiting # <<>>
  /\ waiting' = Tail(waiting) /\ UNCHANGED view /\ AskFor(Head(waiting))
  /\ UNCHANGED <<rests, isEditable, model, barred, matches, active, query, typed,
                 destroyed, given>>

-----------------------------------------------------------------------------
(* Answers *)

\* Mutant: an answer for a text the input has no longer is listed.
TakenAnyway(text) == TRUE
\* An answer counts while the input shows what it is for.
Taken(text) == text = view

\* Mutant: the sign of a lookup stays when it fails.
NotDone == UNCHANGED loading
Done == loading' = FALSE

List(text) ==
  IF Found[text] = <<>> THEN ResetMatches /\ UNCHANGED query
  ELSE matches' = Found[text] /\ active' = 0 /\ query' = text

AllBut(i) == SubSeq(requests, 1, i - 1) \o SubSeq(requests, i + 1, Len(requests))

Answer(i) ==
  /\ requests' = AllBut(i)
  /\ IF Taken(requests[i])
     THEN List(requests[i]) /\ Done
     ELSE UNCHANGED <<matches, active, query, loading>>
  /\ UNCHANGED <<rests, isEditable, view, model, barred, waiting, typed, destroyed, changed, given>>

\* A request that fails clears the list, whatever it was for.
Fail(i) ==
  /\ requests' = AllBut(i)
  /\ ResetMatches /\ Done
  /\ UNCHANGED <<rests, isEditable, view, model, barred, query, waiting, typed, destroyed,
                 changed, given>>

-----------------------------------------------------------------------------
(* Choosing *)

\* Mutant: from the first match up there is nowhere to go.
UpToNowhere(a) == a - 1
Up(a) == (IF a = 0 THEN Len(matches) ELSE a) - 1
Down(a) == (a + 1) % Len(matches)

\* The arrow keys, and the mouse over the list (selectActive)
Move(to) ==
  /\ ~destroyed /\ matches # <<>>
  /\ active' = to
  /\ UNCHANGED <<rests, isEditable, view, model, barred, matches, query, waiting, requests,
                 loading, typed, destroyed, changed, given>>

\* Mutant: the input stays invalid.
StillBarred == UNCHANGED barred
Cleared == barred' = FALSE

\* select(): by enter, by tab or by a click.  The digest that follows shows the model.
Choose(i) ==
  /\ ~destroyed /\ i \in 0 .. Len(matches) - 1
  /\ model' = matches[i + 1] /\ view' = model' /\ given' = "choice" /\ changed' = TRUE
  /\ Cleared /\ ResetMatches
  /\ UNCHANGED <<rests, isEditable, query, waiting, requests, loading, typed, destroyed>>

\* Escape, or a click elsewhere
Dismiss ==
  /\ ~destroyed /\ matches # <<>>
  /\ ResetMatches
  /\ UNCHANGED <<rests, isEditable, view, model, barred, query, waiting, requests, loading,
                 typed, destroyed, changed, given>>

-----------------------------------------------------------------------------
(* The page *)

\* The model is set from elsewhere: formatters run, parsers do not.
SetModel(value) ==
  /\ ~destroyed /\ value # model
  /\ model' = value /\ view' = value /\ given' = "page" /\ changed' = TRUE
  /\ UNCHANGED <<rests, isEditable, barred, matches, active, query, waiting, requests, loading,
                 typed, destroyed>>

\* Timeouts and requests of an input that is gone go on.
Destroy ==
  /\ ~destroyed /\ destroyed' = TRUE
  /\ UNCHANGED <<rests, isEditable, view, model, barred, matches, active, query, waiting,
                 requests, loading, typed, changed, given>>

TaNext ==
  \/ \E text \in Typed : Type(text)
  \/ Rested
  \/ \E i \in DOMAIN requests : Answer(i) \/ Fail(i)
  \/ Move(Up(active))
  \/ matches # <<>> /\ Move(Down(active))
  \/ \E i \in 0 .. Len(matches) - 1 : Move(i)
  \/ \E i \in 0 .. Len(matches) - 1 : Choose(i)
  \/ Dismiss
  \/ \E value \in Items \cup {None} : SetModel(value)
  \/ Destroy

TaSpec == TaInit /\ [][TaNext]_taVars

-----------------------------------------------------------------------------
(* Properties *)

TaTypeOK ==
  /\ rests \in BOOLEAN /\ isEditable \in BOOLEAN /\ barred \in BOOLEAN
  /\ view \in Texts \cup {None} /\ model \in Texts \cup {None} /\ query \in Texts \cup {None}
  /\ matches \in Seq(Items) /\ active \in Int
  /\ waiting \in Seq(Typed) /\ requests \in Seq(Typed)
  /\ loading \in BOOLEAN /\ typed \in 0 .. MaxTyped /\ destroyed \in BOOLEAN
  /\ changed \in BOOLEAN /\ given \in {"user", "choice", "page"}

\* Whatever order the answers come in, what is listed are the matches of the
\* text in the input, unless the page changed that text under the list.
MatchesOfInput ==
  matches # <<>> /\ given # "page" => query = view /\ matches = Found[view]

\* While matches are listed exactly one of them is the active one.
ActiveIsMatch == IF matches = <<>> THEN active = -1 ELSE active \in 0 .. Len(matches) - 1

\* The sign of a lookup in progress goes out with the last answer, unless the
\* input changed after it was looked up for the last time; and one text at most waits.
LoadingEnds ==
  /\ loading /\ requests = <<>> => changed
  /\ Len(waiting) <= 1

\* An input that takes items only is invalid, and its model empty, from the first
\* letter typed to the choice of a match; what is chosen is what is shown.
OnlyItems ==
  /\ ~isEditable /\ given = "user" => barred /\ model = None
  /\ given = "choice" => ~barred /\ model \in Items /\ view = model

=============================================================================
