------------------------------- MODULE Tooltip -------------------------------
(***************************************************************************)
(* The tooltip of ui-bootstrap ($tooltip), which popovers use too.  It is  *)
(* shown and hidden by the events of its trigger, at once or after a       *)
(* delay, and taken out of the document at once or when it has faded.      *)
(* Attributes that say how may change at any time, and the element it      *)
(* belongs to may go away.                                                 *)
(***************************************************************************)
EXTENDS Integers, Sequences

CONSTANTS MaxEvents

VARIABLES options,  \* popupDelay, animation and appendToBody
          content,  \* there is something to show
          bound,    \* handlers of the element: how often show, hide and toggle are bound
          trigger,  \* triggers: "hover" for a pair of events, "click" for one
          over,     \* the mouse is over the element
          open,     \* tt_isOpen
          shown,    \* the tooltip is beside its element, or in the body
          popups, popup,     \* timeouts that show it, and popupTimeout
          removals, removal, \* timeouts that remove it, and transitionTimeout
          events,   \* events so far, they name the timeouts
          gone,     \* "no", or the element went away "alone" or "within" what contains it
          slips     \* what the handlers lost of the timeouts

ttVars == <<options, content, bound, trigger, over, open, shown, popups, popup, removals, removal,
            events, gone, slips>>

\* $timeout.cancel() of the one asked for last: it is the last of those that wait, or gone off.
Without(timeouts, id) ==
  IF timeouts # <<>> /\ timeouts[Len(timeouts)] = id
  THEN SubSeq(timeouts, 1, Len(timeouts) - 1) ELSE timeouts

\* The handlers that the observer of the trigger binds
Bound(b, t) == IF t = "click" THEN [b EXCEPT !.toggle = @ + 1]
               ELSE [b EXCEPT !.show = @ + 1, !.hide = @ + 1]

TtInit ==
  /\ options \in [delay : BOOLEAN, fades : BOOLEAN, body : BOOLEAN]
  /\ content \in BOOLEAN /\ trigger \in {"hover", "click"}
  /\ bound = Bound([show |-> 0, hide |-> 0, toggle |-> 0], trigger)
  /\ over = FALSE /\ open = FALSE /\ shown = FALSE
  /\ popups = <<>> /\ popup = 0 /\ removals = <<>> /\ removal = 0
  /\ events = 0 /\ gone = "no"
  /\ slips = IF trigger = "click" THEN {"toggled"} ELSE {}

-----------------------------------------------------------------------------
(* show() and hide(), as records of what they change *)

Now == [open |-> open, shown |-> shown, popups |-> popups, popup |-> popup,
        removals |-> removals, removal |-> removal, slips |-> slips]

Become(b) ==
  /\ open' = b.open /\ shown' = b.shown /\ popups' = b.popups /\ popup' = b.popup
  /\ removals' = b.removals /\ removal' = b.removal /\ slips' = b.slips

\* Mutant: a removal that waits is left to happen.
ShowOnly(b) == IF ~content THEN b ELSE [b EXCEPT !.open = TRUE, !.shown = TRUE]

\* show(): the removal that was asked for last is cancelled.
Show(b) ==
  IF ~content THEN b
  ELSE [b EXCEPT !.open = TRUE, !.shown = TRUE, !.removals = Without(@, b.removal)]

\* Mutant: hide() leaves a delayed show() alone.
HideOnly(b, id) ==
  IF options.fades
  THEN [b EXCEPT !.open = FALSE, !.removals = Append(@, id), !.removal = id]
  ELSE [b EXCEPT !.open = FALSE, !.shown = FALSE]

\* hide(): the show() that was asked for last is cancelled.
Hide(b, id) ==
  LET closed == [b EXCEPT !.open = FALSE, !.popups = Without(@, b.popup)] IN
  IF options.fades
  THEN [closed EXCEPT !.removals = Append(@, id), !.removal = id,
                      !.slips = IF b.removals # <<>> THEN @ \cup {"removal"} ELSE @]
  ELSE [closed EXCEPT !.shown = FALSE]

\* showTooltipBind()
ShowTooltipBind(b, id) ==
  IF options.delay THEN [b EXCEPT !.popups = Append(@, id), !.popup = id] ELSE Show(b)

\* toggleTooltipBind(), called as often as it is bound
Toggle(b, id) == IF b.open THEN Hide(b, id) ELSE ShowTooltipBind(b, id)

-----------------------------------------------------------------------------
(* What happens to it *)

Event == events < MaxEvents /\ events' = events + 1

\* The mouse enters the element or leaves it.
Enter ==
  /\ Event /\ gone = "no" /\ ~over /\ over' = TRUE
  /\ Become(IF bound.show = 0 THEN Now ELSE ShowTooltipBind(Now, events'))
  /\ UNCHANGED <<options, content, bound, trigger, gone>>

Leave ==
  /\ Event /\ gone = "no" /\ over /\ over' = FALSE
  /\ Become(IF bound.hide = 0 THEN Now ELSE Hide(Now, events'))
  /\ UNCHANGED <<options, content, bound, trigger, gone>>

\* A click calls toggleTooltipBind() once, or twice if it is bound twice.
Click ==
  /\ Event /\ gone = "no" /\ over /\ bound.toggle > 0
  /\ Become(IF bound.toggle = 1 THEN Toggle(Now, events')
            ELSE Toggle(Toggle(Now, events'), events'))
  /\ UNCHANGED <<options, content, bound, trigger, over, gone>>

\* show() on an element that has no parent to put the tooltip into: it fails after the
\* removal was cancelled, and what was there stays.
FailToShow(b) ==
  IF ~content THEN b
  ELSE [b EXCEPT !.removals = Without(@, b.removal), !.slips = @ \cup {"stuck"}]

\* A delayed show(); the element may be gone by then.  One that went within a container
\* still has its parent there, and the body can be given a tooltip in any case.
PopupTimeout ==
  /\ popups # <<>>
  /\ LET b == [Now EXCEPT !.popups = Tail(@)] IN
     Become(IF gone = "no" THEN Show(b)
            ELSE IF gone = "within" \/ options.body THEN [Show(b) EXCEPT !.slips = @ \cup {"late"}]
            ELSE FailToShow(b))
  /\ UNCHANGED <<options, content, bound, trigger, over, events, gone>>

RemovalTimeout ==
  /\ removals # <<>>
  /\ Become([Now EXCEPT !.removals = Tail(@), !.shown = FALSE])
  /\ UNCHANGED <<options, content, bound, trigger, over, events, gone>>

\* The observer of the trigger: toggleTooltipBind() stays bound.
SetTrigger ==
  /\ Event /\ gone = "no"
  /\ trigger' = IF trigger = "click" THEN "hover" ELSE "click"
  /\ bound' = Bound([bound EXCEPT !.show = 0, !.hide = 0], trigger')
  /\ slips' = slips \cup {"toggled"}
  /\ UNCHANGED <<options, content, over, open, shown, popups, popup, removals, removal, gone>>

\* The observers of the content and of the delay
SetContent ==
  /\ Event /\ gone = "no" /\ content' = ~content
  /\ UNCHANGED <<options, bound, trigger, over, open, shown, popups, popup, removals, removal,
                 gone, slips>>

SetDelay ==
  /\ Event /\ gone = "no" /\ options' = [options EXCEPT !.delay = ~@]
  /\ UNCHANGED <<content, bound, trigger, over, open, shown, popups, popup, removals, removal,
                 gone, slips>>

\* $locationChangeSuccess, which is listened to when all tooltips go to the body
LocationChangeSuccess ==
  /\ Event /\ gone = "no" /\ options.body /\ open
  /\ Become(Hide(Now, events'))
  /\ UNCHANGED <<options, content, bound, trigger, over, gone>>

\* onDestroyTooltip(): a tooltip that is yet to be shown is forgotten about.
Destroy ==
  /\ Event /\ gone = "no" /\ gone' \in {"alone", "within"}
  /\ Become(IF open THEN Hide(Now, events') ELSE [Now EXCEPT !.shown = FALSE])
  /\ UNCHANGED <<options, content, bound, trigger, over>>

TtNext ==
  \/ Enter \/ Leave \/ Click \/ PopupTimeout \/ RemovalTimeout
  \/ SetTrigger \/ SetContent \/ SetDelay \/ LocationChangeSuccess \/ Destroy

TtSpec == TtInit /\ [][TtNext]_ttVars

-----------------------------------------------------------------------------
(* Properties *)

\* Type correctness of the tooltip.
TtTypeOK ==
  /\ open \in BOOLEAN /\ shown \in BOOLEAN /\ content \in BOOLEAN
  /\ slips \subseteq {"toggled", "removal", "late", "stuck"} /\ bound.show = bound.hide
  /\ popup \in 0 .. MaxEvents /\ removal \in 0 .. MaxEvents

\* A tooltip that is open is in the document, unless it was hidden twice while it faded:
\* show() cancels the second removal only.
OpenIsShown == open /\ "removal" \notin slips => shown

\* A tooltip that is not open goes, and so does that of an element that went away, unless
\* show() had been delayed: it then opens the tooltip, or leaves it stuck.
ClosedGoes ==
  /\ ~open /\ removals = <<>> /\ "stuck" \notin slips => ~shown
  /\ gone # "no" /\ "late" \notin slips => ~open

\* When the mouse has left, the tooltip is closed and none is to come, as long as it is the
\* mouse that opens it.  (Clicks that come before a delayed show() each ask for one, and
\* hide() cancels the last.)
LeftIsClosed == ~over /\ gone = "no" /\ "toggled" \notin slips => ~open /\ popups = <<>>
===============================================================================
