------------------------------ MODULE Collapse ------------------------------
(***************************************************************************)
(* The collapse directive of ui-bootstrap, which shows and hides what a    *)
(* receiver of the list has to tell, and the transitions ($transition) it  *)
(* starts.  The height of the element is changed by the directive at once, *)
(* by the timeouts of transitions later, and is given free when the        *)
(* browser tells that a transition ended; meanwhile the user toggles again *)
(* and the page changes the content.                                       *)
(***************************************************************************)
EXTENDS Integers, Sequences, FiniteSets

CONSTANTS Contents,  \* heights of the content, with 0 for one that is not displayed
          MaxToggles

VARIABLES supported,   \* does the browser know CSS transitions?
          hides,       \* what the directive is bound to
          isCollapsed, animSkip, height, currentTransition,
          running,     \* the browser moves the element to its height
          unsettled,   \* transitions that are not told: a handler waits for their end
          expanding,   \* transitions that expand() waits for
          steps,       \* the timeouts of transitions: [id, to]
          contentHeight,
          lastScroll,  \* scrollHeight as its watcher saw it
          started,     \* transitions, numbered
          overtaken    \* the content changed while a timeout was to set the height

cpVars == <<supported, hides, isCollapsed, animSkip, height, currentTransition, running, unsettled,
            expanding, steps, contentHeight, lastScroll, started, overtaken>>

Auto == -1
None == 0

Now == [isCollapsed |-> isCollapsed, animSkip |-> animSkip, height |-> height,
        currentTransition |-> currentTransition, running |-> running, unsettled |-> unsettled,
        expanding |-> expanding, steps |-> steps, content |-> contentHeight,
        lastScroll |-> lastScroll, started |-> started]

Become(b) ==
  /\ isCollapsed' = b.isCollapsed /\ animSkip' = b.animSkip /\ height' = b.height
  /\ currentTransition' = b.currentTransition /\ running' = b.running
  /\ unsettled' = b.unsettled /\ expanding' = b.expanding /\ steps' = b.steps
  /\ contentHeight' = b.content
  /\ lastScroll' = b.lastScroll /\ started' = b.started
  /\ UNCHANGED supported

\* What overflows counts, and so does the room there is; what is not displayed has none.
ScrollHeight(b) == IF b.content # 0 /\ b.height > b.content THEN b.height ELSE b.content

\* fixUpHeight(): without the class 'collapse', so that nothing moves.
FixUpHeight(b, h) == [b EXCEPT !.height = h, !.running = FALSE]

\* Promises of $transition are told, resolved or rejected: doTransition() forgets whichever
\* transition is the current one by then.
ToldRejected(b, ids) ==
  [b EXCEPT !.currentTransition = IF ids = {} THEN @ ELSE None, !.expanding = @ \ ids]

\* Mutant: the height is given free whether or not the element was collapsed meanwhile.
ToldResolvedUnchecked(b, ids) ==
  LET told == ToldRejected(b, ids)
  IN IF ids \cap b.expanding # {} THEN FixUpHeight(told, Auto) ELSE told

ToldResolved(b, ids) ==
  LET told == ToldRejected(b, ids)
  IN IF ids \cap b.expanding # {} /\ ~b.isCollapsed THEN FixUpHeight(told, Auto) ELSE told

\* doTransition(): the last one is cancelled, and its promise told when the new one has
\* become the current one.
DoTransition(b, to, expands) ==
  LET id == b.started + 1
      cancelled == [b EXCEPT !.unsettled = @ \ {b.currentTransition}]
      new == [cancelled EXCEPT !.started = id, !.currentTransition = id,
                               !.unsettled = @ \cup {id},
                               !.expanding = IF expands THEN @ \cup {id} ELSE @,
                               !.steps = Append(@, [id |-> id, to |-> to])]
  IN IF b.currentTransition = None THEN new ELSE ToldRejected(new, {b.currentTransition})

Expand(b) ==
  [(IF b.animSkip THEN IF b.isCollapsed THEN b ELSE FixUpHeight(b, Auto)
    ELSE DoTransition(b, ScrollHeight(b), TRUE))
   EXCEPT !.animSkip = FALSE, !.isCollapsed = FALSE]

Hide(b) ==
  LET hidden == [b EXCEPT !.isCollapsed = TRUE, !.animSkip = FALSE]
  IN IF b.animSkip THEN FixUpHeight(hidden, 0)
     ELSE DoTransition(FixUpHeight(hidden, ScrollHeight(b)), 0, FALSE)

\* The watcher of scrollHeight, in a digest.
ScrollWatch(b) ==
  LET scroll == ScrollHeight(b)
      seen == [b EXCEPT !.lastScroll = scroll]
  IN IF scroll # b.lastScroll /\ scroll # 0 /\ ~b.isCollapsed
     THEN FixUpHeight(seen, IF b.animSkip THEN scroll ELSE Auto)
     ELSE seen

\* A digest goes on until nothing changes; what it sees twice is seen for good.
Watch(b) == ScrollWatch(ScrollWatch(b))

\* The element is linked: its first digest, in which both watchers are called.
CpInit ==
  /\ supported \in BOOLEAN /\ hides \in BOOLEAN
  /\ contentHeight \in Contents
  /\ LET linked == [isCollapsed |-> FALSE, animSkip |-> TRUE, height |-> Auto,
                    currentTransition |-> None, running |-> FALSE, unsettled |-> {},
                    expanding |-> {}, steps |-> <<>>, content |-> contentHeight, lastScroll |-> -1, started |-> 0]
         seen == ScrollWatch(linked)
         b == Watch(IF hides THEN Hide(seen) ELSE Expand(seen))
     IN /\ isCollapsed = b.isCollapsed /\ animSkip = b.animSkip /\ height = b.height
        /\ currentTransition = b.currentTransition /\ running = b.running /\ unsettled = b.unsettled
        /\ expanding = b.expanding /\ steps = b.steps /\ lastScroll = b.lastScroll
        /\ started = b.started
  /\ overtaken = FALSE

\* The user toggles the receiver.
Toggle ==
  /\ started < MaxToggles
  /\ hides' = ~hides
  /\ LET seen == ScrollWatch(Now) IN Become(Watch(IF hides THEN Expand(seen) ELSE Hide(seen)))
  /\ UNCHANGED overtaken

\* The page tells more or less of the receiver, or is hidden.
Fill(h) ==
  /\ h # contentHeight /\ started < MaxToggles
  /\ Become(Watch([Now EXCEPT !.content = h]))
  /\ overtaken' = (overtaken \/ steps # <<>> \/ running)
  /\ UNCHANGED hides

\* The timeout of a transition, cancelled or not, sets the height; the element moves there
\* unless it is there or comes from a height the browser does not compute.  Without support
\* for transitions the promise is resolved now.
Start ==
  /\ steps # <<>>
  /\ LET step == Head(steps)
         set == [Now EXCEPT !.steps = Tail(@), !.height = step.to,
                            !.running = supported /\ contentHeight # 0
                                        /\ (@ \/ (height # Auto /\ height # step.to))]
     IN Become(Watch(IF supported \/ step.id \notin unsettled THEN set
                     ELSE ToldResolved([set EXCEPT !.unsettled = @ \ {step.id}], {step.id})))
  /\ UNCHANGED <<hides, overtaken>>

\* The browser tells the end of the move, to every handler that waits.
EndOfMove ==
  /\ running
  /\ Become(Watch(ToldResolved([Now EXCEPT !.running = FALSE, !.unsettled = {}], unsettled)))
  /\ UNCHANGED <<hides, overtaken>>

CpNext == Toggle \/ (\E h \in Contents : Fill(h)) \/ Start \/ EndOfMove

CpSpec == CpInit /\ [][CpNext]_cpVars

-----------------------------------------------------------------------------
(* Properties *)

\* Type correctness of the directive.
CpTypeOK ==
  /\ isCollapsed = hides /\ ~animSkip
  /\ height \in Contents \cup {Auto, 0} /\ currentTransition \in 0 .. started
  /\ unsettled \subseteq 1 .. started /\ expanding \subseteq 1 .. started
  /\ (running => supported)

Quiet == steps = <<>> /\ ~running

\* Whatever was toggled in between: when nothing moves any more, what is collapsed has no
\* height left.
CollapsedIsHidden == Quiet /\ isCollapsed => height = 0

\* What is not collapsed is shown from top to bottom, unless its content changed while its
\* height was about to be set: then an old height may stay.
ExpandedIsShown ==
  Quiet /\ ~isCollapsed /\ ~overtaken => height = Auto \/ height >= contentHeight
===============================================================================
