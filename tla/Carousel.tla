------------------------------ MODULE Carousel ------------------------------
(***************************************************************************)
(* The carousel of ui-bootstrap (CarouselController) and the transition    *)
(* ($transition) it waits for.  One slide is shown; another one is         *)
(* selected by a timer, by the user, or by the page that makes a slide     *)
(* active or takes slides away, and comes in by a transition.  A selection *)
(* made meanwhile cancels the transition and is carried out later.         *)
(***************************************************************************)
EXTENDS Integers, Sequences, FiniteSets, Functions

CONSTANTS Slides, NoSlide,
          MaxSelections, \* selections by the user, by the page and by the timer
          MaxPauses

VARIABLES slides,      \* those of the carousel, in their order
          active, leaving,
          current,     \* currentSlide and its currentIndex, from 1 as slides
          transition,  \* $currentTransition, 0 for none
          handlers,    \* the transitions that wait for the end of theirs
          timeouts,    \* the selections that wait for a $timeout
          ended,       \* promises that have yet to call transitionDone()
          timer, playing,
          last,        \* what the 'active' watcher of each slide saw
          made,        \* transitions that were made
          late,        \* a selection was carried out that no longer fits
          selections, pauses

caVars == <<slides, active, leaving, current, transition, handlers, timeouts, ended, timer,
            playing, last, made, late, selections, pauses>>

IndexOf(s) == IF s \in Range(slides) THEN CHOOSE i \in DOMAIN slides : slides[i] = s ELSE 0

CaInit ==
  /\ slides = <<>> /\ active = {} /\ leaving = {}
  /\ current = [slide |-> NoSlide, index |-> 0]
  /\ transition = 0 /\ handlers = {} /\ timeouts = <<>> /\ ended = <<>>
  /\ timer = FALSE /\ playing = FALSE
  /\ last = [s \in Slides |-> FALSE] /\ made = 0 /\ late = FALSE /\ selections = 0 /\ pauses = 0

-----------------------------------------------------------------------------
(* The controller: operators give the changed variables as a record. *)

Now == [active |-> active, leaving |-> leaving, current |-> current, transition |-> transition,
        handlers |-> handlers, timeouts |-> timeouts, ended |-> ended, timer |-> timer,
        playing |-> playing, made |-> made]

Become(b) ==
  /\ active' = b.active /\ leaving' = b.leaving /\ current' = b.current
  /\ transition' = b.transition /\ handlers' = b.handlers /\ timeouts' = b.timeouts
  /\ ended' = b.ended /\ timer' = b.timer /\ playing' = b.playing /\ made' = b.made

\* transitionDone(): a slide that followed itself is no longer active.
TransitionDone(b, next, cur) ==
  [b EXCEPT !.active = (@ \cup {next}) \ {cur}, !.leaving = @ \ {next, cur}, !.transition = 0]

\* goNext(): with a transition the slide is active at once and the last one is leaving; the
\* index is the one that was looked up by select().
GoNext(b, s, index, animated) ==
  LET cur == b.current.slide
      gone == [b EXCEPT !.current = [slide |-> s, index |-> index], !.timer = TRUE]
  IN
  IF cur = NoSlide \/ ~animated
  THEN [TransitionDone(b, s, cur) EXCEPT !.current = gone.current, !.timer = TRUE]
  ELSE [gone EXCEPT !.active = {s}, !.leaving = {cur}, !.made = b.made + 1,
                    !.transition = b.made + 1,
                    !.handlers = @ \cup {[id |-> b.made + 1, next |-> s, cur |-> cur]}]

\* The one that waits for the end of the current transition, if it has not ended
Cancelled(b) ==
  LET waiting == {h \in b.handlers : h.id = b.transition}
  IN IF waiting = {} THEN <<>> ELSE <<CHOOSE h \in waiting : TRUE>>

\* Mutant: select() carries the selection out while the cancelled transition is told.
SelectAtOnce(b, s, index, animated) ==
  IF s = b.current.slide THEN b
  ELSE GoNext([b EXCEPT !.handlers = {h \in @ : h.id # b.transition},
                        !.ended = @ \o Cancelled(b)],
              s, index, animated)

\* select(): a transition that is not over is cancelled, and its promise rejected; the
\* selection is made later, whatever is the current slide and where by then.
Select(b, s, index, animated) ==
  IF s = b.current.slide THEN b
  ELSE IF b.transition = 0 THEN GoNext(b, s, index, animated)
  ELSE [b EXCEPT !.handlers = {h \in @ : h.id # b.transition},
                 !.ended = @ \o Cancelled(b),
                 !.timeouts = Append(@, [slide |-> s, index |-> index])]

\* There is no digest while promises are told: $q does it before the next event.
Told == ended = <<>>

\* The digest came to its end.
Watched == \A s \in Slides : s \in Range(slides) => last[s] = (s \in active)

Selecting == Told /\ selections < MaxSelections /\ selections' = selections + 1

-----------------------------------------------------------------------------
(* The page *)

\* A slide that comes with an active attribute that is set is selected, and then again by
\* its own watcher, before any promise is told.
SelectActive(s) ==
  LET index == Len(slides) + 1
      came == [Now EXCEPT !.active = @ \cup {s}]
  IN Select(Select(came, s, index, TRUE), s, index, TRUE)

\* addSlide(): the first slide is selected and the carousel plays.
AddSlide(s) ==
  /\ Told /\ s \notin Range(slides) /\ ~last[s] /\ s # current.slide
  /\ s \notin active
  /\ slides' = Append(slides, s)
  /\ \/ /\ slides = <<>>
        /\ Become([Select(Now, s, 1, TRUE) EXCEPT !.playing = TRUE, !.timer = TRUE])
        /\ UNCHANGED last
     \/ /\ slides # <<>>
        /\ Become(SelectActive(s))
        /\ last' = [last EXCEPT ![s] = TRUE]
     \/ /\ slides # <<>>
        /\ UNCHANGED <<active, leaving, current, transition, handlers, timeouts, ended, timer,
                       playing, made, last>>
  /\ selections < MaxSelections /\ selections' = selections + 1
  /\ UNCHANGED <<late, pauses>>

\* Mutant: the index stays when a slide before it is removed.
NotShifted(i) == current.index

Shifted(i) == IF current.index > i THEN current.index - 1 ELSE current.index

\* removeSlide(): a neighbour of the active slide is selected, in the list without it; the
\* index is otherwise moved with its slide.
RemoveSlide(s) ==
  LET i == IndexOf(s)
      left == SubSeq(slides, 1, i - 1) \o SubSeq(slides, i + 1, Len(slides))
  IN
  /\ Selecting /\ Watched /\ s \in Range(slides)
  /\ slides' = left
  /\ \E animated \in BOOLEAN :
       IF left # <<>> /\ s \in active
       THEN LET j == IF i > Len(left) THEN i - 1 ELSE i IN
            Become(Select(Now, left[j], j, animated))
       ELSE Become([Now EXCEPT !.current.index = Shifted(i)])
  /\ UNCHANGED <<last, late, pauses>>

\* The page sets what a slide's active attribute is bound to (parentActiveWatch()).
Activate(s) ==
  /\ Selecting /\ Watched /\ s \in Range(slides) /\ s \notin active
  /\ active' = active \cup {s}
  /\ UNCHANGED <<slides, leaving, current, transition, handlers, timeouts, ended, timer, playing,
                 last, made, late, pauses>>

\* The watcher of a slide's active selects it.
ActiveWatch(s) ==
  /\ Told /\ s \in Range(slides) /\ last[s] # (s \in active)
  /\ last' = [last EXCEPT ![s] = s \in active]
  /\ \E animated \in BOOLEAN :
       Become(IF s \in active THEN Select(Now, s, IndexOf(s), animated) ELSE Now)
  /\ UNCHANGED <<slides, late, selections, pauses>>

-----------------------------------------------------------------------------
(* The user and the timers *)

\* next(), prev() and select(); the first two do nothing during a transition.
Step(b, by) ==
  IF b.transition # 0 \/ slides = <<>> THEN b
  ELSE LET i == ((b.current.index - 1 + by) % Len(slides)) + 1 IN Select(b, slides[i], i, TRUE)

Click ==
  /\ Selecting /\ Watched /\ slides # <<>>
  /\ \/ \E by \in {1, -1} : Become(Step(Now, by))
     \/ \E s \in Range(slides) : Become(Select(Now, s, IndexOf(s), TRUE))
  /\ UNCHANGED <<slides, last, late, pauses>>

\* go(): the carousel is sent on, and the timer started again.
Timer ==
  /\ timer /\ Watched
  /\ IF playing THEN Selecting /\ Become([Step(Now, 1) EXCEPT !.timer = TRUE])
     ELSE Told /\ Become([Now EXCEPT !.timer = FALSE]) /\ UNCHANGED selections
  /\ UNCHANGED <<slides, last, late, pauses>>

\* The mouse comes over the carousel, or leaves it.
PauseOrPlay ==
  /\ Told /\ slides # <<>> /\ pauses < MaxPauses /\ pauses' = pauses + 1
  /\ playing' = ~playing /\ timer' = ~playing
  /\ UNCHANGED <<slides, active, leaving, current, transition, handlers, timeouts, ended, last,
                 made, late, selections>>

\* The browser tells that a transition ended.
TransitionEnd(h) ==
  /\ Told /\ Watched
  /\ Become([Now EXCEPT !.handlers = @ \ {h}, !.ended = Append(@, h)])
  /\ UNCHANGED <<slides, last, late, selections, pauses>>

\* A promise is told, resolved or rejected.
Then ==
  /\ ended # <<>>
  /\ Become(TransitionDone([Now EXCEPT !.ended = Tail(@)], Head(ended).next, Head(ended).cur))
  /\ UNCHANGED <<slides, last, late, selections, pauses>>

\* A selection that was put off is carried out.
Timeout ==
  /\ Told /\ Watched /\ timeouts # <<>>
  /\ Become(GoNext([Now EXCEPT !.timeouts = Tail(@)], Head(timeouts).slide,
                   Head(timeouts).index, TRUE))
  /\ late' = (late \/ Head(timeouts).slide = current.slide \/ transition # 0
                  \/ Head(timeouts).index # IndexOf(Head(timeouts).slide))
  /\ UNCHANGED <<slides, last, selections, pauses>>

\* After a late selection nothing more is explored: slides may be active in turn for ever.
CaNext ==
  /\ ~late
  /\ \/ \E s \in Slides : AddSlide(s) \/ RemoveSlide(s) \/ Activate(s) \/ ActiveWatch(s)
     \/ Click \/ Timer \/ PauseOrPlay \/ Then \/ Timeout
     \/ \E h \in handlers : TransitionEnd(h)

CaSpec == CaInit /\ [][CaNext]_caVars

-----------------------------------------------------------------------------
(* Properties *)

\* Type correctness of the carousel.
CaTypeOK ==
  /\ slides \in Seq(Slides) /\ IsInjective(slides) /\ active \subseteq Slides
  /\ current.slide \in Slides \cup {NoSlide} /\ current.index \in -1 .. Cardinality(Slides)
  /\ \A h \in handlers : h.id \in 1 .. made

Quiet == ~late /\ Told /\ Watched /\ timeouts = <<>> /\ transition = 0

\* When all is quiet one slide is active, the current one.
OneActive == Quiet /\ slides # <<>> => active \cap Range(slides) = {current.slide}

\* The index is the one of the current slide.
IndexOfCurrent == Quiet /\ current.slide \in Range(slides) => current.index = IndexOf(current.slide)
===============================================================================
