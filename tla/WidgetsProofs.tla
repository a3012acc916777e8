---------------------------- MODULE WidgetsProofs ----------------------------
(***************************************************************************)
(* Proofs about the widgets of ui-bootstrap (MCWidgets), for any number of *)
(* windows, slides, events, contents and texts, and for any date.          *)
(*                                                                         *)
(* A behaviour shows one part, and the others keep their initial state: so *)
(* the invariant is an implication per part, and a step is one of the part *)
(* that is shown.  The parts come one after another, each with its own     *)
(* inductive invariant.                                                    *)
(***************************************************************************)
EXTENDS MCWidgets, FiniteSetTheorems, SequenceTheorems, TLAPS

\* Windows: a window is on the stack while it is open, and nobody was told of it before it
\* left; as long as windows are closed from the top the index of each is its place.
WindowT ==
  [stage : {"unused", "loading", "open", "broken", "closed"}, backdrop : M!Backdrops,
   keyboard : BOOLEAN, index : Int, scope : {"none", "alive", "destroyed"}, element : BOOLEAN,
   result : {"pending", "closed", "dismissed"}, opened : {"pending", "yes", "no"}]

WindowsInv ==
  /\ windows \in [Windows -> WindowT] /\ disordered \in BOOLEAN /\ M!MoTypeOK
  /\ \A w \in Windows :
       /\ windows[w].stage = "open" <=> w \in M!Range(openedWindows)
       /\ windows[w].stage \in {"unused", "loading", "open"} => windows[w].result = "pending"
  /\ ~disordered => \A i \in DOMAIN openedWindows : windows[openedWindows[i]].index = i - 1
  /\ M!BackdropWhileWanted /\ M!ClosedIsGone

\* Slides, as records: while a transition is on, one handler or one promise knows of it, and it
\* leads to the current slide.  The current slide is active; when no selection is put off it has
\* its place in the list, and the watchers have yet to see any other slide active.
HandlerT == [id : Nat, next : Slides, cur : Slides]
CurrentT == [slide : Slides \cup {NoSlide}, index : 0 .. Cardinality(Slides)]
LaterT == [slide : Slides, index : 1 .. Cardinality(Slides)]
SlidesT ==
  [active : SUBSET Slides, leaving : SUBSET (Slides \cup {NoSlide}), current : CurrentT,
   transition : Nat, handlers : SUBSET HandlerT, timeouts : Seq(LaterT), ended : Seq(HandlerT),
   timer : BOOLEAN, playing : BOOLEAN, made : Nat]

SlidesTypeOK(b) == b \in SlidesT /\ \A h \in b.handlers : h.id \in 1 .. b.made

TransitionHolds(b) ==
  \/ b.transition = 0 /\ b.handlers = {} /\ b.ended = <<>>
  \/ /\ b.transition # 0 /\ b.current.slide \in Slides
     /\ \E h \in HandlerT :
          /\ h.id = b.transition /\ h.next = b.current.slide /\ h.cur # b.current.slide
          /\ \/ b.handlers = {h} /\ b.ended = <<>>
             \/ b.handlers = {} /\ b.ended = <<h>>

CurrentHolds(b, list, seen) ==
  /\ IF b.current.slide = NoSlide THEN b.transition = 0 /\ b.timeouts = <<>> /\ list = <<>>
     ELSE b.current.slide \in b.active
  /\ b.timeouts = <<>> /\ list # <<>> =>
       /\ b.current.index \in DOMAIN list /\ list[b.current.index] = b.current.slide
       /\ \A s \in b.active \cap Range(list) : s = b.current.slide \/ ~seen[s]

SlidesHold(b, list, seen) ==
  SlidesTypeOK(b) /\ TransitionHolds(b) /\ CurrentHolds(b, list, seen)

SlidesInv ==
  /\ slides \in Seq(Slides) /\ IsInjective(slides) /\ last \in [Slides -> BOOLEAN]
  /\ late \in BOOLEAN /\ SlidesTypeOK(C!Now)
  /\ ~late => SlidesHold(C!Now, slides, last)

\* Tooltips, as records: without a slip at most one removal and one delayed show() wait, those
\* that were asked for last, and no removal while the tooltip is open.
TooltipT ==
  [open : BOOLEAN, shown : BOOLEAN, popups : Seq(Nat), popup : 0 .. MaxEvents,
   removals : Seq(Nat), removal : 0 .. MaxEvents, slips : SUBSET {"toggled", "removal", "late", "stuck"}]

TooltipGoes(b) ==
  /\ b \in TooltipT
  /\ "removal" \notin b.slips => b.removals = <<>> \/ (b.removals = <<b.removal>> /\ ~b.open)
  /\ "toggled" \notin b.slips => b.popups = <<>> \/ b.popups = <<b.popup>>
  /\ b.open /\ "removal" \notin b.slips => b.shown
  /\ ~b.open /\ b.removals = <<>> /\ "stuck" \notin b.slips => ~b.shown

TooltipInv ==
  /\ TooltipGoes(T!Now)
  /\ content \in BOOLEAN /\ over \in BOOLEAN /\ gone \in {"no", "alone", "within"} /\ events \in 0 .. MaxEvents
  /\ options \in [delay : BOOLEAN, fades : BOOLEAN, body : BOOLEAN]
  /\ handled \in [show : Nat, hide : Nat, toggle : Nat] /\ handled.show = handled.hide
  /\ "toggled" \notin slips => handled.hide = 1 /\ handled.toggle = 0
  /\ gone # "no" /\ "late" \notin slips => ~open
  /\ T!LeftIsClosed

\* Collapses, as records: the last height to be set is none for what is collapsed, and the
\* content's or more for what is not; after a digest the watcher has seen the height there is.
StepT == [id : Nat, to : Contents \cup {0}]
CollapseT ==
  [isCollapsed : BOOLEAN, animSkip : BOOLEAN, height : Contents \cup {-1, 0},
   currentTransition : Nat, running : BOOLEAN, unsettled : SUBSET Nat, expanding : SUBSET Nat,
   steps : Seq(StepT), content : Contents, lastScroll : Contents \cup {-1, 0}, started : Nat]

CollapseTypeOK(b) ==
  /\ b \in CollapseT /\ b.currentTransition \in 0 .. b.started /\ (b.running => supported)
  /\ b.unsettled \subseteq 1 .. b.started /\ b.expanding \subseteq 1 .. b.started

HeightHolds(b, past) ==
  /\ b.isCollapsed => IF b.steps = <<>> THEN b.height = 0 ELSE b.steps[Len(b.steps)].to = 0
  /\ ~b.isCollapsed /\ ~past => IF b.steps = <<>> THEN b.height = -1 \/ b.height >= b.content
                                ELSE b.steps[Len(b.steps)].to >= b.content

CollapseHolds(b, past) == CollapseTypeOK(b) /\ HeightHolds(b, past)

CollapseInv ==
  /\ CollapseHolds(L!Now, overtaken) /\ ~animSkip /\ isCollapsed = hides
  /\ lastScroll = L!ScrollHeight(L!Now) /\ supported \in BOOLEAN /\ overtaken \in BOOLEAN

\* The timepicker: the copy is a date and a minute of the day.
MomentT == [date : Nat, time : 0 .. P!Day - 1]
TimesInv ==
  /\ selected \in MomentT /\ showMeridian \in BOOLEAN
  /\ fields \in [hours : Nat, minutes : Nat, meridian : {"AM", "PM"}]
  /\ P!TpTypeOK /\ P!ShownAsItIs

\* The typeahead: while the sign of a lookup is on and the input is as it was looked up
\* last, the answer for its text has yet to come.
TypeaheadInv ==
  /\ A!TaTypeOK /\ A!MatchesOfInput /\ A!ActiveIsMatch /\ A!LoadingEnds /\ A!OnlyItems
  /\ loading /\ ~changed => \E i \in DOMAIN requests : requests[i] = view

\* The calendar and its popup: a date that is not valid is none, or one the page set.
DatesInv ==
  /\ D!DpTypeOK /\ isOpen \in BOOLEAN
  /\ dateModel \in [day : Int, time : {0, 180, 600}] /\ limits \in [min : Int, max : Int]
  /\ dateValid \/ dateModel.day = 0 \/ dateModel.time = 600
  /\ D!ValidityInStep /\ D!PopupListens

WidgetsInv ==
  /\ shown = "dates" => DatesInv
  /\ shown = "times" => TimesInv
  /\ shown = "typeahead" => TypeaheadInv
  /\ shown = "windows" => WindowsInv
  /\ shown = "slides" => SlidesInv
  /\ shown = "tooltips" => TooltipInv
  /\ shown = "collapses" => CollapseInv

-----------------------------------------------------------------------------
(* Sequences that lose a member *)

Spliced(s, k) == SubSeq(s, 1, k - 1) \o SubSeq(s, k + 1, Len(s))

\* What splice() leaves of a list: all but the member at k, in their order.
LEMMA SplicedIs ==
  ASSUME NEW X, NEW s \in Seq(X), NEW k \in DOMAIN s
  PROVE  /\ Spliced(s, k) \in Seq(X) /\ Len(Spliced(s, k)) = Len(s) - 1 /\ Len(s) - 1 \in Nat
         /\ \A j \in 1 .. Len(s) - 1 : Spliced(s, k)[j] = IF j < k THEN s[j] ELSE s[j + 1]
<1> DEFINE a == SubSeq(s, 1, k - 1)
           b == SubSeq(s, k + 1, Len(s))
<1>1. a \in Seq(X) /\ Len(a) = k - 1 /\ \A j \in 1 .. k - 1 : a[j] = s[j]
  OBVIOUS
<1>2. b \in Seq(X) /\ Len(b) = Len(s) - k /\ \A j \in 1 .. Len(s) - k : b[j] = s[k + j]
  OBVIOUS
<1>3. Spliced(s, k) = a \o b
  BY DEF Spliced
<1>4. Len(s) \in Nat /\ k \in 1 .. Len(s) /\ Len(s) - 1 \in Nat
  OBVIOUS
<1> HIDE DEF a, b
<1>5. a \o b \in Seq(X) /\ Len(a \o b) = Len(s) - 1
  <2>1. a \o b \in Seq(X) /\ Len(a \o b) = Len(a) + Len(b)
    BY <1>1, <1>2, ConcatProperties
  <2> QED
    BY <1>1, <1>2, <1>4, <2>1
<1>6. ASSUME NEW j \in 1 .. Len(s) - 1
      PROVE  (a \o b)[j] = IF j < k THEN s[j] ELSE s[j + 1]
  <2>1. (a \o b)[j] = IF j < k THEN a[j] ELSE b[j - (k - 1)]
    BY <1>1, <1>2, ConcatProperties
  <2>2. j >= k => j - (k - 1) \in 1 .. Len(s) - k /\ b[j - (k - 1)] = s[j + 1]
    BY <1>2
  <2> QED
    BY <1>1, <2>1, <2>2
<1> QED
  BY <1>3, <1>4, <1>5, <1>6

\* In a list without repetition every member but one is left, once.
LEMMA SplicedKeeps ==
  ASSUME NEW X, NEW s \in Seq(X), IsInjective(s), NEW k \in DOMAIN s
  PROVE  /\ IsInjective(Spliced(s, k))
         /\ Range(Spliced(s, k)) = Range(s) \ {s[k]}
<1> DEFINE r == Spliced(s, k)
<1>1. /\ r \in Seq(X) /\ Len(r) = Len(s) - 1 /\ DOMAIN r = 1 .. Len(s) - 1
      /\ \A j \in 1 .. Len(s) - 1 : r[j] = IF j < k THEN s[j] ELSE s[j + 1]
  BY SplicedIs
<1>2. Len(s) \in Nat /\ DOMAIN s = 1 .. Len(s) /\ k \in 1 .. Len(s)
  OBVIOUS
<1>3. \A i, j \in DOMAIN s : s[i] = s[j] => i = j
  BY DEF IsInjective
<1> HIDE DEF r
<1>4. IsInjective(r)
  <2> SUFFICES ASSUME NEW i \in DOMAIN r, NEW j \in DOMAIN r, r[i] = r[j] PROVE i = j
    BY DEF IsInjective
  <2> DEFINE p == IF i < k THEN i ELSE i + 1
             q == IF j < k THEN j ELSE j + 1
  <2>1. p \in DOMAIN s /\ q \in DOMAIN s /\ r[i] = s[p] /\ r[j] = s[q]
    BY <1>1, <1>2
  <2>2. p = q
    BY <1>3, <2>1
  <2> QED
    BY <1>1, <1>2, <2>2
<1>5. \A j \in DOMAIN r : \E i \in DOMAIN s : i # k /\ r[j] = s[i]
  BY <1>1, <1>2
<1>6. \A i \in DOMAIN s : i # k => \E j \in DOMAIN r : r[j] = s[i]
  <2> SUFFICES ASSUME NEW i \in DOMAIN s, i # k PROVE \E j \in DOMAIN r : r[j] = s[i]
    OBVIOUS
  <2>1. CASE i < k
    BY <1>1, <1>2, <2>1
  <2>2. CASE i > k
    <3>1. i - 1 \in DOMAIN r /\ r[i - 1] = s[i]
      BY <1>1, <1>2, <2>2
    <3> QED
      BY <3>1
  <2> QED
    BY <1>2, <2>1, <2>2
<1>7. Range(r) = {r[j] : j \in DOMAIN r} /\ Range(s) = {s[i] : i \in DOMAIN s}
  BY DEF Range
<1>8. Range(r) = Range(s) \ {s[k]}
  BY <1>3, <1>5, <1>6, <1>7
<1> QED
  BY <1>4, <1>8 DEF r

LEMMA SizeOfRange ==
  ASSUME NEW n \in Nat
  PROVE  IsFiniteSet(1 .. n) /\ Cardinality(1 .. n) = n
BY FS_Interval

\* A list without repetition is no longer than the set of its members.
LEMMA NoLongerThan ==
  ASSUME NEW X, IsFiniteSet(X), NEW s \in Seq(X), IsInjective(s)
  PROVE  /\ Len(s) <= Cardinality(X) /\ Cardinality(X) \in Nat
         /\ \A x \in X : x \notin Range(s) => Len(s) < Cardinality(X)
<1>1. s \in [1 .. Len(s) -> X] /\ Len(s) \in Nat
  OBVIOUS
<1>2. IsFiniteSet(1 .. Len(s)) /\ Cardinality(1 .. Len(s)) = Len(s)
  BY <1>1, SizeOfRange
<1>3. s \in Injection(1 .. Len(s), X)
  BY <1>1 DEF Injection, IsInjective
<1>4. Len(s) <= Cardinality(X) /\ (Len(s) = Cardinality(X) <=> s \in Surjection(1 .. Len(s), X))
  BY <1>2, <1>3, FS_Injection
<1>5. Cardinality(X) \in Nat
  BY FS_CardinalityType
<1>6. ASSUME NEW x \in X, x \notin Range(s) PROVE s \notin Surjection(1 .. Len(s), X)
  BY <1>1, <1>6 DEF Surjection, Range
<1> QED
  BY <1>1, <1>4, <1>5, <1>6

-----------------------------------------------------------------------------
(* Windows *)

\* An instance has the standard operators under names of its own.
LEMMA WindowOperators ==
  /\ \A f : M!Range(f) = Range(f) /\ (M!IsInjective(f) <=> IsInjective(f))
  /\ \A S0 : M!Cardinality(S0) = Cardinality(S0)
BY DEF M!Range, Range, M!IsInjective, IsInjective, M!Cardinality, Cardinality

LEMMA WindowsInit == ASSUME M!MoInit PROVE WindowsInv
<1> USE WidgetsAssumption DEF WidgetsAssumption
<1>1. M!Unused \in WindowT /\ M!Unused.stage = "unused" /\ M!Unused.element = FALSE
      /\ M!Unused.result = "pending" /\ M!Unused.index = -1
  BY DEF M!Unused, WindowT, M!Backdrops
<1>2. windows = [w \in Windows |-> M!Unused] /\ openedWindows = <<>> /\ backdrop = FALSE
      /\ faults = 0 /\ disordered = FALSE
  BY DEF M!MoInit
<1>3. \A w \in Windows : windows[w] = M!Unused
  BY <1>2
<1>4. M!Range(openedWindows) = {} /\ M!IsInjective(openedWindows) /\ openedWindows \in Seq(Windows)
      /\ DOMAIN openedWindows = {}
  BY <1>2 DEF M!Range, M!IsInjective
<1>5. PICK n \in Nat : n = M!Cardinality(Windows)
  BY WindowOperators, FS_CardinalityType
<1>6. M!MoTypeOK
  <2>1. -1 \in -1 .. n - 1
    BY <1>5
  <2>2. \A w \in Windows : /\ windows[w].stage \in {"unused", "loading", "open", "broken", "closed"}
                           /\ windows[w].result \in {"pending", "closed", "dismissed"}
                           /\ windows[w].index \in -1 .. M!Cardinality(Windows) - 1
    BY <1>1, <1>3, <1>5, <2>1
  <2>3. faults \in 0 .. MaxFaults
    BY <1>2
  <2> QED
    BY <1>2, <1>4, <2>2, <2>3 DEF M!MoTypeOK
<1>7. M!BackdropWhileWanted
  BY <1>2, <1>4 DEF M!BackdropWhileWanted, M!Backdropped
<1>8. M!ClosedIsGone
  BY <1>1, <1>3, <1>4 DEF M!ClosedIsGone
<1>9. windows \in [Windows -> WindowT]
  BY <1>1, <1>2
<1>10. \A w \in Windows :
         /\ windows[w].stage = "open" <=> w \in M!Range(openedWindows)
         /\ windows[w].stage \in {"unused", "loading", "open"} => windows[w].result = "pending"
  BY <1>1, <1>3, <1>4
<1>11. \A i \in DOMAIN openedWindows : windows[openedWindows[i]].index = i - 1
  BY <1>4
<1> QED
  BY <1>2, <1>6, <1>7, <1>8, <1>9, <1>10, <1>11 DEF WindowsInv

\* A window that leaves the stack leaves the others in their order; the top one leaves the
\* others at their places.
LEMMA RemovedIs ==
  ASSUME WindowsInv, NEW w \in M!Range(openedWindows)
  PROVE  /\ w \in Windows /\ M!Removed(w) \in Seq(Windows) /\ M!IsInjective(M!Removed(w))
         /\ M!Range(M!Removed(w)) = M!Range(openedWindows) \ {w}
         /\ w = M!Top => \A i \in DOMAIN M!Removed(w) :
                           i \in DOMAIN openedWindows /\ M!Removed(w)[i] = openedWindows[i]
<1>1. openedWindows \in Seq(Windows) /\ IsInjective(openedWindows)
  BY WindowOperators DEF WindowsInv, M!MoTypeOK
<1> DEFINE k == CHOOSE i \in DOMAIN openedWindows : openedWindows[i] = w
<1>2. k \in DOMAIN openedWindows /\ openedWindows[k] = w
  BY DEF M!Range
<1>3. M!Removed(w) = Spliced(openedWindows, k)
  BY DEF M!Removed, Spliced
<1> HIDE DEF k
<1>4. w \in Windows /\ DOMAIN openedWindows = 1 .. Len(openedWindows) /\ Len(openedWindows) \in Nat
  BY <1>1, <1>2
<1>5. /\ Spliced(openedWindows, k) \in Seq(Windows)
      /\ Len(Spliced(openedWindows, k)) = Len(openedWindows) - 1
      /\ \A j \in 1 .. Len(openedWindows) - 1 :
           Spliced(openedWindows, k)[j] = IF j < k THEN openedWindows[j] ELSE openedWindows[j + 1]
  BY <1>1, <1>2, SplicedIs
<1>6. /\ IsInjective(Spliced(openedWindows, k))
      /\ Range(Spliced(openedWindows, k)) = Range(openedWindows) \ {w}
  BY <1>1, <1>2, SplicedKeeps
<1>7. ASSUME w = M!Top, NEW i \in DOMAIN Spliced(openedWindows, k)
      PROVE  i \in DOMAIN openedWindows /\ Spliced(openedWindows, k)[i] = openedWindows[i]
  <2>1. k = Len(openedWindows)
    BY <1>1, <1>2, <1>4, <1>7 DEF IsInjective, M!Top
  <2>2. i \in 1 .. Len(openedWindows) - 1
    BY <1>5
  <2> QED
    BY <1>4, <1>5, <2>1, <2>2
<1> QED
  BY <1>3, <1>4, <1>5, <1>6, <1>7, WindowOperators

\* Closing and dismissing: the backdrop goes with the last window that wants one.
LEMMA RemoveStep ==
  ASSUME WindowsInv, NEW w \in M!Range(openedWindows), NEW outcome \in {"closed", "dismissed"},
         M!RemoveModalWindow(w, outcome)
  PROVE  WindowsInv'
<1> DEFINE bare == ~M!Backdropped(M!Left(w))
           left == M!Removed(w)
           scope == IF bare /\ ~backdrop THEN windows[w].scope ELSE "destroyed"
           result == M!Settle(w, outcome)
<1>1. /\ w \in Windows /\ left \in Seq(Windows) /\ M!IsInjective(left)
      /\ M!Range(left) = M!Range(openedWindows) \ {w}
      /\ w = M!Top => \A i \in DOMAIN left :
                        i \in DOMAIN openedWindows /\ left[i] = openedWindows[i]
  BY RemovedIs
<1>2. /\ windows' = [windows EXCEPT ![w].stage = "closed", ![w].result = result,
                                    ![w].element = FALSE, ![w].scope = scope]
      /\ openedWindows' = left /\ backdrop' = (backdrop /\ ~bare)
      /\ disordered' = (disordered \/ w # M!Top) /\ faults' = faults
  BY DEF M!RemoveModalWindow
<1>3. /\ windows \in [Windows -> WindowT] /\ disordered \in BOOLEAN /\ M!MoTypeOK
      /\ \A x \in Windows :
           /\ windows[x].stage = "open" <=> x \in M!Range(openedWindows)
           /\ windows[x].stage \in {"unused", "loading", "open"} => windows[x].result = "pending"
      /\ ~disordered => \A i \in DOMAIN openedWindows : windows[openedWindows[i]].index = i - 1
      /\ M!BackdropWhileWanted /\ M!ClosedIsGone
  BY DEF WindowsInv
<1>4. windows[w] \in WindowT /\ scope \in {"none", "alive", "destroyed"}
      /\ result \in {"pending", "closed", "dismissed"}
  BY <1>1, <1>3 DEF WindowT, M!Settle
<1>5. M!Left(w) = left
  BY DEF M!Left
<1> HIDE DEF left, scope, result
<1>6. windows' \in [Windows -> WindowT]
  BY <1>1, <1>2, <1>3, <1>4 DEF WindowT
<1>7. /\ windows'[w].stage = "closed" /\ windows'[w].element = FALSE /\ windows'[w].scope = scope
      /\ windows'[w].result = result
      /\ windows'[w].backdrop = windows[w].backdrop /\ windows'[w].index = windows[w].index
  BY <1>1, <1>2, <1>3, <1>4 DEF WindowT
<1>8. \A x \in Windows \ {w} : windows'[x] = windows[x]
  BY <1>1, <1>2, <1>3
<1>9. \A x \in Windows : windows'[x].backdrop = windows[x].backdrop /\ windows'[x].index = windows[x].index
  BY <1>7, <1>8
<1>10. M!MoTypeOK'
  <2>1. \A x \in Windows :
          /\ windows'[x].stage \in {"unused", "loading", "open", "broken", "closed"}
          /\ windows'[x].result \in {"pending", "closed", "dismissed"}
    BY <1>6 DEF WindowT
  <2>2. \A x \in Windows : windows'[x].index \in -1 .. M!Cardinality(Windows) - 1
    BY <1>3, <1>9 DEF M!MoTypeOK
  <2>3. backdrop' \in BOOLEAN /\ faults' \in 0 .. MaxFaults
    BY <1>2, <1>3 DEF M!MoTypeOK
  <2> QED
    BY <1>1, <1>2, <2>1, <2>2, <2>3 DEF M!MoTypeOK
<1>11. \A x \in Windows :
         /\ windows'[x].stage = "open" <=> x \in M!Range(openedWindows')
         /\ windows'[x].stage \in {"unused", "loading", "open"} => windows'[x].result = "pending"
  BY <1>1, <1>2, <1>3, <1>7, <1>8
<1>12. \A i \in DOMAIN left : left[i] \in Windows
  BY <1>1
<1>13. ~disordered' => \A i \in DOMAIN openedWindows' : windows'[openedWindows'[i]].index = i - 1
  BY <1>1, <1>2, <1>3, <1>9, <1>12
<1>14. M!Backdropped(openedWindows)' <=> ~bare
  <2>1. M!Backdropped(openedWindows)' <=> \E x \in M!Range(left) : windows'[x].backdrop # "none"
    BY <1>2 DEF M!Backdropped
  <2>2. ~bare <=> \E x \in M!Range(left) : windows[x].backdrop # "none"
    BY <1>5 DEF M!Backdropped
  <2>3. M!Range(left) \subseteq Windows
    BY <1>12 DEF M!Range
  <2> QED
    BY <1>9, <2>1, <2>2, <2>3
<1>15. ~bare => backdrop
  <2>1. ~bare => M!Backdropped(openedWindows)
    BY <1>1, <1>5 DEF M!Backdropped
  <2> QED
    BY <1>3, <2>1 DEF M!BackdropWhileWanted
<1>16. M!BackdropWhileWanted'
  <2>1. backdrop' = ~bare
    BY <1>2, <1>3, <1>15 DEF M!MoTypeOK
  <2>2. M!Backdropped(openedWindows)' \in BOOLEAN
    BY DEF M!Backdropped
  <2>3. M!Backdropped(openedWindows)' = ~bare
    BY <1>14, <2>2
  <2> QED
    BY <2>1, <2>3 DEF M!BackdropWhileWanted
<1>17. scope # "destroyed" => windows[w].backdrop = "none"
  <2>1. scope # "destroyed" => ~M!Backdropped(openedWindows)
    BY <1>3 DEF scope, M!BackdropWhileWanted
  <2> QED
    BY <2>1 DEF M!Backdropped
<1>18. M!ClosedIsGone'
  <2>1. \A x \in Windows : windows'[x].element <=> x \in M!Range(openedWindows')
    BY <1>1, <1>2, <1>3, <1>7, <1>8 DEF M!ClosedIsGone
  <2>2. \A x \in Windows : windows'[x].stage = "closed" /\ windows'[x].scope # "destroyed" =>
                             windows'[x].backdrop = "none"
    BY <1>3, <1>7, <1>8, <1>9, <1>17 DEF M!ClosedIsGone
  <2> QED
    BY <2>1, <2>2 DEF M!ClosedIsGone
<1> QED
  BY <1>2, <1>3, <1>6, <1>10, <1>11, <1>13, <1>16, <1>18 DEF WindowsInv

\* A window that is loading is put on the stack, on top of those that are there.
LEMMA LoadedStep ==
  ASSUME WindowsInv, NEW w \in Windows, M!Loaded(w)
  PROVE  WindowsInv'
<1> USE WidgetsAssumption DEF WidgetsAssumption
<1>1. /\ windows[w].stage = "loading"
      /\ windows' = [windows EXCEPT ![w].stage = "open", ![w].opened = "yes", ![w].scope = "alive",
                                    ![w].element = TRUE, ![w].index = Len(openedWindows)]
      /\ openedWindows' = Append(openedWindows, w)
      /\ backdrop' = (backdrop \/ M!Backdropped(openedWindows) \/ windows[w].backdrop # "none")
      /\ faults' = faults /\ disordered' = disordered
  BY DEF M!Loaded
<1>2. /\ windows \in [Windows -> WindowT] /\ disordered \in BOOLEAN /\ M!MoTypeOK
      /\ \A x \in Windows :
           /\ windows[x].stage = "open" <=> x \in M!Range(openedWindows)
           /\ windows[x].stage \in {"unused", "loading", "open"} => windows[x].result = "pending"
      /\ ~disordered => \A i \in DOMAIN openedWindows : windows[openedWindows[i]].index = i - 1
      /\ M!BackdropWhileWanted /\ M!ClosedIsGone
  BY DEF WindowsInv
<1>3. openedWindows \in Seq(Windows) /\ M!IsInjective(openedWindows) /\ IsInjective(openedWindows)
  BY <1>2, WindowOperators DEF M!MoTypeOK
<1>4. w \notin M!Range(openedWindows) /\ w \notin Range(openedWindows)
  BY <1>1, <1>2, WindowOperators
<1>5. PICK n \in Nat : n = Len(openedWindows)
  BY <1>3
<1>6. PICK k \in Nat : k = M!Cardinality(Windows)
  BY WindowOperators, FS_CardinalityType
<1>7. n < k
  BY <1>3, <1>4, <1>5, <1>6, NoLongerThan, WindowOperators
<1>8. /\ openedWindows' \in Seq(Windows) /\ DOMAIN openedWindows' = 1 .. n + 1
      /\ openedWindows'[n + 1] = w /\ DOMAIN openedWindows = 1 .. n
      /\ \A i \in 1 .. n : openedWindows'[i] = openedWindows[i]
  BY <1>1, <1>3, <1>5
<1>9. M!Range(openedWindows') = M!Range(openedWindows) \cup {w}
  <2>1. \A i \in 1 .. n + 1 : i \in 1 .. n \/ i = n + 1
    OBVIOUS
  <2>2. 1 .. n \subseteq 1 .. n + 1 /\ n + 1 \in 1 .. n + 1
    OBVIOUS
  <2> QED
    BY <1>8, <2>1, <2>2 DEF M!Range
<1>10. M!IsInjective(openedWindows')
  <2>1. \A i \in 1 .. n : openedWindows[i] # w
    BY <1>4, <1>8 DEF M!Range
  <2>2. \A i \in 1 .. n + 1 : i \in 1 .. n \/ i = n + 1
    OBVIOUS
  <2>3. \A i, j \in 1 .. n : openedWindows[i] = openedWindows[j] => i = j
    BY <1>3, <1>8 DEF M!IsInjective
  <2> QED
    BY <1>8, <2>1, <2>2, <2>3 DEF M!IsInjective
<1>11. windows[w] \in WindowT
  BY <1>2
<1>12. /\ windows' \in [Windows -> WindowT]
       /\ windows'[w].stage = "open" /\ windows'[w].element = TRUE /\ windows'[w].scope = "alive"
       /\ windows'[w].index = n /\ windows'[w].result = windows[w].result
       /\ windows'[w].backdrop = windows[w].backdrop
       /\ \A x \in Windows \ {w} : windows'[x] = windows[x]
  <2>1. windows' \in [Windows -> WindowT]
    <3> DEFINE new == [windows[w] EXCEPT !.stage = "open", !.opened = "yes", !.scope = "alive",
                                         !.element = TRUE, !.index = n]
    <3>1. windows' = [windows EXCEPT ![w] = new]
      BY <1>1, <1>5
    <3>2. n \in Int
      OBVIOUS
    <3>3. new \in WindowT
      BY <1>11, <3>2 DEF WindowT
    <3> HIDE DEF new
    <3> QED
      BY <1>2, <3>1, <3>3
  <2>2. /\ windows'[w].stage = "open" /\ windows'[w].element = TRUE /\ windows'[w].scope = "alive"
        /\ windows'[w].index = n
    BY <1>1, <1>2, <1>5, <1>11 DEF WindowT
  <2>3. windows'[w].result = windows[w].result /\ windows'[w].backdrop = windows[w].backdrop
    BY <1>1, <1>2, <1>5, <1>11 DEF WindowT
  <2>4. \A x \in Windows \ {w} : windows'[x] = windows[x]
    BY <1>1, <1>2
  <2> QED
    BY <2>1, <2>2, <2>3, <2>4
<1>13. M!MoTypeOK'
  <2>1. \A x \in Windows :
          /\ windows'[x].stage \in {"unused", "loading", "open", "broken", "closed"}
          /\ windows'[x].result \in {"pending", "closed", "dismissed"}
    BY <1>12 DEF WindowT
  <2>2. n \in -1 .. k - 1
    BY <1>7
  <2>3. \A x \in Windows : windows'[x].index \in -1 .. M!Cardinality(Windows) - 1
    BY <1>2, <1>6, <1>12, <2>2 DEF M!MoTypeOK
  <2>4. backdrop' \in BOOLEAN /\ faults' \in 0 .. MaxFaults
    BY <1>1, <1>2 DEF M!MoTypeOK
  <2> QED
    BY <1>8, <1>10, <2>1, <2>3, <2>4 DEF M!MoTypeOK
<1>14. \A x \in Windows :
         /\ windows'[x].stage = "open" <=> x \in M!Range(openedWindows')
         /\ windows'[x].stage \in {"unused", "loading", "open"} => windows'[x].result = "pending"
  BY <1>1, <1>2, <1>9, <1>12
<1>15. ~disordered' => \A i \in DOMAIN openedWindows' : windows'[openedWindows'[i]].index = i - 1
  <2>1. SUFFICES ASSUME ~disordered, NEW i \in 1 .. n + 1
                 PROVE  windows'[openedWindows'[i]].index = i - 1
    BY <1>1, <1>8
  <2>2. CASE i = n + 1
    BY <1>8, <1>12, <2>2
  <2>3. CASE i \in 1 .. n
    <3>1. openedWindows'[i] = openedWindows[i] /\ openedWindows[i] \in M!Range(openedWindows)
          /\ openedWindows[i] \in Windows
      BY <1>3, <1>8, <2>3 DEF M!Range
    <3>2. windows'[openedWindows[i]] = windows[openedWindows[i]]
      BY <1>4, <1>12, <3>1
    <3> QED
      BY <1>2, <1>8, <2>1, <2>3, <3>1, <3>2
  <2> QED
    BY <2>2, <2>3
<1>16. M!Range(openedWindows) \subseteq Windows
  BY <1>3 DEF M!Range
<1>17. M!Backdropped(openedWindows)' <=> M!Backdropped(openedWindows) \/ windows[w].backdrop # "none"
  <2>1. M!Backdropped(openedWindows)' <=> \E x \in M!Range(openedWindows') : windows'[x].backdrop # "none"
    BY DEF M!Backdropped
  <2>2. M!Backdropped(openedWindows) <=> \E x \in M!Range(openedWindows) : windows[x].backdrop # "none"
    BY DEF M!Backdropped
  <2>3. \A x \in Windows : windows'[x].backdrop = windows[x].backdrop
    BY <1>12
  <2> QED
    BY <1>9, <1>16, <2>1, <2>2, <2>3
<1>18. M!BackdropWhileWanted'
  <2>1. M!Backdropped(openedWindows)' \in BOOLEAN /\ M!Backdropped(openedWindows) \in BOOLEAN
    BY DEF M!Backdropped
  <2>2. backdrop = M!Backdropped(openedWindows)
    BY <1>2 DEF M!BackdropWhileWanted
  <2>3. backdrop' = M!Backdropped(openedWindows)'
    BY <1>1, <1>17, <2>1, <2>2
  <2> QED
    BY <2>3 DEF M!BackdropWhileWanted
<1>19. M!ClosedIsGone'
  <2>1. \A x \in Windows : windows'[x].element <=> x \in M!Range(openedWindows')
    BY <1>2, <1>9, <1>12 DEF M!ClosedIsGone
  <2>2. \A x \in Windows : windows'[x].stage = "closed" /\ windows'[x].scope # "destroyed" =>
                             windows'[x].backdrop = "none"
    BY <1>2, <1>12 DEF M!ClosedIsGone
  <2> QED
    BY <2>1, <2>2 DEF M!ClosedIsGone
<1> QED
  BY <1>1, <1>2, <1>12, <1>13, <1>14, <1>15, <1>18, <1>19 DEF WindowsInv

\* Whatever befalls a window that is not on the stack leaves the stack and its backdrop.
LEMMA AsideStep ==
  ASSUME WindowsInv, NEW w \in Windows, windows[w].stage \in {"unused", "loading"},
         windows' \in [Windows -> WindowT],
         \A x \in Windows \ {w} : windows'[x] = windows[x],
         windows'[w].stage \in {"loading", "broken"}, ~windows'[w].element,
         windows'[w].stage = "loading" => windows'[w].result = "pending",
         windows'[w].index = -1 \/ windows'[w].index = windows[w].index,
         UNCHANGED <<openedWindows, backdrop, disordered>>, faults' \in 0 .. MaxFaults
  PROVE  WindowsInv'
<1> USE WidgetsAssumption DEF WidgetsAssumption
<1>1. openedWindows' = openedWindows /\ backdrop' = backdrop /\ disordered' = disordered
  OBVIOUS
<1>2. /\ windows \in [Windows -> WindowT] /\ disordered \in BOOLEAN /\ M!MoTypeOK
      /\ \A x \in Windows :
           /\ windows[x].stage = "open" <=> x \in M!Range(openedWindows)
           /\ windows[x].stage \in {"unused", "loading", "open"} => windows[x].result = "pending"
      /\ ~disordered => \A i \in DOMAIN openedWindows : windows[openedWindows[i]].index = i - 1
      /\ M!BackdropWhileWanted /\ M!ClosedIsGone
  BY DEF WindowsInv
<1>3. w \notin M!Range(openedWindows)
  BY <1>2
<1>4. /\ M!Range(openedWindows) \subseteq Windows
      /\ \A i \in DOMAIN openedWindows : openedWindows[i] \in M!Range(openedWindows)
  BY <1>2 DEF M!Range, M!MoTypeOK
<1>5. \A x \in M!Range(openedWindows) : windows'[x] = windows[x]
  BY <1>3, <1>4
<1>6. M!MoTypeOK'
  <2>1. \A x \in Windows :
          /\ windows'[x].stage \in {"unused", "loading", "open", "broken", "closed"}
          /\ windows'[x].result \in {"pending", "closed", "dismissed"}
    BY DEF WindowT
  <2>2. PICK k \in Nat : k = M!Cardinality(Windows)
    BY WindowOperators, FS_CardinalityType
  <2>3. -1 \in -1 .. k - 1
    OBVIOUS
  <2>4. \A x \in Windows : windows'[x].index \in -1 .. M!Cardinality(Windows) - 1
    BY <1>2, <2>2, <2>3 DEF M!MoTypeOK
  <2> QED
    BY <1>1, <1>2, <2>1, <2>4 DEF M!MoTypeOK
<1>7. \A x \in Windows :
        /\ windows'[x].stage = "open" <=> x \in M!Range(openedWindows')
        /\ windows'[x].stage \in {"unused", "loading", "open"} => windows'[x].result = "pending"
  BY <1>1, <1>2, <1>3
<1>8. ~disordered' => \A i \in DOMAIN openedWindows' : windows'[openedWindows'[i]].index = i - 1
  BY <1>1, <1>2, <1>4, <1>5
<1>9. M!BackdropWhileWanted'
  <2>1. M!Backdropped(openedWindows)' = M!Backdropped(openedWindows)
    BY <1>1, <1>5 DEF M!Backdropped
  <2> QED
    BY <1>1, <1>2, <2>1 DEF M!BackdropWhileWanted
<1>10. M!ClosedIsGone'
  BY <1>1, <1>2, <1>3 DEF M!ClosedIsGone
<1> QED
  BY <1>1, <1>2, <1>6, <1>7, <1>8, <1>9, <1>10 DEF WindowsInv

LEMMA WindowsStep == ASSUME WindowsInv, M!MoNext PROVE WindowsInv'
<1> USE WidgetsAssumption DEF WidgetsAssumption
<1>1. windows \in [Windows -> WindowT] /\ openedWindows \in Seq(Windows) /\ faults \in 0 .. MaxFaults
  BY DEF WindowsInv, M!MoTypeOK
<1>2. ASSUME NEW w \in Windows, NEW back \in M!Backdrops, NEW keyboard \in BOOLEAN,
             M!Open(w, back, keyboard)
      PROVE  WindowsInv'
  <2> DEFINE new == [M!Unused EXCEPT !.stage = "loading", !.backdrop = back, !.keyboard = keyboard]
  <2>1. windows[w].stage = "unused" /\ windows' = [windows EXCEPT ![w] = new]
        /\ UNCHANGED <<openedWindows, backdrop, disordered>> /\ faults' = faults
    BY <1>2 DEF M!Open
  <2>2. new \in WindowT /\ new.stage = "loading" /\ new.element = FALSE /\ new.result = "pending"
        /\ new.index = -1
    <3>1. M!Unused \in WindowT /\ M!Unused.element = FALSE /\ M!Unused.result = "pending"
          /\ M!Unused.index = -1
      BY DEF M!Unused, WindowT, M!Backdrops
    <3>2. new \in WindowT
      BY <3>1 DEF WindowT
    <3>3. new.stage = "loading" /\ new.element = FALSE /\ new.result = "pending" /\ new.index = -1
      BY <3>1 DEF WindowT
    <3> QED
      BY <3>2, <3>3
  <2> HIDE DEF new
  <2>3. windows' \in [Windows -> WindowT] /\ windows'[w] = new
        /\ \A x \in Windows \ {w} : windows'[x] = windows[x]
    BY <1>1, <2>1, <2>2
  <2>4. windows'[w].stage = "loading" /\ ~windows'[w].element /\ windows'[w].result = "pending"
        /\ windows'[w].index = -1
    BY <2>2, <2>3
  <2> QED
    BY <1>1, <2>1, <2>3, <2>4, AsideStep
<1>3. ASSUME NEW w \in Windows, M!ControllerThrows(w) PROVE WindowsInv'
  <2>1. windows[w] \in WindowT /\ ~windows[w].element
    BY <1>1, <1>3 DEF WindowsInv, M!ClosedIsGone, M!ControllerThrows
  <2>2. windows[w].stage = "loading" /\ faults' \in 0 .. MaxFaults
        /\ windows' = [windows EXCEPT ![w].stage = "broken", ![w].opened = "yes", ![w].scope = "alive"]
        /\ UNCHANGED <<openedWindows, backdrop, disordered>>
    BY <1>1, <1>3 DEF M!ControllerThrows
  <2>3. windows' \in [Windows -> WindowT] /\ windows'[w].stage = "broken" /\ ~windows'[w].element
        /\ windows'[w].index = windows[w].index /\ \A x \in Windows \ {w} : windows'[x] = windows[x]
    BY <1>1, <2>1, <2>2 DEF WindowT
  <2> QED
    BY <2>2, <2>3, AsideStep
<1>4. ASSUME NEW w \in Windows, M!NotLoaded(w) PROVE WindowsInv'
  <2>1. windows[w] \in WindowT /\ ~windows[w].element
    BY <1>1, <1>4 DEF WindowsInv, M!ClosedIsGone, M!NotLoaded
  <2>2. windows[w].stage = "loading" /\ faults' \in 0 .. MaxFaults
        /\ windows' = [windows EXCEPT ![w].stage = "broken", ![w].opened = "no",
                                      ![w].result = M!Settle(w, "dismissed")]
        /\ UNCHANGED <<openedWindows, backdrop, disordered>>
    BY <1>1, <1>4 DEF M!NotLoaded
  <2>3. M!Settle(w, "dismissed") \in {"pending", "closed", "dismissed"}
    BY <2>1 DEF M!Settle, WindowT
  <2>4. windows' \in [Windows -> WindowT] /\ windows'[w].stage = "broken" /\ ~windows'[w].element
        /\ windows'[w].index = windows[w].index /\ \A x \in Windows \ {w} : windows'[x] = windows[x]
    BY <1>1, <2>1, <2>2, <2>3 DEF WindowT
  <2> QED
    BY <2>2, <2>4, AsideStep
<1>5. ASSUME NEW w, M!Close(w) \/ M!Dismiss(w) PROVE WindowsInv'
  BY <1>5, RemoveStep DEF M!Close, M!Dismiss
<1> QED
  BY <1>2, <1>3, <1>4, <1>5, LoadedStep DEF M!MoNext, M!Escape, M!ClickBackdrop

\* As long as windows are closed from the top, their places make them lie on each other.
LEMMA WindowsGive ==
  ASSUME WindowsInv
  PROVE  M!MoTypeOK /\ M!BackdropWhileWanted /\ M!ClosedIsGone /\ M!TopLiesAbove
<1>1. M!MoTypeOK /\ M!BackdropWhileWanted /\ M!ClosedIsGone /\ openedWindows \in Seq(Windows)
      /\ (~disordered => \A i \in DOMAIN openedWindows : windows[openedWindows[i]].index = i - 1)
  BY DEF WindowsInv, M!MoTypeOK
<1>2. M!TopLiesAbove
  BY <1>1 DEF M!TopLiesAbove
<1> QED
  BY <1>1, <1>2

\* A window's result is told when it leaves the stack or is not loaded, and was pending.
LEMMA WindowToldOnce ==
  ASSUME WindowsInv, M!MoNext, NEW x \in Windows, windows'[x].result # windows[x].result
  PROVE  /\ windows[x].result = "pending" /\ windows'[x].stage \in {"closed", "broken"}
         /\ x \notin M!Range(openedWindows')
<1>1. windows \in [Windows -> WindowT]
      /\ \A w \in Windows :
           /\ windows[w].stage = "open" <=> w \in M!Range(openedWindows)
           /\ windows[w].stage \in {"unused", "loading", "open"} => windows[w].result = "pending"
  BY DEF WindowsInv
<1>2. ASSUME NEW w \in Windows, NEW back \in M!Backdrops, NEW keyboard \in BOOLEAN,
             M!Open(w, back, keyboard)
      PROVE  FALSE
  <2>1. windows[w].stage = "unused" /\ windows[w].result = "pending"
    BY <1>1, <1>2 DEF M!Open
  <2>2. x # w => windows'[x] = windows[x]
    BY <1>1, <1>2 DEF M!Open
  <2>3. windows'[w].result = "pending"
    BY <1>1, <1>2 DEF M!Open, M!Unused
  <2> QED
    BY <2>1, <2>2, <2>3
<1>3. ASSUME NEW w \in Windows, M!Loaded(w) PROVE FALSE
  <2>1. windows[w] \in WindowT
    BY <1>1
  <2>2. x # w => windows'[x] = windows[x]
    BY <1>1, <1>3 DEF M!Loaded
  <2>3. windows'[w].result = windows[w].result
    BY <1>1, <1>3, <2>1 DEF M!Loaded, WindowT
  <2> QED
    BY <2>2, <2>3
<1>4. ASSUME NEW w \in Windows, M!ControllerThrows(w) PROVE FALSE
  <2>1. windows[w] \in WindowT
    BY <1>1
  <2>2. x # w => windows'[x] = windows[x]
    BY <1>1, <1>4 DEF M!ControllerThrows
  <2>3. windows'[w].result = windows[w].result
    BY <1>1, <1>4, <2>1 DEF M!ControllerThrows, WindowT
  <2> QED
    BY <2>2, <2>3
<1>5. ASSUME NEW w \in Windows, M!NotLoaded(w)
      PROVE  /\ windows[x].result = "pending" /\ windows'[x].stage \in {"closed", "broken"}
             /\ x \notin M!Range(openedWindows')
  <2>1. windows[w] \in WindowT /\ windows[w].stage = "loading" /\ openedWindows' = openedWindows
    BY <1>1, <1>5 DEF M!NotLoaded
  <2>2. x = w
    BY <1>1, <1>5 DEF M!NotLoaded
  <2>3. windows'[w].stage = "broken"
    BY <1>1, <1>5, <2>1 DEF M!NotLoaded, WindowT
  <2> QED
    BY <1>1, <2>1, <2>2, <2>3
<1>6. ASSUME NEW w \in M!Range(openedWindows), NEW outcome, M!RemoveModalWindow(w, outcome)
      PROVE  /\ windows[x].result = "pending" /\ windows'[x].stage \in {"closed", "broken"}
             /\ x \notin M!Range(openedWindows')
  <2>1. w \in Windows /\ M!Range(openedWindows') = M!Range(openedWindows) \ {w}
    BY <1>6, RemovedIs DEF M!RemoveModalWindow
  <2>2. windows[w] \in WindowT /\ windows[w].stage = "open"
    BY <1>1, <2>1
  <2>3. x = w
    BY <1>1, <1>6 DEF M!RemoveModalWindow
  <2>4. windows'[w].stage = "closed"
    BY <1>1, <1>6, <2>1, <2>2 DEF M!RemoveModalWindow, WindowT
  <2> QED
    BY <1>1, <2>1, <2>2, <2>3, <2>4
<1> QED
  BY <1>2, <1>3, <1>4, <1>5, <1>6 DEF M!MoNext, M!Escape, M!ClickBackdrop, M!Close, M!Dismiss

-----------------------------------------------------------------------------
(* Tooltips *)

LEMMA AppendedIs ==
  ASSUME NEW X, NEW s \in Seq(X), NEW x \in X
  PROVE  Append(s, x) \in Seq(X) /\ Append(s, x) # <<>> /\ (s = <<>> => Append(s, x) = <<x>>)
<1>1. Append(s, x) \in Seq(X) /\ Len(Append(s, x)) = Len(s) + 1 /\ Len(s) \in Nat
  OBVIOUS
<1>2. Append(<<>>, x) = <<x>> /\ Len(<<>>) = 0
  OBVIOUS
<1>3. Append(s, x) # <<>>
  BY <1>1, <1>2
<1> QED
  BY <1>1, <1>2, <1>3

LEMMA RestIs ==
  ASSUME NEW X, NEW s \in Seq(X), s # <<>>
  PROVE  Head(s) \in X /\ Tail(s) \in Seq(X) /\ \A x : s = <<x>> => Tail(s) = <<>> /\ Head(s) = x
<1>1. \A x : Tail(<<x>>) = <<>> /\ Head(<<x>>) = x
  OBVIOUS
<1>2. Head(s) \in X /\ Tail(s) \in Seq(X)
  OBVIOUS
<1> QED
  BY <1>1, <1>2

\* What comes after the first ends as the whole does.
LEMMA LastOfRest ==
  ASSUME NEW X, NEW s \in Seq(X), s # <<>>
  PROVE  /\ Head(s) \in X /\ Tail(s) \in Seq(X) /\ Len(s) \in Nat \ {0}
         /\ Tail(s) = <<>> => Head(s) = s[Len(s)]
         /\ Tail(s) # <<>> => Tail(s)[Len(Tail(s))] = s[Len(s)]
<1>1. PICK k \in Nat \ {0} : k = Len(s)
  OBVIOUS
<1>2. Head(s) \in X /\ Tail(s) \in Seq(X) /\ Head(s) = s[1] /\ Len(Tail(s)) = k - 1
  BY <1>1
<1>3. \A i \in 1 .. k - 1 : Tail(s)[i] = s[i + 1]
  BY <1>1
<1>4. Tail(s) = <<>> <=> k = 1
  <2>1. \A r \in Seq(X) : r = <<>> <=> Len(r) = 0
    OBVIOUS
  <2>2. Tail(s) = <<>> <=> k - 1 = 0
    BY <1>2, <2>1
  <2> QED
    BY <2>2
<1>5. k # 1 => k - 1 \in 1 .. k - 1 /\ (k - 1) + 1 = k
  OBVIOUS
<1>6. k # 1 => Tail(s)[k - 1] = s[k]
  BY <1>3, <1>5
<1> QED
  BY <1>1, <1>2, <1>4, <1>6

LEMMA WithoutIs ==
  ASSUME NEW s \in Seq(Nat), NEW id
  PROVE  /\ T!Without(s, id) \in Seq(Nat)
         /\ s = <<>> \/ s = <<id>> => T!Without(s, id) = <<>>
<1>1. T!Without(s, id) \in Seq(Nat)
  BY DEF T!Without
<1>2. s = <<>> => T!Without(s, id) = <<>>
  BY DEF T!Without
<1>3. s = <<id>> => T!Without(s, id) = <<>>
  <2> SUFFICES ASSUME s = <<id>> PROVE T!Without(s, id) = <<>>
    OBVIOUS
  <2>1. Len(s) = 1 /\ s[1] = id /\ s # <<>>
    OBVIOUS
  <2>2. SubSeq(s, 1, 0) = <<>>
    OBVIOUS
  <2> QED
    BY <2>1, <2>2 DEF T!Without
<1> QED
  BY <1>1, <1>2, <1>3

\* show() cancels the removal that waits.
LEMMA ShowGoes ==
  ASSUME NEW b, TooltipGoes(b)
  PROVE  /\ TooltipGoes(T!Show(b)) /\ T!Show(b).slips = b.slips
         /\ T!Show(b).popups = b.popups /\ T!Show(b).popup = b.popup
<1> USE DEF TooltipT
<1> DEFINE r == T!Without(b.removals, b.removal)
<1>1. /\ b \in TooltipT
      /\ "removal" \notin b.slips => b.removals = <<>> \/ (b.removals = <<b.removal>> /\ ~b.open)
      /\ "toggled" \notin b.slips => b.popups = <<>> \/ b.popups = <<b.popup>>
  BY DEF TooltipGoes
<1>2. r \in Seq(Nat) /\ ("removal" \notin b.slips => r = <<>>)
  BY <1>1, WithoutIs
<1> HIDE DEF r
<1>3. CASE ~content
  BY <1>3 DEF T!Show
<1>4. CASE content
  <2>1. T!Show(b) = [b EXCEPT !.open = TRUE, !.shown = TRUE, !.removals = r]
    BY <1>4 DEF T!Show, r
  <2>2. /\ T!Show(b) \in TooltipT /\ T!Show(b).open = TRUE /\ T!Show(b).shown = TRUE
        /\ T!Show(b).removals = r
        /\ T!Show(b).slips = b.slips /\ T!Show(b).popups = b.popups /\ T!Show(b).popup = b.popup
    BY <1>1, <1>2, <2>1
  <2> QED
    BY <1>1, <1>2, <2>2 DEF TooltipGoes
<1> QED
  BY <1>3, <1>4

\* show() without a parent opens nothing; it may leave the tooltip stuck.
LEMMA FailToShowGoes ==
  ASSUME NEW b, TooltipGoes(b), content \in BOOLEAN
  PROVE  /\ TooltipGoes(T!FailToShow(b)) /\ T!FailToShow(b).open = b.open
         /\ b.slips \subseteq T!FailToShow(b).slips
         /\ T!FailToShow(b).slips \subseteq b.slips \cup {"stuck"}
<1> USE DEF TooltipT
<1> DEFINE r == T!Without(b.removals, b.removal)
           l == b.slips \cup {"stuck"}
           h == T!FailToShow(b)
<1>1. /\ b \in TooltipT
      /\ "removal" \notin b.slips => b.removals = <<>> \/ (b.removals = <<b.removal>> /\ ~b.open)
      /\ "toggled" \notin b.slips => b.popups = <<>> \/ b.popups = <<b.popup>>
  BY DEF TooltipGoes
<1>2. r \in Seq(Nat) /\ ("removal" \notin b.slips => r = <<>>)
  BY <1>1, WithoutIs
<1>3. l \in SUBSET {"toggled", "removal", "late", "stuck"}
  BY <1>1
<1>4. CASE ~content
  BY <1>4 DEF T!FailToShow
<1>5. CASE content
  <2>1. h = [b EXCEPT !.removals = r, !.slips = l]
    BY <1>5 DEF T!FailToShow
  <2> HIDE DEF r, l, h
  <2>2. h \in TooltipT /\ h.open = b.open /\ h.shown = b.shown /\ h.removals = r /\ h.slips = l
        /\ h.popups = b.popups /\ h.popup = b.popup /\ h.removal = b.removal
    BY <1>1, <1>2, <1>3, <2>1
  <2> QED
    BY <1>1, <1>2, <2>2 DEF TooltipGoes, h, l
<1> QED
  BY <1>4, <1>5

\* hide() cancels the show() that waits, and asks for a removal or removes the tooltip.
LEMMA HideGoes ==
  ASSUME NEW b, TooltipGoes(b), NEW id \in 0 .. MaxEvents, options.fades \in BOOLEAN
  PROVE  /\ TooltipGoes(T!Hide(b, id)) /\ ~T!Hide(b, id).open /\ b.slips \subseteq T!Hide(b, id).slips
         /\ T!Hide(b, id).slips \subseteq b.slips \cup {"removal"}
         /\ "toggled" \notin b.slips => T!Hide(b, id).popups = <<>>
<1> USE WidgetsAssumption DEF TooltipT, WidgetsAssumption
<1> DEFINE p == T!Without(b.popups, b.popup)
           r == Append(b.removals, id)
           l == IF b.removals # <<>> THEN b.slips \cup {"removal"} ELSE b.slips
           h == T!Hide(b, id)
<1>1. /\ b \in TooltipT
      /\ "removal" \notin b.slips => b.removals = <<>> \/ (b.removals = <<b.removal>> /\ ~b.open)
      /\ "toggled" \notin b.slips => b.popups = <<>> \/ b.popups = <<b.popup>>
  BY DEF TooltipGoes
<1>2. p \in Seq(Nat) /\ ("toggled" \notin b.slips => p = <<>>)
  BY <1>1, WithoutIs
<1>3. r \in Seq(Nat) /\ (b.removals = <<>> => r = <<id>>) /\ r # <<>>
  <2>1. b.removals \in Seq(Nat) /\ id \in Nat
    BY <1>1
  <2> QED
    BY <2>1, AppendedIs
<1>4. l \in SUBSET {"toggled", "removal", "late", "stuck"} /\ b.slips \subseteq l
      /\ l \subseteq b.slips \cup {"removal"} /\ ("removal" \notin l => b.removals = <<>>)
  BY <1>1
<1>5. CASE options.fades
  <2>1. h = [b EXCEPT !.open = FALSE, !.popups = p, !.removals = r, !.removal = id, !.slips = l]
    BY <1>1, <1>5 DEF T!Hide
  <2> HIDE DEF p, r, l, h
  <2>2. h \in TooltipT /\ h.open = FALSE /\ h.popups = p /\ h.removals = r /\ h.removal = id /\ h.slips = l
    BY <1>1, <1>2, <1>3, <1>4, <2>1
  <2> QED
    BY <1>1, <1>2, <1>3, <1>4, <2>2 DEF TooltipGoes, h
<1>6. CASE ~options.fades
  <2>1. h = [b EXCEPT !.open = FALSE, !.popups = p, !.shown = FALSE]
    BY <1>1, <1>6 DEF T!Hide
  <2> HIDE DEF p, r, l, h
  <2>2. h \in TooltipT /\ h.open = FALSE /\ h.popups = p /\ h.shown = FALSE
        /\ h.removals = b.removals /\ h.removal = b.removal /\ h.slips = b.slips
    BY <1>1, <1>2, <2>1
  <2> QED
    BY <1>1, <1>2, <2>2 DEF TooltipGoes, h
<1> QED
  BY <1>5, <1>6

\* A delayed show() is the only one that waits, unless clicks asked for several.
LEMMA BindGoes ==
  ASSUME NEW b, TooltipGoes(b), NEW id \in 0 .. MaxEvents,
         "toggled" \notin b.slips => b.popups = <<>>
  PROVE  TooltipGoes(T!ShowTooltipBind(b, id)) /\ T!ShowTooltipBind(b, id).slips = b.slips
<1> USE WidgetsAssumption DEF TooltipT, WidgetsAssumption
<1> DEFINE p == Append(b.popups, id)
           h == T!ShowTooltipBind(b, id)
<1>1. CASE ~options.delay
  BY <1>1, ShowGoes DEF T!ShowTooltipBind
<1>2. CASE options.delay
  <2>1. h = [b EXCEPT !.popups = p, !.popup = id]
    BY <1>2 DEF T!ShowTooltipBind
  <2>2. b \in TooltipT
    BY DEF TooltipGoes
  <2>3. p \in Seq(Nat) /\ (b.popups = <<>> => p = <<id>>)
    <3>1. b.popups \in Seq(Nat) /\ id \in Nat
      BY <2>2
    <3> QED
      BY <3>1, AppendedIs
  <2> HIDE DEF p, h
  <2>4. h \in TooltipT /\ h.popups = p /\ h.popup = id /\ h.open = b.open /\ h.shown = b.shown
        /\ h.removals = b.removals /\ h.removal = b.removal /\ h.slips = b.slips
    BY <2>1, <2>2, <2>3
  <2> QED
    BY <2>3, <2>4 DEF TooltipGoes, h
<1> QED
  BY <1>1, <1>2

\* What is told of a tooltip as a record, told of the variables.
LEMMA TooltipBecomes ==
  ASSUME NEW b, TooltipGoes(b), T!Become(b)
  PROVE  TooltipGoes(T!Now)' /\ open' = b.open /\ slips' = b.slips /\ popups' = b.popups
<1>1. /\ open' = b.open /\ tooltipShown' = b.shown /\ popups' = b.popups
      /\ popup' = b.popup /\ removals' = b.removals /\ removal' = b.removal /\ slips' = b.slips
  BY DEF T!Become
<1>2. T!Now' = [open |-> open', shown |-> tooltipShown', popups |-> popups', popup |-> popup',
                removals |-> removals', removal |-> removal', slips |-> slips']
  BY DEF T!Now
<1>3. b \in TooltipT
  BY DEF TooltipGoes
<1>4. T!Now' \in TooltipT
  BY <1>1, <1>2, <1>3 DEF TooltipT
<1>5. TooltipGoes(T!Now')
  BY <1>1, <1>2, <1>3, <1>4 DEF TooltipGoes
<1> QED
  BY <1>1, <1>5 DEF TooltipGoes

\* Handlers that are bound, to none of a pair.
LEMMA BoundIs ==
  ASSUME NEW b \in [show : Nat, hide : Nat, toggle : Nat], b.show = 0, b.hide = 0, NEW t
  PROVE  /\ T!Bound(b, t) \in [show : Nat, hide : Nat, toggle : Nat]
         /\ T!Bound(b, t).show = T!Bound(b, t).hide
         /\ t # "click" => T!Bound(b, t).hide = 1 /\ T!Bound(b, t).toggle = b.toggle
<1>1. CASE t = "click"
  <2>1. T!Bound(b, t) = [b EXCEPT !.toggle = b.toggle + 1]
    BY <1>1 DEF T!Bound
  <2> QED
    BY <1>1, <2>1
<1>2. CASE t # "click"
  <2>1. T!Bound(b, t) = [b EXCEPT !.show = b.show + 1, !.hide = b.hide + 1]
    BY <1>2, Zenon DEF T!Bound
  <2> DEFINE h == [b EXCEPT !.show = b.show + 1, !.hide = b.hide + 1]
  <2>2. b.show + 1 = 1 /\ b.hide + 1 = 1 /\ b.toggle \in Nat /\ 1 \in Nat
    OBVIOUS
  <2>3. h.show = 1 /\ h.hide = 1 /\ h.toggle = b.toggle
    BY <2>2
  <2>4. h \in [show : Nat, hide : Nat, toggle : Nat]
    BY <2>2
  <2> HIDE DEF h
  <2> QED
    BY <1>2, <2>1, <2>3, <2>4 DEF h
<1> QED
  BY <1>1, <1>2

LEMMA TooltipInit == ASSUME T!TtInit PROVE TooltipInv
<1> USE WidgetsAssumption DEF WidgetsAssumption
<1>1. /\ options \in [delay : BOOLEAN, fades : BOOLEAN, body : BOOLEAN]
      /\ content \in BOOLEAN /\ trigger \in {"hover", "click"}
      /\ over = FALSE /\ open = FALSE /\ tooltipShown = FALSE
      /\ popups = <<>> /\ popup = 0 /\ removals = <<>> /\ removal = 0
      /\ events = 0 /\ gone = "no"
      /\ slips = IF trigger = "click" THEN {"toggled"} ELSE {}
  BY DEF T!TtInit
<1>2. /\ handled \in [show : Nat, hide : Nat, toggle : Nat] /\ handled.show = handled.hide
      /\ trigger # "click" => handled.hide = 1 /\ handled.toggle = 0
  <2> DEFINE none == [show |-> 0, hide |-> 0, toggle |-> 0]
  <2>1. handled = T!Bound(none, trigger)
    BY DEF T!TtInit
  <2>2. none \in [show : Nat, hide : Nat, toggle : Nat]
        /\ none.show = 0 /\ none.hide = 0 /\ none.toggle = 0
    OBVIOUS
  <2> HIDE DEF none
  <2> QED
    BY <2>1, <2>2, BoundIs
<1>3. slips \in SUBSET {"toggled", "removal", "late", "stuck"} /\ ("toggled" \notin slips => trigger # "click")
  BY <1>1
<1>4. 0 \in 0 .. MaxEvents /\ <<>> \in Seq(Nat)
  OBVIOUS
<1>5. T!Now \in TooltipT
  BY <1>1, <1>3, <1>4 DEF T!Now, TooltipT
<1>6. TooltipGoes(T!Now)
  BY <1>1, <1>5 DEF TooltipGoes, T!Now
<1>7. T!LeftIsClosed
  BY <1>1 DEF T!LeftIsClosed
<1> QED
  BY <1>1, <1>2, <1>3, <1>4, <1>6, <1>7 DEF TooltipInv

\* The handlers and options are kept, and the records tell the rest.
LEMMA TooltipKept ==
  ASSUME TooltipInv, UNCHANGED <<options, content, handled>>, events' \in 0 .. MaxEvents,
         over' \in BOOLEAN, gone' \in {"no", "alone", "within"}, NEW b, TooltipGoes(b), T!Become(b),
         "toggled" \in slips => "toggled" \in b.slips,
         gone' # "no" /\ "late" \notin b.slips => ~b.open,
         ~over' /\ gone' = "no" /\ "toggled" \notin b.slips => ~b.open /\ b.popups = <<>>
  PROVE  TooltipInv'
<1>1. TooltipGoes(T!Now)' /\ open' = b.open /\ slips' = b.slips /\ popups' = b.popups
  BY TooltipBecomes
<1>2. T!LeftIsClosed'
  BY <1>1 DEF T!LeftIsClosed
<1> QED
  BY <1>1, <1>2 DEF TooltipInv

LEMMA TooltipStep == ASSUME TooltipInv, T!TtNext PROVE TooltipInv'
<1> USE WidgetsAssumption DEF WidgetsAssumption
<1> DEFINE b0 == T!Now
<1>1. /\ TooltipGoes(b0)
      /\ content \in BOOLEAN /\ over \in BOOLEAN /\ gone \in {"no", "alone", "within"} /\ events \in 0 .. MaxEvents
      /\ options \in [delay : BOOLEAN, fades : BOOLEAN, body : BOOLEAN]
      /\ handled \in [show : Nat, hide : Nat, toggle : Nat] /\ handled.show = handled.hide
      /\ "toggled" \notin slips => handled.hide = 1 /\ handled.toggle = 0
      /\ gone # "no" /\ "late" \notin slips => ~open
      /\ ~over /\ gone = "no" /\ "toggled" \notin slips => ~open /\ popups = <<>>
  BY DEF TooltipInv, T!LeftIsClosed
<1>2. /\ b0.open = open /\ b0.shown = tooltipShown /\ b0.popups = popups /\ b0.popup = popup
      /\ b0.removals = removals /\ b0.removal = removal /\ b0.slips = slips
  BY DEF T!Now
<1>3. T!Event => events' \in 0 .. MaxEvents
  BY <1>1 DEF T!Event
<1>4. options.fades \in BOOLEAN /\ options.delay \in BOOLEAN /\ options.body \in BOOLEAN
  BY <1>1
<1>5. ASSUME T!Enter PROVE TooltipInv'
  <2> DEFINE b == IF handled.show = 0 THEN b0 ELSE T!ShowTooltipBind(b0, events')
  <2>1. T!Event /\ gone = "no" /\ ~over /\ over' = TRUE /\ T!Become(b) /\ gone' = gone
        /\ UNCHANGED <<options, content, handled>>
    BY <1>5 DEF T!Enter
  <2>2. TooltipGoes(b) /\ b.slips = slips
    BY <1>1, <1>2, <1>3, <2>1, BindGoes
  <2> HIDE DEF b, b0
  <2> QED
    BY <1>1, <1>3, <2>1, <2>2, TooltipKept
<1>6. ASSUME T!Leave PROVE TooltipInv'
  <2> DEFINE b == IF handled.hide = 0 THEN b0 ELSE T!Hide(b0, events')
  <2>1. T!Event /\ gone = "no" /\ over' = FALSE /\ T!Become(b) /\ gone' = gone
        /\ UNCHANGED <<options, content, handled>>
    BY <1>6 DEF T!Leave
  <2>2. TooltipGoes(b) /\ slips \subseteq b.slips
    BY <1>1, <1>2, <1>3, <1>4, <2>1, HideGoes
  <2>3. "toggled" \notin b.slips => ~b.open /\ b.popups = <<>>
    <3>1. "toggled" \notin slips => handled.hide = 1
      BY <1>1
    <3>2. handled.hide # 0 => b = T!Hide(b0, events')
      OBVIOUS
    <3>3. "toggled" \notin slips => T!Hide(b0, events').popups = <<>> /\ ~T!Hide(b0, events').open
      BY <1>1, <1>2, <1>3, <1>4, <2>1, HideGoes
    <3> HIDE DEF b
    <3> QED
      BY <2>2, <3>1, <3>2, <3>3
  <2> HIDE DEF b, b0
  <2> QED
    BY <1>1, <1>3, <2>1, <2>2, <2>3, TooltipKept
<1>7. ASSUME T!Click PROVE TooltipInv'
  <2> DEFINE one == T!Toggle(b0, events')
             b == IF handled.toggle = 1 THEN one ELSE T!Toggle(one, events')
  <2>1. T!Event /\ gone = "no" /\ over /\ over' = over /\ T!Become(b) /\ gone' = gone
        /\ UNCHANGED <<options, content, handled>>
    BY <1>7 DEF T!Click
  <2>2. "toggled" \in slips
    <3>1. handled.toggle > 0
      BY <1>7 DEF T!Click
    <3> QED
      BY <1>1, <3>1
  <2>3. ASSUME NEW c, TooltipGoes(c), "toggled" \in c.slips
        PROVE  TooltipGoes(T!Toggle(c, events')) /\ "toggled" \in T!Toggle(c, events').slips
    BY <1>3, <1>4, <2>1, <2>3, HideGoes, BindGoes DEF T!Toggle
  <2>4. TooltipGoes(one) /\ "toggled" \in one.slips
    BY <1>1, <1>2, <2>2, <2>3
  <2> HIDE DEF one
  <2>5. TooltipGoes(b) /\ "toggled" \in b.slips
    BY <2>3, <2>4
  <2> HIDE DEF b, b0
  <2> QED
    BY <1>1, <1>3, <2>1, <2>5, TooltipKept
<1>8. ASSUME T!PopupTimeout PROVE TooltipInv'
  <2> DEFINE b == [b0 EXCEPT !.popups = Tail(@)]
             r == IF gone = "no" THEN T!Show(b)
                  ELSE IF gone = "within" \/ options.body THEN [T!Show(b) EXCEPT !.slips = @ \cup {"late"}]
                  ELSE T!FailToShow(b)
  <2>1. popups # <<>> /\ T!Become(r) /\ over' = over /\ events' = events /\ gone' = gone
        /\ UNCHANGED <<options, content, handled>>
    BY <1>8 DEF T!PopupTimeout
  <2>2. b0 \in TooltipT /\ popups \in Seq(Nat)
    BY <1>1, <1>2 DEF TooltipGoes, TooltipT
  <2>3. Tail(popups) \in Seq(Nat) /\ \A x : popups = <<x>> => Tail(popups) = <<>>
    BY <2>1, <2>2, RestIs
  <2>4. b = [b0 EXCEPT !.popups = Tail(popups)]
    BY <1>2
  <2> HIDE DEF b, b0
  <2>5. /\ b \in TooltipT /\ b.open = open /\ b.shown = b0.shown /\ b.popups = Tail(popups)
        /\ b.popup = popup /\ b.removals = removals /\ b.removal = removal /\ b.slips = slips
    BY <1>2, <2>2, <2>3, <2>4 DEF TooltipT
  <2>6. TooltipGoes(b)
    BY <1>1, <1>2, <2>1, <2>3, <2>5 DEF TooltipGoes
  <2>7. TooltipGoes(T!Show(b)) /\ T!Show(b).slips = slips
    BY <2>5, <2>6, ShowGoes
  <2>8. CASE gone = "no"
    <3>1. r = T!Show(b)
      BY <2>8
    <3>2. over \/ "toggled" \in slips
      BY <1>1, <2>1, <2>8
    <3> HIDE DEF r
    <3> QED
      BY <1>1, <2>1, <2>7, <2>8, <3>1, <3>2, TooltipKept
  <2>9. CASE gone # "no" /\ (gone = "within" \/ options.body)
    <3> DEFINE c == T!Show(b)
    <3>1. r = [c EXCEPT !.slips = slips \cup {"late"}]
      BY <2>7, <2>9
    <3>2. c \in TooltipT /\ slips \in SUBSET {"toggled", "removal", "late", "stuck"}
      BY <2>5, <2>7 DEF TooltipGoes, TooltipT
    <3>3. TooltipGoes(c) /\ c.slips = slips
      BY <2>7
    <3> HIDE DEF c, r
    <3>4. /\ r \in TooltipT /\ r.open = c.open /\ r.shown = c.shown /\ r.popups = c.popups
          /\ r.popup = c.popup /\ r.removals = c.removals /\ r.removal = c.removal
          /\ r.slips = slips \cup {"late"}
      BY <3>1, <3>2 DEF TooltipT
    <3>5. TooltipGoes(r)
      BY <3>3, <3>4 DEF TooltipGoes
    <3> QED
      BY <1>1, <2>1, <2>9, <3>4, <3>5, TooltipKept
  <2>10. CASE gone # "no" /\ ~(gone = "within" \/ options.body)
    <3>1. r = T!FailToShow(b)
      BY <2>10
    <3>2. /\ TooltipGoes(T!FailToShow(b)) /\ T!FailToShow(b).open = open
          /\ slips \subseteq T!FailToShow(b).slips /\ T!FailToShow(b).slips \subseteq slips \cup {"stuck"}
      BY <1>1, <2>5, <2>6, FailToShowGoes
    <3> HIDE DEF r
    <3>3. TooltipGoes(r) /\ r.open = open /\ ("toggled" \in slips => "toggled" \in r.slips)
          /\ ("late" \notin r.slips => "late" \notin slips)
      BY <3>1, <3>2
    <3>4. gone' # "no" /\ ("late" \notin r.slips => ~r.open)
      BY <1>1, <2>1, <2>10, <3>3
    <3> QED
      BY <1>1, <2>1, <3>3, <3>4, TooltipKept
  <2> QED
    BY <1>1, <1>4, <2>8, <2>9, <2>10
<1>9. ASSUME T!RemovalTimeout PROVE TooltipInv'
  <2> DEFINE b == [b0 EXCEPT !.removals = Tail(@), !.shown = FALSE]
  <2>1. removals # <<>> /\ T!Become(b) /\ over' = over /\ events' = events /\ gone' = gone
        /\ UNCHANGED <<options, content, handled>>
    BY <1>9 DEF T!RemovalTimeout
  <2>2. b0 \in TooltipT /\ removals \in Seq(Nat)
    BY <1>1, <1>2 DEF TooltipGoes, TooltipT
  <2>3. Tail(removals) \in Seq(Nat) /\ \A x : removals = <<x>> => Tail(removals) = <<>>
    BY <2>1, <2>2, RestIs
  <2>4. b = [b0 EXCEPT !.removals = Tail(removals), !.shown = FALSE]
    BY <1>2
  <2> HIDE DEF b, b0
  <2>5. /\ b \in TooltipT /\ b.open = open /\ b.shown = FALSE /\ b.popups = popups
        /\ b.popup = popup /\ b.removals = Tail(removals) /\ b.removal = removal /\ b.slips = slips
    BY <1>2, <2>2, <2>3, <2>4 DEF TooltipT
  <2>6. TooltipGoes(b)
    BY <1>1, <1>2, <2>1, <2>3, <2>5 DEF TooltipGoes
  <2> QED
    BY <1>1, <2>1, <2>5, <2>6, TooltipKept
<1>10. ASSUME T!LocationChangeSuccess PROVE TooltipInv'
  <2> DEFINE b == T!Hide(b0, events')
  <2>1. T!Event /\ gone = "no" /\ T!Become(b) /\ gone' = gone /\ over' = over
        /\ UNCHANGED <<options, content, handled>>
    BY <1>10 DEF T!LocationChangeSuccess
  <2>2. TooltipGoes(b) /\ slips \subseteq b.slips /\ ~b.open
        /\ ("toggled" \notin slips => b.popups = <<>>)
    BY <1>1, <1>2, <1>3, <1>4, <2>1, HideGoes
  <2> HIDE DEF b, b0
  <2> QED
    BY <1>1, <1>3, <2>1, <2>2, TooltipKept
<1>11. ASSUME T!Destroy PROVE TooltipInv'
  <2> DEFINE b == IF open THEN T!Hide(b0, events') ELSE [b0 EXCEPT !.shown = FALSE]
  <2>1. T!Event /\ T!Become(b) /\ gone' \in {"alone", "within"} /\ over' = over
        /\ UNCHANGED <<options, content, handled>>
    BY <1>11 DEF T!Destroy
  <2>2. TooltipGoes(b) /\ slips \subseteq b.slips /\ ~b.open
    <3>1. CASE open
      BY <1>1, <1>2, <1>3, <1>4, <2>1, <3>1, HideGoes
    <3>2. CASE ~open
      <4>1. b = [b0 EXCEPT !.shown = FALSE] /\ b0 \in TooltipT
        BY <1>1, <3>2 DEF TooltipGoes
      <4> HIDE DEF b, b0
      <4>2. /\ b \in TooltipT /\ b.open = open /\ b.shown = FALSE /\ b.popups = popups
            /\ b.popup = popup /\ b.removals = removals /\ b.removal = removal /\ b.slips = slips
        BY <1>2, <4>1 DEF TooltipT
      <4> QED
        BY <1>1, <1>2, <3>2, <4>2 DEF TooltipGoes
    <3> QED
      BY <3>1, <3>2
  <2> HIDE DEF b, b0
  <2> QED
    BY <1>1, <1>3, <2>1, <2>2, TooltipKept
<1>12. ASSUME T!SetTrigger PROVE TooltipInv'
  <2> DEFINE b == [b0 EXCEPT !.slips = slips \cup {"toggled"}]
  <2>1. /\ T!Event /\ gone' = gone /\ over' = over /\ options' = options /\ content' = content
        /\ slips' = slips \cup {"toggled"} /\ open' = open /\ tooltipShown' = tooltipShown
        /\ popups' = popups /\ popup' = popup /\ removals' = removals /\ removal' = removal
    BY <1>12 DEF T!SetTrigger
  <2>2. handled' \in [show : Nat, hide : Nat, toggle : Nat] /\ handled'.show = handled'.hide
    <3> DEFINE kept == [handled EXCEPT !.show = 0, !.hide = 0]
    <3>1. kept \in [show : Nat, hide : Nat, toggle : Nat] /\ kept.show = 0 /\ kept.hide = 0
      BY <1>1
    <3>2. handled' = T!Bound(kept, trigger')
      BY <1>12 DEF T!SetTrigger
    <3> HIDE DEF kept
    <3> QED
      BY <3>1, <3>2, BoundIs
  <2>3. b0 \in TooltipT /\ slips \in SUBSET {"toggled", "removal", "late", "stuck"}
    BY <1>1, <1>2 DEF TooltipGoes, TooltipT
  <2>4. /\ b \in TooltipT /\ b.open = open /\ b.shown = tooltipShown /\ b.popups = popups
        /\ b.popup = popup /\ b.removals = removals /\ b.removal = removal
        /\ b.slips = slips \cup {"toggled"}
    <3> HIDE DEF b0
    <3> QED
      BY <1>2, <2>3 DEF TooltipT
  <2> HIDE DEF b, b0
  <2>5. TooltipGoes(b)
    BY <1>1, <1>2, <2>4 DEF TooltipGoes
  <2>6. T!Become(b)
    BY <2>1, <2>4 DEF T!Become
  <2>7. TooltipGoes(T!Now)'
    BY <2>5, <2>6, TooltipBecomes
  <2> QED
    BY <1>1, <1>3, <2>1, <2>2, <2>7 DEF TooltipInv, T!LeftIsClosed
<1>13. ASSUME T!SetContent \/ T!SetDelay PROVE TooltipInv'
  <2>1. /\ T!Event /\ gone' = gone /\ over' = over /\ handled' = handled
        /\ slips' = slips /\ open' = open /\ tooltipShown' = tooltipShown
        /\ popups' = popups /\ popup' = popup /\ removals' = removals /\ removal' = removal
    BY <1>13 DEF T!SetContent, T!SetDelay
  <2>2. content' \in BOOLEAN /\ options' \in [delay : BOOLEAN, fades : BOOLEAN, body : BOOLEAN]
    BY <1>1, <1>13 DEF T!SetContent, T!SetDelay
  <2>3. b0' = b0
    BY <2>1 DEF T!Now
  <2>4. TooltipGoes(b0)'
    BY <1>1, <2>3 DEF TooltipGoes
  <2> QED
    BY <1>1, <1>3, <2>1, <2>2, <2>4 DEF TooltipInv, T!LeftIsClosed
<1> QED
  BY <1>5, <1>6, <1>7, <1>8, <1>9, <1>10, <1>11, <1>12, <1>13 DEF T!TtNext

LEMMA TooltipGives ==
  ASSUME TooltipInv
  PROVE  T!TtTypeOK /\ T!OpenIsShown /\ T!ClosedGoes /\ T!LeftIsClosed
<1>1. /\ open \in BOOLEAN /\ tooltipShown \in BOOLEAN /\ slips \in SUBSET {"toggled", "removal", "late", "stuck"}
      /\ popup \in 0 .. MaxEvents /\ removal \in 0 .. MaxEvents
      /\ open /\ "removal" \notin slips => tooltipShown
      /\ ~open /\ removals = <<>> /\ "stuck" \notin slips => ~tooltipShown
  BY DEF TooltipInv, TooltipGoes, T!Now, TooltipT
<1> QED
  BY <1>1 DEF TooltipInv, T!TtTypeOK, T!OpenIsShown, T!ClosedGoes

-----------------------------------------------------------------------------
(* The timepicker *)

FieldsT == [hours : Nat, minutes : Nat, meridian : {"AM", "PM"}]

\* Hours and minutes of a day, and how they are put together.
ClockT == 0 .. 1439
HourT == 0 .. 23
MinuteT == 0 .. 59

LEMMA MinuteOfDay ==
  /\ \A t \in ClockT : t \in Int /\ t \div 60 \in HourT /\ t % 60 \in MinuteT
  /\ \A h \in HourT, m \in MinuteT : 60 * h + m \in ClockT
  /\ \A t \in Int : t % P!Day \in ClockT
  /\ ClockT = 0 .. P!Day - 1 /\ ClockT = 0 .. 24 * 60 - 1
<1>1. ASSUME NEW t \in 0 .. 1439 PROVE t \in Int /\ t \div 60 \in 0 .. 23 /\ t % 60 \in 0 .. 59
  OBVIOUS
<1>2. ASSUME NEW h \in 0 .. 23, NEW m \in 0 .. 59 PROVE 60 * h + m \in 0 .. 1439
  OBVIOUS
<1>3. ASSUME NEW t \in Int PROVE t % 1440 \in 0 .. 1439
  OBVIOUS
<1>4. P!Day = 1440 /\ 24 * 60 - 1 = 1439 /\ P!Day - 1 = 1439
  BY DEF P!Day
<1>5. ClockT = 0 .. P!Day - 1 /\ ClockT = 0 .. 24 * 60 - 1
  BY <1>4 DEF ClockT
<1>6. \A t \in Int : t % P!Day \in ClockT
  <2>1. P!Day = 1440
    BY DEF P!Day
  <2> QED
    BY <1>3, <2>1 DEF ClockT
<1>7. \A t \in ClockT : t \in Int /\ t \div 60 \in HourT /\ t % 60 \in MinuteT
  BY <1>1, Zenon DEF ClockT, HourT, MinuteT
<1>8. \A h \in HourT, m \in MinuteT : 60 * h + m \in ClockT
  BY <1>2, Zenon DEF ClockT, HourT, MinuteT
<1> QED
  BY <1>5, <1>6, <1>7, <1>8

\* Who reads the fields as they are shown finds the time.
LEMMA ShownIsRead ==
  ASSUME NEW s \in MomentT, NEW meridian \in BOOLEAN
  PROVE  /\ P!Shown(s, meridian) \in FieldsT
         /\ P!HoursOf(P!Shown(s, meridian), meridian) = s.time \div 60
         /\ P!MinutesOf(P!Shown(s, meridian)) = s.time % 60
<1> DEFINE h == s.time \div 60
           m == s.time % 60
           half == IF h < 12 THEN "AM" ELSE "PM"
           twelve == IF ~meridian THEN h ELSE IF h \in {0, 12} THEN 12 ELSE h % 12
           f == P!Shown(s, meridian)
<1>1. h \in 0 .. 23 /\ m \in 0 .. 59
  <2>1. s.time \in ClockT
    BY MinuteOfDay DEF MomentT
  <2>2. h \in HourT /\ m \in MinuteT
    BY <2>1, MinuteOfDay, Zenon
  <2> QED
    BY <2>2 DEF HourT, MinuteT
<1>2. f = [hours |-> twelve, minutes |-> m, meridian |-> half]
  BY DEF P!Shown
<1>3. half \in {"AM", "PM"} /\ (half = "PM" <=> h >= 12)
  BY <1>1
<1>4. /\ twelve \in Nat
      /\ meridian => twelve \in 1 .. 12 /\ (twelve % 12) + (IF half = "PM" THEN 12 ELSE 0) = h
      /\ ~meridian => twelve = h
  <2>1. CASE h < 12
    BY <1>1, <2>1
  <2>2. CASE h >= 12
    BY <1>1, <2>2
  <2> QED
    BY <1>1, <2>1, <2>2
<1> HIDE DEF h, m, half, twelve, f
<1>5. f \in FieldsT /\ f.hours = twelve /\ f.minutes = m /\ f.meridian = half
  BY <1>1, <1>2, <1>3, <1>4 DEF FieldsT
<1>6. P!HoursOf(f, meridian) = h
  BY <1>1, <1>4, <1>5 DEF P!HoursOf
<1>7. P!MinutesOf(f) = m
  BY <1>1, <1>5 DEF P!MinutesOf
<1> QED
  BY <1>5, <1>6, <1>7 DEF f, h, m

\* Fields that are read at all are a time of the day.
LEMMA ReadIsTime ==
  ASSUME NEW f \in FieldsT, NEW meridian \in BOOLEAN
  PROVE  /\ P!HoursOf(f, meridian) # -1 => P!HoursOf(f, meridian) \in HourT
         /\ P!MinutesOf(f) # -1 => P!MinutesOf(f) \in MinuteT /\ P!MinutesOf(f) = f.minutes
<1>1. f.hours \in Nat /\ f.meridian \in {"AM", "PM"}
  BY DEF FieldsT
<1>2. P!HoursOf(f, meridian) # -1 => P!HoursOf(f, meridian) \in HourT
  BY <1>1 DEF P!HoursOf, HourT
<1>3. P!MinutesOf(f) # -1 => P!MinutesOf(f) \in MinuteT /\ P!MinutesOf(f) = f.minutes
  BY DEF P!MinutesOf, MinuteT
<1> QED
  BY <1>2, <1>3

\* A time that is taken is valid and shown.
LEMMA TimeTaken ==
  ASSUME NEW s \in MomentT, selected' = s, timeModel' \in {P!NoDate, s}, timeValid' = TRUE,
         marks' = {}, showMeridian' \in BOOLEAN, fields' = P!Shown(s, showMeridian')
  PROVE  TimesInv'
<1> DEFINE meridian == showMeridian'
<1>1. /\ fields' \in FieldsT
      /\ P!HoursOf(fields', meridian) = s.time \div 60 /\ P!MinutesOf(fields') = s.time % 60
  BY ShownIsRead
<1>2. s.date \in Nat /\ s.time \in 0 .. P!Day - 1
  BY DEF MomentT
<1>3. P!TpTypeOK'
  BY <1>2 DEF P!TpTypeOK
<1>4. P!ShownAsItIs'
  BY <1>1 DEF P!ShownAsItIs
<1> QED
  BY <1>1, <1>3, <1>4 DEF TimesInv, FieldsT

LEMMA MomentIs ==
  ASSUME NEW d \in Nat, NEW t \in ClockT
  PROVE  P!Moment(d, t) \in MomentT /\ P!Moment(d, t).date = d /\ P!Moment(d, t).time = t
BY MinuteOfDay DEF P!Moment, MomentT

LEMMA MomentsAreDates ==
  /\ P!NoDate # P!NotADate /\ P!NotADate \notin MomentT
BY DEF P!NoDate, P!NotADate, MomentT

LEMMA TimesInit == ASSUME P!TpInit PROVE TimesInv
<1>1. PICK d \in Days, t \in Minutes : selected = P!Moment(d, t)
  BY DEF P!TpInit
<1>2. selected \in MomentT
  <2>1. d \in Nat /\ t \in ClockT
    BY WidgetsAssumption, MinuteOfDay, Zenon DEF WidgetsAssumption
  <2> QED
    BY <1>1, <2>1, MomentIs, Zenon
<1>3. /\ timeModel = P!NoDate /\ timeValid = TRUE /\ showMeridian \in BOOLEAN /\ marks = {}
      /\ fields = P!Shown(selected, showMeridian)
  BY DEF P!TpInit
<1>4. /\ fields \in FieldsT
      /\ P!HoursOf(fields, showMeridian) = selected.time \div 60
      /\ P!MinutesOf(fields) = selected.time % 60
  BY <1>2, <1>3, ShownIsRead
<1>5. P!TpTypeOK
  BY <1>2, <1>3 DEF P!TpTypeOK, MomentT
<1>6. P!ShownAsItIs
  BY <1>3, <1>4 DEF P!ShownAsItIs
<1> QED
  BY <1>2, <1>3, <1>4, <1>5, <1>6 DEF TimesInv, FieldsT

LEMMA TimesStep == ASSUME TimesInv, P!TpNext PROVE TimesInv'
<1>1. /\ selected \in MomentT /\ showMeridian \in BOOLEAN /\ fields \in FieldsT
      /\ timeValid \in BOOLEAN /\ marks \subseteq {"hours", "minutes"}
      /\ timeValid => /\ P!HoursOf(fields, showMeridian) = selected.time \div 60
                      /\ P!MinutesOf(fields) = selected.time % 60
                      /\ timeModel \in {P!NoDate, selected}
      /\ ~timeValid => timeModel = P!NotADate \/ (timeModel = P!NoDate /\ marks # {})
  BY DEF TimesInv, P!TpTypeOK, P!ShownAsItIs, FieldsT
<1>2. /\ selected.date \in Nat /\ selected.time \in ClockT /\ selected.time \in Int
      /\ selected.time % 60 \in MinuteT /\ selected.time \div 60 \in HourT
  <2>1. selected.date \in Nat /\ selected.time \in ClockT
    BY <1>1, MinuteOfDay DEF MomentT
  <2> QED
    BY <2>1, MinuteOfDay, Zenon
<1>3. ASSUME NEW m \in MomentT \cup {P!NoDate}, P!Render(m) PROVE TimesInv'
  <2> DEFINE s == IF m = P!NoDate THEN selected ELSE m
  <2>1. s \in MomentT
    BY <1>1
  <2>2. /\ selected' = s /\ timeModel' = m /\ timeValid' = TRUE /\ marks' = {}
        /\ showMeridian' = showMeridian /\ fields' = P!Shown(selected', showMeridian)
    BY <1>3, MomentsAreDates DEF P!Render
  <2>3. timeModel' \in {P!NoDate, s}
    BY <2>2
  <2> HIDE DEF s
  <2> QED
    BY <1>1, <2>1, <2>2, <2>3, TimeTaken
<1>13. ASSUME P!Render(P!NotADate) PROVE TimesInv'
  <2>1. /\ timeModel' = P!NotADate /\ selected' = selected /\ timeValid' = FALSE
        /\ UNCHANGED <<marks, fields, showMeridian>>
    BY <1>13 DEF P!Render
  <2>2. P!TpTypeOK'
    BY <1>1, <2>1 DEF P!TpTypeOK, MomentT
  <2>3. P!ShownAsItIs'
    BY <2>1 DEF P!ShownAsItIs
  <2> QED
    BY <1>1, <2>1, <2>2, <2>3 DEF TimesInv, FieldsT
<1>4. ASSUME NEW s \in MomentT, NEW meridian \in BOOLEAN, P!Refresh(s, meridian),
             showMeridian' = meridian
      PROVE  TimesInv'
  BY <1>4, TimeTaken DEF P!Refresh
<1>5. ASSUME NEW f \in FieldsT, NEW field \in {"hours", "minutes"}, P!Invalidate(field), fields' = f,
             showMeridian' = showMeridian
      PROVE  TimesInv'
  <2>1. /\ timeModel' = P!NoDate /\ timeValid' = FALSE /\ marks' = marks \cup {field}
        /\ selected' = selected
    BY <1>5 DEF P!Invalidate
  <2>2. P!TpTypeOK'
    BY <1>1, <2>1 DEF P!TpTypeOK, MomentT
  <2>3. P!ShownAsItIs'
    BY <2>1 DEF P!ShownAsItIs
  <2> QED
    BY <1>1, <1>5, <2>1, <2>2, <2>3 DEF TimesInv, FieldsT
<1>6. ASSUME NEW h \in HoursTyped, P!TypeHours(h) PROVE TimesInv'
  <2> DEFINE f == [fields EXCEPT !.hours = h]
             hours == P!HoursOf(f, showMeridian)
             s == P!Moment(selected.date, 60 * hours + (selected.time % 60))
  <2>1. f \in FieldsT
    <3>1. h \in Nat
      BY WidgetsAssumption DEF WidgetsAssumption
    <3> QED
      BY <1>1, <3>1 DEF FieldsT
  <2>2. showMeridian' = showMeridian
        /\ IF hours # -1 THEN P!Refresh(s, showMeridian) ELSE P!Invalidate("hours") /\ fields' = f
    BY <1>6 DEF P!TypeHours
  <2>3. hours # -1 => s \in MomentT
    <3>1. hours # -1 => hours \in HourT
      BY <1>1, <2>1, ReadIsTime
    <3> HIDE DEF hours
    <3>2. hours # -1 => 60 * hours + (selected.time % 60) \in ClockT
      BY <1>2, <3>1, MinuteOfDay, Zenon
    <3> QED
      BY <1>2, <3>2, MomentIs, Zenon DEF s
  <2> HIDE DEF f, hours, s
  <2> QED
    BY <1>1, <1>4, <1>5, <2>1, <2>2, <2>3
<1>7. ASSUME NEW m \in MinutesTyped, P!TypeMinutes(m) PROVE TimesInv'
  <2> DEFINE f == [fields EXCEPT !.minutes = m]
             s == P!Moment(selected.date, 60 * (selected.time \div 60) + m)
  <2>1. f \in FieldsT /\ f.minutes = m
    <3>1. m \in Nat
      BY WidgetsAssumption DEF WidgetsAssumption
    <3> QED
      BY <1>1, <3>1 DEF FieldsT
  <2>2. showMeridian' = showMeridian
        /\ IF P!MinutesOf(f) # -1 THEN P!Refresh(s, showMeridian)
           ELSE P!Invalidate("minutes") /\ fields' = f
    BY <1>7 DEF P!TypeMinutes
  <2>3. P!MinutesOf(f) # -1 => s \in MomentT
    <3>1. P!MinutesOf(f) # -1 => m \in MinuteT
      <4> HIDE DEF f
      <4> QED
        BY <2>1, ReadIsTime
    <3>2. P!MinutesOf(f) # -1 => 60 * (selected.time \div 60) + m \in ClockT
      BY <1>2, <3>1, MinuteOfDay, Zenon
    <3> QED
      BY <1>2, <3>2, MomentIs, Zenon DEF s
  <2> HIDE DEF f, s
  <2> QED
    BY <1>1, <1>4, <1>5, <2>1, <2>2, <2>3
<1>8. ASSUME NEW by \in Int, P!AddMinutes(by) PROVE TimesInv'
  <2>0. selected.time \in Int
    BY <1>2, Zenon
  <2>1. (selected.time + by) % P!Day \in ClockT
    <3>1. selected.time + by \in Int
      BY <2>0
    <3> QED
      BY <3>1, MinuteOfDay, Zenon
  <2>2. P!Moved(by) \in MomentT
    BY <1>2, <2>1, MomentIs, Zenon DEF P!Moved
  <2> QED
    BY <1>1, <1>4, <1>8, <2>2 DEF P!AddMinutes
<1>9. ASSUME P!SetShowMeridian PROVE TimesInv'
  <2> DEFINE meridian == ~showMeridian
             hours == P!HoursOf(fields, meridian)
             s == P!Moment(selected.date, 60 * hours + (selected.time % 60))
  <2>1. showMeridian' = meridian /\ meridian \in BOOLEAN
    BY <1>9 DEF P!SetShowMeridian
  <2>2. CASE timeValid
    <3>1. fields' = P!Shown(selected, meridian) /\ UNCHANGED <<selected, timeModel, timeValid, marks>>
      BY <1>9, <2>2 DEF P!SetShowMeridian
    <3>2. /\ fields' \in FieldsT
          /\ P!HoursOf(fields', meridian) = selected.time \div 60
          /\ P!MinutesOf(fields') = selected.time % 60
      BY <1>1, <2>1, <3>1, ShownIsRead
    <3>3. P!TpTypeOK'
      BY <1>1, <3>1 DEF P!TpTypeOK, MomentT
    <3>4. P!ShownAsItIs'
      BY <1>1, <2>1, <2>2, <3>1, <3>2 DEF P!ShownAsItIs
    <3> QED
      BY <1>1, <2>1, <3>1, <3>2, <3>3, <3>4 DEF TimesInv, FieldsT
  <2>3. CASE ~timeValid /\ hours # -1 /\ P!MinutesOf(fields) # -1
    <3>1. P!Refresh(s, meridian)
      BY <1>9, <2>3 DEF P!SetShowMeridian
    <3>2. hours \in HourT
      BY <1>1, <2>1, <2>3, ReadIsTime
    <3>3. s \in MomentT
      <4> HIDE DEF hours
      <4>1. 60 * hours + (selected.time % 60) \in ClockT
        BY <1>2, <3>2, MinuteOfDay, Zenon
      <4> QED
        BY <1>2, <4>1, MomentIs, Zenon DEF s
    <3> HIDE DEF s
    <3> QED
      BY <1>4, <2>1, <3>1, <3>3
  <2>4. CASE ~timeValid /\ ~(hours # -1 /\ P!MinutesOf(fields) # -1)
    <3>1. UNCHANGED <<selected, timeModel, timeValid, fields, marks>>
      BY <1>9, <2>4 DEF P!SetShowMeridian
    <3>2. P!TpTypeOK'
      BY <1>1, <3>1 DEF P!TpTypeOK, MomentT
    <3>3. P!ShownAsItIs'
      BY <1>1, <2>4, <3>1 DEF P!ShownAsItIs
    <3> QED
      BY <1>1, <2>1, <3>1, <3>2, <3>3 DEF TimesInv, FieldsT
  <2> QED
    BY <1>1, <2>2, <2>3, <2>4
<1>10. \A d \in Days, t \in Minutes : P!Moment(d, t) \in MomentT
  <2> SUFFICES ASSUME NEW d \in Days, NEW t \in Minutes PROVE P!Moment(d, t) \in MomentT
    OBVIOUS
  <2>1. d \in Nat /\ t \in ClockT
    BY WidgetsAssumption, MinuteOfDay, Zenon DEF WidgetsAssumption
  <2> QED
    BY <2>1, MomentIs, Zenon
<1>11. 60 * HourStep \in Int /\ -60 * HourStep \in Int /\ MinuteStep \in Int /\ -MinuteStep \in Int
       /\ 12 * 60 \in Int /\ -12 * 60 \in Int
  BY WidgetsAssumption DEF WidgetsAssumption
<1>12. P!Press => TimesInv'
  BY <1>8, <1>11 DEF P!Press
<1> QED
  BY <1>3, <1>6, <1>7, <1>9, <1>10, <1>12, <1>13 DEF P!TpNext

\* Hours, minutes and arrows leave the date.
LEMMA DateStays ==
  ASSUME P!TpNext, selected'.date # selected.date
  PROVE  \E d \in Days, t \in Minutes : P!Render(P!Moment(d, t))
<1>1. \A d, t : P!Moment(d, t).date = d
  BY DEF P!Moment
<1>2. ~P!Render(P!NoDate) /\ ~P!Render(P!NotADate)
  BY DEF P!Render
<1>3. \A h \in HoursTyped : ~P!TypeHours(h)
  BY <1>1 DEF P!TypeHours, P!Refresh, P!Invalidate
<1>4. \A m \in MinutesTyped : ~P!TypeMinutes(m)
  BY <1>1 DEF P!TypeMinutes, P!Refresh, P!Invalidate
<1>5. \A by : ~P!AddMinutes(by)
  BY <1>1 DEF P!AddMinutes, P!Moved, P!Refresh
<1>6. ~P!SetShowMeridian
  BY <1>1 DEF P!SetShowMeridian, P!Refresh
<1> QED
  BY <1>2, <1>3, <1>4, <1>5, <1>6 DEF P!TpNext, P!Press

-----------------------------------------------------------------------------
(* The typeahead *)

LEMMA FoundAreItems ==
  /\ \A t \in Typed : Found[t] \in Seq(Items)
  /\ A!Texts = Typed \cup Items
<1>1. ASSUME NEW t \in Typed PROVE Found[t] \in Seq(Items)
  <2>1. Found[t] = CASE t = "a" -> <<"ab", "ac">> [] t = "ab" -> <<"ab">> [] OTHER -> <<>>
    BY DEF Found
  <2>2. <<"ab", "ac">> \in Seq(Items) /\ <<"ab">> \in Seq(Items) /\ <<>> \in Seq(Items)
    BY DEF Items
  <2> QED
    BY <2>1, <2>2
<1> QED
  BY <1>1 DEF A!Texts

\* A list without one of its members has all the others.
LEMMA AllButKeeps ==
  ASSUME requests \in Seq(Typed), NEW i \in DOMAIN requests
  PROVE  /\ A!AllBut(i) \in Seq(Typed)
         /\ \A j \in DOMAIN requests :
              requests[j] # requests[i] => \E k \in DOMAIN A!AllBut(i) : A!AllBut(i)[k] = requests[j]
<1>1. A!AllBut(i) = Spliced(requests, i)
  BY DEF A!AllBut, Spliced
<1> DEFINE r == Spliced(requests, i)
<1>2. /\ r \in Seq(Typed) /\ Len(r) = Len(requests) - 1 /\ DOMAIN r = 1 .. Len(requests) - 1
      /\ \A j \in 1 .. Len(requests) - 1 : r[j] = IF j < i THEN requests[j] ELSE requests[j + 1]
  BY SplicedIs
<1> HIDE DEF r
<1>3. ASSUME NEW j \in DOMAIN requests, requests[j] # requests[i]
      PROVE  \E k \in DOMAIN r : r[k] = requests[j]
  <2>1. Len(requests) \in Nat /\ DOMAIN requests = 1 .. Len(requests) /\ j # i
    BY <1>3
  <2>2. CASE j < i
    BY <1>2, <2>1, <2>2
  <2>3. CASE j > i
    <3>1. j - 1 \in DOMAIN r /\ r[j - 1] = requests[j]
      BY <1>2, <2>1, <2>3
    <3> QED
      BY <3>1
  <2> QED
    BY <2>1, <2>2, <2>3
<1> QED
  BY <1>1, <1>2, <1>3 DEF r

LEMMA TypeaheadInit == ASSUME A!TaInit PROVE TypeaheadInv
<1>1. /\ rests \in BOOLEAN /\ isEditable \in BOOLEAN
      /\ view = A!None /\ picked = A!None /\ barred = FALSE
      /\ matches = <<>> /\ activeMatch = -1 /\ query = A!None
      /\ waiting = <<>> /\ requests = <<>> /\ loading = FALSE
      /\ typed = 0 /\ inputGone = FALSE /\ changed = FALSE /\ given = "page"
  BY DEF A!TaInit
<1>2. A!TaTypeOK
  <2>1. 0 \in 0 .. MaxTyped /\ -1 \in Int
    BY WidgetsAssumption DEF WidgetsAssumption
  <2>2. <<>> \in Seq(Items) /\ <<>> \in Seq(Typed)
    OBVIOUS
  <2> QED
    BY <1>1, <2>1, <2>2, Zenon DEF A!TaTypeOK
<1>3. A!MatchesOfInput /\ A!ActiveIsMatch /\ A!LoadingEnds /\ A!OnlyItems
  BY <1>1 DEF A!MatchesOfInput, A!ActiveIsMatch, A!LoadingEnds, A!OnlyItems
<1> QED
  BY <1>1, <1>2, <1>3 DEF TypeaheadInv

\* What the invariant says, and what of it a step may disturb.
LEMMA TypeaheadStep == ASSUME TypeaheadInv, A!TaNext PROVE TypeaheadInv'
<1> DEFINE T0 == A!Texts \cup {A!None}
<1>1. /\ rests \in BOOLEAN /\ isEditable \in BOOLEAN /\ barred \in BOOLEAN
      /\ view \in T0 /\ picked \in T0 /\ query \in T0
      /\ matches \in Seq(Items) /\ activeMatch \in Int
      /\ waiting \in Seq(Typed) /\ requests \in Seq(Typed)
      /\ loading \in BOOLEAN /\ typed \in 0 .. MaxTyped /\ inputGone \in BOOLEAN
      /\ changed \in BOOLEAN /\ given \in {"user", "choice", "page"}
  BY DEF TypeaheadInv, A!TaTypeOK
<1>2. matches # <<>> /\ given # "page" => query = view /\ matches = Found[view]
  BY DEF TypeaheadInv, A!MatchesOfInput
<1>3. IF matches = <<>> THEN activeMatch = -1 ELSE activeMatch \in 0 .. Len(matches) - 1
  BY DEF TypeaheadInv, A!ActiveIsMatch
<1>4. /\ loading /\ ~changed => \E i \in DOMAIN requests : requests[i] = view
      /\ loading /\ requests = <<>> => changed
      /\ Len(waiting) <= 1
  BY DEF TypeaheadInv, A!LoadingEnds
<1>5. /\ ~isEditable /\ given = "user" => barred /\ picked = A!None
      /\ given = "choice" => ~barred /\ picked \in Items /\ view = picked
  BY DEF TypeaheadInv, A!OnlyItems
<1>6. Typed \subseteq T0 /\ Items \subseteq T0 /\ A!None \in T0 /\ -1 \in Int
  BY FoundAreItems
<1>7. ASSUME /\ rests' \in BOOLEAN /\ isEditable' \in BOOLEAN /\ barred' \in BOOLEAN
             /\ view' \in T0 /\ picked' \in T0 /\ query' \in T0
             /\ matches' \in Seq(Items) /\ activeMatch' \in Int
             /\ waiting' \in Seq(Typed) /\ requests' \in Seq(Typed)
             /\ loading' \in BOOLEAN /\ typed' \in 0 .. MaxTyped /\ inputGone' \in BOOLEAN
             /\ changed' \in BOOLEAN /\ given' \in {"user", "choice", "page"},
             matches' # <<>> /\ given' # "page" => query' = view' /\ matches' = Found[view'],
             IF matches' = <<>> THEN activeMatch' = -1 ELSE activeMatch' \in 0 .. Len(matches') - 1,
             loading' /\ ~changed' => \E i \in DOMAIN requests' : requests'[i] = view',
             Len(waiting') <= 1,
             ~isEditable' /\ given' = "user" => barred' /\ picked' = A!None,
             given' = "choice" => ~barred' /\ picked' \in Items /\ view' = picked'
      PROVE  TypeaheadInv'
  <2>1. A!TaTypeOK'
    BY <1>7 DEF A!TaTypeOK
  <2>2. A!MatchesOfInput' /\ A!ActiveIsMatch' /\ A!OnlyItems'
    BY <1>7 DEF A!MatchesOfInput, A!ActiveIsMatch, A!OnlyItems
  <2>3. loading' /\ requests' = <<>> => changed'
    <3>1. DOMAIN <<>> = {}
      OBVIOUS
    <3> QED
      BY <1>7, <3>1
  <2>4. A!LoadingEnds'
    BY <1>7, <2>3 DEF A!LoadingEnds
  <2> QED
    BY <1>7, <2>1, <2>2, <2>4 DEF TypeaheadInv
<1> HIDE DEF T0
<1>8. ASSUME NEW text \in Typed, requests' = Append(requests, text), changed' = (text # view')
      PROVE  /\ requests' \in Seq(Typed) /\ changed' \in BOOLEAN
             /\ ~changed' => \E i \in DOMAIN requests' : requests'[i] = view'
  <2>1. requests' \in Seq(Typed) /\ Len(requests) + 1 \in DOMAIN requests'
        /\ requests'[Len(requests) + 1] = text
    BY <1>1, <1>8
  <2> QED
    BY <1>8, <2>1
<1>9. ASSUME A!ResetMatches
      PROVE  matches' \in Seq(Items) /\ activeMatch' \in Int /\ matches' = <<>> /\ activeMatch' = -1
  BY <1>9 DEF A!ResetMatches
<1>10. ASSUME NEW text \in Typed, A!Type(text) PROVE TypeaheadInv'
  <2>1. /\ text # view /\ typed' = typed + 1 /\ typed < MaxTyped /\ view' = text /\ given' = "user"
        /\ A!ResetMatches
        /\ rests' = rests /\ isEditable' = isEditable /\ query' = query /\ inputGone' = inputGone
        /\ IF isEditable THEN picked' = text /\ barred' = barred ELSE picked' = A!None /\ barred' = TRUE
    BY <1>10, Zenon DEF A!Type
  <2>2. typed' \in 0 .. MaxTyped
    <3>1. MaxTyped \in Nat
      BY WidgetsAssumption DEF WidgetsAssumption
    <3> QED
      BY <1>1, <2>1, <3>1
  <2>3. /\ waiting' \in Seq(Typed) /\ Len(waiting') <= 1 /\ requests' \in Seq(Typed)
        /\ loading' \in BOOLEAN /\ changed' \in BOOLEAN
        /\ loading' /\ ~changed' => \E i \in DOMAIN requests' : requests'[i] = view'
    <3>1. CASE changed' = TRUE /\ UNCHANGED <<waiting, requests, loading>>
      BY <1>1, <1>4, <3>1
    <3>2. CASE A!WaitFor(text) /\ changed' = TRUE /\ UNCHANGED <<requests, loading>>
      <4>1. waiting' = <<text>>
        BY <3>2 DEF A!WaitFor
      <4>2. waiting' \in Seq(Typed) /\ Len(waiting') = 1
        BY <4>1
      <4> QED
        BY <1>1, <3>2, <4>2
    <3>3. CASE A!AskFor(text) /\ UNCHANGED waiting
      <4>1. requests' = Append(requests, text) /\ loading' = TRUE /\ changed' = (text # view')
        BY <3>3 DEF A!AskFor
      <4> QED
        BY <1>1, <1>4, <1>8, <3>3, <4>1
    <3> QED
      BY <1>10, <3>1, <3>2, <3>3, Zenon DEF A!Type
  <2> QED
    BY <1>1, <1>6, <1>7, <1>9, <2>1, <2>2, <2>3
<1>11. ASSUME A!Rested PROVE TypeaheadInv'
  <2>1. /\ waiting # <<>> /\ waiting' = Tail(waiting) /\ view' = view
        /\ requests' = Append(requests, Head(waiting)) /\ loading' = TRUE
        /\ changed' = (Head(waiting) # view')
        /\ UNCHANGED <<rests, isEditable, picked, barred, matches, activeMatch, query, typed,
                       inputGone, given>>
    BY <1>11 DEF A!Rested, A!AskFor
  <2>2. Head(waiting) \in Typed /\ waiting' \in Seq(Typed) /\ Len(waiting') <= 1
    BY <1>1, <1>4, <2>1
  <2> QED
    BY <1>1, <1>2, <1>3, <1>5, <1>7, <1>8, <2>1, <2>2
<1>12. ASSUME NEW i \in DOMAIN requests, A!Answer(i) PROVE TypeaheadInv'
  <2>1. /\ requests' = A!AllBut(i)
        /\ UNCHANGED <<rests, isEditable, view, picked, barred, waiting, typed, inputGone, changed,
                       given>>
    BY <1>12 DEF A!Answer
  <2>2. requests' \in Seq(Typed) /\ requests[i] \in Typed
    BY <1>1, <2>1, AllButKeeps
  <2>3. CASE requests[i] = view
    <3>1. loading' = FALSE /\ A!List(view)
      BY <1>12, <2>3 DEF A!Answer, A!Taken, A!Done
    <3>2. CASE Found[view] = <<>>
      <4>1. A!ResetMatches /\ query' = query
        BY <3>1, <3>2 DEF A!List
      <4> QED
        BY <1>1, <1>4, <1>5, <1>7, <1>9, <2>1, <2>2, <3>1, <4>1
    <3>3. CASE Found[view] # <<>>
      <4>1. matches' = Found[view] /\ activeMatch' = 0 /\ query' = view
        BY <3>1, <3>3 DEF A!List
      <4>2. matches' \in Seq(Items)
        BY <2>2, <2>3, <4>1, FoundAreItems
      <4>3. 0 \in 0 .. Len(matches') - 1 /\ 0 \in Int
        BY <3>3, <4>1, <4>2
      <4> QED
        BY <1>1, <1>4, <1>5, <1>7, <2>1, <2>2, <3>1, <3>3, <4>1, <4>2, <4>3
    <3> QED
      BY <3>2, <3>3
  <2>4. CASE requests[i] # view
    <3>1. UNCHANGED <<matches, activeMatch, query, loading>>
      BY <1>12, <2>4 DEF A!Answer, A!Taken
    <3>2. loading /\ ~changed => \E k \in DOMAIN requests' : requests'[k] = view
      BY <1>1, <1>4, <2>1, <2>4, AllButKeeps
    <3> QED
      BY <1>1, <1>2, <1>3, <1>4, <1>5, <1>7, <2>1, <2>2, <3>1, <3>2
  <2> QED
    BY <2>3, <2>4
<1>13. ASSUME NEW i \in DOMAIN requests, A!Fail(i) PROVE TypeaheadInv'
  <2>1. /\ requests' = A!AllBut(i) /\ A!ResetMatches /\ loading' = FALSE
        /\ UNCHANGED <<rests, isEditable, view, picked, barred, query, waiting, typed, inputGone,
                       changed, given>>
    BY <1>13 DEF A!Fail, A!Done
  <2>2. requests' \in Seq(Typed)
    BY <1>1, <2>1, AllButKeeps
  <2> QED
    BY <1>1, <1>4, <1>5, <1>7, <1>9, <2>1, <2>2
<1>14. ASSUME NEW to \in Int, matches # <<>> => to \in 0 .. Len(matches) - 1, A!Move(to)
       PROVE  TypeaheadInv'
  <2>1. /\ matches # <<>> /\ activeMatch' = to
        /\ UNCHANGED <<rests, isEditable, view, picked, barred, matches, query, waiting, requests,
                       loading, typed, inputGone, changed, given>>
    BY <1>14 DEF A!Move
  <2> QED
    BY <1>1, <1>2, <1>4, <1>5, <1>7, <1>14, <2>1
<1>15. ASSUME NEW i \in 0 .. Len(matches) - 1, A!Choose(i) PROVE TypeaheadInv'
  <2>1. /\ picked' = matches[i + 1] /\ view' = picked' /\ given' = "choice" /\ changed' = TRUE
        /\ barred' = FALSE /\ A!ResetMatches
        /\ UNCHANGED <<rests, isEditable, query, waiting, requests, loading, typed, inputGone>>
    BY <1>15 DEF A!Choose, A!Cleared
  <2>2. picked' \in Items
    <3>1. i + 1 \in 1 .. Len(matches)
      BY <1>1
    <3> QED
      BY <1>1, <2>1, <3>1
  <2> QED
    BY <1>1, <1>4, <1>6, <1>7, <1>9, <2>1, <2>2
<1>16. ASSUME A!Dismiss PROVE TypeaheadInv'
  <2>1. /\ A!ResetMatches
        /\ UNCHANGED <<rests, isEditable, view, picked, barred, query, waiting, requests, loading,
                       typed, inputGone, changed, given>>
    BY <1>16 DEF A!Dismiss
  <2> QED
    BY <1>1, <1>4, <1>5, <1>7, <1>9, <2>1
<1>17. ASSUME NEW value \in Items \cup {A!None}, A!SetModel(value) PROVE TypeaheadInv'
  <2>1. /\ picked' = value /\ view' = value /\ given' = "page" /\ changed' = TRUE
        /\ UNCHANGED <<rests, isEditable, barred, matches, activeMatch, query, waiting, requests,
                       loading, typed, inputGone>>
    BY <1>17 DEF A!SetModel
  <2>2. value \in T0
    BY <1>6
  <2> QED
    BY <1>1, <1>3, <1>4, <1>7, <2>1, <2>2
<1>18. ASSUME A!Destroy PROVE TypeaheadInv'
  <2>1. /\ inputGone' = TRUE
        /\ UNCHANGED <<rests, isEditable, view, picked, barred, matches, activeMatch, query, waiting,
                       requests, loading, typed, changed, given>>
    BY <1>18 DEF A!Destroy
  <2> QED
    BY <1>1, <1>2, <1>3, <1>4, <1>5, <1>7, <2>1
<1>19. ASSUME matches # <<>>
       PROVE  /\ A!Up(activeMatch) \in 0 .. Len(matches) - 1
              /\ A!Down(activeMatch) \in 0 .. Len(matches) - 1
  <2>1. PICK n \in Nat \ {0} : n = Len(matches)
    BY <1>1, <1>19
  <2>2. PICK a \in 0 .. n - 1 : a = activeMatch
    BY <1>3, <1>19, <2>1
  <2>3. (IF a = 0 THEN n ELSE a) - 1 \in 0 .. n - 1
    OBVIOUS
  <2>4. (a + 1) % n \in 0 .. n - 1
    OBVIOUS
  <2> QED
    BY <2>1, <2>2, <2>3, <2>4 DEF A!Up, A!Down
<1>20. ASSUME A!Move(A!Up(activeMatch)) \/ (matches # <<>> /\ A!Move(A!Down(activeMatch)))
       PROVE  TypeaheadInv'
  <2>1. matches # <<>>
    BY <1>20 DEF A!Move
  <2> QED
    BY <1>14, <1>19, <1>20, <2>1
<1>21. ASSUME NEW i \in 0 .. Len(matches) - 1, A!Move(i) PROVE TypeaheadInv'
  BY <1>14, <1>21
<1> QED
  BY <1>10, <1>11, <1>12, <1>13, <1>15, <1>16, <1>17, <1>18, <1>20, <1>21 DEF A!TaNext

-----------------------------------------------------------------------------
(* What collapses *)

LEMMA HeightsAre ==
  /\ \A h \in Contents : h \in Nat /\ h \in Int
  /\ \A h \in Contents \cup {-1, 0} : h \in Int
  /\ \A h \in Contents \cup {0} : h \in Int /\ h >= 0 /\ h \in Contents \cup {-1, 0}
BY WidgetsAssumption DEF WidgetsAssumption

\* What an element scrolls is never less than its content.
LEMMA ScrollHeightIs ==
  ASSUME NEW b \in CollapseT
  PROVE  /\ L!ScrollHeight(b) \in Contents /\ L!ScrollHeight(b) >= b.content
         /\ L!ScrollHeight(b) = b.content \/ (b.height > b.content /\ L!ScrollHeight(b) = b.height)
<1>1. b.height \in Contents \cup {-1, 0} /\ b.content \in Contents
  BY DEF CollapseT
<1>2. b.height \in Int /\ b.content \in Int /\ b.content >= 0
  BY <1>1, HeightsAre
<1>3. b.height > b.content => b.height \in Contents
  BY <1>1, <1>2
<1> QED
  BY <1>1, <1>2, <1>3 DEF L!ScrollHeight

LEMMA FixUpHeightIs ==
  ASSUME NEW b, CollapseTypeOK(b), NEW h \in Contents \cup {-1, 0}
  PROVE  LET f == L!FixUpHeight(b, h)
         IN /\ CollapseTypeOK(f) /\ f.height = h /\ f.running = FALSE /\ f.isCollapsed = b.isCollapsed
            /\ f.steps = b.steps /\ f.content = b.content /\ f.animSkip = b.animSkip
            /\ f.lastScroll = b.lastScroll
<1> DEFINE f == L!FixUpHeight(b, h)
<1>1. f = [b EXCEPT !.height = h, !.running = FALSE] /\ b \in CollapseT
  BY DEF L!FixUpHeight, CollapseTypeOK
<1> HIDE DEF f
<1>2. f \in CollapseT
  BY <1>1 DEF CollapseT
<1>3. /\ f.height = h /\ f.running = FALSE /\ f.isCollapsed = b.isCollapsed
      /\ f.steps = b.steps /\ f.content = b.content /\ f.animSkip = b.animSkip
      /\ f.lastScroll = b.lastScroll /\ f.currentTransition = b.currentTransition
      /\ f.started = b.started /\ f.unsettled = b.unsettled /\ f.expanding = b.expanding
  BY <1>1 DEF CollapseT
<1> QED
  BY <1>2, <1>3 DEF CollapseTypeOK, f

\* The watcher gives the height free, or leaves it.
LEMMA ScrollWatchIs ==
  ASSUME NEW b, CollapseTypeOK(b)
  PROVE  LET w == L!ScrollWatch(b)
         IN /\ CollapseTypeOK(w) /\ w.isCollapsed = b.isCollapsed /\ w.animSkip = b.animSkip
            /\ w.content = b.content /\ w.steps = b.steps /\ w.lastScroll = L!ScrollHeight(b)
            /\ w.height = IF L!ScrollHeight(b) # b.lastScroll /\ L!ScrollHeight(b) # 0 /\ ~b.isCollapsed
                          THEN IF b.animSkip THEN L!ScrollHeight(b) ELSE -1
                          ELSE b.height
<1> DEFINE scroll == L!ScrollHeight(b)
           seen == [b EXCEPT !.lastScroll = scroll]
           h == IF b.animSkip THEN scroll ELSE -1
           w == L!ScrollWatch(b)
<1>1. b \in CollapseT /\ CollapseTypeOK(b)
  BY DEF CollapseTypeOK
<1>2. scroll \in Contents
  BY <1>1, ScrollHeightIs
<1>3. w = IF scroll # b.lastScroll /\ scroll # 0 /\ ~b.isCollapsed THEN L!FixUpHeight(seen, h) ELSE seen
  BY DEF L!ScrollWatch, L!Auto
<1>4. h \in Contents \cup {-1, 0}
  BY <1>2
<1> HIDE DEF scroll
<1>5. /\ seen \in CollapseT /\ seen.lastScroll = scroll /\ seen.isCollapsed = b.isCollapsed
      /\ seen.steps = b.steps /\ seen.content = b.content /\ seen.animSkip = b.animSkip
      /\ seen.height = b.height /\ seen.currentTransition = b.currentTransition
      /\ seen.started = b.started /\ seen.unsettled = b.unsettled /\ seen.expanding = b.expanding
      /\ seen.running = b.running
  BY <1>1, <1>2 DEF CollapseT
<1> HIDE DEF seen, w
<1>6. CollapseTypeOK(seen)
  BY <1>1, <1>5 DEF CollapseTypeOK
<1>7. CASE scroll # b.lastScroll /\ scroll # 0 /\ ~b.isCollapsed
  <2>1. w = L!FixUpHeight(seen, h)
    BY <1>3, <1>7
  <2> HIDE DEF h
  <2>2. /\ CollapseTypeOK(w) /\ w.height = h /\ w.isCollapsed = b.isCollapsed
        /\ w.steps = b.steps /\ w.content = b.content /\ w.animSkip = b.animSkip
        /\ w.lastScroll = scroll
    BY <1>4, <1>5, <1>6, <2>1, FixUpHeightIs
  <2> QED
    BY <1>7, <2>2 DEF w, h, scroll
<1>8. CASE ~(scroll # b.lastScroll /\ scroll # 0 /\ ~b.isCollapsed)
  <2>1. w = seen
    BY <1>3, <1>8
  <2> QED
    BY <1>5, <1>6, <1>8, <2>1 DEF w, scroll
<1> QED
  BY <1>7, <1>8

\* What holds of the height is kept: a height that is free, or as great as what is scrolled,
\* shows the content.
LEMMA ScrollWatchHolds ==
  ASSUME NEW b, NEW past \in BOOLEAN, CollapseHolds(b, past)
  PROVE  CollapseHolds(L!ScrollWatch(b), past)
<1> DEFINE w == L!ScrollWatch(b)
<1>1. CollapseTypeOK(b) /\ HeightHolds(b, past) /\ b \in CollapseT
  BY DEF CollapseHolds, CollapseTypeOK
<1>2. L!ScrollHeight(b) \in Contents /\ L!ScrollHeight(b) >= b.content
  BY <1>1, ScrollHeightIs
<1>3. /\ CollapseTypeOK(w) /\ w.isCollapsed = b.isCollapsed /\ w.animSkip = b.animSkip
      /\ w.content = b.content /\ w.steps = b.steps
      /\ w.height = b.height
           \/ (~b.isCollapsed /\ (w.height = -1 \/ w.height = L!ScrollHeight(b)))
  BY <1>1, ScrollWatchIs
<1> HIDE DEF w
<1>4. HeightHolds(w, past)
  BY <1>1, <1>2, <1>3 DEF HeightHolds
<1> QED
  BY <1>3, <1>4 DEF CollapseHolds, w

LEMMA SameScroll ==
  ASSUME NEW b, NEW c, b.height = c.height, b.content = c.content
  PROVE  L!ScrollHeight(b) = L!ScrollHeight(c)
BY DEF L!ScrollHeight

\* What the watcher saw the second time is what there is.
LEMMA WatchSees ==
  ASSUME NEW b, CollapseTypeOK(b), ~b.animSkip
  PROVE  LET w == L!Watch(b)
         IN /\ CollapseTypeOK(w) /\ w.isCollapsed = b.isCollapsed /\ ~w.animSkip
            /\ w.content = b.content /\ w.steps = b.steps /\ w.lastScroll = L!ScrollHeight(w)
<1> DEFINE v == L!ScrollWatch(b)
           w == L!ScrollWatch(v)
<1>1. L!Watch(b) = w
  BY DEF L!Watch
<1>2. /\ CollapseTypeOK(v) /\ v.isCollapsed = b.isCollapsed /\ v.animSkip = b.animSkip
      /\ v.content = b.content /\ v.steps = b.steps /\ v.lastScroll = L!ScrollHeight(b)
      /\ v.height = b.height \/ v.height = -1
  BY ScrollWatchIs
<1> HIDE DEF v
<1>3. /\ CollapseTypeOK(w) /\ w.isCollapsed = v.isCollapsed /\ w.animSkip = v.animSkip
      /\ w.content = v.content /\ w.steps = v.steps /\ w.lastScroll = L!ScrollHeight(v)
      /\ w.height = v.height \/ w.height = -1
      /\ L!ScrollHeight(v) = v.lastScroll => w.height = v.height
  BY <1>2, ScrollWatchIs
<1> HIDE DEF w
<1>4. CASE v.height = b.height
  <2>1. L!ScrollHeight(v) = L!ScrollHeight(b)
    BY <1>2, <1>4, SameScroll
  <2>2. w.height = v.height
    BY <1>2, <1>3, <2>1
  <2>3. L!ScrollHeight(w) = L!ScrollHeight(v)
    BY <1>3, <2>2, SameScroll
  <2> QED
    BY <1>1, <1>2, <1>3, <2>3
<1>5. CASE v.height = -1
  <2>1. w.height = v.height
    BY <1>3, <1>5
  <2>2. L!ScrollHeight(w) = L!ScrollHeight(v)
    BY <1>3, <2>1, SameScroll
  <2> QED
    BY <1>1, <1>2, <1>3, <2>2
<1> QED
  BY <1>2, <1>4, <1>5

LEMMA WatchHolds ==
  ASSUME NEW b, NEW past \in BOOLEAN, CollapseHolds(b, past)
  PROVE  CollapseHolds(L!Watch(b), past)
BY ScrollWatchHolds DEF L!Watch

\* Promises that are told give the height free at most.
LEMMA ToldResolvedHolds ==
  ASSUME NEW b, NEW past \in BOOLEAN, CollapseHolds(b, past), NEW ids
  PROVE  LET t == L!ToldResolved(b, ids)
         IN CollapseHolds(t, past) /\ t.isCollapsed = b.isCollapsed /\ t.animSkip = b.animSkip
            /\ t.content = b.content
<1> DEFINE told == L!ToldRejected(b, ids)
           c == IF ids = {} THEN b.currentTransition ELSE 0
           e == b.expanding \ ids
           t == L!ToldResolved(b, ids)
<1>1. b \in CollapseT /\ CollapseTypeOK(b) /\ HeightHolds(b, past)
  BY DEF CollapseHolds, CollapseTypeOK
<1>2. told = [b EXCEPT !.currentTransition = c, !.expanding = e]
  BY DEF L!ToldRejected, L!None
<1>3. c \in Nat /\ c \in 0 .. b.started /\ e \in SUBSET Nat /\ e \subseteq 1 .. b.started
  BY <1>1 DEF CollapseTypeOK, CollapseT
<1>4. t = IF ids \cap b.expanding # {} /\ ~b.isCollapsed THEN L!FixUpHeight(told, -1) ELSE told
  BY DEF L!ToldResolved, L!Auto
<1> HIDE DEF told, c, e, t
<1>5. /\ told \in CollapseT /\ told.currentTransition = c /\ told.expanding = e
      /\ told.lastScroll = b.lastScroll /\ told.isCollapsed = b.isCollapsed
      /\ told.steps = b.steps /\ told.content = b.content /\ told.animSkip = b.animSkip
      /\ told.height = b.height
      /\ told.started = b.started /\ told.unsettled = b.unsettled /\ told.running = b.running
  BY <1>1, <1>2, <1>3 DEF CollapseT
<1>6. CollapseTypeOK(told) /\ HeightHolds(told, past)
  BY <1>1, <1>3, <1>5 DEF CollapseTypeOK, HeightHolds
<1>7. CASE ids \cap b.expanding # {} /\ ~b.isCollapsed
  <2>1. t = L!FixUpHeight(told, -1) /\ -1 \in Contents \cup {-1, 0}
    BY <1>4, <1>7
  <2>2. /\ CollapseTypeOK(t) /\ t.height = -1 /\ t.isCollapsed = b.isCollapsed
        /\ t.steps = b.steps /\ t.content = b.content /\ t.animSkip = b.animSkip
    BY <1>5, <1>6, <2>1, FixUpHeightIs
  <2>3. HeightHolds(t, past)
    BY <1>1, <1>7, <2>2 DEF HeightHolds
  <2> QED
    BY <2>2, <2>3 DEF CollapseHolds, t
<1>8. CASE ~(ids \cap b.expanding # {} /\ ~b.isCollapsed)
  <2>1. t = told
    BY <1>4, <1>8
  <2> QED
    BY <1>5, <1>6, <2>1 DEF CollapseHolds, t
<1> QED
  BY <1>7, <1>8

\* A transition asks for a height, after those that were asked for.
LEMMA DoTransitionIs ==
  ASSUME NEW b, CollapseTypeOK(b), NEW to \in Contents \cup {0}, NEW expands \in BOOLEAN
  PROVE  LET d == L!DoTransition(b, to, expands)
         IN /\ CollapseTypeOK(d) /\ d.isCollapsed = b.isCollapsed /\ d.animSkip = b.animSkip
            /\ d.content = b.content /\ d.steps # <<>> /\ d.steps[Len(d.steps)].to = to
<1> DEFINE id == b.started + 1
           step == [id |-> id, to |-> to]
           u == (b.unsettled \ {b.currentTransition}) \cup {id}
           e == IF expands THEN b.expanding \cup {id} ELSE b.expanding
           cancelled == [b EXCEPT !.unsettled = @ \ {b.currentTransition}]
           new == [cancelled EXCEPT !.started = id, !.currentTransition = id,
                                    !.unsettled = @ \cup {id},
                                    !.expanding = IF expands THEN @ \cup {id} ELSE @,
                                    !.steps = Append(@, [id |-> id, to |-> to])]
           d == L!DoTransition(b, to, expands)
<1>1. b \in CollapseT /\ CollapseTypeOK(b)
  BY DEF CollapseTypeOK
<1>2. d = IF b.currentTransition = 0 THEN new ELSE L!ToldRejected(new, {b.currentTransition})
  BY DEF L!DoTransition, L!None
<1>3. id \in Nat /\ b.started \in Nat /\ b.steps \in Seq(StepT) /\ step \in StepT /\ step.to = to
  BY <1>1 DEF CollapseT, StepT
<1>4. u \in SUBSET Nat /\ u \subseteq 1 .. id /\ e \in SUBSET Nat /\ e \subseteq 1 .. id /\ id \in 0 .. id
  BY <1>1, <1>3 DEF CollapseTypeOK, CollapseT
<1>5. Append(b.steps, step) \in Seq(StepT) /\ Append(b.steps, step) # <<>>
      /\ Append(b.steps, step)[Len(Append(b.steps, step))] = step
  BY <1>3
<1>6. /\ cancelled \in CollapseT /\ cancelled.unsettled = b.unsettled \ {b.currentTransition}
      /\ cancelled.steps = b.steps /\ cancelled.expanding = b.expanding
      /\ cancelled.isCollapsed = b.isCollapsed /\ cancelled.animSkip = b.animSkip
      /\ cancelled.content = b.content /\ cancelled.running = b.running
  BY <1>1 DEF CollapseT
<1>7. new = [cancelled EXCEPT !.started = id, !.currentTransition = id, !.unsettled = u,
                              !.expanding = e, !.steps = Append(b.steps, step)]
  <2> HIDE DEF cancelled, id
  <2> QED
    BY <1>6
<1> HIDE DEF cancelled, new, id, u, e, step, d
<1>8. /\ new \in CollapseT /\ new.started = id /\ new.currentTransition = id /\ new.unsettled = u
      /\ new.expanding = e /\ new.steps = Append(b.steps, step)
      /\ new.isCollapsed = b.isCollapsed /\ new.animSkip = b.animSkip
      /\ new.content = b.content /\ new.running = b.running
  BY <1>3, <1>4, <1>5, <1>6, <1>7 DEF CollapseT
<1>9. CollapseTypeOK(new)
  BY <1>1, <1>4, <1>8 DEF CollapseTypeOK
<1>10. CASE b.currentTransition = 0
  BY <1>2, <1>3, <1>5, <1>8, <1>9, <1>10 DEF d
<1>11. CASE b.currentTransition # 0
  <2>1. d = [new EXCEPT !.currentTransition = 0, !.expanding = e \ {b.currentTransition}]
    BY <1>2, <1>8, <1>11 DEF L!ToldRejected, L!None
  <2>2. e \ {b.currentTransition} \in SUBSET Nat /\ e \ {b.currentTransition} \subseteq 1 .. id
        /\ 0 \in 0 .. id /\ 0 \in Nat
    <3>1. 0 \in 0 .. id /\ 0 \in Nat
      BY <1>3
    <3>2. e \in SUBSET Nat /\ e \subseteq 1 .. id
      BY <1>4
    <3> QED
      BY <3>1, <3>2, Zenon
  <2>3. /\ d \in CollapseT /\ d.started = id /\ d.currentTransition = 0 /\ d.unsettled = u
        /\ d.expanding = e \ {b.currentTransition} /\ d.steps = Append(b.steps, step)
        /\ d.isCollapsed = b.isCollapsed /\ d.animSkip = b.animSkip
        /\ d.content = b.content /\ d.running = b.running
    BY <1>8, <2>1, <2>2 DEF CollapseT
  <2>4. CollapseTypeOK(d)
    BY <1>1, <1>4, <2>2, <2>3 DEF CollapseTypeOK
  <2> QED
    BY <1>3, <1>5, <2>3, <2>4 DEF d
<1> QED
  BY <1>10, <1>11

LEMMA ExpandHolds ==
  ASSUME NEW b, CollapseTypeOK(b), b.animSkip => ~b.isCollapsed /\ b.steps = <<>>, NEW past \in BOOLEAN
  PROVE  LET d == L!Expand(b)
         IN CollapseHolds(d, past) /\ d.isCollapsed = FALSE /\ d.animSkip = FALSE
            /\ d.content = b.content
<1> DEFINE c == IF b.animSkip THEN L!FixUpHeight(b, -1) ELSE L!DoTransition(b, L!ScrollHeight(b), TRUE)
           d == L!Expand(b)
<1>1. b \in CollapseT
  BY DEF CollapseTypeOK
<1>2. d = [c EXCEPT !.animSkip = FALSE, !.isCollapsed = FALSE]
  BY DEF L!Expand, L!Auto
<1>3. L!ScrollHeight(b) \in Contents /\ L!ScrollHeight(b) >= b.content
  BY <1>1, ScrollHeightIs
<1>4. /\ CollapseTypeOK(c) /\ c.content = b.content
      /\ \/ c.steps = <<>> /\ c.height = -1
         \/ c.steps # <<>> /\ c.steps[Len(c.steps)].to >= b.content
  <2>1. CASE b.animSkip
    <3>1. c = L!FixUpHeight(b, -1) /\ -1 \in Contents \cup {-1, 0}
      BY <2>1
    <3> HIDE DEF c
    <3> QED
      BY <2>1, <3>1, FixUpHeightIs
  <2>2. CASE ~b.animSkip
    <3>1. c = L!DoTransition(b, L!ScrollHeight(b), TRUE) /\ L!ScrollHeight(b) \in Contents \cup {0}
      BY <1>3, <2>2
    <3> HIDE DEF c
    <3>2. CollapseTypeOK(c) /\ c.content = b.content /\ c.steps # <<>>
          /\ c.steps[Len(c.steps)].to = L!ScrollHeight(b)
      BY <3>1, DoTransitionIs
    <3> QED
      BY <1>3, <3>2
  <2> QED
    BY <2>1, <2>2
<1> HIDE DEF c, d
<1>5. c \in CollapseT
  BY <1>4 DEF CollapseTypeOK
<1>6. /\ d \in CollapseT /\ d.isCollapsed = FALSE /\ d.animSkip = FALSE /\ d.content = c.content
      /\ d.steps = c.steps /\ d.height = c.height /\ d.currentTransition = c.currentTransition
      /\ d.started = c.started /\ d.unsettled = c.unsettled /\ d.expanding = c.expanding
      /\ d.running = c.running
  BY <1>2, <1>5 DEF CollapseT
<1>7. CollapseTypeOK(d) /\ HeightHolds(d, past)
  BY <1>4, <1>6 DEF CollapseTypeOK, HeightHolds
<1> QED
  BY <1>4, <1>6, <1>7 DEF CollapseHolds, d

LEMMA HideHolds ==
  ASSUME NEW b, CollapseTypeOK(b), b.animSkip => b.steps = <<>>, NEW past \in BOOLEAN
  PROVE  LET d == L!Hide(b)
         IN CollapseHolds(d, past) /\ d.isCollapsed = TRUE /\ d.animSkip = FALSE
            /\ d.content = b.content
<1> DEFINE hidden == [b EXCEPT !.isCollapsed = TRUE, !.animSkip = FALSE]
           d == L!Hide(b)
<1>1. b \in CollapseT
  BY DEF CollapseTypeOK
<1>2. d = IF b.animSkip THEN L!FixUpHeight(hidden, 0)
          ELSE L!DoTransition(L!FixUpHeight(hidden, L!ScrollHeight(b)), 0, FALSE)
  BY DEF L!Hide
<1>3. L!ScrollHeight(b) \in Contents \cup {-1, 0}
  BY <1>1, ScrollHeightIs
<1> HIDE DEF hidden, d
<1>4. /\ hidden \in CollapseT /\ hidden.isCollapsed = TRUE /\ hidden.animSkip = FALSE
      /\ hidden.content = b.content /\ hidden.steps = b.steps
      /\ hidden.currentTransition = b.currentTransition /\ hidden.running = b.running
      /\ hidden.started = b.started /\ hidden.unsettled = b.unsettled
      /\ hidden.expanding = b.expanding
  BY <1>1 DEF CollapseT, hidden
<1>5. CollapseTypeOK(hidden)
  BY <1>4 DEF CollapseTypeOK
<1>6. CASE b.animSkip
  <2>1. d = L!FixUpHeight(hidden, 0) /\ 0 \in Contents \cup {-1, 0}
    BY <1>2, <1>6
  <2>2. CollapseTypeOK(d) /\ d.height = 0 /\ d.isCollapsed = TRUE /\ d.animSkip = FALSE
        /\ d.content = b.content /\ d.steps = <<>>
    BY <1>4, <1>5, <1>6, <2>1, FixUpHeightIs
  <2>3. HeightHolds(d, past)
    BY <2>2 DEF HeightHolds
  <2> QED
    BY <2>2, <2>3 DEF CollapseHolds, d
<1>7. CASE ~b.animSkip
  <2> DEFINE c == L!FixUpHeight(hidden, L!ScrollHeight(b))
  <2>1. CollapseTypeOK(c) /\ c.isCollapsed = TRUE /\ c.animSkip = FALSE /\ c.content = b.content
    BY <1>3, <1>4, <1>5, FixUpHeightIs
  <2>2. d = L!DoTransition(c, 0, FALSE) /\ 0 \in Contents \cup {0}
    BY <1>2, <1>7
  <2> HIDE DEF c
  <2>3. CollapseTypeOK(d) /\ d.isCollapsed = TRUE /\ d.animSkip = FALSE /\ d.content = b.content
        /\ d.steps # <<>> /\ d.steps[Len(d.steps)].to = 0
    BY <2>1, <2>2, DoTransitionIs
  <2>4. HeightHolds(d, past)
    BY <2>3 DEF HeightHolds
  <2> QED
    BY <2>3, <2>4 DEF CollapseHolds, d
<1> QED
  BY <1>6, <1>7

\* A height that was free, or what was scrolled, makes room for a new content.
LEMMA FillHolds ==
  ASSUME NEW b, NEW c, NEW past \in BOOLEAN, CollapseHolds(b, past), ~b.animSkip,
         b.lastScroll = L!ScrollHeight(b), NEW h \in Contents, c = [b EXCEPT !.content = h]
  PROVE  LET w == L!Watch(c)
         IN CollapseHolds(w, past \/ b.steps # <<>> \/ b.running) /\ w.isCollapsed = b.isCollapsed
            /\ w.animSkip = FALSE /\ w.lastScroll = L!ScrollHeight(w)
<1> DEFINE past2 == past \/ b.steps # <<>> \/ b.running
           v == L!ScrollWatch(c)
<1>1. b \in CollapseT /\ CollapseTypeOK(b) /\ HeightHolds(b, past)
  BY DEF CollapseHolds, CollapseTypeOK
<1>2. /\ c \in CollapseT /\ c.content = h /\ c.isCollapsed = b.isCollapsed /\ c.animSkip = FALSE
      /\ c.steps = b.steps /\ c.height = b.height /\ c.lastScroll = b.lastScroll
      /\ c.currentTransition = b.currentTransition /\ c.running = b.running
      /\ c.started = b.started /\ c.unsettled = b.unsettled /\ c.expanding = b.expanding
  BY <1>1 DEF CollapseT
<1>3. CollapseTypeOK(c)
  BY <1>1, <1>2 DEF CollapseTypeOK
<1>4. /\ CollapseTypeOK(v) /\ v.isCollapsed = b.isCollapsed /\ v.animSkip = FALSE
      /\ v.content = h /\ v.steps = b.steps
      /\ v.height = IF L!ScrollHeight(c) # b.lastScroll /\ L!ScrollHeight(c) # 0 /\ ~b.isCollapsed
                    THEN -1 ELSE b.height
  <2>1. /\ CollapseTypeOK(v) /\ v.isCollapsed = c.isCollapsed /\ v.animSkip = c.animSkip
        /\ v.content = c.content /\ v.steps = c.steps
        /\ v.height = IF L!ScrollHeight(c) # c.lastScroll /\ L!ScrollHeight(c) # 0 /\ ~c.isCollapsed
                      THEN IF c.animSkip THEN L!ScrollHeight(c) ELSE -1
                      ELSE c.height
    BY <1>3, ScrollWatchIs
  <2> HIDE DEF v
  <2> QED
    BY <1>2, <2>1
<1> HIDE DEF v
<1>5. past2 \in BOOLEAN
  BY DEF past2
<1>6. ASSUME ~b.isCollapsed, ~past2
      PROVE  v.steps = <<>> /\ (v.height = -1 \/ v.height >= h)
  <2>1. b.steps = <<>> /\ (b.height = -1 \/ b.height >= b.content)
    BY <1>1, <1>6 DEF HeightHolds
  <2>2. b.height \in Int /\ b.content \in Int /\ b.content >= 0 /\ h \in Int /\ h >= 0
    <3>1. b.height \in Contents \cup {-1, 0} /\ b.content \in Contents
      BY <1>1 DEF CollapseT
    <3> QED
      BY <3>1, HeightsAre
  <2>3. CASE b.height # -1 /\ b.height < h
    <3>1. L!ScrollHeight(c) = h
      BY <1>2, <2>2, <2>3 DEF L!ScrollHeight
    <3>2. b.height >= 0 /\ b.lastScroll \in {b.content, b.height} /\ b.content <= b.height
      BY <2>1, <2>2, <2>3 DEF L!ScrollHeight
    <3>3. L!ScrollHeight(c) # b.lastScroll /\ L!ScrollHeight(c) # 0
      BY <2>2, <2>3, <3>1, <3>2
    <3> QED
      BY <1>4, <1>6, <2>1, <3>3
  <2>4. CASE b.height = -1 \/ b.height >= h
    BY <1>4, <2>1, <2>4
  <2> QED
    BY <2>2, <2>3, <2>4
<1>7. HeightHolds(v, past2)
  BY <1>1, <1>4, <1>6 DEF HeightHolds
<1>8. CollapseHolds(L!ScrollWatch(v), past2)
  BY <1>4, <1>5, <1>7, ScrollWatchHolds DEF CollapseHolds
<1>9. L!Watch(c) = L!ScrollWatch(v)
  BY DEF L!Watch, v
<1>10. LET w == L!Watch(c) IN w.isCollapsed = b.isCollapsed /\ ~w.animSkip /\ CollapseTypeOK(w)
                              /\ w.lastScroll = L!ScrollHeight(w)
  BY <1>2, <1>3, WatchSees
<1>11. L!Watch(c).animSkip \in BOOLEAN
  BY <1>10 DEF CollapseTypeOK, CollapseT
<1> QED
  BY <1>8, <1>9, <1>10, <1>11 DEF past2

\* What is told of the element as a record, told of the variables.
LEMMA CollapseBecomes ==
  ASSUME NEW b, NEW past \in BOOLEAN, CollapseHolds(b, past), ~b.animSkip,
         b.lastScroll = L!ScrollHeight(b), L!Become(b), overtaken' = past, hides' = b.isCollapsed,
         supported \in BOOLEAN
  PROVE  CollapseInv'
<1>1. /\ isCollapsed' = b.isCollapsed /\ animSkip' = b.animSkip /\ height' = b.height
      /\ currentTransition' = b.currentTransition /\ running' = b.running
      /\ unsettled' = b.unsettled /\ expanding' = b.expanding /\ steps' = b.steps
      /\ contentHeight' = b.content /\ lastScroll' = b.lastScroll /\ started' = b.started
      /\ supported' = supported
  BY DEF L!Become
<1> DEFINE n == L!Now
<1>2. n' = [isCollapsed |-> isCollapsed', animSkip |-> animSkip', height |-> height',
            currentTransition |-> currentTransition', running |-> running', unsettled |-> unsettled',
            expanding |-> expanding', steps |-> steps', content |-> contentHeight',
            lastScroll |-> lastScroll', started |-> started']
  BY DEF L!Now
<1> HIDE DEF n
<1>3. b \in CollapseT /\ CollapseTypeOK(b) /\ HeightHolds(b, past)
  BY DEF CollapseHolds, CollapseTypeOK
<1>4. /\ n'.isCollapsed = b.isCollapsed /\ n'.animSkip = b.animSkip /\ n'.height = b.height
      /\ n'.currentTransition = b.currentTransition /\ n'.running = b.running
      /\ n'.unsettled = b.unsettled /\ n'.expanding = b.expanding /\ n'.steps = b.steps
      /\ n'.content = b.content /\ n'.lastScroll = b.lastScroll /\ n'.started = b.started
  BY <1>1, <1>2
<1>5. n' \in CollapseT
  BY <1>1, <1>2, <1>3 DEF CollapseT
<1>6. CollapseTypeOK(n)'
  <2>1. /\ n'.currentTransition \in 0 .. n'.started /\ (n'.running => supported')
        /\ n'.unsettled \subseteq 1 .. n'.started /\ n'.expanding \subseteq 1 .. n'.started
    BY <1>1, <1>3, <1>4 DEF CollapseTypeOK
  <2> QED
    BY <1>5, <2>1 DEF CollapseTypeOK
<1>7. HeightHolds(n', past)
  BY <1>3, <1>4 DEF HeightHolds
<1>8. L!ScrollHeight(n') = b.lastScroll
  BY <1>4, SameScroll
<1>9. CollapseHolds(L!Now, overtaken)'
  BY <1>6, <1>7 DEF CollapseHolds, n
<1> QED
  BY <1>1, <1>8, <1>9 DEF CollapseInv, n

LEMMA CollapseInit == ASSUME L!CpInit PROVE CollapseInv
<1> DEFINE linked ==
             [isCollapsed |-> FALSE, animSkip |-> TRUE, height |-> -1, currentTransition |-> 0,
              running |-> FALSE, unsettled |-> {}, expanding |-> {}, steps |-> <<>>,
              content |-> contentHeight, lastScroll |-> -1, started |-> 0]
           seen == L!ScrollWatch(linked)
           turned == IF hides THEN L!Hide(seen) ELSE L!Expand(seen)
           b == L!Watch(turned)
           n == L!Now
<1>1. /\ supported \in BOOLEAN /\ hides \in BOOLEAN /\ contentHeight \in Contents
      /\ isCollapsed = b.isCollapsed /\ animSkip = b.animSkip /\ height = b.height
      /\ currentTransition = b.currentTransition /\ running = b.running /\ unsettled = b.unsettled
      /\ expanding = b.expanding /\ steps = b.steps /\ lastScroll = b.lastScroll
      /\ started = b.started /\ overtaken = FALSE
  BY DEF L!CpInit, L!Auto, L!None
<1>2. linked \in CollapseT
  <2>1. <<>> \in Seq(StepT) /\ 0 \in Nat /\ {} \in SUBSET Nat
    OBVIOUS
  <2> QED
    BY <1>1, <2>1 DEF CollapseT
<1>3. /\ linked.isCollapsed = FALSE /\ linked.steps = <<>> /\ linked.content = contentHeight
      /\ linked.running = FALSE /\ linked.currentTransition = 0 /\ linked.started = 0
      /\ linked.unsettled = {} /\ linked.expanding = {}
  OBVIOUS
<1> HIDE DEF linked, seen, turned, b, n
<1>4. CollapseTypeOK(linked)
  <2>1. 0 \in 0 .. 0
    OBVIOUS
  <2> QED
    BY <1>2, <1>3, <2>1 DEF CollapseTypeOK
<1>5. CollapseTypeOK(seen) /\ seen.isCollapsed = FALSE /\ seen.steps = <<>> /\ seen.content = contentHeight
  BY <1>3, <1>4, ScrollWatchIs DEF seen
<1>6. CollapseHolds(turned, FALSE) /\ turned.isCollapsed = hides /\ turned.animSkip = FALSE
      /\ turned.content = contentHeight
  <2>1. CASE hides
    BY <1>5, <2>1, HideHolds DEF turned
  <2>2. CASE ~hides
    BY <1>1, <1>5, <2>2, ExpandHolds DEF turned
  <2> QED
    BY <1>1, <2>1, <2>2
<1>7. CollapseHolds(b, FALSE)
  BY <1>6, WatchHolds DEF b
<1>8. CollapseTypeOK(b) /\ b.isCollapsed = hides /\ ~b.animSkip /\ b.content = contentHeight
      /\ b.lastScroll = L!ScrollHeight(b)
  <2>1. CollapseTypeOK(turned)
    BY <1>6 DEF CollapseHolds
  <2> QED
    BY <1>6, <2>1, WatchSees DEF b
<1>9. n = [isCollapsed |-> isCollapsed, animSkip |-> animSkip, height |-> height,
           currentTransition |-> currentTransition, running |-> running, unsettled |-> unsettled,
           expanding |-> expanding, steps |-> steps, content |-> contentHeight,
           lastScroll |-> lastScroll, started |-> started]
  BY DEF L!Now, n
<1>10. /\ n.isCollapsed = b.isCollapsed /\ n.animSkip = b.animSkip /\ n.height = b.height
       /\ n.currentTransition = b.currentTransition /\ n.running = b.running
       /\ n.unsettled = b.unsettled /\ n.expanding = b.expanding /\ n.steps = b.steps
       /\ n.content = b.content /\ n.lastScroll = b.lastScroll /\ n.started = b.started
  BY <1>1, <1>8, <1>9
<1>11. b \in CollapseT
  BY <1>8 DEF CollapseTypeOK
<1>12. n \in CollapseT
  BY <1>1, <1>8, <1>9, <1>11 DEF CollapseT
<1>13. CollapseTypeOK(n)
  BY <1>8, <1>10, <1>12 DEF CollapseTypeOK
<1>14. HeightHolds(n, FALSE)
  BY <1>7, <1>10 DEF CollapseHolds, HeightHolds
<1>15. L!ScrollHeight(n) = L!ScrollHeight(b)
  BY <1>10, SameScroll
<1> QED
  BY <1>1, <1>8, <1>13, <1>14, <1>15 DEF CollapseInv, CollapseHolds, n

LEMMA CollapseStep == ASSUME CollapseInv, L!CpNext PROVE CollapseInv'
<1> DEFINE n == L!Now
<1>1. /\ CollapseHolds(n, overtaken) /\ ~animSkip /\ isCollapsed = hides
      /\ lastScroll = L!ScrollHeight(n) /\ supported \in BOOLEAN /\ overtaken \in BOOLEAN
  BY DEF CollapseInv
<1>2. /\ n.isCollapsed = isCollapsed /\ n.animSkip = animSkip /\ n.height = height
      /\ n.running = running /\ n.unsettled = unsettled /\ n.expanding = expanding
      /\ n.steps = steps /\ n.content = contentHeight /\ n.lastScroll = lastScroll
  BY DEF L!Now
<1> HIDE DEF n
<1>3. n \in CollapseT /\ CollapseTypeOK(n) /\ HeightHolds(n, overtaken)
  BY <1>1 DEF CollapseHolds, CollapseTypeOK
<1>4. ASSUME NEW b, NEW past \in BOOLEAN, CollapseHolds(b, past), ~b.animSkip,
             L!Become(L!Watch(b)), overtaken' = past, hides' = b.isCollapsed
      PROVE  CollapseInv'
  <2> DEFINE w == L!Watch(b)
  <2>1. CollapseHolds(w, past)
    BY <1>4, WatchHolds
  <2>2. w.isCollapsed = b.isCollapsed /\ ~w.animSkip /\ w.lastScroll = L!ScrollHeight(w)
    <3>1. CollapseTypeOK(b)
      BY <1>4 DEF CollapseHolds
    <3> QED
      BY <1>4, <3>1, WatchSees
  <2>3. L!Become(w) /\ overtaken' = past /\ hides' = w.isCollapsed
    BY <1>4, <2>2
  <2> HIDE DEF w
  <2> QED
    BY <1>1, <2>1, <2>2, <2>3, CollapseBecomes
<1>5. ASSUME L!Toggle PROVE CollapseInv'
  <2> DEFINE seen == L!ScrollWatch(n)
             b == IF hides THEN L!Expand(seen) ELSE L!Hide(seen)
  <2>1. hides' = ~hides /\ overtaken' = overtaken /\ L!Become(L!Watch(b))
    BY <1>5 DEF L!Toggle, n
  <2>2. CollapseTypeOK(seen) /\ ~seen.animSkip
    BY <1>1, <1>2, <1>3, ScrollWatchIs
  <2> HIDE DEF seen
  <2>3. CollapseHolds(b, overtaken) /\ b.isCollapsed = hides' /\ b.animSkip = FALSE
    <3>1. hides \in BOOLEAN
      BY <1>1, <1>2, <1>3 DEF CollapseT
    <3>2. CASE hides
      BY <1>1, <2>1, <2>2, <3>2, ExpandHolds
    <3>3. CASE ~hides
      BY <1>1, <2>1, <2>2, <3>1, <3>3, HideHolds
    <3> QED
      BY <3>1, <3>2, <3>3
  <2> HIDE DEF b
  <2> QED
    BY <1>1, <1>4, <2>1, <2>3
<1>6. ASSUME NEW h \in Contents, L!Fill(h) PROVE CollapseInv'
  <2> DEFINE c == [n EXCEPT !.content = h]
             w == L!Watch(c)
             past == overtaken \/ steps # <<>> \/ running
  <2>1. L!Become(w) /\ overtaken' = past /\ hides' = hides
    BY <1>6 DEF L!Fill, n
  <2>2. CollapseHolds(w, past) /\ w.isCollapsed = hides /\ w.animSkip = FALSE
        /\ w.lastScroll = L!ScrollHeight(w)
    <3>1. c = [n EXCEPT !.content = h]
      OBVIOUS
    <3> HIDE DEF c
    <3> QED
      BY <1>1, <1>2, <3>1, FillHolds
  <2>3. past \in BOOLEAN
    BY <1>1, <1>2, <1>3 DEF CollapseT
  <2> HIDE DEF w, past
  <2> QED
    BY <1>1, <2>1, <2>2, <2>3, CollapseBecomes
<1>7. ASSUME L!Start PROVE CollapseInv'
  <2> DEFINE step == Head(steps)
             runs == supported /\ contentHeight # 0
                       /\ (running \/ (height # -1 /\ height # step.to))
             set == [n EXCEPT !.steps = Tail(steps), !.height = step.to, !.running = runs]
             freed == [set EXCEPT !.unsettled = unsettled \ {step.id}]
             b == IF supported \/ step.id \notin unsettled THEN set
                  ELSE L!ToldResolved(freed, {step.id})
  <2>1. steps # <<>> /\ hides' = hides /\ overtaken' = overtaken
    BY <1>7 DEF L!Start
  <2>2. steps \in Seq(StepT) /\ n.running \in BOOLEAN
    BY <1>2, <1>3 DEF CollapseT
  <2>3. /\ step \in StepT /\ Tail(steps) \in Seq(StepT) /\ Len(steps) \in Nat \ {0}
        /\ Tail(steps) = <<>> => step = steps[Len(steps)]
        /\ Tail(steps) # <<>> => Tail(steps)[Len(Tail(steps))] = steps[Len(steps)]
    BY <2>1, <2>2, LastOfRest
  <2>4. step.to \in Contents \cup {-1, 0}
    BY <2>3 DEF StepT
  <2>5. L!Become(L!Watch(b))
    <3>1. set = [n EXCEPT !.steps = Tail(@), !.height = step.to,
                          !.running = supported /\ contentHeight # 0
                                      /\ (@ \/ (height # L!Auto /\ height # step.to))]
      BY <1>2 DEF L!Auto
    <3>2. /\ set.unsettled = unsettled
      BY <1>2, <1>3 DEF CollapseT
    <3>3. freed = [set EXCEPT !.unsettled = @ \ {step.id}]
      BY <3>2
    <3> HIDE DEF set, freed
    <3> QED
      BY <1>7, <3>1, <3>3, Zenon DEF L!Start, n
  <2>6. runs \in BOOLEAN /\ (runs => supported)
    BY <1>1, <1>2, <2>2
  <2> HIDE DEF step, runs
  <2>7. /\ set \in CollapseT /\ set.steps = Tail(steps) /\ set.height = step.to /\ set.running = runs
        /\ set.isCollapsed = isCollapsed /\ set.animSkip = animSkip /\ set.content = contentHeight
        /\ set.unsettled = unsettled /\ set.expanding = expanding
        /\ set.currentTransition = n.currentTransition /\ set.started = n.started
    BY <1>2, <1>3, <2>3, <2>4, <2>6 DEF CollapseT
  <2> HIDE DEF set
  <2>8. CollapseTypeOK(set) /\ HeightHolds(set, overtaken)
    <3>1. CollapseTypeOK(set)
      BY <1>2, <1>3, <2>6, <2>7 DEF CollapseTypeOK
    <3>2. HeightHolds(set, overtaken)
      BY <1>2, <1>3, <2>1, <2>3, <2>7 DEF HeightHolds
    <3> QED
      BY <3>1, <3>2
  <2>9. /\ freed \in CollapseT /\ freed.steps = Tail(steps) /\ freed.height = step.to
        /\ freed.running = runs /\ freed.isCollapsed = isCollapsed /\ freed.animSkip = animSkip
        /\ freed.content = contentHeight /\ freed.unsettled = unsettled \ {step.id}
        /\ freed.expanding = expanding /\ freed.started = n.started
        /\ freed.currentTransition = n.currentTransition
    <3>1. unsettled \ {step.id} \in SUBSET Nat
      BY <1>2, <1>3 DEF CollapseT
    <3> QED
      BY <2>7, <3>1 DEF CollapseT
  <2> HIDE DEF freed
  <2>10. CollapseHolds(freed, overtaken)
    <3>1. CollapseTypeOK(freed)
      BY <1>2, <1>3, <2>6, <2>9 DEF CollapseTypeOK
    <3>2. HeightHolds(freed, overtaken)
      BY <2>7, <2>8, <2>9 DEF HeightHolds
    <3> QED
      BY <3>1, <3>2 DEF CollapseHolds
  <2>11. CollapseHolds(b, overtaken) /\ b.isCollapsed = isCollapsed /\ b.animSkip = animSkip
    <3>1. CASE supported \/ step.id \notin unsettled
      BY <2>7, <2>8, <3>1 DEF CollapseHolds
    <3>2. CASE ~(supported \/ step.id \notin unsettled)
      BY <1>1, <2>9, <2>10, <3>2, ToldResolvedHolds
    <3> QED
      BY <3>1, <3>2
  <2> HIDE DEF b
  <2> QED
    BY <1>1, <1>4, <2>1, <2>5, <2>11
<1>8. ASSUME L!EndOfMove PROVE CollapseInv'
  <2> DEFINE still == [n EXCEPT !.running = FALSE, !.unsettled = {}]
             b == L!ToldResolved(still, unsettled)
  <2>1. hides' = hides /\ overtaken' = overtaken /\ L!Become(L!Watch(b))
    BY <1>8 DEF L!EndOfMove, n
  <2>2. /\ still \in CollapseT /\ still.steps = steps /\ still.height = height
        /\ still.running = FALSE /\ still.isCollapsed = isCollapsed /\ still.animSkip = animSkip
        /\ still.content = contentHeight /\ still.unsettled = {} /\ still.expanding = expanding
        /\ still.started = n.started /\ still.currentTransition = n.currentTransition
    BY <1>2, <1>3 DEF CollapseT
  <2> HIDE DEF still
  <2>3. CollapseTypeOK(still)
    BY <1>2, <1>3, <2>2 DEF CollapseTypeOK
  <2>4. HeightHolds(still, overtaken)
    BY <1>2, <1>3, <2>2 DEF HeightHolds
  <2>5. CollapseHolds(b, overtaken) /\ b.isCollapsed = isCollapsed /\ b.animSkip = animSkip
    BY <1>1, <2>2, <2>3, <2>4, ToldResolvedHolds DEF CollapseHolds
  <2> HIDE DEF b
  <2> QED
    BY <1>1, <1>4, <2>1, <2>5
<1> QED
  BY <1>5, <1>6, <1>7, <1>8 DEF L!CpNext

LEMMA CollapseGives ==
  ASSUME CollapseInv
  PROVE  L!CpTypeOK /\ L!CollapsedIsHidden /\ L!ExpandedIsShown
<1> DEFINE n == L!Now
<1>1. /\ n.isCollapsed = isCollapsed /\ n.animSkip = animSkip /\ n.height = height
      /\ n.currentTransition = currentTransition /\ n.started = started
      /\ n.running = running /\ n.unsettled = unsettled /\ n.expanding = expanding
      /\ n.steps = steps /\ n.content = contentHeight
  BY DEF L!Now
<1> HIDE DEF n
<1>2. n \in CollapseT /\ CollapseTypeOK(n) /\ HeightHolds(n, overtaken)
  BY DEF CollapseInv, CollapseHolds, CollapseTypeOK, n
<1>3. height \in Contents \cup {-1, 0}
  BY <1>1, <1>2 DEF CollapseT
<1>4. L!CpTypeOK
  BY <1>1, <1>2, <1>3 DEF L!CpTypeOK, CollapseInv, CollapseTypeOK, L!Auto
<1>5. L!CollapsedIsHidden
  BY <1>1, <1>2 DEF L!CollapsedIsHidden, L!Quiet, HeightHolds
<1>6. L!ExpandedIsShown
  BY <1>1, <1>2 DEF L!ExpandedIsShown, L!Quiet, HeightHolds, L!Auto
<1> QED
  BY <1>4, <1>5, <1>6

-----------------------------------------------------------------------------
(* Slides *)

\* The operators of the module and the standard ones are the same.
LEMMA SlideOperators ==
  /\ \A f : C!Range(f) = Range(f) /\ (C!IsInjective(f) <=> IsInjective(f))
  /\ C!Cardinality(Slides) = Cardinality(Slides)
BY DEF C!Range, Range, C!IsInjective, IsInjective, C!Cardinality, Cardinality

\* In a list without repetition the index of a member is its place.
LEMMA PlaceIs ==
  ASSUME slides \in Seq(Slides), IsInjective(slides), NEW s \in Range(slides)
  PROVE  C!IndexOf(s) \in DOMAIN slides /\ slides[C!IndexOf(s)] = s
<1>1. \E i \in DOMAIN slides : slides[i] = s
  BY DEF Range
<1>2. C!IndexOf(s) = CHOOSE i \in DOMAIN slides : slides[i] = s
  BY SlideOperators DEF C!IndexOf
<1> QED
  BY <1>1, <1>2

\* A place in a list of slides is an index they may have.
LEMMA PlaceFits ==
  ASSUME NEW list \in Seq(Slides), IsInjective(list), NEW k \in DOMAIN list
  PROVE  k \in 1 .. Cardinality(Slides) /\ k \in 0 .. Cardinality(Slides) /\ list[k] \in Slides
<1>1. IsFiniteSet(Slides)
  BY WidgetsAssumption DEF WidgetsAssumption
<1>2. Len(list) <= Cardinality(Slides) /\ Cardinality(Slides) \in Nat
  BY <1>1, NoLongerThan
<1>3. k \in 1 .. Len(list) /\ Len(list) \in Nat /\ list[k] \in Slides
  OBVIOUS
<1> QED
  BY <1>2, <1>3

\* The end of a transition leaves what is not about it.
LEMMA TransitionDoneIs ==
  ASSUME NEW b \in SlidesT, NEW next \in Slides, NEW cur \in Slides \cup {NoSlide}
  PROVE  LET d == C!TransitionDone(b, next, cur)
         IN /\ d \in SlidesT /\ d.active = (b.active \cup {next}) \ {cur} /\ d.transition = 0
            /\ d.current = b.current /\ d.handlers = b.handlers /\ d.timeouts = b.timeouts
            /\ d.ended = b.ended /\ d.made = b.made
<1> DEFINE act == (b.active \cup {next}) \ {cur}
           leav == b.leaving \ {next, cur}
           d == [b EXCEPT !.active = act, !.leaving = leav, !.transition = 0]
<1>1. C!TransitionDone(b, next, cur) = d
  BY DEF C!TransitionDone
<1>2. act \in SUBSET Slides /\ leav \in SUBSET (Slides \cup {NoSlide}) /\ 0 \in Nat
  BY DEF SlidesT
<1> HIDE DEF act, leav
<1>3. /\ d \in SlidesT /\ d.active = act /\ d.transition = 0
      /\ d.current = b.current /\ d.handlers = b.handlers /\ d.timeouts = b.timeouts
      /\ d.ended = b.ended /\ d.made = b.made
  BY <1>2 DEF SlidesT
<1> HIDE DEF d
<1> QED
  BY <1>1, <1>3 DEF act

\* A slide is gone to at once, or by a transition of its own.
LEMMA GoNextIs ==
  ASSUME NEW b, SlidesTypeOK(b), NEW l \in LaterT, NEW animated \in BOOLEAN,
         NEW d, d = C!GoNext(b, l.slide, l.index, animated)
  PROVE  /\ SlidesTypeOK(d) /\ d.current = l /\ d.timeouts = b.timeouts /\ d.ended = b.ended
         /\ IF b.current.slide = NoSlide \/ ~animated
            THEN /\ d.active = (b.active \cup {l.slide}) \ {b.current.slide}
                 /\ d.transition = 0 /\ d.handlers = b.handlers
            ELSE /\ d.active = {l.slide} /\ d.transition = b.made + 1
                 /\ d.handlers = b.handlers \cup
                      {[id |-> b.made + 1, next |-> l.slide, cur |-> b.current.slide]}
<1> DEFINE cur == b.current.slide
           h == [id |-> b.made + 1, next |-> l.slide, cur |-> cur]
           hs == b.handlers \cup {h}
           done == C!TransitionDone(b, l.slide, cur)
           atOnce == [done EXCEPT !.current = l, !.timer = TRUE]
           moved == [b EXCEPT !.current = l, !.timer = TRUE, !.active = {l.slide},
                              !.leaving = {cur}, !.made = b.made + 1,
                              !.transition = b.made + 1, !.handlers = hs]
<1>1. b \in SlidesT /\ b.made \in Nat /\ b.handlers \subseteq HandlerT
  BY DEF SlidesTypeOK, SlidesT
<1>2. cur \in Slides \cup {NoSlide}
  BY <1>1 DEF SlidesT, CurrentT
<1>3. l = [slide |-> l.slide, index |-> l.index] /\ l.slide \in Slides
  BY DEF LaterT
<1>4. l \in CurrentT
  <2>1. l.index \in 1 .. Cardinality(Slides)
    BY DEF LaterT
  <2>2. l.index \in 0 .. Cardinality(Slides)
    BY <2>1
  <2> QED
    BY <1>3, <2>2 DEF CurrentT
<1>5. d = IF cur = NoSlide \/ ~animated THEN atOnce ELSE moved
  <2> DEFINE at == [slide |-> l.slide, index |-> l.index]
             going == [b EXCEPT !.current = at, !.timer = TRUE]
  <2>1. d = IF cur = NoSlide \/ ~animated
            THEN [done EXCEPT !.current = going.current, !.timer = TRUE]
            ELSE [going EXCEPT !.active = {l.slide}, !.leaving = {cur}, !.made = b.made + 1,
                               !.transition = b.made + 1, !.handlers = going.handlers \cup {h}]
    BY Zenon DEF C!GoNext
  <2>2. going.current = l /\ going.handlers = b.handlers /\ going = [b EXCEPT !.current = l, !.timer = TRUE]
    BY <1>1, <1>3, <1>4 DEF SlidesT
  <2> HIDE DEF done, going, h
  <2> QED
    BY <2>1, <2>2, Zenon
<1>6. /\ done \in SlidesT /\ done.active = (b.active \cup {l.slide}) \ {cur}
      /\ done.transition = 0 /\ done.handlers = b.handlers /\ done.timeouts = b.timeouts
      /\ done.ended = b.ended /\ done.made = b.made
  BY <1>1, <1>2, <1>3, TransitionDoneIs
<1> HIDE DEF done
<1>7. CASE cur = NoSlide \/ ~animated
  <2>1. /\ atOnce \in SlidesT /\ atOnce.current = l /\ atOnce.timeouts = done.timeouts
        /\ atOnce.ended = done.ended /\ atOnce.active = done.active
        /\ atOnce.transition = done.transition /\ atOnce.handlers = done.handlers
        /\ atOnce.made = done.made
    BY <1>4, <1>6 DEF SlidesT
  <2> HIDE DEF atOnce
  <2>2. SlidesTypeOK(atOnce)
    BY <1>6, <2>1 DEF SlidesTypeOK
  <2>3. d = atOnce
    BY <1>5, <1>7
  <2> QED
    BY <1>6, <1>7, <2>1, <2>2, <2>3
<1>8. CASE ~(cur = NoSlide \/ ~animated)
  <2>1. cur \in Slides /\ b.made + 1 \in Nat /\ h.id = b.made + 1
    BY <1>1, <1>2, <1>8
  <2>2. h \in HandlerT /\ hs \in SUBSET HandlerT
    BY <1>1, <1>3, <2>1 DEF HandlerT
  <2> HIDE DEF cur, h, hs
  <2>3. /\ {l.slide} \in SUBSET Slides /\ {cur} \in SUBSET (Slides \cup {NoSlide})
    BY <1>3, <2>1
  <2>4. /\ moved \in SlidesT /\ moved.current = l /\ moved.timeouts = b.timeouts
        /\ moved.ended = b.ended /\ moved.active = {l.slide}
        /\ moved.transition = b.made + 1 /\ moved.handlers = hs /\ moved.made = b.made + 1
    BY <1>1, <1>4, <2>1, <2>2, <2>3 DEF SlidesT
  <2> HIDE DEF moved
  <2>5. \A x \in hs : x.id \in 1 .. b.made + 1
    <3>1. \A x \in b.handlers : x.id \in 1 .. b.made
      BY DEF SlidesTypeOK
    <3>2. \A i \in 1 .. b.made : i \in 1 .. b.made + 1
      BY <1>1
    <3>3. b.made + 1 \in 1 .. b.made + 1
      BY <1>1
    <3> QED
      BY <2>1, <3>1, <3>2, <3>3 DEF hs
  <2>6. SlidesTypeOK(moved)
    BY <2>4, <2>5 DEF SlidesTypeOK
  <2>7. d = moved
    BY <1>5, <1>8
  <2> QED
    BY <1>8, <2>4, <2>6, <2>7 DEF hs, h, cur
<1> QED
  BY <1>7, <1>8

LEMMA GoesThere ==
  ASSUME NEW b, SlidesTypeOK(b), NEW l \in LaterT, NEW animated \in BOOLEAN
  PROVE  C!GoNext(b, l.slide, l.index, animated).current = l
<1> DEFINE d == C!GoNext(b, l.slide, l.index, animated)
<1>1. d = C!GoNext(b, l.slide, l.index, animated)
  OBVIOUS
<1> HIDE DEF d
<1>2. /\ SlidesTypeOK(d) /\ d.current = l /\ d.timeouts = b.timeouts /\ d.ended = b.ended
      /\ IF b.current.slide = NoSlide \/ ~animated
         THEN /\ d.active = (b.active \cup {l.slide}) \ {b.current.slide}
              /\ d.transition = 0 /\ d.handlers = b.handlers
         ELSE /\ d.active = {l.slide} /\ d.transition = b.made + 1
              /\ d.handlers = b.handlers \cup
                   {[id |-> b.made + 1, next |-> l.slide, cur |-> b.current.slide]}
  BY <1>1, GoNextIs
<1> QED
  BY <1>2 DEF d

\* With no transition on, going to a slide at its place leaves it the current one.
LEMMA GoNextHolds ==
  ASSUME NEW b, SlidesTypeOK(b), b.transition = 0, b.handlers = {},
         b.ended = <<>>, NEW l \in LaterT, l.slide # b.current.slide, NEW animated \in BOOLEAN,
         NEW list \in Seq(Slides), NEW seen,
         b.timeouts = <<>> =>
           /\ l.index \in DOMAIN list /\ list[l.index] = l.slide
           /\ (animated /\ b.current.slide # NoSlide)
              \/ \A s \in b.active \cap Range(list) :
                   s = l.slide \/ s = b.current.slide \/ ~seen[s]
  PROVE  SlidesHold(C!GoNext(b, l.slide, l.index, animated), list, seen)
<1> DEFINE d == C!GoNext(b, l.slide, l.index, animated)
           cur == b.current.slide
           h == [id |-> b.made + 1, next |-> l.slide, cur |-> cur]
<1>1. b \in SlidesT /\ b.made \in Nat /\ b.current \in CurrentT
  BY DEF SlidesTypeOK, SlidesT
<1>2. cur \in Slides \cup {NoSlide} /\ l.slide \in Slides /\ l.slide # NoSlide
  BY <1>1, WidgetsAssumption DEF CurrentT, LaterT, WidgetsAssumption
<1>3. /\ SlidesTypeOK(d) /\ d.current = l /\ d.timeouts = b.timeouts /\ d.ended = <<>>
      /\ IF cur = NoSlide \/ ~animated
         THEN /\ d.active = (b.active \cup {l.slide}) \ {cur}
              /\ d.transition = 0 /\ d.handlers = {}
         ELSE d.active = {l.slide} /\ d.transition = b.made + 1 /\ d.handlers = {h}
  <2>1. /\ SlidesTypeOK(d) /\ d.current = l /\ d.timeouts = b.timeouts /\ d.ended = b.ended
        /\ IF cur = NoSlide \/ ~animated
           THEN /\ d.active = (b.active \cup {l.slide}) \ {cur}
                /\ d.transition = 0 /\ d.handlers = b.handlers
           ELSE /\ d.active = {l.slide} /\ d.transition = b.made + 1
                /\ d.handlers = b.handlers \cup {h}
    <3> HIDE DEF d
    <3>1. d = C!GoNext(b, l.slide, l.index, animated)
      BY DEF d
    <3> QED
      BY <3>1, GoNextIs
  <2> HIDE DEF d, cur, h
  <2>2. b.handlers \cup {h} = {h}
    OBVIOUS
  <2> QED
    BY <2>1, <2>2
<1> HIDE DEF d
<1>4. TransitionHolds(d)
  <2>1. CASE cur = NoSlide \/ ~animated
    BY <1>3, <2>1 DEF TransitionHolds
  <2>2. CASE ~(cur = NoSlide \/ ~animated)
    <3>1. h \in HandlerT /\ h.id = b.made + 1 /\ h.next = l.slide /\ h.cur = cur /\ b.made + 1 # 0
      BY <1>1, <1>2, <2>2 DEF HandlerT
    <3> HIDE DEF h
    <3> QED
      BY <1>2, <1>3, <2>2, <3>1 DEF TransitionHolds
  <2> QED
    BY <2>1, <2>2
<1>5. /\ l.slide \in d.active
      /\ \A s \in d.active : s = l.slide \/ (s \in b.active /\ s # cur)
      /\ animated /\ cur # NoSlide => d.active = {l.slide}
  BY <1>3
<1> HIDE DEF cur, h
<1>6. CurrentHolds(d, list, seen)
  BY <1>2, <1>3, <1>5 DEF CurrentHolds, cur
<1> QED
  BY <1>3, <1>4, <1>6 DEF SlidesHold, d

\* Selecting the slide at a place of the list keeps what holds of the carousel: the current
\* one is not selected again, and a transition that is on is told to be over first.
LEMMA SelectHolds ==
  ASSUME NEW b, SlidesTypeOK(b), TransitionHolds(b), b.ended = <<>>,
         NEW list \in Seq(Slides), IsInjective(list), NEW k \in DOMAIN list, NEW animated \in BOOLEAN, NEW seen,
         IF b.current.slide = NoSlide THEN b.transition = 0 /\ b.timeouts = <<>>
         ELSE b.current.slide \in b.active,
         b.timeouts = <<>> =>
           \A s \in b.active \cap Range(list) : s = list[k] \/ s = b.current.slide \/ ~seen[s],
         list[k] = b.current.slide => CurrentHolds(b, list, seen)
  PROVE  SlidesHold(C!Select(b, list[k], k, animated), list, seen)
<1> DEFINE d == C!Select(b, list[k], k, animated)
           l == [slide |-> list[k], index |-> k]
<1>1. k \in 1 .. Cardinality(Slides) /\ list[k] \in Slides
  BY PlaceFits
<1>2. l \in LaterT /\ l.slide = list[k] /\ l.index = k
  BY <1>1 DEF LaterT
<1> HIDE DEF l
<1>3. CASE list[k] = b.current.slide
  BY <1>3 DEF C!Select, SlidesHold
<1>4. CASE list[k] # b.current.slide /\ b.transition = 0
  <2>1. b.handlers = {} /\ l.slide # b.current.slide
    BY <1>2, <1>4 DEF TransitionHolds
  <2>2. b.timeouts = <<>> =>
           /\ l.index \in DOMAIN list /\ list[l.index] = l.slide
           /\ \A s \in b.active \cap Range(list) :
                s = l.slide \/ s = b.current.slide \/ ~seen[s]
    BY <1>2
  <2>3. SlidesHold(C!GoNext(b, l.slide, l.index, animated), list, seen)
    BY <1>2, <1>4, <2>1, <2>2, GoNextHolds
  <2> QED
    BY <1>2, <1>4, <2>3 DEF C!Select
<1>5. CASE list[k] # b.current.slide /\ b.transition # 0
  <2> DEFINE hs == {x \in b.handlers : x.id # b.transition}
             es == b.ended \o C!Cancelled(b)
             ts == Append(b.timeouts, l)
             c == [b EXCEPT !.handlers = hs, !.ended = es, !.timeouts = ts]
  <2>1. b \in SlidesT /\ b.timeouts \in Seq(LaterT)
    BY DEF SlidesTypeOK, SlidesT
  <2>2. PICK h \in HandlerT : /\ h.id = b.transition /\ h.next = b.current.slide
                              /\ h.cur # b.current.slide /\ b.handlers = {h}
    BY <1>5 DEF TransitionHolds
  <2>3. hs = {}
    BY <2>2
  <2>4. es = <<h>>
    <3>1. {x \in b.handlers : x.id = b.transition} = {h}
      BY <2>2
    <3>2. C!Cancelled(b) = <<h>>
      BY <3>1 DEF C!Cancelled
    <3> QED
      BY <3>2
  <2>5. ts \in Seq(LaterT) /\ ts # <<>>
    BY <1>2, <2>1
  <2>6. d = c
    BY <1>5, Zenon DEF C!Select, l
  <2> HIDE DEF hs, es, ts, d
  <2>7. hs \in SUBSET HandlerT /\ es \in Seq(HandlerT)
    BY <2>3, <2>4
  <2>8. /\ c \in SlidesT /\ c.handlers = {} /\ c.ended = <<h>> /\ c.timeouts = ts
        /\ c.active = b.active /\ c.current = b.current /\ c.transition = b.transition
        /\ c.made = b.made
    BY <2>1, <2>3, <2>4, <2>5, <2>7 DEF SlidesT
  <2> HIDE DEF c
  <2>9. SlidesTypeOK(c)
    BY <2>8 DEF SlidesTypeOK
  <2>10. TransitionHolds(c)
    BY <1>5, <2>2, <2>8 DEF TransitionHolds
  <2>11. CurrentHolds(c, list, seen)
    BY <1>5, <2>5, <2>8 DEF CurrentHolds
  <2> QED
    BY <2>6, <2>9, <2>10, <2>11 DEF SlidesHold, d
<1> QED
  BY <1>3, <1>4, <1>5

\* The timer and the play button are not about what is shown.
LEMMA SlidesIgnore ==
  ASSUME NEW b, NEW list, NEW seen, SlidesHold(b, list, seen), NEW c \in SlidesT,
         c.active = b.active, c.current = b.current, c.transition = b.transition,
         c.handlers = b.handlers, c.timeouts = b.timeouts, c.ended = b.ended, c.made = b.made
  PROVE  SlidesHold(c, list, seen)
BY DEF SlidesHold, SlidesTypeOK, TransitionHolds, CurrentHolds

\* What holds of a record holds of the variables that become it.
LEMMA SlidesBecome ==
  ASSUME NEW b, SlidesTypeOK(b), C!Become(b), slides' \in Seq(Slides), IsInjective(slides'),
         last' \in [Slides -> BOOLEAN], late' \in BOOLEAN, ~late' => SlidesHold(b, slides', last')
  PROVE  SlidesInv'
<1> DEFINE n == C!Now'
<1>1. /\ active' = b.active /\ leaving' = b.leaving /\ current' = b.current
      /\ transition' = b.transition /\ handlers' = b.handlers /\ timeouts' = b.timeouts
      /\ ended' = b.ended /\ timer' = b.timer /\ playing' = b.playing /\ made' = b.made
  BY DEF C!Become
<1>2. n = [active |-> active', leaving |-> leaving', current |-> current',
           transition |-> transition', handlers |-> handlers', timeouts |-> timeouts',
           ended |-> ended', timer |-> timer', playing |-> playing', made |-> made']
  BY DEF C!Now
<1> HIDE DEF n
<1>3. b \in SlidesT
  BY DEF SlidesTypeOK
<1>4. n \in SlidesT
  BY <1>1, <1>2, <1>3 DEF SlidesT
<1>5. SlidesTypeOK(n)
  BY <1>1, <1>2, <1>4 DEF SlidesTypeOK
<1>6. ~late' => SlidesHold(n, slides', last')
  <2>1. TransitionHolds(b) => TransitionHolds(n)
    BY <1>1, <1>2 DEF TransitionHolds
  <2>2. CurrentHolds(b, slides', last') => CurrentHolds(n, slides', last')
    BY <1>1, <1>2 DEF CurrentHolds
  <2> QED
    BY <1>5, <2>1, <2>2 DEF SlidesHold
<1> QED
  BY <1>5, <1>6 DEF SlidesInv, n

\* The record of the variables.
LEMMA SlidesAre ==
  /\ C!Now.active = active /\ C!Now.leaving = leaving /\ C!Now.current = current
  /\ C!Now.transition = transition /\ C!Now.handlers = handlers /\ C!Now.timeouts = timeouts
  /\ C!Now.ended = ended /\ C!Now.timer = timer /\ C!Now.playing = playing /\ C!Now.made = made
BY DEF C!Now

LEMMA SlidesInit == ASSUME C!CaInit PROVE SlidesInv
<1> DEFINE n == C!Now
<1>1. /\ n.active = {} /\ n.leaving = {} /\ n.current = [slide |-> NoSlide, index |-> 0]
      /\ n.transition = 0 /\ n.handlers = {} /\ n.timeouts = <<>> /\ n.ended = <<>>
      /\ n.timer = FALSE /\ n.playing = FALSE /\ n.made = 0
      /\ n = [active |-> {}, leaving |-> {}, current |-> [slide |-> NoSlide, index |-> 0],
              transition |-> 0, handlers |-> {}, timeouts |-> <<>>, ended |-> <<>>,
              timer |-> FALSE, playing |-> FALSE, made |-> 0]
  BY DEF C!CaInit, C!Now
<1>2. slides = <<>> /\ last = [s \in Slides |-> FALSE] /\ late = FALSE
  BY DEF C!CaInit
<1> HIDE DEF n
<1>3. [slide |-> NoSlide, index |-> 0] \in CurrentT
  <2>1. IsFiniteSet(Slides)
    BY WidgetsAssumption DEF WidgetsAssumption
  <2>2. Cardinality(Slides) \in Nat
    BY <2>1, FS_CardinalityType
  <2>3. 0 \in 0 .. Cardinality(Slides)
    BY <2>2
  <2> QED
    BY <2>3 DEF CurrentT
<1>4. <<>> \in Seq(LaterT) /\ <<>> \in Seq(HandlerT) /\ slides \in Seq(Slides) /\ IsInjective(slides)
  BY <1>2 DEF IsInjective
<1>5. n \in SlidesT
  <2>1. {} \in SUBSET HandlerT /\ {} \in SUBSET Slides /\ {} \in SUBSET (Slides \cup {NoSlide})
        /\ 0 \in Nat
    OBVIOUS
  <2> DEFINE c == [slide |-> NoSlide, index |-> 0]
  <2>2. c \in CurrentT /\ n = [active |-> {}, leaving |-> {}, current |-> c,
              transition |-> 0, handlers |-> {}, timeouts |-> <<>>, ended |-> <<>>,
              timer |-> FALSE, playing |-> FALSE, made |-> 0]
    BY <1>1, <1>3
  <2> HIDE DEF c
  <2> QED
    BY <1>4, <2>1, <2>2 DEF SlidesT
<1>6. SlidesTypeOK(n)
  BY <1>1, <1>5 DEF SlidesTypeOK
<1>7. TransitionHolds(n)
  BY <1>1 DEF TransitionHolds
<1>8. CurrentHolds(n, slides, last)
  BY <1>1, <1>2 DEF CurrentHolds
<1> QED
  BY <1>2, <1>4, <1>6, <1>7, <1>8 DEF SlidesInv, SlidesHold, n

LEMMA SlidesGive ==
  ASSUME SlidesInv
  PROVE  C!CaTypeOK /\ C!OneActive /\ C!IndexOfCurrent
<1> DEFINE n == C!Now
<1>1. /\ n.active = active /\ n.current = current /\ n.transition = transition
      /\ n.handlers = handlers /\ n.timeouts = timeouts /\ n.made = made
  BY SlidesAre
<1>2. /\ slides \in Seq(Slides) /\ IsInjective(slides) /\ last \in [Slides -> BOOLEAN]
      /\ SlidesTypeOK(n) /\ (~late => SlidesHold(n, slides, last))
  BY DEF SlidesInv
<1> HIDE DEF n
<1>3. n \in SlidesT
  BY <1>2 DEF SlidesTypeOK
<1>4. /\ active \subseteq Slides /\ current.slide \in Slides \cup {NoSlide}
      /\ current.index \in 0 .. Cardinality(Slides)
  BY <1>1, <1>3 DEF SlidesT, CurrentT
<1>5. C!CaTypeOK
  <2>1. IsFiniteSet(Slides)
    BY WidgetsAssumption DEF WidgetsAssumption
  <2>2. Cardinality(Slides) \in Nat
    BY <2>1, FS_CardinalityType
  <2>3. \A i \in 0 .. Cardinality(Slides) : i \in -1 .. Cardinality(Slides)
    BY <2>2
  <2>4. current.index \in -1 .. C!Cardinality(Slides)
    BY <1>4, <2>3, SlideOperators
  <2>5. \A h \in handlers : h.id \in 1 .. made
    BY <1>1, <1>2 DEF SlidesTypeOK
  <2> QED
    BY <1>2, <1>4, <2>4, <2>5, SlideOperators DEF C!CaTypeOK
<1>6. C!Quiet /\ slides # <<>> =>
        /\ current.slide \in active /\ current.index \in DOMAIN slides
        /\ slides[current.index] = current.slide
        /\ \A s \in active \cap Range(slides) : s = current.slide \/ ~last[s]
  BY <1>1, <1>2 DEF C!Quiet, SlidesHold, CurrentHolds
<1>7. C!Watched => \A s \in active \cap Range(slides) : last[s]
  BY <1>2, <1>4, SlideOperators DEF C!Watched
<1>8. C!OneActive
  <2> SUFFICES ASSUME C!Quiet, slides # <<>> PROVE active \cap Range(slides) = {current.slide}
    BY SlideOperators DEF C!OneActive
  <2>1. current.slide \in active \cap Range(slides)
    BY <1>6 DEF Range
  <2>2. \A s \in active \cap Range(slides) : s = current.slide
    BY <1>6, <1>7 DEF C!Quiet
  <2> QED
    BY <2>1, <2>2
<1>9. C!IndexOfCurrent
  <2> SUFFICES ASSUME C!Quiet, current.slide \in Range(slides)
               PROVE  current.index = C!IndexOf(current.slide)
    BY SlideOperators DEF C!IndexOfCurrent
  <2>1. slides # <<>>
    BY DEF Range
  <2>2. C!IndexOf(current.slide) \in DOMAIN slides /\ slides[C!IndexOf(current.slide)] = current.slide
    BY <1>2, PlaceIs
  <2> QED
    BY <1>2, <1>6, <2>1, <2>2 DEF IsInjective
<1> QED
  BY <1>5, <1>8, <1>9

\* What SlidesInv says while no selection came late, about the variables.
LEMMA SlidesSay ==
  ASSUME SlidesInv, ~late
  PROVE  /\ slides \in Seq(Slides) /\ IsInjective(slides) /\ last \in [Slides -> BOOLEAN]
         /\ SlidesHold(C!Now, slides, last) /\ C!Now \in SlidesT
         /\ active \subseteq Slides /\ current \in CurrentT /\ timeouts \in Seq(LaterT)
         /\ transition \in Nat /\ ended \in Seq(HandlerT)
         /\ timer \in BOOLEAN /\ playing \in BOOLEAN
         /\ IF current.slide = NoSlide THEN transition = 0 /\ timeouts = <<>> /\ slides = <<>>
            ELSE current.slide \in active
         /\ timeouts = <<>> /\ slides # <<>> =>
              /\ current.index \in DOMAIN slides /\ slides[current.index] = current.slide
              /\ \A s \in active \cap Range(slides) : s = current.slide \/ ~last[s]
<1> DEFINE n == C!Now
<1>1. /\ n.active = active /\ n.current = current /\ n.transition = transition
      /\ n.timeouts = timeouts /\ n.ended = ended /\ n.timer = timer /\ n.playing = playing
  BY SlidesAre
<1>2. /\ slides \in Seq(Slides) /\ IsInjective(slides) /\ last \in [Slides -> BOOLEAN]
      /\ SlidesHold(n, slides, last)
  BY DEF SlidesInv
<1> HIDE DEF n
<1>3. n \in SlidesT
  BY <1>2 DEF SlidesHold, SlidesTypeOK
<1>4. /\ active \subseteq Slides /\ current \in CurrentT /\ timeouts \in Seq(LaterT)
      /\ transition \in Nat /\ ended \in Seq(HandlerT) /\ timer \in BOOLEAN /\ playing \in BOOLEAN
  BY <1>1, <1>3 DEF SlidesT
<1> QED
  BY <1>1, <1>2, <1>3, <1>4 DEF SlidesHold, CurrentHolds, n

\* Selecting a slide of the list, the watchers of the others being as they are.
LEMMA SelectNowHolds ==
  ASSUME SlidesInv, ~late, ended = <<>>, NEW k \in DOMAIN slides, NEW animated \in BOOLEAN,
         NEW seen, \A s \in Slides : s # slides[k] => seen[s] = last[s]
  PROVE  SlidesHold(C!Select(C!Now, slides[k], k, animated), slides, seen)
<1> DEFINE n == C!Now
<1>1. /\ n.active = active /\ n.current = current /\ n.transition = transition
      /\ n.timeouts = timeouts /\ n.ended = ended
  BY SlidesAre
<1>2. /\ slides \in Seq(Slides) /\ IsInjective(slides) /\ SlidesHold(n, slides, last)
      /\ active \subseteq Slides
      /\ IF current.slide = NoSlide THEN transition = 0 /\ timeouts = <<>> /\ slides = <<>>
         ELSE current.slide \in active
      /\ timeouts = <<>> /\ slides # <<>> =>
           /\ current.index \in DOMAIN slides /\ slides[current.index] = current.slide
           /\ \A s \in active \cap Range(slides) : s = current.slide \/ ~last[s]
  BY SlidesSay
<1> HIDE DEF n
<1>3. slides # <<>>
  OBVIOUS
<1>4. n.timeouts = <<>> =>
        \A s \in n.active \cap Range(slides) :
          s = slides[k] \/ s = n.current.slide \/ ~seen[s]
  BY <1>1, <1>2, <1>3
<1>5. slides[k] = n.current.slide => CurrentHolds(n, slides, seen)
  BY <1>1, <1>2, <1>3 DEF CurrentHolds
<1>6. IF n.current.slide = NoSlide THEN n.transition = 0 /\ n.timeouts = <<>>
      ELSE n.current.slide \in n.active
  BY <1>1, <1>2
<1>7. SlidesTypeOK(n) /\ TransitionHolds(n) /\ n.ended = <<>>
  BY <1>1, <1>2 DEF SlidesHold
<1>8. SlidesHold(C!Select(n, slides[k], k, animated), slides, seen)
  BY <1>2, <1>4, <1>5, <1>6, <1>7, SelectHolds
<1> QED
  BY <1>8 DEF n

\* next() and prev() lead to a place of the list.
LEMMA StepHolds ==
  ASSUME SlidesInv, ~late, ended = <<>>, NEW by \in {1, -1}
  PROVE  SlidesHold(C!Step(C!Now, by), slides, last)
<1>1. C!Now.transition = transition /\ C!Now.current = current
  BY SlidesAre
<1>2. slides \in Seq(Slides) /\ SlidesHold(C!Now, slides, last) /\ current \in CurrentT
  BY SlidesSay
<1>3. CASE transition # 0 \/ slides = <<>>
  BY <1>1, <1>2, <1>3 DEF C!Step
<1>4. CASE ~(transition # 0 \/ slides = <<>>)
  <2> DEFINE k == ((current.index - 1 + by) % Len(slides)) + 1
  <2>1. k \in DOMAIN slides
    <3>1. current.index \in Int
      <4>1. current.index \in 0 .. Cardinality(Slides)
        BY <1>2 DEF CurrentT
      <4> QED
        BY <4>1
    <3>2. PICK l \in Nat \ {0} : l = Len(slides) /\ DOMAIN slides = 1 .. l
      BY <1>2, <1>4
    <3>3. PICK i \in Int : i = current.index - 1 + by
      BY <3>1
    <3>4. i % l \in 0 .. l - 1
      BY <3>2
    <3> QED
      BY <3>2, <3>3, <3>4
  <2> HIDE DEF k
  <2>2. SlidesHold(C!Select(C!Now, slides[k], k, TRUE), slides, last)
    BY <2>1, SelectNowHolds
  <2> QED
    BY <1>1, <1>4, <2>2 DEF C!Step, k
<1> QED
  BY <1>3, <1>4

\* A slide that is taken away: a neighbour is selected in its stead when it was active, and
\* the index moves with the current one when it was not.
LEMMA RemoveSlideStep ==
  ASSUME SlidesInv, ~late, NEW s \in Slides, C!RemoveSlide(s)
  PROVE  SlidesInv'
<1> DEFINE n == C!Now
           k == C!IndexOf(s)
           left == Spliced(slides, k)
           j == IF k > Len(left) THEN k - 1 ELSE k
           cut == [current EXCEPT !.index = C!Shifted(k)]
           moved == [n EXCEPT !.current = cut]
<1>1. /\ n.active = active /\ n.current = current /\ n.transition = transition
      /\ n.handlers = handlers /\ n.timeouts = timeouts /\ n.ended = ended /\ n.made = made
  BY SlidesAre
<1>2. /\ slides \in Seq(Slides) /\ IsInjective(slides) /\ last \in [Slides -> BOOLEAN]
      /\ SlidesHold(n, slides, last) /\ n \in SlidesT /\ active \subseteq Slides
      /\ current \in CurrentT
      /\ IF current.slide = NoSlide THEN transition = 0 /\ timeouts = <<>> /\ slides = <<>>
         ELSE current.slide \in active
      /\ timeouts = <<>> /\ slides # <<>> =>
           /\ current.index \in DOMAIN slides /\ slides[current.index] = current.slide
           /\ \A x \in active \cap Range(slides) : x = current.slide \/ ~last[x]
  BY SlidesSay
<1>3. /\ ended = <<>> /\ s \in Range(slides) /\ last' = last /\ late' = late
      /\ \A x \in Range(slides) : last[x] = (x \in active)
  BY <1>2, SlideOperators DEF C!RemoveSlide, C!Selecting, C!Told, C!Watched, Range
<1>4. k \in DOMAIN slides /\ slides[k] = s
  BY <1>2, <1>3, PlaceIs
<1>5. /\ slides' = left
      /\ \E animated \in BOOLEAN :
           IF left # <<>> /\ s \in active THEN C!Become(C!Select(n, left[j], j, animated))
           ELSE C!Become([n EXCEPT !.current.index = C!Shifted(k)])
  BY Zenon DEF C!RemoveSlide, Spliced
<1> HIDE DEF n, k, left
<1>6. /\ left \in Seq(Slides) /\ Len(left) = Len(slides) - 1
      /\ \A i \in 1 .. Len(slides) - 1 : left[i] = IF i < k THEN slides[i] ELSE slides[i + 1]
      /\ IsInjective(left) /\ Range(left) = Range(slides) \ {s}
  BY <1>2, <1>4, SplicedIs, SplicedKeeps DEF left
<1>7. PICK m \in Nat \ {0} : /\ m = Len(slides) /\ DOMAIN slides = 1 .. m /\ k \in 1 .. m
                             /\ Len(left) = m - 1 /\ DOMAIN left = 1 .. m - 1
  BY <1>2, <1>4, <1>6
<1>8. slides # <<>>
  BY <1>4
<1>9. CASE left # <<>> /\ s \in active
  <2>1. PICK animated \in BOOLEAN : C!Become(C!Select(n, left[j], j, animated))
    BY <1>5, <1>9
  <2>2. j \in DOMAIN left
    <3>1. m - 1 # 0
      BY <1>6, <1>7, <1>9
    <3> QED
      BY <1>7, <3>1
  <2>3. left[j] \in Range(left)
    BY <2>2 DEF Range
  <2> HIDE DEF j
  <2>4. left[j] # s
    BY <1>6, <2>3
  <2>5. timeouts = <<>> => current.slide = s
    BY <1>2, <1>3, <1>8, <1>9
  <2>6. n.timeouts = <<>> =>
          \A x \in n.active \cap Range(left) : x = left[j] \/ x = n.current.slide \/ ~last[x]
    BY <1>1, <1>2, <1>6, <1>8
  <2>7. left[j] = n.current.slide => CurrentHolds(n, left, last)
    BY <1>1, <1>2, <1>8, <2>4, <2>5 DEF CurrentHolds
  <2>8. SlidesTypeOK(n) /\ TransitionHolds(n) /\ n.ended = <<>>
    BY <1>1, <1>2, <1>3 DEF SlidesHold
  <2>9. IF n.current.slide = NoSlide THEN n.transition = 0 /\ n.timeouts = <<>>
        ELSE n.current.slide \in n.active
    BY <1>1, <1>2
  <2>10. SlidesHold(C!Select(n, left[j], j, animated), left, last)
    BY <1>6, <2>2, <2>6, <2>7, <2>8, <2>9, SelectHolds
  <2> QED
    BY <1>2, <1>3, <1>5, <1>6, <2>1, <2>10, SlidesBecome DEF SlidesHold, SlidesInv
<1>10. CASE ~(left # <<>> /\ s \in active)
  <2>1. C!Become(moved)
    <3>1. C!Become([n EXCEPT !.current.index = C!Shifted(k)])
      BY <1>5, <1>10
    <3>2. [n EXCEPT !.current.index = C!Shifted(k)] = moved
      BY <1>1, <1>2 DEF SlidesT
    <3> QED
      BY <3>1, <3>2
  <2>2. PICK i \in Nat : i = current.index
    <3>1. current.index \in 0 .. Cardinality(Slides)
      BY <1>2 DEF CurrentT
    <3> QED
      BY <3>1
  <2>3. C!Shifted(k) = IF i > k THEN i - 1 ELSE i
    BY <2>2 DEF C!Shifted
  <2>4. cut \in CurrentT /\ cut.slide = current.slide /\ cut.index = C!Shifted(k)
    <3>1. C!Shifted(k) \in 0 .. Cardinality(Slides)
      <4>1. i \in 0 .. Cardinality(Slides) /\ Cardinality(Slides) \in Nat
        <5>1. IsFiniteSet(Slides)
          BY WidgetsAssumption DEF WidgetsAssumption
        <5> QED
          BY <1>2, <2>2, <5>1, FS_CardinalityType DEF CurrentT
      <4> QED
        BY <1>7, <2>3, <4>1
    <3> HIDE DEF k
    <3> QED
      BY <1>2, <3>1 DEF CurrentT
  <2> HIDE DEF cut
  <2>5. /\ moved \in SlidesT /\ moved.active = active /\ moved.current = cut
        /\ moved.transition = transition /\ moved.handlers = handlers
        /\ moved.timeouts = timeouts /\ moved.ended = ended /\ moved.made = made
    BY <1>1, <1>2, <2>4 DEF SlidesT
  <2> HIDE DEF moved
  <2>6. SlidesTypeOK(moved)
    BY <1>1, <1>2, <2>5 DEF SlidesTypeOK, SlidesHold
  <2>7. TransitionHolds(moved)
    BY <1>1, <1>2, <2>4, <2>5 DEF TransitionHolds, SlidesHold
  <2>8. ASSUME timeouts = <<>>, left # <<>>
        PROVE  /\ cut.index \in DOMAIN left /\ left[cut.index] = current.slide
               /\ \A x \in active \cap Range(left) : x = current.slide \/ ~last[x]
    <3>1. s \notin active /\ current.slide \in active
      BY <1>2, <1>8, <1>10, <2>8
    <3>2. i \in 1 .. m /\ slides[i] = current.slide /\ i # k
      BY <1>2, <1>4, <1>7, <1>8, <2>2, <2>8, <3>1
    <3>3. cut.index = IF i > k THEN i - 1 ELSE i
      BY <2>3, <2>4
    <3>4. cut.index \in 1 .. m - 1 /\ left[cut.index] = slides[i]
      <4>1. CASE i > k
        <5>1. i - 1 \in 1 .. m - 1 /\ ~(i - 1 < k) /\ (i - 1) + 1 = i
          BY <1>7, <3>2, <4>1
        <5>2. left[i - 1] = slides[(i - 1) + 1]
          BY <1>6, <1>7, <5>1
        <5> QED
          BY <3>3, <4>1, <5>1, <5>2
      <4>2. CASE ~(i > k)
        <5>1. i \in 1 .. m - 1 /\ i < k
          BY <1>7, <3>2, <4>2
        <5>2. left[i] = slides[i]
          BY <1>6, <1>7, <5>1
        <5> QED
          BY <3>3, <4>2, <5>1, <5>2
      <4> QED
        BY <4>1, <4>2
    <3> QED
      BY <1>2, <1>6, <1>7, <1>8, <2>8, <3>2, <3>4
  <2>9. CurrentHolds(moved, left, last)
    BY <1>2, <1>8, <2>4, <2>5, <2>8 DEF CurrentHolds
  <2> QED
    BY <1>2, <1>3, <1>5, <1>6, <2>1, <2>6, <2>7, <2>9, SlidesBecome DEF SlidesHold, SlidesInv
<1> QED
  BY <1>9, <1>10

\* A slide that comes with active set: selected twice, at once or, during a transition, by
\* two selections that are put off, of which the first cancels the transition.
LEMMA SelectActiveHolds ==
  ASSUME SlidesInv, ~late, ended = <<>>, NEW s \in Slides, s # current.slide,
         current.slide # NoSlide, current.slide \in active,
         NEW list \in Seq(Slides), IsInjective(list), NEW k \in DOMAIN list, list[k] = s,
         k = Len(slides) + 1, NEW seen,
         \A x \in (active \cup {s}) \cap Range(list) :
           timeouts = <<>> => x = s \/ x = current.slide \/ ~seen[x]
  PROVE  SlidesHold(C!SelectActive(s), list, seen)
<1> DEFINE n == C!Now
           came == [n EXCEPT !.active = n.active \cup {s}]
           one == C!Select(came, s, k, TRUE)
           two == C!Select(one, s, k, TRUE)
           l == [slide |-> s, index |-> k]
<1>1. /\ n.active = active /\ n.current = current /\ n.transition = transition
      /\ n.handlers = handlers /\ n.timeouts = timeouts /\ n.ended = ended /\ n.made = made
  BY SlidesAre
<1>2. SlidesTypeOK(n) /\ TransitionHolds(n) /\ n \in SlidesT
  BY SlidesSay DEF SlidesHold
<1>3. C!SelectActive(s) = two
  BY DEF C!SelectActive
<1> HIDE DEF n
<1>4. /\ came \in SlidesT /\ came.active = active \cup {s} /\ came.current = current
      /\ came.transition = transition /\ came.handlers = handlers
      /\ came.timeouts = timeouts /\ came.ended = <<>> /\ came.made = made
  BY <1>1, <1>2 DEF SlidesT
<1> HIDE DEF came
<1>5. SlidesTypeOK(came) /\ TransitionHolds(came)
  BY <1>1, <1>2, <1>4 DEF SlidesTypeOK, TransitionHolds
<1>6. SlidesHold(one, list, seen)
  <2>1. IF came.current.slide = NoSlide THEN came.transition = 0 /\ came.timeouts = <<>>
        ELSE came.current.slide \in came.active
    BY <1>4
  <2>2. came.timeouts = <<>> =>
          \A x \in came.active \cap Range(list) :
            x = list[k] \/ x = came.current.slide \/ ~seen[x]
    BY <1>4
  <2>3. list[k] # came.current.slide
    BY <1>4
  <2>4. SlidesHold(C!Select(came, list[k], k, TRUE), list, seen)
    BY <1>4, <1>5, <2>1, <2>2, <2>3, SelectHolds
  <2> QED
    BY <2>4
<1>7. CASE transition = 0
  <2>1. one = C!GoNext(came, s, k, TRUE)
    BY <1>4, <1>7 DEF C!Select
  <2>2. one.current.slide = s
    <3>1. k \in 1 .. Cardinality(Slides)
      BY PlaceFits
    <3>2. l \in LaterT /\ l.slide = s /\ l.index = k
      BY <3>1 DEF LaterT
    <3> HIDE DEF one, l
    <3>3. one = C!GoNext(came, l.slide, l.index, TRUE)
      BY <2>1, <3>2
    <3>4. one.current = l
      <4>1. TRUE \in BOOLEAN
        OBVIOUS
      <4> QED
        BY <1>5, <3>2, <3>3, <4>1, GoesThere, Zenon
    <3> QED
      BY <3>2, <3>4
  <2>3. two = one
    BY <2>2 DEF C!Select
  <2> QED
    BY <1>3, <1>6, <2>3
<1>8. CASE transition # 0
  <2>1. one = [came EXCEPT !.handlers = {h \in came.handlers : h.id # came.transition},
                           !.ended = came.ended \o C!Cancelled(came),
                           !.timeouts = Append(came.timeouts, l)]
    BY <1>4, <1>8 DEF C!Select
  <2>2. one \in SlidesT
    BY <1>6 DEF SlidesHold, SlidesTypeOK
  <2>3. one.current = current /\ one.transition = transition /\ one.active = active \cup {s}
        /\ one.made = made
    BY <1>4, <2>1 DEF SlidesT
  <2> HIDE DEF one
  <2>4. PICK h \in HandlerT : /\ h.id = transition /\ h.next = current.slide
                              /\ h.cur # current.slide /\ came.handlers = {h}
    BY <1>4, <1>5, <1>8 DEF TransitionHolds
  <2>5. one.handlers = {} /\ one.ended # <<>>
    <3> DEFINE hs == {x \in came.handlers : x.id # came.transition}
               es == came.ended \o C!Cancelled(came)
    <3>1. hs = {}
      BY <1>4, <2>4
    <3>2. {x \in came.handlers : x.id = came.transition} = {h}
      BY <1>4, <2>4
    <3>3. C!Cancelled(came) = <<h>>
      BY <3>2 DEF C!Cancelled
    <3>4. es = <<h>>
      BY <1>4, <3>3
    <3>5. one = [came EXCEPT !.handlers = hs, !.ended = es, !.timeouts = Append(came.timeouts, l)]
      BY <2>1
    <3> HIDE DEF hs, es
    <3>6. one.handlers = hs /\ one.ended = es
      BY <1>4, <3>5 DEF SlidesT
    <3> QED
      BY <3>1, <3>4, <3>6
  <2>6. C!Cancelled(one) = <<>>
    BY <2>5 DEF C!Cancelled
  <2> DEFINE ts == Append(one.timeouts, l)
             c == [one EXCEPT !.timeouts = ts]
  <2>7. ts \in Seq(LaterT) /\ ts # <<>>
    <3>1. k \in 1 .. Cardinality(Slides)
      BY PlaceFits
    <3>2. l \in LaterT
      BY <3>1 DEF LaterT
    <3>3. one.timeouts \in Seq(LaterT)
      BY <2>2 DEF SlidesT
    <3> QED
      BY <3>2, <3>3
  <2>8. two = c
    <3>1. two = [one EXCEPT !.handlers = {x \in one.handlers : x.id # one.transition},
                            !.ended = one.ended \o C!Cancelled(one), !.timeouts = ts]
      <4>1. s # one.current.slide /\ one.transition # 0
        BY <1>8, <2>3
      <4> QED
        BY <4>1, Zenon DEF C!Select, two, ts, l
    <3>2. one.ended \o C!Cancelled(one) = one.ended
      BY <2>2, <2>6 DEF SlidesT
    <3>3. {x \in one.handlers : x.id # one.transition} = one.handlers
      BY <2>5
    <3> QED
      BY <2>2, <3>1, <3>2, <3>3 DEF SlidesT
  <2> HIDE DEF ts, two
  <2>9. /\ c \in SlidesT /\ c.handlers = one.handlers /\ c.ended = one.ended /\ c.timeouts = ts
        /\ c.active = one.active /\ c.current = one.current /\ c.transition = one.transition
        /\ c.made = one.made
    BY <2>2, <2>7 DEF SlidesT
  <2> HIDE DEF c
  <2>10. SlidesTypeOK(c) /\ TransitionHolds(c)
    BY <1>6, <2>9 DEF SlidesHold, SlidesTypeOK, TransitionHolds
  <2>11. CurrentHolds(c, list, seen)
    BY <2>3, <2>7, <2>9 DEF CurrentHolds
  <2> QED
    BY <1>3, <2>8, <2>10, <2>11 DEF SlidesHold
<1> QED
  BY <1>7, <1>8

\* The first slide is selected; the others come after the current one.
LEMMA AddSlideStep ==
  ASSUME SlidesInv, ~late, NEW s \in Slides, C!AddSlide(s)
  PROVE  SlidesInv'
<1> DEFINE n == C!Now
           list == Append(slides, s)
<1>1. /\ n.active = active /\ n.current = current /\ n.transition = transition
      /\ n.handlers = handlers /\ n.timeouts = timeouts /\ n.ended = ended /\ n.made = made
  BY SlidesAre
<1>2. /\ slides \in Seq(Slides) /\ IsInjective(slides) /\ last \in [Slides -> BOOLEAN]
      /\ SlidesHold(n, slides, last) /\ active \subseteq Slides
      /\ IF current.slide = NoSlide THEN transition = 0 /\ timeouts = <<>> /\ slides = <<>>
         ELSE current.slide \in active
      /\ timeouts = <<>> /\ slides # <<>> =>
           /\ current.index \in DOMAIN slides /\ slides[current.index] = current.slide
           /\ \A x \in active \cap Range(slides) : x = current.slide \/ ~last[x]
  BY SlidesSay
<1>3. /\ ended = <<>> /\ s \notin Range(slides) /\ s # current.slide /\ s \notin active
      /\ slides' = list /\ late' = late
  BY SlideOperators DEF C!AddSlide, C!Told
<1>4. PICK m \in Nat : /\ m = Len(slides) /\ DOMAIN slides = 1 .. m /\ DOMAIN list = 1 .. m + 1
                       /\ list \in Seq(Slides) /\ list[m + 1] = s
                       /\ \A i \in 1 .. m : list[i] = slides[i]
  BY <1>2
<1>5. \/ /\ slides = <<>> /\ last' = last
         /\ C!Become([C!Select(n, s, 1, TRUE) EXCEPT !.playing = TRUE, !.timer = TRUE])
      \/ /\ slides # <<>> /\ last' = [last EXCEPT ![s] = TRUE]
         /\ C!Become(C!SelectActive(s))
      \/ /\ slides # <<>> /\ last' = last
         /\ UNCHANGED <<active, leaving, current, transition, handlers, timeouts, ended, timer,
                        playing, made>>
  BY Zenon DEF C!AddSlide
<1> HIDE DEF n, list
<1>6. IsInjective(list) /\ Range(list) = Range(slides) \cup {s}
  <2>1. \A i \in 1 .. m : slides[i] \in Range(slides)
    BY <1>4 DEF Range
  <2>2. \A i \in 1 .. m + 1 : i \in 1 .. m \/ i = m + 1
    OBVIOUS
  <2>3. IsInjective(list)
    <3> SUFFICES ASSUME NEW i \in 1 .. m + 1, NEW p \in 1 .. m + 1, list[i] = list[p] PROVE i = p
      BY <1>4 DEF IsInjective
    <3> QED
      BY <1>2, <1>3, <1>4, <2>1, <2>2 DEF IsInjective
  <2>4. \A i \in 1 .. m : i \in 1 .. m + 1
    OBVIOUS
  <2>5. m + 1 \in 1 .. m + 1
    OBVIOUS
  <2> QED
    BY <1>4, <2>2, <2>3, <2>4, <2>5 DEF Range
<1>7. CASE slides = <<>>
  <2> DEFINE d == C!Select(n, s, 1, TRUE)
             e == [d EXCEPT !.playing = TRUE, !.timer = TRUE]
  <2>1. 1 \in DOMAIN list /\ list[1] = s /\ Range(slides) = {}
    <3>1. m = 0
      BY <1>4, <1>7
    <3>2. DOMAIN list = 1 .. 1 /\ list[1] = s
      BY <1>4, <3>1
    <3> QED
      BY <1>7, <3>2 DEF Range
  <2>2. \A x \in n.active \cap Range(list) : x = list[1] \/ x = n.current.slide \/ ~last[x]
    BY <1>6, <2>1
  <2>3. IF n.current.slide = NoSlide THEN n.transition = 0 /\ n.timeouts = <<>>
        ELSE n.current.slide \in n.active
    BY <1>1, <1>2
  <2>4. SlidesTypeOK(n) /\ TransitionHolds(n) /\ n.ended = <<>> /\ list[1] # n.current.slide
    BY <1>1, <1>2, <1>3, <2>1 DEF SlidesHold
  <2>5. SlidesHold(C!Select(n, list[1], 1, TRUE), list, last)
    BY <1>4, <1>6, <2>1, <2>2, <2>3, <2>4, SelectHolds
  <2>6. SlidesHold(d, list, last)
    BY <2>1, <2>5
  <2>7. C!Become(e) /\ last' = last
    BY <1>5, <1>7
  <2> HIDE DEF d
  <2>8. /\ e \in SlidesT /\ e.active = d.active /\ e.current = d.current
        /\ e.transition = d.transition /\ e.handlers = d.handlers
        /\ e.timeouts = d.timeouts /\ e.ended = d.ended /\ e.made = d.made
    BY <2>6 DEF SlidesHold, SlidesTypeOK, SlidesT
  <2> HIDE DEF e
  <2>9. SlidesHold(e, list, last)
    BY <2>6, <2>8, SlidesIgnore
  <2> QED
    BY <1>2, <1>3, <1>4, <1>6, <2>7, <2>9, SlidesBecome DEF SlidesHold, SlidesInv
<1>8. CASE slides # <<>> /\ last' = last
           /\ UNCHANGED <<active, leaving, current, transition, handlers, timeouts, ended, timer,
                          playing, made>>
  <2>1. C!Become(n)
    BY <1>8 DEF n, C!Become, C!Now
  <2>2. \A x \in active \cap Range(list) : x \in active \cap Range(slides)
    BY <1>3, <1>6
  <2>3. timeouts = <<>> => current.index \in 1 .. m + 1 /\ list[current.index] = current.slide
    <3>1. \A i \in 1 .. m : i \in 1 .. m + 1
      OBVIOUS
    <3> QED
      BY <1>2, <1>4, <1>8, <3>1
  <2>4. CurrentHolds(n, list, last)
    BY <1>1, <1>2, <1>4, <1>8, <2>2, <2>3 DEF CurrentHolds
  <2> QED
    BY <1>2, <1>3, <1>4, <1>6, <1>8, <2>1, <2>4, SlidesBecome DEF SlidesHold, SlidesInv
<1>9. CASE slides # <<>> /\ last' = [last EXCEPT ![s] = TRUE] /\ C!Become(C!SelectActive(s))
  <2>1. last' \in [Slides -> BOOLEAN] /\ \A x \in Slides : x # s => last'[x] = last[x]
    BY <1>2, <1>9
  <2>2. m + 1 \in DOMAIN list /\ Len(slides) + 1 = m + 1
    <3>1. m + 1 \in 1 .. m + 1
      OBVIOUS
    <3> QED
      BY <1>4, <3>1
  <2>3. current.slide # NoSlide /\ current.slide \in active
    BY <1>2, <1>9
  <2>4. \A x \in (active \cup {s}) \cap Range(list) :
          timeouts = <<>> => x = s \/ x = current.slide \/ ~last'[x]
    BY <1>2, <1>6, <1>9, <2>1
  <2>5. SlidesHold(C!SelectActive(s), list, last')
    BY <1>2, <1>3, <1>4, <1>6, <2>1, <2>2, <2>3, <2>4, SelectActiveHolds
  <2> QED
    BY <1>2, <1>3, <1>4, <1>6, <1>9, <2>1, <2>5, SlidesBecome DEF SlidesHold, SlidesInv
<1> QED
  BY <1>5, <1>7, <1>8, <1>9

\* The end of a transition: its promise is told, and the slide it left is no longer active.
LEMMA ThenHolds ==
  ASSUME SlidesInv, ~late, ended # <<>>
  PROVE  SlidesHold(C!TransitionDone([C!Now EXCEPT !.ended = Tail(@)], Head(ended).next,
                                     Head(ended).cur), slides, last)
<1> DEFINE n == C!Now
           told == [n EXCEPT !.ended = Tail(ended)]
<1>1. /\ n.active = active /\ n.current = current /\ n.transition = transition
      /\ n.handlers = handlers /\ n.timeouts = timeouts /\ n.ended = ended /\ n.made = made
  BY SlidesAre
<1>2. /\ SlidesHold(n, slides, last) /\ n \in SlidesT /\ current \in CurrentT
      /\ IF current.slide = NoSlide THEN transition = 0 /\ timeouts = <<>> /\ slides = <<>>
         ELSE current.slide \in active
      /\ timeouts = <<>> /\ slides # <<>> =>
           /\ current.index \in DOMAIN slides /\ slides[current.index] = current.slide
           /\ \A x \in active \cap Range(slides) : x = current.slide \/ ~last[x]
  BY SlidesSay
<1> HIDE DEF n
<1>3. PICK h \in HandlerT : /\ h.id = transition /\ h.next = current.slide
                            /\ h.cur # current.slide /\ current.slide \in Slides
                            /\ handlers = {} /\ ended = <<h>>
  BY <1>1, <1>2 DEF SlidesHold, TransitionHolds
<1>4. Head(ended) = h /\ Tail(ended) = <<>>
  <2>1. \A x : Head(<<x>>) = x /\ Tail(<<x>>) = <<>>
    OBVIOUS
  <2> QED
    BY <1>3, <2>1
<1>5. [n EXCEPT !.ended = Tail(@)] = told
  BY <1>1, <1>2 DEF SlidesT
<1>6. /\ told \in SlidesT /\ told.active = active /\ told.current = current
      /\ told.handlers = handlers /\ told.timeouts = timeouts /\ told.ended = <<>>
      /\ told.made = made
  <2>1. Tail(ended) \in Seq(HandlerT)
    BY <1>3, <1>4
  <2> QED
    BY <1>1, <1>2, <1>4, <2>1 DEF SlidesT
<1> HIDE DEF told
<1> DEFINE d == C!TransitionDone(told, h.next, h.cur)
<1>7. h.next \in Slides /\ h.cur \in Slides \cup {NoSlide}
  BY DEF HandlerT
<1>8. /\ d \in SlidesT /\ d.active = (active \cup {h.next}) \ {h.cur} /\ d.transition = 0
      /\ d.current = current /\ d.handlers = {} /\ d.timeouts = timeouts
      /\ d.ended = <<>> /\ d.made = made
  BY <1>3, <1>6, <1>7, TransitionDoneIs
<1> HIDE DEF d
<1>9. SlidesTypeOK(d) /\ TransitionHolds(d)
  BY <1>8 DEF SlidesTypeOK, TransitionHolds
<1>10. current.slide \in d.active /\ \A x \in d.active : x = current.slide \/ x \in active
  BY <1>3, <1>8
<1>11. CurrentHolds(d, slides, last)
  BY <1>2, <1>8, <1>10 DEF CurrentHolds
<1> QED
  BY <1>4, <1>5, <1>9, <1>11 DEF SlidesHold, d, n

\* A selection that was put off: it leaves the carousel in step, or it came late.
LEMMA TimeoutStep ==
  ASSUME SlidesInv, ~late, C!Timeout
  PROVE  SlidesInv'
<1> DEFINE n == C!Now
           l == Head(timeouts)
           rest == [n EXCEPT !.timeouts = Tail(timeouts)]
           d == C!GoNext(rest, l.slide, l.index, TRUE)
<1>1. /\ n.active = active /\ n.current = current /\ n.transition = transition
      /\ n.handlers = handlers /\ n.timeouts = timeouts /\ n.ended = ended /\ n.made = made
  BY SlidesAre
<1>2. /\ slides \in Seq(Slides) /\ IsInjective(slides) /\ last \in [Slides -> BOOLEAN]
      /\ SlidesHold(n, slides, last) /\ n \in SlidesT /\ active \subseteq Slides
      /\ timeouts \in Seq(LaterT)
  BY SlidesSay
<1>3. /\ timeouts # <<>> /\ slides' = slides /\ last' = last /\ ended = <<>>
      /\ late' = (late \/ l.slide = current.slide \/ transition # 0 \/ l.index # C!IndexOf(l.slide))
      /\ \A x \in Range(slides) : last[x] = (x \in active)
  BY <1>2, SlideOperators DEF C!Timeout, C!Told, C!Watched, Range
<1>4. l \in LaterT /\ Tail(timeouts) \in Seq(LaterT)
  BY <1>2, <1>3, LastOfRest
<1>5. C!Become(C!GoNext([n EXCEPT !.timeouts = Tail(@)], l.slide, l.index, TRUE))
  BY Zenon DEF C!Timeout
<1>6. [n EXCEPT !.timeouts = Tail(@)] = rest
  BY <1>1, <1>2 DEF SlidesT
<1> HIDE DEF n, l
<1>7. /\ rest \in SlidesT /\ rest.active = active /\ rest.current = current
      /\ rest.transition = transition /\ rest.handlers = handlers
      /\ rest.ended = ended /\ rest.made = made
  BY <1>1, <1>2, <1>4 DEF SlidesT
<1> HIDE DEF rest
<1>8. SlidesTypeOK(rest)
  BY <1>1, <1>2, <1>7 DEF SlidesHold, SlidesTypeOK
<1>9. C!Become(d)
  BY <1>5, <1>6
<1>10. SlidesTypeOK(d)
  BY <1>4, <1>8, GoNextIs
<1>11. ASSUME ~late' PROVE SlidesHold(d, slides, last)
  <2>1. l.slide # current.slide /\ transition = 0 /\ l.index = C!IndexOf(l.slide)
    BY <1>3, <1>11
  <2>2. rest.handlers = {} /\ rest.ended = <<>> /\ rest.transition = 0
        /\ l.slide # rest.current.slide
    BY <1>1, <1>2, <1>3, <1>7, <2>1 DEF SlidesHold, TransitionHolds
  <2>3. l.slide \in Range(slides)
    <3>1. l.index # 0
      <4>1. l.index \in 1 .. Cardinality(Slides)
        BY <1>4 DEF LaterT
      <4> QED
        BY <4>1
    <3> QED
      BY <2>1, <3>1, SlideOperators DEF C!IndexOf
  <2>4. l.index \in DOMAIN slides /\ slides[l.index] = l.slide
    BY <1>2, <2>1, <2>3, PlaceIs
  <2> QED
    <3>1. current.slide # NoSlide
      BY <1>3, SlidesSay
    <3> QED
      BY <1>2, <1>4, <1>7, <1>8, <2>2, <2>4, <3>1, GoNextHolds
<1>12. late' \in BOOLEAN
  BY <1>3
<1> HIDE DEF d
<1> QED
  BY <1>2, <1>3, <1>9, <1>10, <1>11, <1>12, SlidesBecome

LEMMA SlidesStep == ASSUME SlidesInv, C!CaNext PROVE SlidesInv'
<1> DEFINE n == C!Now
<1>1. ~late
  BY DEF C!CaNext
<1>2. /\ n.active = active /\ n.current = current /\ n.transition = transition
      /\ n.handlers = handlers /\ n.timeouts = timeouts /\ n.ended = ended /\ n.made = made
      /\ n.leaving = leaving /\ n.timer = timer /\ n.playing = playing
  BY SlidesAre
<1>3. /\ slides \in Seq(Slides) /\ IsInjective(slides) /\ last \in [Slides -> BOOLEAN]
      /\ SlidesHold(n, slides, last) /\ n \in SlidesT /\ active \subseteq Slides
      /\ IF current.slide = NoSlide THEN transition = 0 /\ timeouts = <<>> /\ slides = <<>>
         ELSE current.slide \in active
      /\ timeouts = <<>> /\ slides # <<>> =>
           /\ current.index \in DOMAIN slides /\ slides[current.index] = current.slide
           /\ \A x \in active \cap Range(slides) : x = current.slide \/ ~last[x]
  BY <1>1, SlidesSay
<1>4. ASSUME NEW b, SlidesHold(b, slides, last'), C!Become(b), slides' = slides, late' = late,
             last' \in [Slides -> BOOLEAN]
      PROVE  SlidesInv'
  BY <1>3, <1>4, SlidesBecome DEF SlidesHold, SlidesInv
<1> HIDE DEF n
<1>5. ASSUME NEW s \in Slides, C!Activate(s) PROVE SlidesInv'
  <2> DEFINE act == active \cup {s}
             b == [n EXCEPT !.active = act]
  <2>1. /\ slides' = slides /\ late' = late /\ last' = last
        /\ active' = act /\ s \in Range(slides) /\ s \notin active
        /\ UNCHANGED <<leaving, current, transition, handlers, timeouts, ended, timer, playing, made>>
        /\ \A x \in Range(slides) : last[x] = (x \in active)
    BY <1>3, <1>5, SlideOperators DEF C!Activate, C!Watched, Range
  <2>2. act \in SUBSET Slides /\ ~last[s]
    BY <1>3, <2>1
  <2>3. /\ b \in SlidesT /\ b.active = act /\ b.current = current /\ b.transition = transition
        /\ b.handlers = handlers /\ b.timeouts = timeouts /\ b.ended = ended /\ b.made = made
        /\ b.leaving = leaving /\ b.timer = timer /\ b.playing = playing
    BY <1>2, <1>3, <2>2 DEF SlidesT
  <2> HIDE DEF b
  <2>4. C!Become(b)
    BY <2>1, <2>3 DEF C!Become
  <2>5. SlidesTypeOK(b) /\ TransitionHolds(b)
    BY <1>2, <1>3, <2>3 DEF SlidesHold, SlidesTypeOK, TransitionHolds
  <2>6. \A x \in act \cap Range(slides) : x = s \/ x \in active \cap Range(slides)
    OBVIOUS
  <2>7. current.slide \in active => current.slide \in act
    OBVIOUS
  <2> HIDE DEF act
  <2>8. CurrentHolds(b, slides, last)
    BY <1>3, <2>2, <2>3, <2>6, <2>7 DEF CurrentHolds
  <2> QED
    BY <1>3, <1>4, <2>1, <2>4, <2>5, <2>8 DEF SlidesHold
<1>6. ASSUME NEW s \in Slides, C!ActiveWatch(s) PROVE SlidesInv'
  <2> DEFINE seen == [last EXCEPT ![s] = s \in active]
             k == C!IndexOf(s)
  <2>1. /\ slides' = slides /\ late' = late /\ last' = seen /\ ended = <<>>
        /\ s \in Range(slides)
    BY <1>6, SlideOperators DEF C!ActiveWatch, C!Told
  <2>2. PICK animated \in BOOLEAN : C!Become(IF s \in active THEN C!Select(n, s, k, animated) ELSE n)
    BY <1>6, Zenon DEF C!ActiveWatch, n
  <2>3. k \in DOMAIN slides /\ slides[k] = s
    BY <1>3, <2>1, PlaceIs
  <2>4. /\ seen \in [Slides -> BOOLEAN] /\ seen[s] = (s \in active)
        /\ \A x \in Slides : x # s => seen[x] = last[x]
    BY <1>3
  <2> HIDE DEF seen, k
  <2>5. CASE s \in active
    <3>1. SlidesHold(C!Select(n, slides[k], k, animated), slides, seen)
      BY <1>1, <2>1, <2>3, <2>4, SelectNowHolds DEF n
    <3>2. C!Become(C!Select(n, slides[k], k, animated))
      BY <2>2, <2>3, <2>5
    <3> QED
      BY <1>4, <2>1, <2>4, <3>1, <3>2
  <2>6. CASE s \notin active
    <3>1. CurrentHolds(n, slides, seen)
      BY <1>2, <1>3, <2>4, <2>6 DEF CurrentHolds
    <3>2. SlidesHold(n, slides, seen) /\ C!Become(n)
      BY <1>3, <2>2, <2>6, <3>1 DEF SlidesHold
    <3> QED
      BY <1>4, <2>1, <2>4, <3>2
  <2> QED
    BY <2>5, <2>6
<1>7. ASSUME C!Click PROVE SlidesInv'
  <2>1. slides' = slides /\ late' = late /\ last' = last /\ ended = <<>>
    BY <1>7 DEF C!Click, C!Selecting, C!Told
  <2>2. \/ \E by \in {1, -1} : C!Become(C!Step(n, by))
        \/ \E s \in Range(slides) : C!Become(C!Select(n, s, C!IndexOf(s), TRUE))
    BY <1>7, SlideOperators DEF C!Click, n
  <2>3. ASSUME NEW by \in {1, -1}, C!Become(C!Step(n, by)) PROVE SlidesInv'
    <3>1. SlidesHold(C!Step(n, by), slides, last)
      BY <1>1, <2>1, StepHolds DEF n
    <3> QED
      BY <1>3, <1>4, <2>1, <2>3, <3>1
  <2>4. ASSUME NEW s \in Range(slides), C!Become(C!Select(n, s, C!IndexOf(s), TRUE))
        PROVE  SlidesInv'
    <3> DEFINE k == C!IndexOf(s)
    <3>1. k \in DOMAIN slides /\ slides[k] = s
      BY <1>3, PlaceIs
    <3> HIDE DEF k
    <3>2. SlidesHold(C!Select(n, slides[k], k, TRUE), slides, last)
      BY <1>1, <2>1, <3>1, SelectNowHolds DEF n
    <3> QED
      BY <1>3, <1>4, <2>1, <2>4, <3>1, <3>2 DEF k
  <2> QED
    BY <2>2, <2>3, <2>4
<1>8. ASSUME C!Timer PROVE SlidesInv'
  <2>1. slides' = slides /\ late' = late /\ last' = last /\ ended = <<>>
    BY <1>8 DEF C!Timer, C!Selecting, C!Told
  <2>2. CASE playing
    <3> DEFINE d == C!Step(n, 1)
               e == [d EXCEPT !.timer = TRUE]
    <3>1. C!Become(e)
      BY <1>8, <2>2 DEF C!Timer, n
    <3>2. SlidesHold(d, slides, last)
      BY <1>1, <2>1, StepHolds DEF n
    <3> HIDE DEF d
    <3>3. /\ e \in SlidesT /\ e.active = d.active /\ e.current = d.current
          /\ e.transition = d.transition /\ e.handlers = d.handlers
          /\ e.timeouts = d.timeouts /\ e.ended = d.ended /\ e.made = d.made
      BY <3>2 DEF SlidesHold, SlidesTypeOK, SlidesT
    <3> HIDE DEF e
    <3>4. SlidesHold(e, slides, last)
      BY <3>2, <3>3, SlidesIgnore
    <3> QED
      BY <1>3, <1>4, <2>1, <3>1, <3>4
  <2>3. CASE ~playing
    <3> DEFINE e == [n EXCEPT !.timer = FALSE]
    <3>1. C!Become(e)
      BY <1>8, <2>3 DEF C!Timer, n
    <3>2. /\ e \in SlidesT /\ e.active = n.active /\ e.current = n.current
          /\ e.transition = n.transition /\ e.handlers = n.handlers
          /\ e.timeouts = n.timeouts /\ e.ended = n.ended /\ e.made = n.made
      BY <1>3 DEF SlidesT
    <3> HIDE DEF e
    <3>3. SlidesHold(e, slides, last)
      BY <1>3, <3>2, SlidesIgnore
    <3> QED
      BY <1>3, <1>4, <2>1, <3>1, <3>3
  <2> QED
    BY <2>2, <2>3
<1>9. ASSUME C!PauseOrPlay PROVE SlidesInv'
  <2> DEFINE e == [n EXCEPT !.timer = timer', !.playing = playing']
  <2>1. /\ slides' = slides /\ late' = late /\ last' = last /\ playing' \in BOOLEAN
        /\ timer' \in BOOLEAN
        /\ UNCHANGED <<active, leaving, current, transition, handlers, timeouts, ended, made>>
    <3>1. playing' = ~playing /\ timer' = ~playing
      BY <1>9 DEF C!PauseOrPlay
    <3> QED
      BY <1>9, <3>1 DEF C!PauseOrPlay
  <2>2. /\ e \in SlidesT /\ e.active = n.active /\ e.current = n.current
        /\ e.transition = n.transition /\ e.handlers = n.handlers
        /\ e.timeouts = n.timeouts /\ e.ended = n.ended /\ e.made = n.made
        /\ e.leaving = n.leaving /\ e.timer = timer' /\ e.playing = playing'
    BY <1>3, <2>1 DEF SlidesT
  <2> HIDE DEF e
  <2>3. SlidesHold(e, slides, last)
    BY <1>3, <2>2, SlidesIgnore
  <2>4. C!Become(e)
    BY <1>2, <2>1, <2>2 DEF C!Become
  <2> QED
    BY <1>3, <1>4, <2>1, <2>3, <2>4
<1>10. ASSUME NEW h \in handlers, C!TransitionEnd(h) PROVE SlidesInv'
  <2> DEFINE hs == handlers \ {h}
             es == Append(ended, h)
             e == [n EXCEPT !.handlers = hs, !.ended = es]
  <2>1. /\ slides' = slides /\ late' = late /\ last' = last /\ ended = <<>>
        /\ C!Become([n EXCEPT !.handlers = @ \ {h}, !.ended = Append(@, h)])
    BY <1>10 DEF C!TransitionEnd, C!Told, n
  <2>2. [n EXCEPT !.handlers = @ \ {h}, !.ended = Append(@, h)] = e
    BY <1>2, <1>3 DEF SlidesT
  <2>3. PICK g \in HandlerT : /\ transition # 0 /\ current.slide \in Slides
                              /\ g.id = transition /\ g.next = current.slide
                              /\ g.cur # current.slide /\ handlers = {g}
    BY <1>2, <1>3, <2>1 DEF SlidesHold, TransitionHolds
  <2>4. hs = {} /\ es = <<g>> /\ hs \in SUBSET HandlerT
    BY <2>1, <2>3
  <2> HIDE DEF hs, es
  <2>5. es \in Seq(HandlerT)
    BY <2>4
  <2>6. /\ e \in SlidesT /\ e.active = active /\ e.current = current /\ e.transition = transition
        /\ e.handlers = hs /\ e.timeouts = timeouts /\ e.ended = es /\ e.made = made
    BY <1>2, <1>3, <2>4, <2>5 DEF SlidesT
  <2> HIDE DEF e
  <2>7. SlidesTypeOK(e)
    BY <2>4, <2>6 DEF SlidesTypeOK
  <2>8. TransitionHolds(e)
    BY <2>3, <2>4, <2>6 DEF TransitionHolds
  <2>9. CurrentHolds(e, slides, last)
    BY <1>3, <2>6 DEF CurrentHolds
  <2> QED
    BY <1>3, <1>4, <2>1, <2>2, <2>7, <2>8, <2>9 DEF SlidesHold
<1>11. ASSUME C!Then PROVE SlidesInv'
  <2>1. /\ slides' = slides /\ late' = late /\ last' = last /\ ended # <<>>
        /\ C!Become(C!TransitionDone([n EXCEPT !.ended = Tail(@)], Head(ended).next,
                                     Head(ended).cur))
    BY <1>11 DEF C!Then, n
  <2>2. SlidesHold(C!TransitionDone([n EXCEPT !.ended = Tail(@)], Head(ended).next,
                                    Head(ended).cur), slides, last)
    BY <1>1, <2>1, ThenHolds DEF n
  <2> QED
    BY <1>3, <1>4, <2>1, <2>2
<1> QED
  BY <1>1, <1>5, <1>6, <1>7, <1>8, <1>9, <1>10, <1>11, AddSlideStep, RemoveSlideStep, TimeoutStep
     DEF C!CaNext

-----------------------------------------------------------------------------
(* The calendar *)

\* Days of the years before, which begin with March.
Before(a) == 365 * a + a \div 4 - a \div 100 + a \div 400
\* Days from the first of March to the first of a month, 12 being the next January.
Gone(m) == (153 * (m - 2) + 2) \div 5

\* 400 years come close to 146097 days.
LEMMA YearsLast ==
  ASSUME NEW y \in Int
  PROVE  /\ Before(y) \in Int
         /\ 146097 * y - 699 <= 400 * Before(y) /\ 400 * Before(y) <= 146097 * y + 396
<1>1. Before(y) \in Int
  BY DEF Before
<1>2. 400 * Before(y) <= 146097 * y + 396
  BY DEF Before
<1>3. 146097 * y - 699 <= 400 * Before(y)
  BY DEF Before
<1> QED
  BY <1>1, <1>2, <1>3

\* A year has 365 days or 366.
LEMMA YearLength ==
  ASSUME NEW y \in Int, NEW x \in Int, x = y - 1
  PROVE  Before(y) \in Int /\ Before(x) \in Int /\ Before(y) - Before(x) \in {365, 366}
BY DEF Before

\* The days of January and February, and those of the other months and the next January.
LEMMA WinterDays ==
  ASSUME NEW y \in Int, NEW x \in Int, x = y - 1, NEW d \in Int
  PROVE  D!Day(y, 0, d) = Before(x) + 306 + d /\ D!Day(y, 1, d) = Before(x) + 337 + d
BY DEF D!Day, Before

LEMMA MonthDays ==
  ASSUME NEW y \in Int, NEW m \in 2 .. 12, NEW d \in Int
  PROVE  D!Day(y, m, d) = Before(y) + Gone(m) + d
<1>1. CASE m = 12
  <2>1. D!Day(y, 12, d) = Before(y) + 306 + d
    BY DEF D!Day, Before
  <2>2. Gone(12) = 306
    BY DEF Gone
  <2> QED
    BY <1>1, <2>1, <2>2
<1>2. CASE m \in 2 .. 11
  BY <1>2 DEF D!Day, Before, Gone
<1> QED
  BY <1>1, <1>2

LEMMA GoneIs ==
  ASSUME NEW m \in 2 .. 12
  PROVE  Gone(m) \in Nat /\ \A k \in 2 .. 12 : m <= k => Gone(m) <= Gone(k)
<1>1. Gone(m) \in Nat
  BY DEF Gone
<1>2. ASSUME NEW k \in 2 .. 12, m <= k PROVE Gone(m) <= Gone(k)
  BY <1>2 DEF Gone
<1> QED
  BY <1>1, <1>2

\* Days are integers, and those of a month are counted from its first.
LEMMA FirstIsDay ==
  ASSUME NEW y \in Int, NEW m \in Int
  PROVE  D!Day(y, m, 1) \in Int
BY DEF D!Day

LEMMA DayCounts ==
  ASSUME NEW y \in Int, NEW m \in Int, NEW d \in Int
  PROVE  D!Day(y, m, d) = D!Day(y, m, 1) + d - 1
BY DEF D!Day

\* The first of a year's months, by the days before the year and before the last.
FirstDays(y, a, b) ==
  /\ a = Before(y) /\ a - b \in {365, 366}
  /\ D!Day(y, 0, 1) = b + 307 /\ D!Day(y, 1, 1) = b + 338 /\ D!Day(y + 1, 0, 1) = a + 307
  /\ \A k \in 2 .. 12 : D!Day(y, k, 1) = a + Gone(k) + 1

LEMMA YearStarts ==
  ASSUME NEW y \in Int
  PROVE  \E a, b \in Int : FirstDays(y, a, b)
<1>1. PICK x \in Int, z \in Int : x = y - 1 /\ z = y + 1 /\ y = z - 1
  <2>1. y - 1 \in Int /\ y + 1 \in Int /\ (y + 1) - 1 = y
    OBVIOUS
  <2> QED
    BY <2>1
<1>2. Before(y) \in Int /\ Before(x) \in Int /\ Before(y) - Before(x) \in {365, 366}
  BY <1>1, YearLength
<1>3. D!Day(y, 0, 1) = Before(x) + 306 + 1 /\ D!Day(y, 1, 1) = Before(x) + 337 + 1
  BY <1>1, WinterDays
<1>4. D!Day(z, 0, 1) = Before(y) + 306 + 1
  BY <1>1, WinterDays
<1>5. \A k \in 2 .. 12 : D!Day(y, k, 1) = Before(y) + Gone(k) + 1
  BY MonthDays
<1>6. D!Day(y, 0, 1) = Before(x) + 307 /\ D!Day(y, 1, 1) = Before(x) + 338
      /\ D!Day(y + 1, 0, 1) = Before(y) + 307
  BY <1>1, <1>2, <1>3, <1>4
<1>7. FirstDays(y, Before(y), Before(x))
  BY <1>2, <1>5, <1>6 DEF FirstDays
<1> QED
  BY <1>2, <1>7

\* A month has from 28 to 31 days.
LEMMA MonthLength ==
  ASSUME NEW y \in Int, NEW m \in 0 .. 11
  PROVE  D!Day(y, m + 1, 1) - D!Day(y, m, 1) \in 28 .. 31
<1>1. PICK a, b \in Int :
        /\ a - b \in {365, 366} /\ D!Day(y, 0, 1) = b + 307 /\ D!Day(y, 1, 1) = b + 338
        /\ \A j \in 2 .. 12 : D!Day(y, j, 1) = a + Gone(j) + 1
  <2>1. PICK a, b \in Int : FirstDays(y, a, b)
    BY YearStarts
  <2> QED
    BY <2>1 DEF FirstDays
<1>2. CASE m = 0
  BY <1>1, <1>2
<1>3. CASE m = 1
  <2>1. Gone(2) = 0
    BY DEF Gone
  <2>2. D!Day(y, 2, 1) = a + Gone(2) + 1
    BY <1>1
  <2> QED
    BY <1>1, <1>3, <2>1, <2>2
<1>4. CASE m \in 2 .. 11
  <2>1. Gone(m) \in Nat /\ Gone(m + 1) \in Nat /\ Gone(m + 1) - Gone(m) \in {30, 31}
    BY <1>4 DEF Gone
  <2>2. D!Day(y, m, 1) = a + Gone(m) + 1 /\ D!Day(y, m + 1, 1) = a + Gone(m + 1) + 1
    <3>1. m \in 2 .. 12 /\ m + 1 \in 2 .. 12
      BY <1>4
    <3> QED
      BY <1>1, <3>1
  <2> QED
    BY <2>1, <2>2
<1> QED
  BY <1>2, <1>3, <1>4

\* Months and years come one after the other.
LEMMA MonthsGrow ==
  ASSUME NEW y \in Int, NEW m \in 0 .. 11, NEW k \in 0 .. 12, m < k
  PROVE  D!Day(y, m + 1, 1) <= D!Day(y, k, 1)
<1> DEFINE n == m + 1
<1>1. n \in 1 .. 12 /\ k \in 1 .. 12 /\ n <= k
  OBVIOUS
<1> HIDE DEF n
<1>2. PICK a, b \in Int :
        /\ a - b \in {365, 366} /\ D!Day(y, 0, 1) = b + 307 /\ D!Day(y, 1, 1) = b + 338
        /\ \A j \in 2 .. 12 : D!Day(y, j, 1) = a + Gone(j) + 1
  <2>1. PICK a, b \in Int : FirstDays(y, a, b)
    BY YearStarts
  <2> QED
    BY <2>1 DEF FirstDays
<1>3. CASE n = k
  <2>1. D!Day(y, k, 1) \in Int
    BY FirstIsDay
  <2> QED
    BY <1>3, <2>1 DEF n
<1>4. CASE n = 1 /\ n # k
  <2>1. k \in 2 .. 12
    BY <1>1, <1>4
  <2>2. Gone(k) \in Nat /\ D!Day(y, k, 1) = a + Gone(k) + 1
    BY <1>2, <2>1, GoneIs
  <2>3. b + 338 <= a + Gone(k) + 1
    BY <1>2, <2>2
  <2> QED
    BY <1>2, <1>4, <2>2, <2>3 DEF n
<1>5. CASE n # 1
  <2>1. n \in 2 .. 12 /\ k \in 2 .. 12
    BY <1>1, <1>5
  <2>2. Gone(n) \in Nat /\ Gone(k) \in Nat /\ Gone(n) <= Gone(k)
    BY <1>1, <2>1, GoneIs
  <2>3. D!Day(y, n, 1) = a + Gone(n) + 1 /\ D!Day(y, k, 1) = a + Gone(k) + 1
    BY <1>2, <2>1
  <2> QED
    BY <2>2, <2>3 DEF n
<1> QED
  BY <1>3, <1>4, <1>5

LEMMA YearsGrow ==
  ASSUME NEW y \in Int, NEW z \in Int, y < z
  PROVE  D!Day(y + 1, 0, 1) <= D!Day(z, 0, 1)
<1>1. PICK a \in Int : D!Day(y + 1, 0, 1) = a + 307 /\ 400 * a <= 146097 * y + 396
  <2>1. PICK a, b \in Int : FirstDays(y, a, b)
    BY YearStarts
  <2>2. a = Before(y) /\ D!Day(y + 1, 0, 1) = a + 307
    BY <2>1 DEF FirstDays
  <2> QED
    BY <2>2, YearsLast
<1>2. PICK x \in Int : x = z - 1
  OBVIOUS
<1>3. D!Day(z, 0, 1) = Before(x) + 306 + 1
  BY <1>2, WinterDays
<1>4. PICK b \in Int : b = Before(x) /\ 146097 * x - 699 <= 400 * b
  BY YearsLast
<1>5. CASE y = x
  <2>1. z = y + 1 /\ D!Day(z, 0, 1) \in Int
    BY <1>2, <1>3, <1>4, <1>5
  <2> QED
    BY <2>1
<1>6. CASE y # x
  <2>1. y + 1 <= x
    BY <1>2, <1>6
  <2>2. a <= b
    BY <1>1, <1>4, <2>1
  <2> QED
    BY <1>1, <1>3, <1>4, <2>2
<1> QED
  BY <1>5, <1>6

InYear(x, y) == D!Day(y, 0, 1) <= x /\ x < D!Day(y + 1, 0, 1)
InMonth(x, y, m) == D!Day(y, m, 1) <= x /\ x < D!Day(y, m + 1, 1)

\* Where the years begin.
LEMMA YearNear ==
  ASSUME NEW y \in Int
  PROVE  /\ D!Day(y, 0, 1) \in Int
         /\ 146097 * y - 23996 <= 400 * D!Day(y, 0, 1) /\ 400 * D!Day(y, 0, 1) <= 146097 * y - 22901
<1>1. PICK x \in Int : x = y - 1
  OBVIOUS
<1>2. D!Day(y, 0, 1) = Before(x) + 306 + 1
  BY <1>1, WinterDays
<1>3. PICK b \in Int : /\ b = Before(x)
                       /\ 146097 * x - 699 <= 400 * b /\ 400 * b <= 146097 * x + 396
  BY YearsLast
<1> QED
  BY <1>1, <1>2, <1>3

\* Every day has its year, and no other.
LEMMA YearIs ==
  ASSUME NEW x \in Int
  PROVE  /\ D!Year(x) \in Int /\ InYear(x, D!Year(x))
         /\ \A y \in Int : InYear(x, y) => y = D!Year(x)
<1> DEFINE about == (400 * x) \div 146097
<1>1. about \in Int /\ 146097 * about <= 400 * x /\ 400 * x < 146097 * (about + 1)
  <2>1. PICK t \in Int : t = 400 * x
    OBVIOUS
  <2>2. t \div 146097 \in Int /\ 146097 * (t \div 146097) <= t /\ t < 146097 * ((t \div 146097) + 1)
    OBVIOUS
  <2> QED
    BY <2>1, <2>2
<1>2. D!Year(x) = CHOOSE y \in about - 1 .. about + 1 : InYear(x, y)
  BY DEF D!Year, InYear
<1> HIDE DEF about
<1>3. PICK p \in Int, q \in Int : p = about + 1 /\ q = p + 1
  <2>1. about + 1 \in Int /\ (about + 1) + 1 \in Int
    BY <1>1
  <2> QED
    BY <2>1
<1>4. D!Day(about, 0, 1) <= x
  <2>1. PICK d \in Int : d = D!Day(about, 0, 1) /\ 400 * d <= 146097 * about - 22901
    BY <1>1, YearNear
  <2> QED
    BY <1>1, <2>1
<1>5. x < D!Day(q, 0, 1)
  <2>1. PICK d \in Int : d = D!Day(q, 0, 1) /\ 146097 * q - 23996 <= 400 * d
    BY YearNear
  <2> QED
    BY <1>1, <1>3, <2>1
<1>6. PICK d \in Int : d = D!Day(p, 0, 1)
  BY YearNear
<1>7. \E y \in about - 1 .. about + 1 : InYear(x, y)
  <2>1. CASE d <= x
    <3>1. InYear(x, p)
      BY <1>3, <1>5, <1>6, <2>1 DEF InYear
    <3>2. p \in about - 1 .. about + 1
      BY <1>1, <1>3
    <3> QED
      BY <3>1, <3>2
  <2>2. CASE ~(d <= x)
    <3>1. x < d
      BY <2>2
    <3>2. InYear(x, about)
      BY <1>3, <1>4, <1>6, <3>1 DEF InYear
    <3>3. about \in about - 1 .. about + 1
      BY <1>1
    <3> QED
      BY <3>2, <3>3
  <2> QED
    BY <2>1, <2>2
<1>8. D!Year(x) \in about - 1 .. about + 1 /\ InYear(x, D!Year(x))
  BY <1>2, <1>7
<1>9. D!Year(x) \in Int
  BY <1>1, <1>8
<1>10. ASSUME NEW y \in Int, NEW z \in Int, InYear(x, y), InYear(x, z) PROVE ~(y < z)
  <2> SUFFICES ASSUME y < z PROVE FALSE
    OBVIOUS
  <2>1. D!Day(y + 1, 0, 1) <= D!Day(z, 0, 1)
    BY YearsGrow
  <2>2. y + 1 \in Int
    OBVIOUS
  <2>3. D!Day(y + 1, 0, 1) \in Int /\ D!Day(z, 0, 1) \in Int
    BY <2>2, FirstIsDay
  <2> QED
    BY <1>10, <2>1, <2>3 DEF InYear
<1>11. ASSUME NEW y \in Int, InYear(x, y) PROVE y = D!Year(x)
  <2>1. ~(y < D!Year(x)) /\ ~(D!Year(x) < y)
    BY <1>8, <1>9, <1>10, <1>11
  <2> QED
    BY <1>9, <2>1
<1> QED
  BY <1>8, <1>9, <1>11

\* Thirteen months after its first a year is over.
LEMMA YearEnds ==
  ASSUME NEW y \in Int
  PROVE  D!Day(y, 12, 1) = D!Day(y + 1, 0, 1)
<1>1. PICK a, b \in Int : FirstDays(y, a, b)
  BY YearStarts
<1>2. 12 \in 2 .. 12 /\ Gone(12) = 306
  BY DEF Gone
<1>3. D!Day(y, 12, 1) = a + Gone(12) + 1 /\ D!Day(y + 1, 0, 1) = a + 307
  BY <1>1, <1>2 DEF FirstDays
<1> QED
  BY <1>2, <1>3

\* Every day of a year is in a month of it.
LEMMA MonthIs ==
  ASSUME NEW x \in Int
  PROVE  D!Month(x) \in 0 .. 11 /\ InMonth(x, D!Year(x), D!Month(x))
<1>1. PICK y \in Int : y = D!Year(x) /\ InYear(x, y)
  BY YearIs
<1>2. D!Month(x) = CHOOSE m \in 0 .. 11 : InMonth(x, y, m)
  BY <1>1 DEF D!Month, InMonth
<1> DEFINE p(m) == D!Day(y, m, 1) <= x
<1>3. p(0)
  BY <1>1 DEF InYear
<1>4. ~p(12)
  <2>1. x < D!Day(y, 12, 1)
    BY <1>1, YearEnds DEF InYear
  <2>2. D!Day(y, 12, 1) \in Int
    BY FirstIsDay
  <2> QED
    BY <2>1, <2>2
<1>5. \A m \in 0 .. 11 : p(m) /\ ~p(m + 1) => InMonth(x, y, m)
  <2> SUFFICES ASSUME NEW m \in 0 .. 11, p(m), ~p(m + 1) PROVE InMonth(x, y, m)
    OBVIOUS
  <2>1. m + 1 \in Int
    OBVIOUS
  <2>2. D!Day(y, m + 1, 1) \in Int
    BY <2>1, FirstIsDay
  <2> QED
    BY <2>2 DEF InMonth
<1> HIDE DEF p
<1>6. \E m \in 0 .. 11 : p(m) /\ ~p(m + 1)
  <2> SUFFICES ASSUME \A m \in 0 .. 11 : p(m) => p(m + 1) PROVE FALSE
    OBVIOUS
  <2>1. p(0 + 1) /\ 0 + 1 = 1
    BY <1>3
  <2>2. p(1 + 1) /\ 1 + 1 = 2
    BY <2>1
  <2>3. p(2 + 1) /\ 2 + 1 = 3
    BY <2>2
  <2>4. p(3 + 1) /\ 3 + 1 = 4
    BY <2>3
  <2>5. p(4 + 1) /\ 4 + 1 = 5
    BY <2>4
  <2>6. p(5 + 1) /\ 5 + 1 = 6
    BY <2>5
  <2>7. p(6 + 1) /\ 6 + 1 = 7
    BY <2>6
  <2>8. p(7 + 1) /\ 7 + 1 = 8
    BY <2>7
  <2>9. p(8 + 1) /\ 8 + 1 = 9
    BY <2>8
  <2>10. p(9 + 1) /\ 9 + 1 = 10
    BY <2>9
  <2>11. p(10 + 1) /\ 10 + 1 = 11
    BY <2>10
  <2>12. p(11 + 1) /\ 11 + 1 = 12
    BY <2>11
  <2> QED
    BY <1>4, <2>12
<1>7. \E m \in 0 .. 11 : InMonth(x, y, m)
  BY <1>5, <1>6
<1> QED
  BY <1>1, <1>2, <1>7

\* A day of a month has the year and the month.
LEMMA DateIs ==
  ASSUME NEW x \in Int, NEW y \in Int, NEW m \in 0 .. 11, InMonth(x, y, m)
  PROVE  D!Year(x) = y /\ D!Month(x) = m /\ D!DayOf(x) = x - D!Day(y, m, 1) + 1
<1>1. D!Day(y, 0, 1) \in Int /\ D!Day(y, m, 1) \in Int /\ D!Day(y, m + 1, 1) \in Int
      /\ D!Day(y, 12, 1) \in Int
  <2>1. 0 \in Int /\ m \in Int /\ m + 1 \in Int /\ 12 \in Int
    OBVIOUS
  <2> QED
    BY <2>1, FirstIsDay, Zenon
<1>2. D!Day(y, 0, 1) <= D!Day(y, m, 1)
  <2>1. CASE m = 0
    BY <1>1, <2>1
  <2>2. CASE m # 0
    <3>1. 0 \in 0 .. 11 /\ m \in 0 .. 12 /\ 0 < m /\ 0 + 1 = 1
      BY <2>2
    <3>2. D!Day(y, 1, 1) <= D!Day(y, m, 1)
      BY <3>1, MonthsGrow
    <3>3. D!Day(y, 1, 1) - D!Day(y, 0, 1) \in 28 .. 31
      BY <3>1, MonthLength
    <3>4. D!Day(y, 1, 1) \in Int
      BY FirstIsDay
    <3> QED
      BY <1>1, <3>2, <3>3, <3>4
  <2> QED
    BY <2>1, <2>2
<1>3. D!Day(y, m + 1, 1) <= D!Day(y, 12, 1)
  <2>1. 12 \in 0 .. 12 /\ m < 12
    OBVIOUS
  <2> QED
    BY <2>1, MonthsGrow
<1>4. InYear(x, y)
  BY <1>1, <1>2, <1>3, YearEnds DEF InYear, InMonth
<1>5. D!Year(x) = y
  BY <1>4, YearIs
<1>6. PICK k \in 0 .. 11 : k = D!Month(x) /\ InMonth(x, y, k)
  BY <1>5, MonthIs
<1>7. ASSUME NEW i \in 0 .. 11, NEW j \in 0 .. 11, InMonth(x, y, i), InMonth(x, y, j), i < j
      PROVE  FALSE
  <2>1. j \in 0 .. 12 /\ i + 1 \in Int /\ j \in Int
    OBVIOUS
  <2>2. D!Day(y, i + 1, 1) <= D!Day(y, j, 1)
    BY <1>7, <2>1, MonthsGrow
  <2>3. D!Day(y, i + 1, 1) \in Int /\ D!Day(y, j, 1) \in Int
    BY <2>1, FirstIsDay, Zenon
  <2> QED
    BY <1>7, <2>2, <2>3 DEF InMonth
<1>8. k = m
  <2>1. ~(k < m) /\ ~(m < k)
    BY <1>6, <1>7
  <2> QED
    BY <2>1
<1> QED
  BY <1>5, <1>6, <1>8 DEF D!DayOf

\* A day is so many days after the Sunday of a week.
InWeek(x, week, after) == x - D!Day(2016, 2, 1) + 2 = 7 * week + after

LEMMA WeekdayIs ==
  ASSUME NEW x \in Int
  PROVE  D!Weekday(x) \in 0 .. 6 /\ \E q \in Int : InWeek(x, q, D!Weekday(x))
<1>1. PICK c \in Int : c = D!Day(2016, 2, 1)
  BY FirstIsDay
<1>2. PICK t \in Int : t = x - c + 2
  OBVIOUS
<1>3. t % 7 \in 0 .. 6
  OBVIOUS
<1>4. t = 7 * (t \div 7) + (t % 7) /\ t \div 7 \in Int
  OBVIOUS
<1>5. D!Weekday(x) = t % 7
  BY <1>1, <1>2 DEF D!Weekday
<1>6. InWeek(x, t \div 7, D!Weekday(x))
  BY <1>1, <1>2, <1>4, <1>5 DEF InWeek
<1> QED
  BY <1>3, <1>4, <1>5, <1>6

LEMMA WeekdayOf ==
  ASSUME NEW x \in Int, NEW q \in Int, NEW r \in 0 .. 6, InWeek(x, q, r)
  PROVE  D!Weekday(x) = r
<1>1. (7 * q + r) % 7 = r
  OBVIOUS
<1> QED
  BY <1>1 DEF D!Weekday, InWeek

\* The day before the first of the next month is the last of a month.
LEMMA DaysInMonthAre ==
  ASSUME NEW y \in Int, NEW m \in 0 .. 11
  PROVE  D!DaysInMonth(y, m + 1) = D!Day(y, m + 1, 1) - D!Day(y, m, 1)
<1>1. PICK n \in Int : n = m + 1
  OBVIOUS
<1>2. PICK a \in Int, b \in Int : a = D!Day(y, m, 1) /\ b = D!Day(y, n, 1)
  <2>1. D!Day(y, m, 1) \in Int /\ D!Day(y, n, 1) \in Int
    <3>1. m \in Int
      OBVIOUS
    <3> QED
      BY <3>1, FirstIsDay, Zenon
  <2> QED
    BY <2>1
<1>3. b - a \in 28 .. 31
  BY <1>1, <1>2, MonthLength
<1>4. PICK x \in Int : x = D!Day(y, n, 0) /\ x = b - 1
  <2>1. 0 \in Int
    OBVIOUS
  <2>2. D!Day(y, n, 0) = D!Day(y, n, 1) + 0 - 1
    BY <2>1, DayCounts
  <2> QED
    BY <1>2, <2>2
<1>5. InMonth(x, y, m)
  BY <1>1, <1>2, <1>3, <1>4 DEF InMonth
<1>6. D!DayOf(x) = x - D!Day(y, m, 1) + 1
  BY <1>5, DateIs
<1> QED
  BY <1>1, <1>2, <1>4, <1>6 DEF D!DaysInMonth

\* A calendar begins at most six days before the month and ends at most six days after it,
\* with the week.
LEMMA VisibleAre ==
  ASSUME NEW x \in Int, startingDay \in {0, 1}, NEW first, first = D!Day(D!Year(x), D!Month(x), 1)
  PROVE  \E lead \in 0 .. 6, n \in 28 .. 31, pad \in 0 .. 6, q \in Int :
           /\ first \in Int /\ D!Day(D!Year(x), D!Month(x) + 1, 1) = first + n
           /\ D!VisibleDays(x).first = first - lead /\ D!VisibleDays(x).count = lead + n + pad
           /\ (lead + n + pad) % 7 = 0 /\ lead + n + pad = 7 * q
           /\ D!Weekday(first - lead) = startingDay
<1>1. PICK y \in Int, m \in 0 .. 11 : y = D!Year(x) /\ m = D!Month(x)
  BY YearIs, MonthIs
<1>2. first \in Int /\ first = D!Day(y, m, 1)
  <2>1. m \in Int
    OBVIOUS
  <2> QED
    BY <1>1, <2>1, FirstIsDay
<1>3. PICK n \in 28 .. 31 : n = D!Day(y, m + 1, 1) - first
  BY <1>2, MonthLength
<1>4. D!DaysInMonth(y, m + 1) = n
  BY <1>2, <1>3, DaysInMonthAre
<1>5. PICK wd \in 0 .. 6, p \in Int :
        wd = D!Weekday(first) /\ InWeek(first, p, wd)
  BY <1>2, WeekdayIs
<1> DEFINE lead == D!Lead(startingDay - wd)
<1>6. lead = IF startingDay - wd > 0 THEN 7 - (startingDay - wd) ELSE wd - startingDay
  BY DEF D!Lead
<1>7. lead \in 0 .. 6
  BY <1>6
<1> HIDE DEF lead
<1>8. PICK c \in Int : c = lead + n
  BY <1>7
<1> DEFINE pad == (7 - (c % 7)) % 7
<1>9. pad \in 0 .. 6 /\ (c + pad) % 7 = 0
  <2>1. PICK r \in 0 .. 6 : r = c % 7
    OBVIOUS
  <2>2. pad = IF r = 0 THEN 0 ELSE 7 - r
    BY <2>1
  <2>3. r = 0 => (c + 0) % 7 = 0
    BY <2>1
  <2>4. r # 0 => (c + (7 - r)) % 7 = 0
    BY <2>1
  <2> HIDE DEF pad
  <2> QED
    BY <2>2, <2>3, <2>4
<1>10. D!VisibleDays(x) =
         [first |-> IF lead > 0 THEN first - lead ELSE first, count |-> c + pad]
  <2> DEFINE early == D!Lead(startingDay - D!Weekday(D!Day(D!Year(x), D!Month(x), 1)))
             all == early + D!DaysInMonth(D!Year(x), D!Month(x) + 1)
  <2>1. D!VisibleDays(x) =
          [first |-> IF early > 0 THEN D!Day(D!Year(x), D!Month(x), 1) - early
                     ELSE D!Day(D!Year(x), D!Month(x), 1),
           count |-> all + ((7 - (all % 7)) % 7)]
    BY Zenon DEF D!VisibleDays
  <2>2. early = lead /\ all = c
    BY <1>1, <1>4, <1>5, <1>8 DEF lead
  <2> HIDE DEF early, all
  <2> QED
    BY <2>1, <2>2, Zenon
<1> HIDE DEF pad
<1>11. D!VisibleDays(x).first = first - lead /\ D!VisibleDays(x).count = lead + n + pad
  BY <1>2, <1>7, <1>8, <1>9, <1>10
<1>12. D!Weekday(first - lead) = startingDay
  <2>1. PICK f \in Int : f = first - lead
    BY <1>2, <1>7
  <2>2. PICK k \in Int : k = D!Day(2016, 2, 1)
    BY FirstIsDay
  <2>3. startingDay \in 0 .. 6 /\ p - 1 \in Int
    OBVIOUS
  <2>4. first - k + 2 = 7 * p + wd
    BY <1>5, <2>2 DEF InWeek
  <2>5. CASE startingDay - wd > 0
    <3>1. f - k + 2 = 7 * (p - 1) + startingDay
      BY <1>2, <1>6, <1>7, <2>1, <2>4, <2>5
    <3>2. InWeek(f, p - 1, startingDay)
      BY <2>2, <3>1 DEF InWeek
    <3> QED
      BY <2>1, <2>3, <3>2, WeekdayOf
  <2>6. CASE ~(startingDay - wd > 0)
    <3>1. f - k + 2 = 7 * p + startingDay
      BY <1>2, <1>6, <1>7, <2>1, <2>4, <2>6
    <3>2. InWeek(f, p, startingDay)
      BY <2>2, <3>1 DEF InWeek
    <3> QED
      BY <2>1, <2>3, <3>2, WeekdayOf
  <2> QED
    BY <2>5, <2>6
<1>13. PICK q \in Int : lead + n + pad = 7 * q
  <2>1. PICK t \in Int : t = c + pad
    BY <1>9
  <2>2. t = 7 * (t \div 7) + (t % 7) /\ t \div 7 \in Int
    OBVIOUS
  <2> QED
    BY <1>8, <1>9, <2>1, <2>2
<1>14. D!Day(D!Year(x), D!Month(x) + 1, 1) = first + n
  <2>1. m + 1 \in Int
    OBVIOUS
  <2>2. D!Day(y, m + 1, 1) \in Int
    BY <2>1, FirstIsDay, Zenon
  <2> QED
    BY <1>1, <1>2, <1>3, <2>2
<1> QED
  BY <1>2, <1>7, <1>8, <1>9, <1>11, <1>12, <1>13, <1>14

\* The week of a year's 4 January begins with its Monday.
WeekOne(y) == D!Day(y, 0, 4) - ((D!Weekday(D!Day(y, 0, 4)) + 6) % 7)

LEMMA WeekOneIs ==
  ASSUME NEW y \in Int
  PROVE  \E r \in 0 .. 6, q \in Int :
           WeekOne(y) = D!Day(y, 0, 1) + 3 - r /\ InWeek(WeekOne(y), q, 1)
<1>1. PICK f \in Int : f = D!Day(y, 0, 1)
  BY FirstIsDay
<1>2. PICK x \in Int : x = D!Day(y, 0, 4) /\ x = f + 3
  <2>1. 0 \in Int /\ 4 \in Int
    OBVIOUS
  <2>2. D!Day(y, 0, 4) = D!Day(y, 0, 1) + 4 - 1
    BY <2>1, DayCounts
  <2> QED
    BY <1>1, <2>2
<1>3. PICK wd \in 0 .. 6, p \in Int : wd = D!Weekday(x) /\ InWeek(x, p, wd)
  BY WeekdayIs
<1>4. PICK k \in Int : k = D!Day(2016, 2, 1)
  BY FirstIsDay
<1>5. x - k + 2 = 7 * p + wd
  BY <1>3, <1>4 DEF InWeek
<1>6. PICK r \in 0 .. 6 : r = (wd + 6) % 7 /\ r = IF wd = 0 THEN 6 ELSE wd - 1
  OBVIOUS
<1>7. WeekOne(y) = x - r
  BY <1>2, <1>3, <1>6 DEF WeekOne
<1>8. PICK q \in Int : q = IF wd = 0 THEN p - 1 ELSE p
  OBVIOUS
<1>9. (x - r) - k + 2 = 7 * q + 1
  BY <1>5, <1>6, <1>8
<1>10. InWeek(x - r, q, 1)
  BY <1>4, <1>9 DEF InWeek
<1> QED
  BY <1>1, <1>2, <1>7, <1>10

\* The week of a Monday is one of the year its Thursday is in, and has that year's number.
LEMMA WeekIs ==
  ASSUME NEW x \in Int, D!Weekday(x) = 1, NEW y \in Int, y = D!Year(x + 3)
  PROVE  /\ WeekOne(y) <= x /\ x < WeekOne(y + 1)
         /\ D!WeekNumber(x) = ((x - WeekOne(y)) \div 7) + 1
<1>1. PICK t \in Int : t = x + 3
  OBVIOUS
<1>2. PICK z \in Int : z = y + 1
  OBVIOUS
<1>3. PICK f \in Int, g \in Int :
        f = D!Day(y, 0, 1) /\ g = D!Day(z, 0, 1) /\ f <= t /\ t < g
  <2>1. D!Day(y, 0, 1) \in Int /\ D!Day(z, 0, 1) \in Int
    <3>1. 0 \in Int
      OBVIOUS
    <3> QED
      BY <3>1, FirstIsDay, Zenon
  <2>2. InYear(t, y)
    BY <1>1, YearIs
  <2> QED
    BY <1>2, <2>1, <2>2 DEF InYear
<1>4. PICK r \in 0 .. 6, q \in Int : WeekOne(y) = f + 3 - r /\ InWeek(WeekOne(y), q, 1)
  BY <1>3, WeekOneIs
<1>5. PICK s \in 0 .. 6 : WeekOne(z) = g + 3 - s
  BY <1>3, WeekOneIs
<1>6. PICK p \in Int : InWeek(x, p, 1)
  BY WeekdayIs
<1>7. PICK k \in Int : k = D!Day(2016, 2, 1)
  BY FirstIsDay
<1>8. PICK w \in Int : w = WeekOne(y)
  BY <1>3, <1>4
<1>9. x - k + 2 = 7 * p + 1 /\ w - k + 2 = 7 * q + 1
  BY <1>4, <1>6, <1>7, <1>8 DEF InWeek
<1>10. PICK n \in Int : n = p - q
  OBVIOUS
<1>11. x - w = 7 * n /\ t - f = 7 * n + 6 - r
  BY <1>1, <1>4, <1>8, <1>9, <1>10
<1>12. n >= 0
  BY <1>3, <1>11
<1>13. (7 * n) \div 7 = n /\ (7 * n + 6 - r) \div 7 = n
  <2>1. (7 * n) \div 7 = n
    OBVIOUS
  <2>2. (7 * n + 6 - r) \div 7 = n
    OBVIOUS
  <2> QED
    BY <2>1, <2>2
<1>14. D!WeekNumber(x) = ((t - f) \div 7) + 1
  <2>1. x + 4 - 1 = t
    BY <1>1
  <2> QED
    BY <1>1, <1>3, <2>1 DEF D!WeekNumber
<1>15. WeekOne(y) <= x
  BY <1>8, <1>11, <1>12
<1>16. x < WeekOne(y + 1)
  BY <1>1, <1>2, <1>3, <1>5
<1>17. (x - w) \div 7 = n /\ (t - f) \div 7 = n
  <2>1. x - w = 7 * n /\ t - f = 7 * n + 6 - r
    BY <1>11
  <2> QED
    BY <1>13, <2>1, Zenon
<1>18. D!WeekNumber(x) = ((x - w) \div 7) + 1
  BY <1>14, <1>17, Zenon
<1> QED
  BY <1>8, <1>15, <1>16, <1>18, Zenon

\* Some days after another the year is the same, or the next.
LEMMA SameYearOrNext ==
  ASSUME NEW x \in Int, NEW t \in Int, x <= t, t <= x + 60
  PROVE  D!Year(t) \in D!Year(x) .. D!Year(x) + 1
<1>1. PICK y \in Int, z \in Int : /\ y = D!Year(x) /\ z = D!Year(t)
                                  /\ InYear(x, y) /\ InYear(t, z)
  BY YearIs
<1>2. PICK n \in Int : n = y + 1
  OBVIOUS
<1>3. D!Day(y, 0, 1) <= x /\ x < D!Day(n, 0, 1) /\ D!Day(z, 0, 1) <= t /\ t < D!Day(z + 1, 0, 1)
  BY <1>1, <1>2 DEF InYear
<1>4. D!Day(y, 0, 1) \in Int /\ D!Day(n, 0, 1) \in Int /\ D!Day(z, 0, 1) \in Int
      /\ D!Day(z + 1, 0, 1) \in Int /\ D!Day(n + 1, 0, 1) \in Int
  <2>1. 0 \in Int /\ z + 1 \in Int /\ n + 1 \in Int
    OBVIOUS
  <2> QED
    BY <2>1, FirstIsDay, Zenon
<1>5. ~(z < y)
  <2> SUFFICES ASSUME z < y PROVE FALSE
    OBVIOUS
  <2>1. D!Day(z + 1, 0, 1) <= D!Day(y, 0, 1)
    BY YearsGrow
  <2> QED
    BY <1>3, <1>4, <2>1
<1>6. ~(n < z)
  <2> SUFFICES ASSUME n < z PROVE FALSE
    OBVIOUS
  <2>1. D!Day(n + 1, 0, 1) <= D!Day(z, 0, 1)
    BY YearsGrow
  <2>2. D!Day(n + 1, 0, 1) - D!Day(n, 0, 1) >= 365
    <3>1. PICK a, b \in Int : FirstDays(n, a, b)
      BY YearStarts
    <3> QED
      BY <3>1 DEF FirstDays
  <2> QED
    BY <1>3, <1>4, <2>1, <2>2
<1>7. y <= z /\ z <= y + 1
  BY <1>2, <1>5, <1>6
<1>8. z \in y .. y + 1
  BY <1>7
<1> QED
  BY <1>1, <1>8

\* The days shown are whole weeks that begin as they should, with all of the month in them,
\* and their numbers are those of ISO 8601.
THEOREM CalendarIs ==
  ASSUME dateShown \in Int, startingDay \in {0, 1}
  PROVE  D!CalendarShowsMonth
<1> DEFINE first == D!Day(D!Year(dateShown), D!Month(dateShown), 1)
           next == D!Day(D!Year(dateShown), D!Month(dateShown) + 1, 1)
           v == D!VisibleDays(dateShown)
<1>1. PICK lead \in 0 .. 6, n \in 28 .. 31, pad \in 0 .. 6, q \in Int :
        /\ first \in Int /\ next = first + n
        /\ v.first = first - lead /\ v.count = lead + n + pad
        /\ (lead + n + pad) % 7 = 0 /\ lead + n + pad = 7 * q
        /\ D!Weekday(first - lead) = startingDay
  BY VisibleAre, Zenon
<1> DEFINE end == next - 1
           weeks == 0 .. v.count \div 7 - 1
           begin == v.first
           count == v.count
           Numbered(w) ==
             \E y \in D!Year(begin) .. D!Year(begin) + 1 :
               /\ WeekOne(y) <= begin + 7 * w /\ begin + 7 * w < WeekOne(y + 1)
               /\ D!WeekNumber(begin + 7 * w) = (begin + 7 * w - WeekOne(y)) \div 7 + 1
<1>2. SUFFICES /\ D!Weekday(begin) = startingDay /\ count % 7 = 0 /\ count <= 42
               /\ begin <= first /\ first < begin + 7
               /\ end < begin + count /\ begin + count <= end + 7
               /\ startingDay = 1 => \A w \in weeks : Numbered(w)
  BY Zenon DEF D!CalendarShowsMonth, WeekOne
<1> HIDE DEF v, first, next
<1>3. /\ begin = first - lead /\ count = lead + n + pad /\ first \in Int /\ end = first + n - 1
  BY <1>1
<1>4. D!Weekday(begin) = startingDay /\ count % 7 = 0
  BY <1>1, <1>3
<1>5. begin \in Int /\ count \in Int /\ count = 7 * q
  BY <1>1, <1>3
<1>6. count <= 42 /\ begin <= first /\ first < begin + 7 /\ end < begin + count
      /\ begin + count <= end + 7
  BY <1>1, <1>3
<1>7. weeks = 0 .. q - 1 /\ q <= 6
  <2>1. (7 * q) \div 7 = q
    OBVIOUS
  <2> QED
    BY <1>5, <1>6, <2>1
<1> HIDE DEF begin, count, end, weeks
<1>8. ASSUME startingDay = 1, NEW w \in weeks PROVE Numbered(w)
  <2>1. PICK x \in Int : x = begin + 7 * w /\ begin <= x /\ x <= begin + 35
    <3>1. w \in 0 .. q - 1
      BY <1>7
    <3> QED
      BY <1>5, <1>7, <3>1
  <2>2. PICK p \in Int : InWeek(begin, p, 1)
    BY <1>4, <1>5, <1>8, WeekdayIs
  <2>3. D!Weekday(x) = 1
    <3>1. PICK k \in Int : k = D!Day(2016, 2, 1)
      BY FirstIsDay
    <3>2. begin - k + 2 = 7 * p + 1
      BY <2>2, <3>1 DEF InWeek
    <3>3. PICK u \in Int : u = p + w
      BY <1>7
    <3>4. x - k + 2 = 7 * u + 1
      BY <1>5, <1>7, <2>1, <3>2, <3>3
    <3>5. InWeek(x, u, 1) /\ 1 \in 0 .. 6
      BY <3>1, <3>4 DEF InWeek
    <3> QED
      BY <3>5, WeekdayOf
  <2>4. PICK t \in Int : t = x + 3 /\ begin <= t /\ t <= begin + 60
    BY <1>5, <2>1
  <2>5. PICK y \in Int : y = D!Year(t)
    BY YearIs
  <2>6. y \in D!Year(begin) .. D!Year(begin) + 1
    BY <1>5, <2>4, <2>5, SameYearOrNext
  <2>7. /\ WeekOne(y) <= x /\ x < WeekOne(y + 1)
        /\ D!WeekNumber(x) = ((x - WeekOne(y)) \div 7) + 1
    BY <2>3, <2>4, <2>5, WeekIs
  <2>8. /\ WeekOne(y) <= begin + 7 * w /\ begin + 7 * w < WeekOne(y + 1)
        /\ D!WeekNumber(begin + 7 * w) = (begin + 7 * w - WeekOne(y)) \div 7 + 1
    <3>1. WeekOne(y) <= begin + 7 * w /\ begin + 7 * w < WeekOne(y + 1)
      <4> SUFFICES WeekOne(y) <= x /\ x < WeekOne(y + 1)
        BY <2>1, Zenon
      <4> QED
        BY <2>7
    <3>2. D!WeekNumber(begin + 7 * w) = D!WeekNumber(x)
      BY <2>1, Zenon
    <3>3. (begin + 7 * w - WeekOne(y)) \div 7 + 1 = (x - WeekOne(y)) \div 7 + 1
      <4>1. 7 * w \in Int /\ WeekOne(y) \in Int
        <5>1. w \in Int /\ D!Day(y, 0, 1) \in Int
          <6>1. 0 \in Int
            OBVIOUS
          <6> QED
            BY <1>7, <6>1, FirstIsDay
        <5> QED
          BY <5>1, WeekOneIs
      <4>2. begin + 7 * w - WeekOne(y) = x - WeekOne(y)
        BY <1>5, <2>1, <4>1
      <4> QED
        BY <4>2, Zenon
    <3> QED
      BY <2>7, <3>1, <3>2, <3>3, Zenon
  <2> QED
    BY <2>6, <2>8, Zenon
<1> QED
  BY <1>4, <1>6, <1>8

-----------------------------------------------------------------------------
(* The dates *)

\* Every date is a day, and so are those that the page or a user can give.
LEMMA DaysAreInt ==
  /\ \A y, m, d \in Int : D!Day(y, m, d) \in Int
  /\ D!DayNumbers \subseteq Int
<1>1. \A y, m, d \in Int : D!Day(y, m, d) \in Int
  BY DEF D!Day
<1>2. \A d \in Dates : d[1] \in Int /\ d[2] \in Int /\ d[3] \in Int
  BY DEF Dates
<1>3. ASSUME NEW x \in D!DayNumbers PROVE x \in Int
  <2>1. PICK d \in Dates : x = D!Day(d[1], d[2], d[3])
    BY DEF D!DayNumbers
  <2>2. d[1] \in Int /\ d[2] \in Int /\ d[3] \in Int
    BY <1>2
  <2> QED
    BY <1>1, <2>1, <2>2
<1> QED
  BY <1>1, <1>3

\* What the calendar offers are days.
LEMMA VisibleAreInt ==
  ASSUME dateShown \in Int, startingDay \in {0, 1}, mode \in 0 .. 2
  PROVE  D!Visible \subseteq Int
<1>1. D!Year(dateShown) \in Int
  BY YearIs
<1>2. CASE mode = 0
  <2>1. PICK first : first = D!Day(D!Year(dateShown), D!Month(dateShown), 1)
    OBVIOUS
  <2>2. PICK lead \in 0 .. 6, n \in 28 .. 31, pad \in 0 .. 6, q \in Int :
          /\ first \in Int /\ D!Day(D!Year(dateShown), D!Month(dateShown) + 1, 1) = first + n
          /\ D!VisibleDays(dateShown).first = first - lead
          /\ D!VisibleDays(dateShown).count = lead + n + pad
          /\ (lead + n + pad) % 7 = 0 /\ lead + n + pad = 7 * q
          /\ D!Weekday(first - lead) = startingDay
    BY <2>1, VisibleAre, Zenon
  <2>3. D!Visible = {D!VisibleDays(dateShown).first, D!VisibleDays(dateShown).first + 9,
                     D!VisibleDays(dateShown).first + D!VisibleDays(dateShown).count - 1}
    BY <1>2 DEF D!Visible
  <2>4. D!VisibleDays(dateShown).first \in Int /\ D!VisibleDays(dateShown).count \in Int
    BY <2>2
  <2> QED
    BY <2>3, <2>4
<1>3. CASE mode = 1
  <2> SUFFICES ASSUME NEW x \in D!Visible PROVE x \in Int
    OBVIOUS
  <2>1. PICK m \in {0, 1, 11} : x = D!Day(D!Year(dateShown), m, 1)
    BY <1>3 DEF D!Visible
  <2> QED
    BY <1>1, <2>1, FirstIsDay
<1>4. CASE mode = 2
  <2> SUFFICES ASSUME NEW x \in D!Visible PROVE x \in Int
    OBVIOUS
  <2>1. PICK y \in Years : x = D!Day(y, 0, 1)
    BY <1>4 DEF D!Visible
  <2>2. y \in Int
    BY DEF Years
  <2> QED
    BY <2>1, <2>2, FirstIsDay
<1> QED
  BY <1>2, <1>3, <1>4

\* refill() leaves the calendar saying whether the date is within its limits.
LEMMA RefillSays ==
  ASSUME NEW date, NEW lim, D!Refill(date, lim), dateModel' = date, limits' = lim
  PROVE  /\ enabled' \in BOOLEAN
         /\ (enabled = (~D!IsDate(dateModel) \/ ~D!IsDisabled(dateModel.day, 0, limits)))'
BY DEF D!Refill, D!IsDisabled, D!Rank, D!IsDate, D!BadDate

\* The popup listens as it should after it was opened or closed, for what is-open names too.
LEMMA SetOpenListens ==
  ASSUME NEW value \in BOOLEAN, D!SetOpen(value), bound' = bound,
         isOpen \in BOOLEAN, outer \in BOOLEAN, bound \in BOOLEAN, D!PopupListens
  PROVE  isOpen' \in BOOLEAN /\ outer' \in BOOLEAN /\ D!PopupListens'
<1>1. isOpen' = value /\ outer' = IF bound THEN value ELSE outer
  BY DEF D!SetOpen
<1>2. isOpen' \in BOOLEAN /\ outer' \in BOOLEAN /\ (bound' => outer' = isOpen')
  BY <1>1, Zenon
<1>3. CASE value = isOpen
  <2>1. clickBound' = clickBound /\ focusBound' = focusBound
    BY <1>3 DEF D!SetOpen
  <2> QED
    BY <1>1, <1>2, <1>3, <2>1, Zenon DEF D!PopupListens
<1>4. CASE value # isOpen
  <2>1. CASE value = TRUE
    <3>1. isOpen = FALSE /\ isOpen' = TRUE
      BY <1>1, <1>4, <2>1, Zenon
    <3>2. clickBound = 0
      BY <3>1 DEF D!PopupListens
    <3>3. clickBound' = clickBound + 1 /\ focusBound' = 0
      BY <1>4, <2>1, Zenon DEF D!SetOpen
    <3>4. clickBound' = 1
      BY <3>2, <3>3
    <3> QED
      BY <1>2, <3>1, <3>3, <3>4, Zenon DEF D!PopupListens
  <2>2. CASE value = FALSE
    <3>1. isOpen = TRUE /\ isOpen' = FALSE
      BY <1>1, <1>4, <2>2, Zenon
    <3>2. focusBound = 0
      BY <3>1 DEF D!PopupListens
    <3>3. clickBound' = 0 /\ focusBound' = focusBound + 1
      BY <1>4, <2>2, Zenon DEF D!SetOpen
    <3>4. focusBound' = 1
      BY <3>2, <3>3
    <3> QED
      BY <1>2, <3>1, <3>3, <3>4, Zenon DEF D!PopupListens
  <2> QED
    BY <2>1, <2>2
<1> QED
  BY <1>3, <1>4

LEMMA DatesInit == ASSUME D!DpInit PROVE DatesInv
<1>1. /\ startingDay \in {0, 1} /\ bound \in BOOLEAN /\ mode = 0 /\ dateShown \in Int
      /\ dateModel = [day |-> 0, time |-> 0] /\ limits = [min |-> 0, max |-> 0]
      /\ dateValid = TRUE /\ enabled = TRUE /\ acts = 0 /\ dateGiven = "page"
  BY DaysAreInt DEF D!DpInit, D!NoDate
<1>2. isOpen \in BOOLEAN /\ outer \in BOOLEAN /\ D!PopupListens
  BY <1>1 DEF D!DpInit, D!PopupListens
<1>3. acts \in 0 .. MaxDateActs
  BY <1>1, WidgetsAssumption DEF WidgetsAssumption
<1>4. D!ValidityInStep
  BY <1>1 DEF D!ValidityInStep, D!IsDate
<1> QED
  BY <1>1, <1>2, <1>3, <1>4 DEF DatesInv, D!DpTypeOK

\* A step counts, and what it leaves of the calendar's settings stays.
LEMMA ActCounts ==
  ASSUME acts \in 0 .. MaxDateActs, D!Act
  PROVE  acts' \in 0 .. MaxDateActs
BY WidgetsAssumption DEF D!Act, WidgetsAssumption

\* The parts of the invariant: types, what the calendar says of the date, and who gave it.
DateT == [day : Int, time : {0, 180, 600}]
DateActs == acts \in 0 .. MaxDateActs
CalendarTypes ==
  /\ startingDay \in {0, 1} /\ mode \in 0 .. 2 /\ dateShown \in Int
  /\ dateModel \in DateT /\ limits \in [min : Int, max : Int]
  /\ dateValid \in BOOLEAN /\ enabled \in BOOLEAN /\ dateGiven \in {"page", "text", "pick"}
PopupHolds ==
  isOpen \in BOOLEAN /\ outer \in BOOLEAN /\ bound \in BOOLEAN /\ D!PopupListens
DateEnabled == enabled = (~D!IsDate(dateModel) \/ ~D!IsDisabled(dateModel.day, 0, limits))
DateTold ==
  /\ dateGiven = "pick" \/ (dateGiven = "text" /\ dateModel.day # 0) => dateValid
  /\ dateValid \/ dateModel.day = 0 \/ dateModel.time = 600

LEMMA DatesAre ==
  DatesInv <=> DateActs /\ CalendarTypes /\ PopupHolds /\ DateEnabled /\ DateTold
<1>1. dateModel \in DateT => dateModel.day \in Int /\ dateModel.time \in {0, 180, 600}
  BY DEF DateT
<1> QED
  BY <1>1 DEF DatesInv, D!DpTypeOK, D!ValidityInStep, CalendarTypes, PopupHolds, DateEnabled,
              DateTold, DateT, DateActs

\* A model that is set is shown from its day on, and the calendar says whether it is enabled.
LEMMA RenderSays ==
  ASSUME NEW date \in DateT, D!Render(date), limits' = limits, dateShown \in Int
  PROVE  dateModel' = date /\ dateShown' \in Int /\ enabled' \in BOOLEAN /\ DateEnabled'
<1>1. /\ dateModel' = date /\ dateShown' = (IF D!IsDate(date) THEN date.day ELSE dateShown)
      /\ D!Refill(date, limits)
  BY DEF D!Render
<1>2. D!Refill(date, limits')
  BY <1>1
<1>3. date.day \in Int
  BY DEF DateT
<1> QED
  BY <1>1, <1>2, <1>3, RefillSays DEF DateEnabled

LEMMA DatesStep == ASSUME DatesInv, D!DpNext PROVE DatesInv'
<1>1. DateActs /\ CalendarTypes /\ PopupHolds /\ DateEnabled /\ DateTold
  BY DatesAre
<1>2. DateActs'
  <2>1. D!Act
    BY DEF D!DpNext, D!Focus, D!ClickElsewhere, D!SetIsOpen, D!ToggleMode, D!Select, D!Move,
           D!Type, D!SetModel, D!SetLimits
  <2> QED
    BY <1>1, <2>1, ActCounts DEF DateActs
<1>3. SUFFICES CalendarTypes' /\ PopupHolds' /\ DateEnabled' /\ DateTold'
  <2>1. DatesInv' <=> DateActs' /\ CalendarTypes' /\ PopupHolds' /\ DateEnabled' /\ DateTold'
    BY DatesAre, PTL
  <2> QED
    BY <1>2, <2>1
\* The popup opens or closes, and the calendar stays.
<1>4. ASSUME NEW value \in BOOLEAN, D!SetOpen(value),
             UNCHANGED <<startingDay, mode, dateShown, dateModel, limits, dateValid, enabled,
                         bound, dateGiven>>
      PROVE  CalendarTypes' /\ PopupHolds' /\ DateEnabled' /\ DateTold'
  <2>1. isOpen' \in BOOLEAN /\ outer' \in BOOLEAN /\ D!PopupListens' /\ bound' = bound
    BY <1>1, <1>4, SetOpenListens DEF PopupHolds
  <2>2. DateEnabled'
    BY <1>1, <1>4 DEF DateEnabled, D!IsDisabled, D!Rank, D!IsDate, D!BadDate
  <2> QED
    BY <1>1, <1>4, <2>1, <2>2 DEF CalendarTypes, PopupHolds, DateTold
<1>5. ASSUME UNCHANGED <<isOpen, outer, bound, clickBound, focusBound>> PROVE PopupHolds'
  BY <1>1, <1>5 DEF PopupHolds, D!PopupListens
\* Another month or mode is shown.
<1>6. ASSUME mode' \in 0 .. 2, dateShown' \in Int, D!Refill(dateModel, limits),
             UNCHANGED <<startingDay, dateModel, limits, dateValid, dateGiven>>
      PROVE  CalendarTypes' /\ DateEnabled' /\ DateTold'
  <2>1. D!Refill(dateModel', limits')
    BY <1>6
  <2>2. enabled' \in BOOLEAN /\ DateEnabled'
    BY <1>6, <2>1, RefillSays DEF DateEnabled
  <2> QED
    BY <1>1, <1>6, <2>2 DEF CalendarTypes, DateTold
\* The model is set.
<1>7. ASSUME NEW date \in DateT, D!Render(date), UNCHANGED <<startingDay, mode, limits>>,
             dateValid' \in BOOLEAN, dateGiven' \in {"page", "text", "pick"},
             dateGiven' # "page" => dateValid' \/ date.day = 0,
             dateGiven' = "pick" => dateValid',
             dateValid' \/ date.day = 0 \/ date.time = 600
      PROVE  CalendarTypes' /\ DateEnabled' /\ DateTold'
  <2>1. dateModel' = date /\ dateShown' \in Int /\ enabled' \in BOOLEAN /\ DateEnabled'
    BY <1>1, <1>7, RenderSays DEF CalendarTypes
  <2> QED
    BY <1>1, <1>7, <2>1 DEF CalendarTypes, DateTold
<1>8. CASE D!Focus
  <2>1. D!SetOpen(TRUE)
    BY <1>8 DEF D!Focus
  <2> QED
    BY <1>4, <1>8, <2>1, Zenon DEF D!Focus
<1>9. CASE D!ClickElsewhere
  BY <1>4, <1>9, Zenon DEF D!ClickElsewhere
<1>10. CASE D!SetIsOpen
  <2>1. (~outer) \in BOOLEAN
    OBVIOUS
  <2> QED
    BY <1>4, <1>10, <2>1, Zenon DEF D!SetIsOpen
<1>11. CASE D!ToggleMode
  <2>1. mode' \in 0 .. 2 /\ dateShown' = dateShown
    BY <1>1, <1>11 DEF D!ToggleMode, CalendarTypes
  <2>2. D!Refill(dateModel, limits)
        /\ UNCHANGED <<startingDay, dateModel, limits, dateValid, dateGiven>>
        /\ UNCHANGED <<isOpen, outer, bound, clickBound, focusBound>>
    BY <1>11 DEF D!ToggleMode
  <2> QED
    BY <1>1, <1>5, <1>6, <2>1, <2>2, Zenon DEF CalendarTypes
<1>12. ASSUME NEW day \in D!Visible, D!Select(day)
       PROVE  CalendarTypes' /\ PopupHolds' /\ DateEnabled' /\ DateTold'
  <2>1. day \in Int
    BY <1>1, VisibleAreInt DEF CalendarTypes
  <2>2. startingDay' = startingDay /\ limits' = limits /\ bound' = bound
    BY <1>12 DEF D!Select
  <2>3. CASE mode = 0
    <3>1. /\ D!Render(D!Picked(day)) /\ D!SetOpen(FALSE) /\ dateValid' = TRUE
          /\ dateGiven' = "pick" /\ mode' = mode
      BY <1>12, <2>3 DEF D!Select
    <3>2. D!Picked(day) \in DateT
      BY <1>1, <2>1 DEF D!Picked, DateT, CalendarTypes
    <3>3. isOpen' \in BOOLEAN /\ outer' \in BOOLEAN /\ D!PopupListens'
      BY <1>1, <2>2, <3>1, SetOpenListens, Zenon DEF PopupHolds
    <3>4. PopupHolds'
      BY <1>1, <2>2, <3>3, Zenon DEF PopupHolds
    <3>5. CalendarTypes' /\ DateEnabled' /\ DateTold'
      BY <1>7, <2>2, <3>1, <3>2
    <3> QED
      BY <3>4, <3>5
  <2>4. CASE mode # 0
    <3>1. /\ dateShown' = day /\ mode' = mode - 1 /\ D!Refill(dateModel, limits)
          /\ UNCHANGED <<dateModel, isOpen, outer, clickBound, focusBound, dateValid, dateGiven>>
      BY <1>12, <2>4 DEF D!Select
    <3>2. mode' \in 0 .. 2
      BY <1>1, <2>4, <3>1 DEF CalendarTypes
    <3> QED
      BY <1>5, <1>6, <2>1, <2>2, <3>1, <3>2
  <2> QED
    BY <2>3, <2>4
<1>13. ASSUME NEW direction \in {-1, 1}, D!Move(direction)
       PROVE  CalendarTypes' /\ PopupHolds' /\ DateEnabled' /\ DateTold'
  <2> DEFINE months == IF mode = 0 THEN direction ELSE 0
             years == CASE mode = 0 -> 0 [] mode = 1 -> direction [] mode = 2 -> 20 * direction
             y == D!Year(dateShown) + years
             m == D!Month(dateShown) + months
             d == D!DayOf(dateShown)
  <2>1. dateShown' = D!Day(y, m, d) /\ D!Refill(dateModel, limits) /\ mode' = mode
        /\ UNCHANGED <<startingDay, dateModel, limits, dateValid, dateGiven>>
        /\ UNCHANGED <<isOpen, outer, bound, clickBound, focusBound>>
    BY <1>13 DEF D!Move
  <2>2. mode \in 0 .. 2 /\ dateShown \in Int /\ direction \in Int
    BY <1>1 DEF CalendarTypes
  <2>3. D!Year(dateShown) \in Int /\ D!Month(dateShown) \in Int /\ d \in Int
    <3>1. PICK year \in Int, month \in 0 .. 11 : year = D!Year(dateShown) /\ month = D!Month(dateShown)
      BY <2>2, YearIs, MonthIs
    <3>2. D!Day(year, month, 1) \in Int
      BY FirstIsDay
    <3>3. d = dateShown - D!Day(year, month, 1) + 1
      BY <3>1 DEF D!DayOf
    <3> QED
      BY <2>2, <3>1, <3>2, <3>3
  <2>4. y \in Int /\ m \in Int
    BY <2>2, <2>3
  <2> HIDE DEF y, m, d
  <2>5. dateShown' \in Int
    BY <2>1, <2>3, <2>4, DaysAreInt
  <2> QED
    BY <1>5, <1>6, <2>1, <2>2, <2>5
<1>14. ASSUME NEW date \in DateT, NEW ok \in BOOLEAN, D!Type(date, ok),
              ok \/ date.day = 0 \/ date.time = 600, ok \/ date.day = 0
       PROVE  CalendarTypes' /\ PopupHolds' /\ DateEnabled' /\ DateTold'
  <2>1. D!Render(date) /\ dateValid' = ok /\ dateGiven' = "text"
        /\ UNCHANGED <<startingDay, mode, limits>>
        /\ UNCHANGED <<isOpen, outer, bound, clickBound, focusBound>>
    BY <1>14 DEF D!Type
  <2> QED
    BY <1>5, <1>7, <1>14, <2>1
<1>15. ASSUME NEW date \in DateT, D!SetModel(date), date.time = 600 \/ date.day = 0
       PROVE  CalendarTypes' /\ PopupHolds' /\ DateEnabled' /\ DateTold'
  <2>1. D!Render(date) /\ dateValid' = dateValid /\ dateGiven' = "page"
        /\ UNCHANGED <<startingDay, mode, limits>>
        /\ UNCHANGED <<isOpen, outer, bound, clickBound, focusBound>>
    BY <1>15 DEF D!SetModel
  <2>2. dateValid' \in BOOLEAN
    BY <1>1, <2>1 DEF CalendarTypes
  <2> QED
    BY <1>5, <1>7, <1>15, <2>1, <2>2
<1>16. ASSUME NEW min \in Int, NEW max \in Int, D!SetLimits([min |-> min, max |-> max])
       PROVE  CalendarTypes' /\ PopupHolds' /\ DateEnabled' /\ DateTold'
  <2>1. limits' = [min |-> min, max |-> max] /\ D!Refill(dateModel, limits')
        /\ UNCHANGED <<startingDay, mode, dateShown, dateModel, dateValid, dateGiven>>
        /\ UNCHANGED <<isOpen, outer, bound, clickBound, focusBound>>
    BY <1>16 DEF D!SetLimits, D!LimitsSet
  <2>2. enabled' \in BOOLEAN /\ DateEnabled'
    BY <2>1, RefillSays DEF DateEnabled
  <2>3. limits' \in [min : Int, max : Int]
    BY <2>1
  <2>4. CalendarTypes' /\ DateTold'
    BY <1>1, <2>1, <2>2, <2>3 DEF CalendarTypes, DateTold
  <2> QED
    BY <1>5, <2>1, <2>2, <2>4
<1>17. \A day \in D!DayNumbers :
         /\ [day |-> day, time |-> 0] \in DateT /\ [day |-> day, time |-> 600] \in DateT
         /\ day \in Int
  BY DaysAreInt DEF DateT
<1>18. D!NullDate \in DateT /\ D!NoDate \in DateT /\ D!NullDate.day = 0 /\ D!NoDate.day = 0
  BY DEF D!NullDate, D!NoDate, DateT
<1>19. ASSUME NEW day \in D!DayNumbers, D!Type([day |-> day, time |-> 0], TRUE)
       PROVE  CalendarTypes' /\ PopupHolds' /\ DateEnabled' /\ DateTold'
  BY <1>14, <1>17, <1>19, Zenon
<1>20. ASSUME D!Type(D!NullDate, TRUE)
       PROVE  CalendarTypes' /\ PopupHolds' /\ DateEnabled' /\ DateTold'
  BY <1>14, <1>18, <1>20, Zenon
<1>21. ASSUME D!Type(D!NoDate, FALSE)
       PROVE  CalendarTypes' /\ PopupHolds' /\ DateEnabled' /\ DateTold'
  BY <1>14, <1>18, <1>21, Zenon
<1>22. ASSUME NEW date \in {[day |-> day, time |-> 600] : day \in D!DayNumbers}
                         \cup {D!NullDate, D!BadDate},
              D!SetModel(date)
       PROVE  CalendarTypes' /\ PopupHolds' /\ DateEnabled' /\ DateTold'
  <2>1. date \in {D!NullDate, D!BadDate}
        \/ \E day \in D!DayNumbers : date = [day |-> day, time |-> 600]
    BY <1>22
  <2>2. ASSUME date \in {D!NullDate, D!BadDate}
        PROVE  date \in DateT /\ (date.time = 600 \/ date.day = 0)
    <3>1. D!BadDate \in DateT /\ D!BadDate.time = 600
      BY DEF D!BadDate, DateT
    <3> QED
      BY <1>18, <2>2, <3>1
  <2>3. ASSUME NEW day \in D!DayNumbers, date = [day |-> day, time |-> 600]
        PROVE  date \in DateT /\ date.time = 600
    <3>1. day \in Int
      BY DaysAreInt
    <3> QED
      BY <2>3, <3>1 DEF DateT
  <2>4. date \in DateT /\ (date.time = 600 \/ date.day = 0)
    BY <2>1, <2>2, <2>3
  <2> QED
    BY <1>15, <1>22, <2>4
<1>23. ASSUME NEW min \in {0} \cup D!DayNumbers, NEW max \in {0} \cup D!DayNumbers,
              D!SetLimits([min |-> min, max |-> max])
       PROVE  CalendarTypes' /\ PopupHolds' /\ DateEnabled' /\ DateTold'
  <2>1. min \in Int /\ max \in Int
    BY <1>17
  <2> QED
    BY <1>16, <1>23, <2>1
<1> QED
  BY <1>8, <1>9, <1>10, <1>11, <1>12, <1>13, <1>19, <1>20, <1>21, <1>22, <1>23, Zenon DEF D!DpNext

LEMMA DatesGive ==
  ASSUME DatesInv
  PROVE  D!DpTypeOK /\ D!CalendarShowsMonth /\ D!ValidityInStep /\ D!PopupListens
<1>1. D!DpTypeOK /\ D!ValidityInStep /\ D!PopupListens
  BY DEF DatesInv
<1>2. dateShown \in Int /\ startingDay \in {0, 1}
  BY <1>1 DEF D!DpTypeOK
<1> QED
  BY <1>1, <1>2, CalendarIs

\* A day that every month has is the same day of the month before and of the month after.
LEMMA MonthBeside ==
  ASSUME NEW x \in Int, D!DayOf(x) <= 28, NEW by \in {-1, 1},
         NEW to, to = D!Day(D!Year(x), D!Month(x) + by, D!DayOf(x))
  PROVE  12 * D!Year(to) + D!Month(to) - (12 * D!Year(x) + D!Month(x)) = by
<1>1. PICK y \in Int, m \in 0 .. 11 : y = D!Year(x) /\ m = D!Month(x) /\ InMonth(x, y, m)
  BY YearIs, MonthIs
<1>2. PICK first \in Int : first = D!Day(y, m, 1)
  BY FirstIsDay
<1>3. PICK d \in 1 .. 28 : d = D!DayOf(x)
  <2>1. D!DayOf(x) = x - first + 1 /\ first <= x
    BY <1>1, <1>2 DEF D!DayOf, InMonth
  <2> QED
    BY <1>2, <2>1
<1>4. to = D!Day(y, m + by, d)
  BY <1>1, <1>3
\* The day is in the month z of a year, when it counts from the first of that month.
<1>5. ASSUME NEW year \in Int, NEW z \in 0 .. 11, to = D!Day(year, z, 1) + d - 1
      PROVE  D!Year(to) = year /\ D!Month(to) = z
  <2>1. PICK f \in Int : f = D!Day(year, z, 1)
    BY FirstIsDay
  <2>2. PICK n \in 28 .. 31 : n = D!Day(year, z + 1, 1) - f
    BY <2>1, MonthLength
  <2>3. PICK k \in Int : k = D!Day(year, z + 1, 1)
    <3>1. z + 1 \in Int
      OBVIOUS
    <3> QED
      BY <3>1, FirstIsDay
  <2>4. to \in Int /\ f <= to /\ to < k
    BY <1>5, <2>1, <2>2, <2>3
  <2>5. InMonth(to, year, z)
    BY <2>1, <2>3, <2>4 DEF InMonth
  <2> QED
    BY <2>4, <2>5, DateIs
<1>6. \A k \in Int : D!Day(y, k, d) = D!Day(y, k, 1) + d - 1
  <2> SUFFICES ASSUME NEW k \in Int PROVE D!Day(y, k, d) = D!Day(y, k, 1) + d - 1
    OBVIOUS
  <2>1. d \in Int
    OBVIOUS
  <2> QED
    BY <2>1, DayCounts
<1>7. PICK k \in -1 .. 12 : k = m + by
  OBVIOUS
<1>8. to = D!Day(y, k, 1) + d - 1
  BY <1>4, <1>6, <1>7
<1>9. CASE k \in 0 .. 11
  <2>1. D!Year(to) = y /\ D!Month(to) = k
    BY <1>5, <1>8, <1>9
  <2> QED
    BY <1>1, <1>7, <2>1
<1>10. CASE k = 12
  <2>1. PICK z \in Int : z = y + 1
    OBVIOUS
  <2>2. D!Day(y, 12, 1) = D!Day(z, 0, 1)
    BY <2>1, YearEnds
  <2>3. to = D!Day(z, 0, 1) + d - 1
    BY <1>8, <1>10, <2>2
  <2>4. D!Year(to) = z /\ D!Month(to) = 0
    BY <1>5, <2>3
  <2> QED
    BY <1>1, <1>7, <1>10, <2>1, <2>4
<1>11. CASE k = -1
  <2>1. PICK z \in Int : z = y - 1
    OBVIOUS
  <2>2. D!Day(y, k, 1) = D!Day(z, 11, 1)
    <3>1. k \div 12 = -1 /\ k % 12 = 11
      <4>1. PICK q \in Int, r \in 0 .. 11 : q = k \div 12 /\ r = k % 12 /\ k = 12 * q + r
        OBVIOUS
      <4>2. q = -1 /\ r = 11
        BY <1>11, <4>1
      <4> QED
        BY <4>1, <4>2
    <3>2. PICK e \in Int : e = 11
      OBVIOUS
    <3>3. e \div 12 = 0 /\ e % 12 = 11
      BY <3>2
    <3>4. y + (k \div 12) = z /\ z + (e \div 12) = z
      BY <2>1, <3>1, <3>3
    <3>5. D!Day(y, k, 1) = D!Day(z, e, 1)
      BY <3>1, <3>3, <3>4 DEF D!Day
    <3> QED
      BY <3>2, <3>5
  <2>3. to = D!Day(z, 11, 1) + d - 1
    BY <1>8, <2>2
  <2>4. D!Year(to) = z /\ D!Month(to) = 11
    BY <1>5, <2>3
  <2> QED
    BY <1>1, <1>7, <1>11, <2>1, <2>4
<1> QED
  BY <1>7, <1>9, <1>10, <1>11

\* What is picked has the time of the model, and the arrows lead from month to month.
LEMMA DatesPicked ==
  ASSUME DatesInv, D!DpNext
  PROVE  /\ dateGiven' = "pick" /\ dateModel' # dateModel /\ dateModel # D!BadDate
              => dateModel'.time = dateModel.time
         /\ mode = 0 /\ mode' = 0 /\ isOpen' /\ dateModel' = dateModel /\ dateShown' # dateShown
            /\ D!DayOf(dateShown) <= 28
              => 12 * D!Year(dateShown') + D!Month(dateShown')
                   - (12 * D!Year(dateShown) + D!Month(dateShown)) \in {-1, 1}
<1> DEFINE Kept == dateGiven' = "pick" /\ dateModel' # dateModel /\ dateModel # D!BadDate
                     => dateModel'.time = dateModel.time
           Beside == 12 * D!Year(dateShown') + D!Month(dateShown')
                       - (12 * D!Year(dateShown) + D!Month(dateShown)) \in {-1, 1}
           Seen == mode = 0 /\ mode' = 0 /\ isOpen' /\ dateModel' = dateModel
                   /\ dateShown' # dateShown /\ D!DayOf(dateShown) <= 28
           Good == Kept /\ (Seen => Beside)
<1> SUFFICES Good
  OBVIOUS
<1>1. /\ startingDay \in {0, 1} /\ mode \in 0 .. 2 /\ dateShown \in Int /\ dateModel \in DateT
      /\ dateValid \in BOOLEAN /\ (dateValid \/ dateModel.day = 0 \/ dateModel.time = 600)
  BY DEF DatesInv, D!DpTypeOK, DateT
<1>2. ASSUME dateModel' = dateModel, dateShown' = dateShown PROVE Good
  BY <1>2
<1> HIDE DEF Beside
<1>3. CASE D!Focus \/ D!ClickElsewhere \/ D!SetIsOpen \/ D!ToggleMode
  BY <1>2, <1>3 DEF D!Focus, D!ClickElsewhere, D!SetIsOpen, D!ToggleMode
<1>4. ASSUME NEW min, NEW max, D!SetLimits([min |-> min, max |-> max]) PROVE Good
  BY <1>2, <1>4 DEF D!SetLimits
<1>5. ASSUME NEW day \in D!Visible, D!Select(day) PROVE Good
  <2>1. CASE mode = 0
    <3>1. dateModel' = D!Picked(day) /\ isOpen' = FALSE
      BY <1>5, <2>1 DEF D!Select, D!Render, D!SetOpen
    <3>2. dateModel # D!BadDate => dateModel'.time = dateModel.time
      BY <3>1 DEF D!Picked
    <3> QED
      BY <3>1, <3>2
  <2>2. CASE mode # 0
    <3>1. dateModel' = dateModel
      BY <1>5, <2>2 DEF D!Select
    <3> QED
      BY <2>2, <3>1
  <2> QED
    BY <2>1, <2>2
<1>6. ASSUME NEW by \in {-1, 1}, D!Move(by) PROVE Good
  <2>1. dateModel' = dateModel
    BY <1>6 DEF D!Move
  <2>2. ASSUME Seen PROVE Beside
    <3>1. dateShown' = D!Day(D!Year(dateShown) + 0, D!Month(dateShown) + by, D!DayOf(dateShown))
      BY <1>6, <2>2 DEF D!Move
    <3>2. D!Year(dateShown) \in Int /\ D!Month(dateShown) \in Int
      BY <1>1, YearIs, MonthIs
    <3>3. dateShown' = D!Day(D!Year(dateShown), D!Month(dateShown) + by, D!DayOf(dateShown))
      BY <3>1, <3>2
    <3>4. 12 * D!Year(dateShown') + D!Month(dateShown')
            - (12 * D!Year(dateShown) + D!Month(dateShown)) = by
      BY <1>1, <2>2, <3>3, MonthBeside
    <3> QED
      BY <3>4 DEF Beside
  <2> QED
    BY <2>1, <2>2
\* Typing the date of the model anew does not show another: the text was not a date, and the
\* model has none.
<1>7. ASSUME NEW date, NEW ok \in BOOLEAN, D!Type(date, ok),
             ok => date.day = 0 \/ date.time = 0, ~ok => date.day = 0
      PROVE  Good
  <2>1. dateModel' = date /\ dateGiven' = "text"
        /\ dateShown' = (IF D!IsDate(date) THEN date.day ELSE dateShown)
    BY <1>7 DEF D!Type, D!Render
  <2>2. dateModel # date \/ ok # dateValid
    BY <1>7 DEF D!Type
  <2>3. ASSUME dateModel' = dateModel PROVE dateShown' = dateShown
    <3> SUFFICES ASSUME date.day # 0 PROVE FALSE
      BY <2>1 DEF D!IsDate
    <3>1. date = dateModel /\ date.time = 0 /\ ok = TRUE
      BY <1>7, <2>1, <2>3
    <3>2. dateValid = FALSE
      BY <1>1, <2>2, <3>1
    <3>3. dateModel.time = 600 /\ dateModel.time = 0
      BY <1>1, <3>1, <3>2
    <3> QED
      BY <3>3
  <2> QED
    BY <2>1, <2>3
<1>8. ASSUME NEW date, D!SetModel(date) PROVE Good
  <2>1. dateGiven' = "page" /\ dateModel' = date /\ date # dateModel
    BY <1>8 DEF D!SetModel, D!Render
  <2> QED
    BY <2>1
<1>9. \A day \in D!DayNumbers : [day |-> day, time |-> 0].time = 0
  OBVIOUS
<1>10. D!NullDate.day = 0 /\ D!NoDate.day = 0
  BY DEF D!NullDate, D!NoDate
<1> HIDE DEF Good
<1>11. ASSUME NEW day \in D!DayNumbers, D!Type([day |-> day, time |-> 0], TRUE) PROVE Good
  BY <1>7, <1>9, <1>11, Zenon
<1>12. ASSUME D!Type(D!NullDate, TRUE) \/ D!Type(D!NoDate, FALSE) PROVE Good
  BY <1>7, <1>10, <1>12, Zenon
<1> QED
  BY <1>3, <1>4, <1>5, <1>6, <1>8, <1>11, <1>12, Zenon DEF D!DpNext

-----------------------------------------------------------------------------
(* Side by side *)

\* A part that is not shown, or whose step is taken by none, stays as it is.
LEMMA DatesStay == ASSUME DatesInv, UNCHANGED dateVars PROVE DatesInv'
BY DatesAre DEF dateVars, DatesInv, D!DpTypeOK, D!ValidityInStep, D!PopupListens, D!IsDisabled,
                D!Rank, D!IsDate, D!BadDate

LEMMA TimesStay == ASSUME TimesInv, UNCHANGED timeVars PROVE TimesInv'
BY DEF timeVars, TimesInv, P!TpTypeOK, P!ShownAsItIs

LEMMA TypeaheadStays == ASSUME TypeaheadInv, UNCHANGED typeaheadVars PROVE TypeaheadInv'
BY DEF typeaheadVars, TypeaheadInv, A!TaTypeOK, A!MatchesOfInput, A!ActiveIsMatch, A!LoadingEnds,
       A!OnlyItems

LEMMA WindowsStay == ASSUME WindowsInv, UNCHANGED windowVars PROVE WindowsInv'
BY DEF windowVars, WindowsInv, M!MoTypeOK, M!BackdropWhileWanted, M!ClosedIsGone, M!Backdropped

LEMMA SlidesStay == ASSUME SlidesInv, UNCHANGED slideVars PROVE SlidesInv'
BY DEF slideVars, SlidesInv, C!Now, SlidesTypeOK, SlidesHold

LEMMA TooltipStays == ASSUME TooltipInv, UNCHANGED tooltipVars PROVE TooltipInv'
BY DEF tooltipVars, TooltipInv, T!Now, T!LeftIsClosed

LEMMA CollapseStays == ASSUME CollapseInv, UNCHANGED collapseVars PROVE CollapseInv'
BY DEF collapseVars, CollapseInv, CollapseHolds, CollapseTypeOK, L!Now

LEMMA WidgetsStart == Init => WidgetsInv
BY DatesInit, TimesInit, TypeaheadInit, WindowsInit, SlidesInit, TooltipInit, CollapseInit
   DEF Init, WidgetsInv

LEMMA WidgetsStep == WidgetsInv /\ [Next]_vars => WidgetsInv'
<1> SUFFICES ASSUME WidgetsInv, [Next]_vars PROVE WidgetsInv'
  OBVIOUS
<1>1. CASE UNCHANGED vars
  <2>1. /\ shown' = shown /\ UNCHANGED dateVars /\ UNCHANGED timeVars /\ UNCHANGED typeaheadVars
        /\ UNCHANGED windowVars /\ UNCHANGED slideVars /\ UNCHANGED tooltipVars
        /\ UNCHANGED collapseVars
    BY <1>1 DEF vars, inputs, overlays
  <2> QED
    BY <2>1, DatesStay, TimesStay, TypeaheadStays, WindowsStay, SlidesStay, TooltipStays,
       CollapseStays DEF WidgetsInv
<1>2. CASE Forms
  BY <1>2 DEF Forms, WidgetsInv
<1>3. CASE Selecting
  BY <1>3 DEF Selecting, WidgetsInv
<1>4. CASE Dated
  BY <1>4, DatesStep DEF Dated, WidgetsInv
<1>5. CASE Timed
  BY <1>5, TimesStep DEF Timed, WidgetsInv
<1>6. CASE Looking
  BY <1>6, TypeaheadStep DEF Looking, WidgetsInv
<1>7. CASE Opening
  BY <1>7, WindowsStep DEF Opening, WidgetsInv
<1>8. CASE Sliding
  BY <1>8, SlidesStep DEF Sliding, WidgetsInv
<1>9. CASE Pointing
  BY <1>9, TooltipStep DEF Pointing, WidgetsInv
<1>10. CASE Collapsing
  BY <1>10, CollapseStep DEF Collapsing, WidgetsInv
<1> QED
  BY <1>1, <1>2, <1>3, <1>4, <1>5, <1>6, <1>7, <1>8, <1>9, <1>10 DEF Next

LEMMA WidgetsGive == WidgetsInv => WidgetsInStep
BY DatesGive, WindowsGive, SlidesGive, TooltipGives, CollapseGives
   DEF WidgetsInv, WidgetsInStep, PickersInStep, OverlaysInStep, TimesInv, TypeaheadInv

\* Every part keeps its invariant, in every behaviour: what each widget promises holds for
\* any number of windows, slides and events, for any texts and any date.
THEOREM WidgetsKept == Spec => []WidgetsInStep
<1>1. Init => WidgetsInv
  BY WidgetsStart
<1>2. WidgetsInv /\ [Next]_vars => WidgetsInv'
  BY WidgetsStep
<1>3. WidgetsInv => WidgetsInStep
  BY WidgetsGive
<1> QED
  BY <1>1, <1>2, <1>3, PTL DEF Spec

\* What a step tells of windows, of the date under the time, and of the day that is picked.
WindowTold ==
  [\A w \in Windows :
     windows'[w].result # windows[w].result =>
       /\ windows[w].result = "pending"
       /\ windows'[w].stage \in {"closed", "broken"} /\ w \notin M!Range(openedWindows')]_(M!moVars)
DateUnderTime ==
  [selected'.date # selected.date =>
     \E d \in Days, t \in Minutes : P!Render(P!Moment(d, t))]_(P!tpVars)
DayPicked ==
  [/\ dateGiven' = "pick" /\ dateModel' # dateModel /\ dateModel # D!BadDate
        => dateModel'.time = dateModel.time
   /\ mode = 0 /\ mode' = 0 /\ isOpen' /\ dateModel' = dateModel /\ dateShown' # dateShown
      /\ D!DayOf(dateShown) <= 28
        => 12 * D!Year(dateShown') + D!Month(dateShown')
             - (12 * D!Year(dateShown) + D!Month(dateShown)) \in {-1, 1}]_(D!dpVars)

LEMMA StepIs ==
  ASSUME WidgetsInv, [Next]_vars
  PROVE  WindowTold /\ DateUnderTime /\ DayPicked
<1>1. WindowTold
  <2>1. CASE Opening
    <3>1. WindowsInv /\ M!MoNext
      BY <2>1 DEF Opening, WidgetsInv
    <3> QED
      BY <3>1, WindowToldOnce DEF WindowTold
  <2>2. CASE ~Opening
    BY <2>2 DEF Next, Forms, Selecting, Dated, Timed, Looking, Sliding, Pointing, Collapsing, vars,
                overlays, windowVars, WindowTold, M!moVars
  <2> QED
    BY <2>1, <2>2
<1>2. DateUnderTime
  <2>1. CASE Timed
    <3>1. P!TpNext
      BY <2>1 DEF Timed
    <3> QED
      BY <3>1, DateStays DEF DateUnderTime
  <2>2. CASE ~Timed
    BY <2>2 DEF Next, Forms, Selecting, Dated, Looking, Opening, Sliding, Pointing, Collapsing, vars,
                inputs, timeVars, DateUnderTime, P!tpVars
  <2> QED
    BY <2>1, <2>2
<1>3. DayPicked
  <2>1. CASE Dated
    <3>1. DatesInv /\ D!DpNext
      BY <2>1 DEF Dated, WidgetsInv
    <3> QED
      BY <3>1, DatesPicked DEF DayPicked
  <2>2. CASE ~Dated
    BY <2>2 DEF Next, Forms, Selecting, Timed, Looking, Opening, Sliding, Pointing, Collapsing, vars,
                inputs, dateVars, DayPicked, D!dpVars
  <2> QED
    BY <2>1, <2>2
<1> QED
  BY <1>1, <1>2, <1>3

\* No step tells the result of a window twice, changes the date with the time, or gives the
\* model another day than the one picked.
THEOREM WidgetStepsKept == Spec => StepsKept
<1>1. Init => WidgetsInv
  BY WidgetsStart
<1>2. WidgetsInv /\ [Next]_vars => WidgetsInv'
  BY WidgetsStep
<1>3. WidgetsInv /\ [Next]_vars => WindowTold /\ DateUnderTime /\ DayPicked
  BY StepIs
<1> QED
  BY <1>1, <1>2, <1>3, PTL DEF Spec, StepsKept, M!ToldOnce, P!DateKept, D!PickedAsShown,
                               WindowTold, DateUnderTime, DayPicked
=============================================================================
