------------------------------- MODULE MCWidgets -------------------------------
(***************************************************************************)
(* The inputs of angular.js and the widgets of ui-bootstrap, checked side  *)
(* by side: forms and their controls, selects, the calendar and its popup, *)
(* the timepicker, the typeahead; modal windows, the carousel, tooltips    *)
(* and what collapses.                                                     *)
(* A behaviour is one of the part it shows; the other parts keep one       *)
(* initial state.                                                          *)
(***************************************************************************)
EXTENDS Integers, Sequences, FiniteSets

CONSTANTS MaxFormActs,
          MaxDateActs,
          Days, Minutes, HoursTyped, MinutesTyped, HourStep, MinuteStep,
          MaxTyped,
          Windows, MaxFaults,
          Slides, NoSlide, MaxSelections, MaxPauses,
          MaxEvents,
          MaxOptions,
          Contents, MaxToggles

ASSUME WidgetsAssumption ==
  /\ MaxDateActs \in Nat /\ MaxTyped \in Nat /\ MaxFaults \in Nat /\ MaxEvents \in Nat
  /\ Days \subseteq Nat /\ Minutes \subseteq 0 .. 24 * 60 - 1
  /\ HoursTyped \subseteq Nat /\ MinutesTyped \subseteq Nat
  /\ HourStep \in Nat /\ MinuteStep \in Nat
  /\ IsFiniteSet(Windows) /\ IsFiniteSet(Slides) /\ NoSlide \notin Slides
  /\ Contents \subseteq Nat

VARIABLES shown,
          controls, forms, model, required, formActs,
          startingDay, mode, dateShown, dateModel, limits, dateValid, enabled, bound, isOpen,
          outer, clickBound, focusBound, acts, dateGiven,
          selected, timeModel, timeValid, showMeridian, fields, marks,
          rests, isEditable, view, picked, barred, matches, activeMatch, query, waiting,
          requests, loading, typed, inputGone, changed, given,
          windows, openedWindows, backdrop, faults, disordered,
          slides, active, leaving, current, transition, handlers, timeouts, ended, timer,
          playing, last, made, late, selections, pauses,
          options, content, handled, trigger, over, open, tooltipShown, popups, popup,
          removals, removal, events, gone, slips,
          kind, collection, chosenModel, groups, ahead, pending, plain,
          supported, hides, isCollapsed, animSkip, height, currentTransition, running,
          unsettled, expanding, steps, contentHeight, lastScroll, started, overtaken

\* Around the end of a year and of February: the month shown, what is typed and the limits.
Dates == {<<2015, 11, 31>>, <<2016, 0, 31>>, <<2016, 1, 29>>}
Years == {1996, 2015, 2016, 2017}

\* Texts typed, what is looked up and what is found.
Typed == {"", "a", "ab", "ac"}
Items == {"ab", "ac"}
Found == [t \in Typed |-> CASE t = "a" -> <<"ab", "ac">> [] t = "ab" -> <<"ab">> [] OTHER -> <<>>]

\* What a select offers: in groups and without, in another order, a value twice.
Item(value, group) == [value |-> value, group |-> group]
Collections ==
  {<<>>, <<Item("a", "")>>, <<Item("a", "g")>>, <<Item("b", ""), Item("a", "")>>,
   <<Item("b", "h"), Item("a", "g")>>, <<Item("a", "g"), Item("c", ""), Item("b", "g")>>,
   <<Item("c", "h"), Item("b", "g"), Item("a", "")>>,
   <<Item("c", "g"), Item("b", "g"), Item("b", "h")>>}
OptionValues == {"a", "b", "c"}

F == INSTANCE Forms WITH MaxActs <- MaxFormActs
D == INSTANCE Datepicker WITH
       selected <- dateShown, model <- dateModel, valid <- dateValid, given <- dateGiven,
       MaxActs <- MaxDateActs
P == INSTANCE Timepicker WITH
       model <- timeModel, valid <- timeValid, Dates <- Days, Times <- Minutes
A == INSTANCE Typeahead WITH model <- picked, active <- activeMatch, destroyed <- inputGone
S == INSTANCE Select
M == INSTANCE Modal
C == INSTANCE Carousel
T == INSTANCE Tooltip WITH bound <- handled, shown <- tooltipShown
L == INSTANCE Collapse

formVars == <<controls, forms, model, required, formActs>>
dateVars == <<startingDay, mode, dateShown, dateModel, limits, dateValid, enabled, bound, isOpen,
              outer, clickBound, focusBound, acts, dateGiven>>
timeVars == <<selected, timeModel, timeValid, showMeridian, fields, marks>>
typeaheadVars == <<rests, isEditable, view, picked, barred, matches, activeMatch, query, waiting,
                   requests, loading, typed, inputGone, changed, given>>
selectVars == <<kind, collection, chosenModel, groups, ahead, pending, plain>>
windowVars == <<windows, openedWindows, backdrop, faults, disordered>>
slideVars == <<slides, active, leaving, current, transition, handlers, timeouts, ended, timer,
               playing, last, made, late, selections, pauses>>
tooltipVars == <<options, content, handled, trigger, over, open, tooltipShown, popups, popup,
                 removals, removal, events, gone, slips>>
collapseVars == <<supported, hides, isCollapsed, animSkip, height, currentTransition, running,
                  unsettled, expanding, steps, contentHeight, lastScroll, started, overtaken>>
inputs == <<formVars, selectVars, dateVars, timeVars, typeaheadVars>>
overlays == <<windowVars, slideVars, tooltipVars, collapseVars>>
vars == <<shown, inputs, overlays>>

Parts ==
  {"forms", "selects", "dates", "times", "typeahead", "windows", "slides", "tooltips", "collapses"}

Init ==
  /\ shown \in Parts
  /\ M!MoInit /\ C!CaInit
  /\ F!FoInit /\ (shown = "forms" \/ required = [c \in {"t", "n"} |-> FALSE])
  /\ S!SeInit /\ (shown = "selects" \/ (kind.multiple /\ ~kind.placeholder))
  /\ D!DpInit /\ (shown = "dates" \/ (startingDay = 0 /\ ~bound /\ dateShown = D!Day(2016, 1, 29)))
  /\ P!TpInit /\ (shown = "times" \/ (showMeridian /\ selected = P!Moment(1, 0)))
  /\ A!TaInit /\ (shown = "typeahead" \/ (~rests /\ ~isEditable))
  /\ T!TtInit
  /\ \/ shown = "tooltips"
     \/ options = [delay |-> FALSE, fades |-> FALSE, body |-> FALSE] /\ content /\ trigger = "hover"
  /\ L!CpInit /\ (shown = "collapses" \/ (~supported /\ ~hides /\ contentHeight = 0))

Forms ==
  /\ shown = "forms" /\ F!FoNext
  /\ UNCHANGED <<shown, selectVars, dateVars, timeVars, typeaheadVars, overlays>>
Selecting ==
  /\ shown = "selects" /\ S!SeNext
  /\ UNCHANGED <<shown, formVars, dateVars, timeVars, typeaheadVars, overlays>>
Dated ==
  /\ shown = "dates" /\ D!DpNext
  /\ UNCHANGED <<shown, formVars, selectVars, timeVars, typeaheadVars, overlays>>
Timed ==
  /\ shown = "times" /\ P!TpNext
  /\ UNCHANGED <<shown, formVars, selectVars, dateVars, typeaheadVars, overlays>>
Looking ==
  /\ shown = "typeahead" /\ A!TaNext
  /\ UNCHANGED <<shown, formVars, selectVars, dateVars, timeVars, overlays>>
Opening ==
  /\ shown = "windows" /\ M!MoNext
  /\ UNCHANGED <<shown, slideVars, tooltipVars, collapseVars, inputs>>
Sliding ==
  /\ shown = "slides" /\ C!CaNext
  /\ UNCHANGED <<shown, windowVars, tooltipVars, collapseVars, inputs>>
Pointing ==
  /\ shown = "tooltips" /\ T!TtNext
  /\ UNCHANGED <<shown, windowVars, slideVars, collapseVars, inputs>>
Collapsing ==
  /\ shown = "collapses" /\ L!CpNext
  /\ UNCHANGED <<shown, windowVars, slideVars, tooltipVars, inputs>>

Next ==
  \/ Forms \/ Selecting \/ Dated \/ Timed \/ Looking
  \/ Opening \/ Sliding \/ Pointing \/ Collapsing

Spec == Init /\ [][Next]_vars

-----------------------------------------------------------------------------
(* The properties of the parts, put together: each is stated in its module,    *)
(* the type invariants too, and asked of the behaviours that show the part.    *)

\* Inputs of angular.js: a form gathers the errors and the changes of the controls it has,
\* inputs show their models, one radio of a group is on; a select offers each item once and
\* has the model's selected.
InputsInStep ==
  /\ shown = "forms" => F!FoTypeOK /\ F!FormsGather /\ F!ModelsShown /\ F!RadiosAgree
  /\ shown = "selects" =>
       S!SeTypeOK /\ S!OfferedOnce /\ S!SelectionIsModel /\ S!PlainIsModel

\* Widgets of ui-bootstrap that an input has: the calendar shows its month, the popup and
\* the timepicker what they are bound to, and a typeahead the matches of what its input
\* says, for as long as it says so.
PickersInStep ==
  /\ shown = "dates" =>
       D!DpTypeOK /\ D!CalendarShowsMonth /\ D!ValidityInStep /\ D!PopupListens
  /\ shown = "times" => P!TpTypeOK /\ P!ShownAsItIs
  /\ shown = "typeahead" =>
       /\ A!TaTypeOK /\ A!MatchesOfInput /\ A!ActiveIsMatch
       /\ A!LoadingEnds /\ A!OnlyItems

\* Widgets of ui-bootstrap that lie over the page or move on it: there is a backdrop while a
\* window wants one, closed windows and tooltips are gone, the window opened last is on top,
\* one slide is active and its index is right, a tooltip is shown exactly while it is open,
\* and what was collapsed is hidden, and shown when it was not, once nothing moves any more.
OverlaysInStep ==
  /\ shown = "windows" =>
       M!MoTypeOK /\ M!BackdropWhileWanted /\ M!ClosedIsGone /\ M!TopLiesAbove
  /\ shown = "slides" => C!CaTypeOK /\ C!OneActive /\ C!IndexOfCurrent
  /\ shown = "tooltips" => T!TtTypeOK /\ T!OpenIsShown /\ T!ClosedGoes /\ T!LeftIsClosed
  /\ shown = "collapses" => L!CpTypeOK /\ L!CollapsedIsHidden /\ L!ExpandedIsShown

\* The widgets of ui-bootstrap, those that an input has and those that lie over the page.
WidgetsInStep == PickersInStep /\ OverlaysInStep

\* What a step may never do: tell the result of a window twice, change the date with the
\* time, or give the model another day than the one picked.
StepsKept == M!ToldOnce /\ P!DateKept /\ D!PickedAsShown
===============================================================================
