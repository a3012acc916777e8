------------------------------ MODULE Datepicker ------------------------------
(***************************************************************************)
(* The date picker of ui-bootstrap in its popup: a calendar that shows the *)
(* days of a month, the months of a year or years, an input whose text is  *)
(* parsed, and the popup that opens with the focus of the input and closes *)
(* when a day is picked or the page is clicked elsewhere.  Days are        *)
(* numbered; months count from 0, as those of Date do.                     *)
(***************************************************************************)
EXTENDS Integers, Sequences, FiniteSets

CONSTANTS Dates,    \* what the page sets, what is typed and what limits are: <<y, m, d>>
          Years,    \* years that can be gone to
          MaxActs

VARIABLES startingDay,  \* first day of a week, 0 for Sunday
          mode,         \* 0 days, 1 months, 2 years
          selected,     \* the day whose month, year or years are shown
          model,        \* day and time of the model, day 0 for none
          limits,       \* minDate and maxDate, 0 for none
          valid,        \* validity "date" of the input
          enabled,      \* validity "date-disabled" of the calendar
          bound,        \* is-open names something on the page
          isOpen, outer,  \* on the scope of the popup, and what is-open names
          clickBound, focusBound, \* handlers on the document and on the input
          acts, given   \* who gave the input its date

dpVars == <<startingDay, mode, selected, model, limits, valid, enabled, bound, isOpen, outer,
            clickBound, focusBound, acts, given>>

-----------------------------------------------------------------------------
(* Days: new Date(y, m, d), for any m and d *)

Day(y, m, d) ==
  LET year == y + m \div 12
      month == m % 12
      a == IF month < 2 THEN year - 1 ELSE year
  IN 365 * a + a \div 4 - a \div 100 + a \div 400 + (153 * ((month + 10) % 12) + 2) \div 5 + d

Year(day) == LET about == (400 * day) \div 146097
             IN CHOOSE y \in about - 1 .. about + 1 : Day(y, 0, 1) <= day /\ day < Day(y + 1, 0, 1)
Month(day) == LET year == Year(day)
              IN CHOOSE m \in 0 .. 11 : Day(year, m, 1) <= day /\ day < Day(year, m + 1, 1)
DayOf(day) == day - Day(Year(day), Month(day), 1) + 1

\* getDay(), 0 for Sunday: 1 March 2016 was a Tuesday.
Weekday(day) == (day - Day(2016, 2, 1) + 2) % 7

\* getDaysInMonth(), whose month counts from 1
DaysInMonth(y, m) == DayOf(Day(y, m, 0))

-----------------------------------------------------------------------------
(* The calendar *)

\* Mutant: a month that begins with the week is shown from the week before.
LeadFromBefore(difference) == IF difference >= 0 THEN 7 - difference ELSE -difference
\* numDisplayedFromPreviousMonth
Lead(difference) == IF difference > 0 THEN 7 - difference ELSE -difference

\* getVisibleDates() for days: their number and the first of them
VisibleDays(day) ==
  LET year == Year(day)
      month == Month(day)
      first == Day(year, month, 1)
      lead == Lead(startingDay - Weekday(first))
      count == lead + DaysInMonth(year, month + 1)
  IN [first |-> IF lead > 0 THEN first - lead ELSE first,
      count |-> count + ((7 - (count % 7)) % 7)]

\* Mutant: a week belongs to the year of its first day.
WeekOfFirstDay(day) == (day - Day(Year(day), 0, 1)) \div 7 + 1
\* getISO8601WeekNumber(): by the Thursday of the week
WeekNumber(day) ==
  LET thursday == day + 4 - (IF Weekday(day) = 0 THEN 7 ELSE Weekday(day))
  IN (thursday - Day(Year(thursday), 0, 1)) \div 7 + 1

\* What compare() of a mode compares
Rank(day, inMode) ==
  CASE inMode = 0 -> day
    [] inMode = 1 -> 12 * Year(day) + Month(day)
    [] inMode = 2 -> Year(day)

IsDisabled(day, inMode, lim) ==
  \/ lim.min # 0 /\ Rank(day, inMode) < Rank(lim.min, inMode)
  \/ lim.max # 0 /\ Rank(day, inMode) > Rank(lim.max, inMode)

\* A model that new Date() makes no date of; nothing can be said of it.
BadDate == [day |-> -1, time |-> 600]
IsDate(date) == date.day # 0 /\ date # BadDate

\* refill(): the calendar says whether the date of the model is one to be picked, and, by
\* the validity 'date' of its own, whether it is one (that is IsDate, or none).
Refill(date, lim) == enabled' = (~IsDate(date) \/ ~IsDisabled(date.day, 0, lim))

\* $render() of the calendar, for a model that changed
Render(date) ==
  /\ model' = date
  /\ selected' = IF IsDate(date) THEN date.day ELSE selected
  /\ Refill(date, limits)

Visible ==
  CASE mode = 0 -> (LET v == VisibleDays(selected) IN {v.first, v.first + 9, v.first + v.count - 1})
    [] mode = 1 -> {Day(Year(selected), m, 1) : m \in {0, 1, 11}}
    [] mode = 2 -> {Day(y, 0, 1) : y \in {y \in Years : (y - 1) \div 20 = (Year(selected) - 1) \div 20}}

Act == acts < MaxActs /\ acts' = acts + 1

-----------------------------------------------------------------------------
(* The popup *)

\* The watch of isOpen binds and unbinds, and tells what is-open names.
SetOpen(value) ==
  /\ isOpen' = value
  /\ outer' = IF bound THEN value ELSE outer
  /\ IF value = isOpen THEN UNCHANGED <<clickBound, focusBound>>
     ELSE IF value THEN clickBound' = clickBound + 1 /\ focusBound' = 0
     ELSE clickBound' = 0 /\ focusBound' = focusBound + 1

\* The input gets the focus.
Focus ==
  /\ Act /\ focusBound > 0
  /\ SetOpen(TRUE)
  /\ UNCHANGED <<startingDay, mode, selected, model, limits, valid, enabled, bound, given>>

\* A click elsewhere in the document
ClickElsewhere ==
  /\ Act /\ clickBound > 0 /\ isOpen
  /\ SetOpen(FALSE)
  /\ UNCHANGED <<startingDay, mode, selected, model, limits, valid, enabled, bound, given>>

\* The page opens or closes the popup.
SetIsOpen ==
  /\ Act /\ bound
  /\ SetOpen(~outer)
  /\ UNCHANGED <<startingDay, mode, selected, model, limits, valid, enabled, bound, given>>

-----------------------------------------------------------------------------
(* Picking *)

\* Mutant: the day is picked with the time of the calendar, midnight.
PickedAtMidnight(day) == [day |-> day, time |-> 0]
\* The day is picked, the time of the model stays; setFullYear() makes midnight of no date.
Picked(day) == [day |-> day, time |-> IF model = BadDate THEN 0 ELSE model.time]

\* select(), and dateSelection() of the popup
Select(day) ==
  /\ Act /\ isOpen /\ day \in Visible /\ ~IsDisabled(day, mode, limits)
  /\ IF mode = 0
     THEN /\ Render(Picked(day)) /\ SetOpen(FALSE) /\ valid' = TRUE /\ given' = "pick"
          /\ UNCHANGED mode
     ELSE /\ selected' = day /\ mode' = mode - 1 /\ Refill(model, limits)
          /\ UNCHANGED <<model, isOpen, outer, clickBound, focusBound, valid, given>>
  /\ UNCHANGED <<startingDay, limits, bound>>

\* move(): setMonth() and setFullYear() carry a day the month has not into the next.
Move(direction) ==
  LET months == IF mode = 0 THEN direction ELSE 0
      years == CASE mode = 0 -> 0 [] mode = 1 -> direction [] mode = 2 -> 20 * direction
      to == Day(Year(selected) + years, Month(selected) + months, DayOf(selected))
  IN /\ Act /\ isOpen /\ Year(to) \in Years
     /\ selected' = to /\ Refill(model, limits)
     /\ UNCHANGED <<startingDay, mode, model, limits, valid, bound, isOpen, outer, clickBound,
                    focusBound, given>>

ToggleMode ==
  /\ Act /\ isOpen
  /\ mode' = (mode + 1) % 3 /\ Refill(model, limits)
  /\ UNCHANGED <<startingDay, selected, model, limits, valid, bound, isOpen, outer, clickBound,
                 focusBound, given>>

-----------------------------------------------------------------------------
(* The input and the page *)

NoDate == [day |-> 0, time |-> 0]      \* undefined
NullDate == [day |-> 0, time |-> 180]  \* null, for which Date has the hours of the time zone
DayNumbers == {Day(d[1], d[2], d[3]) : d \in Dates}

\* What is typed is parsed, and the calendar brought up to date.
Type(date, ok) ==
  /\ Act /\ (date # model \/ ok # valid)
  /\ Render(date) /\ valid' = ok /\ given' = "text"
  /\ UNCHANGED <<startingDay, mode, limits, bound, isOpen, outer, clickBound, focusBound>>

\* The page sets the model, or today() or clear() of the popup do: nothing is parsed.
SetModel(date) ==
  /\ Act /\ date # model
  /\ Render(date) /\ given' = "page"
  /\ UNCHANGED <<startingDay, mode, limits, valid, bound, isOpen, outer, clickBound, focusBound>>

\* Mutant: new limits count from the next date on.
LimitsFromNextOn(lim) == UNCHANGED enabled
LimitsSet(lim) == Refill(model, lim)

SetLimits(lim) ==
  /\ Act /\ lim # limits
  /\ limits' = lim /\ LimitsSet(lim)
  /\ UNCHANGED <<startingDay, mode, selected, model, valid, bound, isOpen, outer, clickBound,
                 focusBound, given>>

DpInit ==
  /\ startingDay \in {0, 1} /\ bound \in BOOLEAN
  /\ mode = 0 /\ selected \in DayNumbers /\ model = NoDate
  /\ limits = [min |-> 0, max |-> 0] /\ valid = TRUE /\ enabled = TRUE
  /\ outer \in BOOLEAN /\ (outer => bound) /\ isOpen = outer
  /\ clickBound = (IF isOpen THEN 1 ELSE 0) /\ focusBound = 1 - clickBound
  /\ acts = 0 /\ given = "page"

DpNext ==
  \/ Focus \/ ClickElsewhere \/ SetIsOpen \/ ToggleMode
  \/ \E day \in Visible : Select(day)
  \/ \E direction \in {-1, 1} : Move(direction)
  \/ \E day \in DayNumbers : Type([day |-> day, time |-> 0], TRUE)
  \/ Type(NullDate, TRUE)
  \/ Type(NoDate, FALSE)
  \/ \E date \in {[day |-> day, time |-> 600] : day \in DayNumbers} \cup {NullDate, BadDate} : SetModel(date)
  \/ \E min, max \in {0} \cup DayNumbers : SetLimits([min |-> min, max |-> max])

DpSpec == DpInit /\ [][DpNext]_dpVars

-----------------------------------------------------------------------------
(* Properties *)

DpTypeOK ==
  /\ startingDay \in {0, 1} /\ mode \in 0 .. 2 /\ selected \in Int
  /\ model.day \in Int /\ model.time \in {0, 180, 600}
  /\ valid \in BOOLEAN /\ enabled \in BOOLEAN /\ bound \in BOOLEAN /\ outer \in BOOLEAN
  /\ given \in {"page", "text", "pick"} /\ acts \in 0 .. MaxActs

\* The calendar shows whole weeks, from the first day of a week on, and every day
\* of the month in them; a week that begins on a Monday has the number ISO 8601
\* gives it: it is the first of its year if 4 January is in it.
CalendarShowsMonth ==
  LET v == VisibleDays(selected)
      first == Day(Year(selected), Month(selected), 1)
      last == Day(Year(selected), Month(selected) + 1, 1) - 1
      Begins(y) == Day(y, 0, 4) - ((Weekday(Day(y, 0, 4)) + 6) % 7)
  IN /\ Weekday(v.first) = startingDay /\ v.count % 7 = 0 /\ v.count <= 42
     /\ v.first <= first /\ first < v.first + 7
     /\ last < v.first + v.count /\ v.first + v.count <= last + 7
     /\ startingDay = 1 => \A w \in 0 .. v.count \div 7 - 1 :
          \E y \in Year(v.first) .. Year(v.first) + 1 :
            /\ Begins(y) <= v.first + 7 * w /\ v.first + 7 * w < Begins(y + 1)
            /\ WeekNumber(v.first + 7 * w) = (v.first + 7 * w - Begins(y)) \div 7 + 1

\* Whatever changes, the date or the limits, the calendar says whether the date is
\* within them; a date that was picked is valid, and so is one that was typed.
ValidityInStep ==
  /\ enabled = (~IsDate(model) \/ ~IsDisabled(model.day, 0, limits))
  /\ given = "pick" \/ (given = "text" /\ model.day # 0) => valid

\* Open, the popup waits for a click elsewhere, once, and closed for the focus.
PopupListens ==
  /\ clickBound = IF isOpen THEN 1 ELSE 0
  /\ focusBound = IF isOpen THEN 0 ELSE 1
  /\ bound => outer = isOpen

\* A day that is picked is taken with the time the model had, if it was one; and the arrows lead
\* from month to month, as long as the day selected is one that every month has.
PickedAsShown ==
  [][/\ given' = "pick" /\ model' # model /\ model # BadDate => model'.time = model.time
     /\ mode = 0 /\ mode' = 0 /\ isOpen' /\ model' = model /\ selected' # selected /\ DayOf(selected) <= 28
          => 12 * Year(selected') + Month(selected') - (12 * Year(selected) + Month(selected))
               \in {-1, 1}
    ]_dpVars

=============================================================================
