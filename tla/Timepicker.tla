----------------------------- MODULE Timepicker -----------------------------
(***************************************************************************)
(* The time picker of ui-bootstrap: the model's date and time, the copy of *)
(* it that the picker works on, and the fields of its template, which the  *)
(* user types in and the picker rewrites.  A time is counted in minutes.   *)
(***************************************************************************)
EXTENDS Integers

CONSTANTS Dates, Times,     \* of models the page sets
          HoursTyped, MinutesTyped, \* 99 stands for what is no number
          HourStep, MinuteStep

VARIABLES selected,     \* its date and its minute of the day
          model,        \* $modelValue, or NoDate
          valid,        \* the validity 'time' of the model
          showMeridian,
          fields,       \* scope.hours, minutes and meridian
          marks         \* invalidHours, invalidMinutes

tpVars == <<selected, model, valid, showMeridian, fields, marks>>

NoDate == [date |-> 0, time |-> -1]
NotADate == [date |-> 0, time |-> -2] \* something that new Date() makes no date of
Day == 24 * 60
Moment(date, time) == [date |-> date, time |-> time]

-----------------------------------------------------------------------------
(* The template *)

\* updateTemplate()
Shown(s, meridian) ==
  LET hours == s.time \div 60 IN
  [hours |-> IF ~meridian THEN hours ELSE IF hours \in {0, 12} THEN 12 ELSE hours % 12,
   minutes |-> s.time % 60, meridian |-> IF hours < 12 THEN "AM" ELSE "PM"]

\* Mutant: twelve o'clock is not taken for the beginning of its half of the day.
HoursOfTwelve(f, meridian) ==
  IF ~(IF meridian THEN f.hours \in 1 .. 12 ELSE f.hours \in 0 .. 23) THEN -1
  ELSE f.hours + IF meridian /\ f.meridian = "PM" THEN 12 ELSE 0

\* getHoursFromTemplate() and getMinutesFromTemplate(), -1 when they return undefined
HoursOf(f, meridian) ==
  IF ~(IF meridian THEN f.hours \in 1 .. 12 ELSE f.hours \in 0 .. 23) THEN -1
  ELSE IF ~meridian THEN f.hours
  ELSE (f.hours % 12) + IF f.meridian = "PM" THEN 12 ELSE 0

MinutesOf(f) == IF f.minutes \in 0 .. 59 THEN f.minutes ELSE -1

\* makeValid(), $setViewValue() and updateTemplate()
Refresh(s, meridian) ==
  /\ selected' = s /\ model' = s
  /\ valid' = TRUE /\ marks' = {}
  /\ fields' = Shown(s, meridian)

\* invalidate(): the copy is kept.
Invalidate(field) ==
  /\ model' = NoDate /\ valid' = FALSE /\ marks' = marks \cup {field}
  /\ UNCHANGED selected

TpInit ==
  /\ selected \in {Moment(d, t) : d \in Dates, t \in Times} /\ model = NoDate
  /\ valid = TRUE /\ showMeridian \in BOOLEAN /\ marks = {}
  /\ fields = Shown(selected, showMeridian)

-----------------------------------------------------------------------------
(* What the page and the user do *)

\* $render(): a model that is null leaves the copy; one that is no date stays the model,
\* and neither the fields nor their marks are told.
Render(m) ==
  /\ m # model
  /\ model' = m /\ selected' = (IF m \in {NoDate, NotADate} THEN selected ELSE m)
  /\ IF m = NotADate THEN valid' = FALSE /\ UNCHANGED <<marks, fields>>
     ELSE valid' = TRUE /\ marks' = {} /\ fields' = Shown(selected', showMeridian)
  /\ UNCHANGED showMeridian

\* updateHours()
TypeHours(h) ==
  LET f == [fields EXCEPT !.hours = h]
      hours == HoursOf(f, showMeridian)
  IN
  /\ h # fields.hours
  /\ IF hours # -1 THEN Refresh(Moment(selected.date, 60 * hours + (selected.time % 60)), showMeridian)
     ELSE Invalidate("hours") /\ fields' = f
  /\ UNCHANGED showMeridian

\* updateMinutes(): the hours are shown anew, whatever was typed there.
TypeMinutes(m) ==
  LET f == [fields EXCEPT !.minutes = m] IN
  /\ m # fields.minutes
  /\ IF MinutesOf(f) # -1
     THEN Refresh(Moment(selected.date, 60 * (selected.time \div 60) + m), showMeridian)
     ELSE Invalidate("minutes") /\ fields' = f
  /\ UNCHANGED showMeridian

\* Mutant: the date goes along when the time passes midnight.
MovedOn(by) == Moment(selected.date + ((selected.time + by) \div Day), (selected.time + by) % Day)

\* addMinutes(): the time goes round within its day.
Moved(by) == Moment(selected.date, (selected.time + by) % Day)

AddMinutes(by) == Refresh(Moved(by), showMeridian) /\ UNCHANGED showMeridian

\* The buttons, and the wheel of the mouse
Press ==
  \/ \E by \in {60 * HourStep, -60 * HourStep, MinuteStep, -MinuteStep} : AddMinutes(by)
  \/ AddMinutes(IF selected.time < 12 * 60 THEN 12 * 60 ELSE -12 * 60)

\* showMeridian changes: fields that were not valid may be by now; minutes that were typed
\* are then lost.
Reading(meridian) == meridian

SetShowMeridian ==
  LET meridian == ~showMeridian
      hours == HoursOf(fields, meridian)
  IN
  /\ showMeridian' = meridian
  /\ IF valid
     THEN fields' = Shown(selected, meridian) /\ UNCHANGED <<selected, model, valid, marks>>
     ELSE IF hours # -1 /\ MinutesOf(fields) # -1
     THEN Refresh(Moment(selected.date, 60 * hours + (selected.time % 60)), meridian)
     ELSE UNCHANGED <<selected, model, valid, fields, marks>>

TpNext ==
  \/ \E d \in Dates, t \in Times : Render(Moment(d, t))
  \/ Render(NoDate) \/ Render(NotADate)
  \/ \E h \in HoursTyped : TypeHours(h)
  \/ \E m \in MinutesTyped : TypeMinutes(m)
  \/ Press \/ SetShowMeridian

TpSpec == TpInit /\ [][TpNext]_tpVars

-----------------------------------------------------------------------------
(* Properties *)

\* Type correctness of the picker.
TpTypeOK ==
  /\ selected.date \in Nat /\ selected.time \in 0 .. Day - 1
  /\ valid \in BOOLEAN /\ marks \subseteq {"hours", "minutes"}

\* A time that is valid is shown as it is: who reads the fields finds the copy, and the
\* model is the copy, if there is one; a time that is not valid is marked and nobody's
\* model, unless the page itself gave the model that is no date.
ShownAsItIs ==
  /\ valid => /\ HoursOf(fields, showMeridian) = selected.time \div 60
              /\ MinutesOf(fields) = selected.time % 60
              /\ model \in {NoDate, selected}
  /\ ~valid => model = NotADate \/ (model = NoDate /\ marks # {})

\* Only the page changes the date: the time goes round within it.
DateKept ==
  [][selected'.date # selected.date => \E d \in Dates, t \in Times : Render(Moment(d, t))]_tpVars
===============================================================================
