SPECIFICATION Spec
CONSTANTS
  MaxFormActs = 3
  MaxDateActs = 4
  Days = {1, 2}
  Minutes = {0, 690, 750}
  HoursTyped = {99, 0, 1, 12, 13, 23, 24}
  MinutesTyped = {99, 0, 45, 60}
  HourStep = 5
  MinuteStep = 15
  MaxTyped = 4
  Windows = {w1, w2, w3}
  MaxFaults = 1
  Slides = {s1, s2, s3}
  NoSlide = s0
  MaxSelections = 6
  MaxPauses = 1
  MaxEvents = 6
  MaxOptions = 3
  Contents = {0, 1, 2}
  MaxToggles = 4
INVARIANTS
  InputsInStep WidgetsInStep
PROPERTIES
  StepsKept
CHECK_DEADLOCK FALSE
