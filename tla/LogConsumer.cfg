SPECIFICATION FairSpec
CONSTANTS
  Thread = {t1, t2}
  Sender = sender
  Capacity = 2
  Known = {0, 2, 9}
  MaxId = 4
INVARIANTS
  NothingLost
  ReplayIsExact
PROPERTIES
  EventsArrive
  LeaverLetsGo
