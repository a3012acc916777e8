SPECIFICATION RcvSpec
CONSTANTS
  MaxChanges = 3
  MaxRequests = 2
  MaxFailures = 1
INVARIANTS RcvTypeOK NoStuckRow
PROPERTIES RefreshShowsAnswer ListConverges
CHECK_DEADLOCK FALSE
