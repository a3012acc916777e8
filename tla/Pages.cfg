SPECIFICATION Spec
CONSTANTS
  NoUrl = "none"
  Url = {"A", "B"}
  ProfileId = {1, 2}
  Bare = {"B"}
  Connected = {"A"}
  MaxClicks = 3
  MaxReceivers = 2
  MaxRequests = 2
  Filter = {"all"}
  MaxEvents = 2
  MaxSearches = 3
  MaxFailures = 2
  MaxStored = 1
  MaxMessages = 4
  MaxItems = 9
  MaxPage = 11
  PerPage = {1, 2, 3}
  MaxSize = 3
  Sites = {"u"}
  MaxAsked = 3
  Keys = {k1, k2, k3, k4}
  NoKey = k0
  Capacity = 2
  MaxUndefined = 2
  OpenedPaths = {"/b"}
  AppPaths = {"", "/a"}
  AppSearches = {"", "s"}
  Hashes = {""}
  Passes = 3
  MaxChanges = 2
  MaxMoves = 3
INVARIANTS
  TypeOK DialogInStep SearchInStep MessagesAndLinks AnswersCome AddressAndView
PROPERTIES
  NothingGoesBack
CHECK_DEADLOCK FALSE
