SPECIFICATION Spec
CONSTANTS
  Scopes = {"r", "a", "b"}
  Root = "r"
  NoScope = "none"
  Watchers = {"w1", "w2", "w3"}
  Vars = {"x", "y"}
  TTL = 2
  MaxCalls = 5
  Depth = 2
  Listeners = {"l1", "l2", "l3"}
  Hole = "hole"
  MaxActs = 5
  MaxDeferreds = 4
  MaxChars = 4
  MaxNodes = 2
  MaxDepth = 11
  MaxDirectives = 3
  MaxClones = 2
  MaxBindingChanges = 4
  RowValues = {"p", "q"}
  MaxLength = 3
  MaxSince = 2
  MaxSegments = 3
INVARIANTS
  StartsInOrder DigestsAndEvents MarkupIsFollowed
PROPERTIES
  StepsKept
CHECK_DEADLOCK FALSE
