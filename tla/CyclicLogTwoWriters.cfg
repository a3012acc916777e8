SPECIFICATION Spec
CONSTANTS
  Writer = {w1, w2}
  Reader = {r1}
  FirstSize = 2
  Sizes = {2}
  From = {0, 2}
  MaxId = 5
  MaxRestarts = 0
  Nobody = Nobody
INVARIANTS
  UniqueIds
