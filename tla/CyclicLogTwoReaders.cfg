SPECIFICATION Spec
CONSTANTS
  Writer = {w1}
  Reader = {r1, r2}
  FirstSize = 3
  Sizes = {3}
  From = {0, 2}
  MaxId = 7
  MaxRestarts = 0
  Nobody = Nobody
PROPERTIES
  ReplayInOrder
