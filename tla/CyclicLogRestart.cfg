SPECIFICATION Spec
CONSTANTS
  Writer = {w1}
  Reader = {r1}
  FirstSize = 3
  Sizes = {2, 3, 4}
  From = {0, 3}
  MaxId = 5
  MaxRestarts = 2
  Nobody = Nobody
INVARIANTS
  RingSurvivesRestarts
