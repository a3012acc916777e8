SPECIFICATION FairSpec
CONSTANTS
  Writer = {w1}
  Reader = {r1}
  FirstSize = 4
  Sizes = {4}
  From = {0, 2, 4, 9}
  MaxId = 8
  MaxRestarts = 0
  Nobody = Nobody
INVARIANTS
  TypeOK
PROPERTIES
  LockedRecordsKept
  ImplementsEventLog
  WriterAndReadersFinish
