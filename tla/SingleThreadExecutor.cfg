SPECIFICATION ExFairSpec
CONSTANTS
  Client = {c1, c2, c3}
  Task = {k1, k2}
  Capacity = 2
  Stop = Stop
INVARIANTS
  OnlyLateTasksStranded
PROPERTIES
  WorkerStops
  TasksRun
CHECK_DEADLOCK FALSE
