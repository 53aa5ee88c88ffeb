CONSTANTS
  Threads <- MCThreads
  Tasks <- MCTasks
  Weight = 2
  Factor = 2
  Requests = {1, 2, 3}
  Tags = {1, 2}
  Scenarios <- MCLateStart
SPECIFICATION Spec
INVARIANT WatchedByTimer
CHECK_DEADLOCK FALSE
