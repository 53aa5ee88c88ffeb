CONSTANTS
  Threads <- MCThreads
  Tasks <- MCTasks
  Weight = 2
  Factor = 2
  Requests = {1, 2, 3}
  Tags = {1, 2}
  Scenarios <- MCScenarios
SPECIFICATION Spec
INVARIANTS
  RequestsOwned
  UsageExact
  NothingLeaks
  FrozenIsEmpty
PROPERTIES
  QuiescedStaysOut
  ImplementsGate
  AllReturn
CHECK_DEADLOCK FALSE
