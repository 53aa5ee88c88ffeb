SPECIFICATION Spec
CONSTANTS
  Capacity = 4
  Programs <- MCPrograms
INVARIANTS
  TraceValid
  FreshWindowRetained
  SequentialMissesTwice
  LongRunReachesMax
PROPERTY ImplementsFifo
