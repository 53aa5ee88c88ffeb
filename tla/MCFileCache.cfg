SPECIFICATION Spec
CONSTANTS
  Index <- MCIndex
  Folio = {1, 2, 3, 4, 5, 6, 7, 8}
  Task = {"t1", "t2"}
  Nobody = "nobody"
  Chunk = 2
  HPAGE_PMD_ORDER = 1
  ExecOrder = 1
  MMAP_LOTSAMISS = 1
  Around = 4
  Scenarios <- MCScenarios
INVARIANTS
  RefsExact
  CacheConsistent
  LocksOwned
  MappedIsCached
  CopiesItsPages
  FaultContract
  StreamReadAhead
PROPERTY
  EveryCallReturns
