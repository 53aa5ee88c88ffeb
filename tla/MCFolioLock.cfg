SPECIFICATION FairSpec
CONSTANTS
  Tasks = {"t1", "t2", "t3"}
  Folios = {"f", "g"}
  Programs <- MCPrograms
  sysctl_page_lock_unfairness = 1
  None = None
INVARIANTS
  LockHasOneOwner
  WakeupPending
PROPERTY
  EveryoneReturns
CHECK_DEADLOCK FALSE
