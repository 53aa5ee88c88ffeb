CHECK_DEADLOCK FALSE
SPECIFICATION FairSpec
CONSTANTS
  Tasks = {"t1", "t2", "t3"}
  Folios = {"f", "g"}
  Programs <- MCKilled
  sysctl_page_lock_unfairness = 1
  None = None
PROPERTY SleepersWoken
