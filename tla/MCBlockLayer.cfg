SPECIFICATION Spec
CONSTANTS
  Programs <- MCPrograms
  Tasks = {"t1", "t2"}
  CPUs = {"c1", "c2"}
  Contexts = {"t1", "t2", "c1", "c2"}
  Plugged = {"t1"}
  MaxBios = 5
  max_sectors = 4
  max_segments = 4
  chunk_sectors = 8
  max_discard_sectors = 3
  max_discard_segments = 2
  RASPLIT_TARGET_SECTORS = 4
  BLK_MAX_REQUEST_COUNT = 2
  BLK_PLUG_FLUSH_SIZE = 3
  ListChecks = 2
PROPERTY
  AllEnd
INVARIANTS
  EndsOnceAfterAllParts
  OkMeansTransferred
  PartsApart
  RequestsAreTheirBios
  MergedWithinLimits
