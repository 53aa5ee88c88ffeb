SPECIFICATION Spec
CONSTANTS
  Capacity = 3
  TotalBlocks = 7
  RegionWidth = 5
  NumAccesses = 4
  Repeats = 2
  Jitters = {0, 1, 2}
  Radii = {0, 1, 2, 3}
INVARIANT NeighbourhoodCached
PROPERTY ImplementsLru
