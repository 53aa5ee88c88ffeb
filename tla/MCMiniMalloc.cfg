SPECIFICATION Spec
CONSTANTS
  HDR = 32
  SIZE_MAX = 255
  Sizes = {0, 8, 24, 224}
  Growths = {16}
  HeapBase = 16
  HeapLimit = 192
INVARIANTS
  FreeListSound
  BlocksDisjoint
  OwnedFits
PROPERTY GrowOnlyWhenNothingFits
