SPECIFICATION Spec
CONSTANTS
  Limits <- MCLimits
  Bios <- MCBios
  PageSize = 4
  BIO_MAX_SECTORS = 11
  RASPLIT_TARGET_SECTORS = 8
  rasplit_enabled = TRUE
INVARIANTS
  Conserved
  PiecesWithinLimits
  CutsAligned
  PiecesMaximal
  HalvedOnce
