SPECIFICATION Spec
CONSTANTS
  HDR = 32
  SIZE_MAX = 255
  Sizes = {8, 222, 224}
  Growths = {8}
  HeapBase = 16
  HeapLimit = 192
PROPERTY HeapOnlyGrows
