CONSTANTS
  Requests <- MCRequests
  Bases <- MCBases
  MaxOps = 3
  CellBound = 3
  BASE_ORDER = 12
  MAX_ORDER = 3
  PAGE_SIZE = 4096
  HeapStart = 1048576
  Tables = {4, 2}
  Sizes = {1, 4096, 8192, 12288, 40000}
  ApiSizes = {0, 8192}
  Aligns = {8, 16}
  GlobalAlign = 8
  i1 = i1
  i2 = i2
  i3 = i3
  Ids <- MCIds
SPECIFICATION USpec
INVARIANTS
  F_TypeOK
  F_BlocksBacked
  TypeOK
  TreeSummarisesBlocks
PROPERTIES
  F_Refines
  Refines
