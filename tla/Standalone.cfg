CONSTANTS
  Threads = {t1, t2}
  N = 2
  Calls <- MCCalls
  MaxOps = 5
  Starts <- MCStarts
  TcBytes = 2048
  ZoneBytes = 6144
  ListsBytes = 2048
  MetaBases <- MCMetaBases
  MmapMayFail = FALSE
  Refills = 1
  RdThreads = {r1, r2}
  RdNodeIds = {1, 2, 3, 4, 5, 6}
  RdVals = {7}
  RdLens = {1, 2}
  RdOps = 3
  PaCpus = {p1, p2}
SPECIFICATION Spec
INVARIANTS
  Q_TypeOK
  Q_ExactlyOnceInOrder
  BT_TypeOK
  BT_MetaBlocksDisjoint
  BT_SavedUnderCreatedKey
  BT_RadixMaps
  R_TypeOK
  R128_NodesAccounted
  PA_TypeOK
PROPERTIES
  Q_ErrOnlyWhenFull
  Q_LiveCallsReturn
  R64_Refines
  R128_Refines
  PA_Refines
