CONSTANTS
  Threads = {t1, t2}
  TcBytes = 2048
  ZoneBytes = 6144
  ListsBytes = 2048
  MetaBases <- MCMetaBases
  MmapMayFail = FALSE
  Refills = 1
SPECIFICATION Spec
INVARIANT
  BackendRunsDisjointFromMeta
