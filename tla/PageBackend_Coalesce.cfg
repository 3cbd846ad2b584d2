CONSTANTS
  Threads = {t1, t2}
  Sizes <- MCSizes
  MaxPage = 2
  ResPages = 4
  RegionBases <- MCRegionBases
  MmapMayFail = FALSE
  Ops = 3
SPECIFICATION Spec
INVARIANT FullyCoalesced
