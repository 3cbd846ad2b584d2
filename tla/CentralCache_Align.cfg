CONSTANTS
  Threads = {t1, t2}
  Records <- MCRecords
  RunBases <- MCRunBases
  PageSize = 8
  NumPages = 1
  ClassSize = 3
  EmptyCap = 0
  Aligns <- MCAlignsLarge
SYMMETRY Symmetry
SPECIFICATION Spec
INVARIANT AllocationsAligned
