CONSTANTS
  Threads = {t1, t2}
  Records <- MCRecords
  RunBases <- MCRunBases
  PageSize = 8
  NumPages = 1
  ClassSize = 3
  EmptyCap = 0
  Aligns <- MCAlignsSmall
  SIZE_CLASS = 1360
  PAGE_SIZE = 4096
  EMPTY_CAP = 0
  PageAddrs <- MCPageAddrs
  SCAligns = {1, 32, 4096}
  Counts = {1, 2, 4}
  MaxHeld = 4
SYMMETRY Symmetry
SPECIFICATION USpec
INVARIANTS
  TypeOK
  CellAccounting
  PageListsMatchCounters
  RadixConsistent
  AllocationsAligned
  CacheLengthMatchesList
  SC_TypeOK
  SC_NoPanic
  SC_BitsMatchHeld
  SC_ListsPartitionRecords
  SC_RadixMatchesRuns
  S_TypeOK
  S_Classification
  S_CellFitsRun
PROPERTY
  Refines
