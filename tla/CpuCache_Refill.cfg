CONSTANTS
  Threads = {t1, t2}
  CPUs = {c1, c2}
  Cells <- MCCells
  Aligns = {16, 32}
  CAP = 2
  CWND = 3
  None = None
SPECIFICATION Spec
INVARIANT
  CellsExclusive
