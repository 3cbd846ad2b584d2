CONSTANTS
  Threads = {t1}
  Cpus = {c1}
  t1 = t1
  c1 = c1
  NumArrs = 2
  DataLen = 48
  Vals = {1}
  MaxOps = 2
SPECIFICATION Spec
INVARIANT
  PrefetchTargetKept
