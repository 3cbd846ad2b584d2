CONSTANTS
  Threads = {t1}
  N = 512
  Calls <- MCEnqOnly
  MaxOps = 513
  Starts = {0}
SPECIFICATION Spec
PROPERTY
  LiveCallsReturn
