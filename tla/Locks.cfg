CONSTANTS
  Threads = {t1, t2, t3}
  Ids = {1, 2}
  Sections = 2
  FirstCapacity = 1
  Nobody = nobody
SPECIFICATION Spec
CHECK_DEADLOCK FALSE
INVARIANT LockExact
PROPERTY AcquiredReturns
