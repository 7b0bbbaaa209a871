CONSTANTS
  Threads = {t1, t2}
  Ids = {1, 2, 3}
  Sections = 2
  FirstCapacity = 1
  Nobody = nobody
SPECIFICATION Spec
CHECK_DEADLOCK FALSE
INVARIANT ReferenceValid
