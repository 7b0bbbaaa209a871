CONSTANTS
  Threads = {t1, t2, t3}
  Nobody = nobody
  Objects = {1, 2, 3, 4, 5, 6}
  PageSize = 2
  Raw = raw
  Moved = moved
  NUL = nul
  NotSet = notSet
SPECIFICATION MCSpec
SYMMETRY Symmetry
CHECK_DEADLOCK FALSE
INVARIANT OnePlace NeverEmpty NothingMissing
INVARIANT VectorExact VectorLifetimes StringExact MapExact
INVARIANT FlagsExact MetricsSound OffsetRobust
