CONSTANTS
  Initial = initial
  Workers = {w1}
  Stopped = FALSE
  DumpOnStop = FALSE
  LibraryConstructor = FALSE
  Straddle = FALSE
  FirstTime = 1
  MaxTime = 4
SPECIFICATION MCSpec
CHECK_DEADLOCK FALSE
INVARIANT TypeOK StackMatchesCalls ChargedWithinRun LateBooking
PROPERTY ImplementsStopwatch
