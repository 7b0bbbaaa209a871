SPECIFICATION Spec
CONSTANTS
  Threads = {t1, t2}
  Vars = {1, 2}
  Scenes <- MCScenes
  Array <- MCArray
  DatasPerBlock = 1
  HandlesPerBlock = 1
  MaxData = 3
  NullF = 2
  None = None
INVARIANTS OnePlace NoLeak HandleExact AssertionsHold
PROPERTIES NullWhenGone
PROPERTIES CallsReturn
CHECK_DEADLOCK FALSE
