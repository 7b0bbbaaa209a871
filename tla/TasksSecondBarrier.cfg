CONSTANTS
  Threads = {0, 1}
  TaskObj = {a, b, c}
  Groups = {g, h}
  None = None
  Programs <- Plain
  Barriers = 2
  MaxTasks = 3
SPECIFICATION Spec
SYMMETRY Symmetry
INVARIANT NothingLost
