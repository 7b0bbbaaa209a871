CONSTANTS
  Threads = {0, 1}
  TaskObj = {a, b, c}
  Groups = {g, h}
  None = None
  Programs <- AllPrograms
  Barriers = 1
  MaxTasks = 3
SPECIFICATION Spec
SYMMETRY Symmetry
INVARIANTS NothingLost NothingAdded AssertionsHold RefCountExact StatesBalanced
