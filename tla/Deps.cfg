CONSTANTS
  NTasks = 3
  Vars = {x}
  Threads = {t1, t2, t3}
  Generator = t1
  Nobody = nobody
SPECIFICATION Spec
INVARIANTS DependsKept DependsOnly
