CONSTANTS
  Primary = p
  Workers = {w1, w2}
  LateWorker = late
  Barriers = 3
  Regions = 2
  Locked = TRUE
  PromptStart = TRUE
  Followed = {"USEFUL", "OMPI"}
  Start = 1
  MaxTime = 3
SPECIFICATION MCSpec
SYMMETRY Symmetry
INVARIANT PathBounds UnlockedPathBounds JoinExact ForkExact
