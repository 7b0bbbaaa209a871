CONSTANTS
  Primary = p
  Workers = {w1}
  Barriers = 1
  Regions = 1
  Locked = TRUE
  PromptStart = FALSE
  Followed = {"USEFUL"}
  Start = 1
  MaxTime = 3
SPECIFICATION Spec
INVARIANT ForkExact
