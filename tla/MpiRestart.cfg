SPECIFICATION Spec
CONSTANTS
  Ranks = {1, 2, 3}
  Threads = {1, 2, 3, 4}
  ANY = ANY
  ProcNull = ProcNull
  MaxData = 3
  Kept = {"PromptProbe", "ActiveWait", "WildcardRunning", "CancelInTime", "CancelRunning", "Status", "TagNotAny"}
  RankOf <- MCRankOf
  Zero <- MCZero
  Programs <- RestartedWildcard
INVARIANT AssertionsHold
CHECK_DEADLOCK FALSE
