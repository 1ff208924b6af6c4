SPECIFICATION FairSpec
CONSTANTS
  p1 = p1  p2 = p2  p3 = p3  w1 = w1  w2 = w2  repo1 = repo1
  Proc = {p1, p2, p3}
  Workspace = {w1, w2}
  Repo = {repo1}
  WsOf <- TwoWsOf
  RepoOf <- TwoRepoOf
  Once = {p3}
  NoProc = NoProc
  MaxEvents <- TwoMaxEvents
  MaxFaults = 1
INVARIANTS LocksFreed OneScheduler HandoffCovered
PROPERTY CallsReturn
