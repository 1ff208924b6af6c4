SPECIFICATION Spec
CONSTANTS
  G = 3
  Concurrency = 2
  Price = 1
  Options <- Settings
  la = la  lb = lb  lc = lc
  key = key
  NoKey = NoKey
  Key <- MCKey
  Local <- MCLocal
  NoLocal = NoLocal
  MaxGraphDepth = 2
  MaxFanOut = 2
  MaxTicketsPerGoal = 5
  Answers <- Replies
INVARIANTS SpendBounded PauseHonest GraphSound WaitsEnd
CHECK_DEADLOCK FALSE
