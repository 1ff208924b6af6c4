SPECIFICATION GraphSpec
CONSTANTS
  la = la  lb = lb  lc = lc
  key = key
  NoKey = NoKey
  Key <- MCKey
  Local <- MCLocal
  NoLocal = NoLocal
  G = 2
  Concurrency = 2
  MaxGraphDepth = 2
  MaxFanOut = 2
  MaxTicketsPerGoal = 5
  Answers <- WovenAnswers
INVARIANT AlwaysDAG
CHECK_DEADLOCK FALSE
