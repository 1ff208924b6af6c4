SPECIFICATION FairSpec
CONSTANTS
  N = 4
  G = 2
  GoalOf <- TwoGoals
  Kids <- Split
  Deps <- After
  Tree <- Trees
  Options <- Settings
INVARIANTS CheckerClean BranchTruth ReportsAgree
PROPERTIES DoneStays Delivers
CHECK_DEADLOCK FALSE
