SPECIFICATION BudgetSpec
CONSTANTS
  G = 3
  Concurrency = 2
  Price = 1
  Options <- RetriedSetting
INVARIANT PausedByBudgetOnly
CHECK_DEADLOCK FALSE
