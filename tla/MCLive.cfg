SPECIFICATION FairSpec
CONSTANTS
  N = 3
  G = 1
  GoalOf <- OneGoalOf
  Kids <- OneKids
  Deps <- OneDeps
  Options <- LiveOptions
  Slots = 1
  Reasons = {"gate", "agent"}
PROPERTIES GoalsSettle CancelSettles
