SPECIFICATION Spec
CONSTANTS
  N = 4
  G = 2
  GoalOf <- MCGoalOf
  Kids <- MCKids
  Deps <- MCDeps
  Options <- StickyApprovalOptions
  Slots = 2
  Reasons = {"gate", "agent"}
PROPERTY ApprovalCoversMerge
