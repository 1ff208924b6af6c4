SPECIFICATION Spec
CONSTANTS
  N = 4
  G = 2
  GoalOf <- MCGoalOf
  Kids <- MCKids
  Deps <- MCDeps
  Options <- SafetyOptions
  Slots = 2
  Reasons = {"gate", "agent"}
INVARIANTS QueueHoldsProposal ProposalHasBranch ConcurrencyBound WorkAfterDeps RetriesBounded
PROPERTIES NeverStuck TerminalStays CancelHonored
CONSTRAINT FewAttempts
