SPECIFICATION Spec
CONSTANTS
  d1 = d1  d2 = d2  d3 = d3  d4 = d4
  Request <- Requests
  Slots = {s1, s2}
  Serving <- Served
  Idling <- AtRest
  Paths = {w1}
  Processes = {p1, p2}
  Contents = {x, y}
  Watching <- Watched
  Resting <- NoVisit
INVARIANTS NothingForgotten FollowedExactly VerdictHolds RecordedOnce
SYMMETRY Symmetric
CHECK_DEADLOCK FALSE
