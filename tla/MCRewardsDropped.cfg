\* One contributor, three months closed on schedule only.
SPECIFICATION Spec
CONSTANTS
  Actors = {a1}
  Decisions = {"proposed", "approved", "held", "held-below-minimum", "unsafe-hold", "unclaimed"}
  LastMonth = 3
  TicksPerMonth = 2
  ReviewTicks = 1
  Minimum = 2
  FreshMonth = 0
  Punctual = TRUE
  MaxTime = 6
  None = None
CHECK_DEADLOCK FALSE
INVARIANT BalanceNotDropped
