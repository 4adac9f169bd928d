\* One contributor over three months: scheduled and dispatched closes, delayed merges, edits
\* (but those to held-below-minimum) and approvals in every order.
SPECIFICATION Spec
CONSTANTS
  Actors = {a1}
  Decisions = {"proposed", "approved", "held", "unsafe-hold", "unclaimed"}
  LastMonth = 3
  TicksPerMonth = 2
  ReviewTicks = 1
  Minimum = 2
  FreshMonth = 0
  Punctual = FALSE
  MaxTime = 6
  None = None
CHECK_DEADLOCK FALSE
INVARIANT TypeOK
INVARIANT UnpaidSinceEarned
INVARIANT ApprovedOnce
PROPERTY BalancesFreeze
