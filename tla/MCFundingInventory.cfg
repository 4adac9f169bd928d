\* A proposal of confirmed records that is sent to a person.
SPECIFICATION Spec
CONSTANTS
  Operators = {a1, a2}
  Traces = {"t1", "t2"}
  Grants = {"g1", "g2"}
  ReadCalls = {p1, p2, p3}
  GrantTtl = 1
  ReadsMaxTime = 2
  Keys = {"global", "bucket"}
  Limit <- MCLimit
  Paths <- MCPaths
  CountedCalls = {a1, a2}
  Window = 3
  MaxDelay = 1
  LimitsMaxTime = 6
  Renewals = {a1, a2}
  Validity = 1
  Tolerance = 1
  FetchLimit = 1
  Skew = 1
  IntakeMaxTime = 4
  Authorities = {a1, a2, a3}
  Faulty = {a3}
  Children = 2
  MaxSlot = 3
  Cycles = {"m1"}
  Intents = {"i1", "i2"}
  Fees = {"fee"}
  CycleOf <- MCCycleOf
  OwnerOf <- MCOwnerOf
  AmountOf <- MCAmountOf
  Sigs = {p1, p2, p3}
  Drift = 1
  SettlementMaxTime = 1
  PRs = {a1, a2}
  Records = {"r1", "r2"}
  TxOf <- MCTxOf
  Genuine = {"r1"}
  DecisionLife = 0
  MaxPushes = 2
  MaxRuns = 1
  FundingMaxTime = 1
  Life = 1
  SignersMaxTime = 2
  MaxMerges = 2
  None = None
SYMMETRY MCSymmetry
CHECK_DEADLOCK FALSE
INVARIANT InScopeIsDecided
