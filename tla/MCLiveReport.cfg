\* Two reports of two commands each; every process can be killed at any point.
SPECIFICATION Spec
CONSTANTS
  Report = {r1, r2}
  MaxCommands = 2
  None = None
SYMMETRY MCSymmetry
CHECK_DEADLOCK FALSE
INVARIANT TypeOK
INVARIANT LockNamesHolder
INVARIANT OverlapNeedsKilledOwner
INVARIANT ForeignLeaseNeedsKilledOwner
PROPERTY ImplementsMutex
