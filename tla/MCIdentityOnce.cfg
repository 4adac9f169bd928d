\* A poll that stalls across the deletion of the consumed row.
SPECIFICATION Spec
CONSTANTS
  Flows = {f1}
  Actors = {a1, a2}
  Slots = {s1, s2}
  FlowTtl = 2
  AssertionTtl = 2
  LastStart = 0
  MaxTime = 4
  None = None
SYMMETRY MCSymmetry
INVARIANT ConsumedOnce
