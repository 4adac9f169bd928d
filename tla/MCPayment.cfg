\* Two cycles, two instruments; four merges, or three with one around the gate.
SPECIFICATION Spec
CONSTANTS
  Cycles = {c1, c2}
  Instruments = {i1, i2}
  Versions = {v1}
  Stamps = {t1}
  None = None
  Unfunded = Unfunded
  MaxMerges = 4
  MaxBypasses = 1
SYMMETRY MCSymmetry
CHECK_DEADLOCK FALSE
INVARIANT TypeOK
INVARIANT IssuedOnce
INVARIANT PolicyBeforeMoney
PROPERTY ReleasedOnlyAdmitted
