\* Two reports of one command each, against the claim in the script's header.
SPECIFICATION Spec
CONSTANTS
  Report = {r1, r2}
  MaxCommands = 1
  None = None
SYMMETRY MCSymmetry
CHECK_DEADLOCK FALSE
INVARIANT ExclusiveCommands
