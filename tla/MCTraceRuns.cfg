\* Two runs of one user, two bodies, one digest: the races of run creation, of
\* idempotent retries and of a key reused for another run, beside another user.
SPECIFICATION Spec
CONSTANTS
  u1 = u1  u2 = u2
  Runs = {r1, r2}
  Users = {u1, u2}
  RunKeys = {c1, c2}
  Keys = {k1}
  EventKeys = {e1}
  KeyUser <- MCKeyUser
  Digests = {d1}
  Types = {t1}
  Bodies = {b1, b2}
  Slots = {s1, s2}
  UploadTtl = 1
  MaxTime = 1
  None = None
SYMMETRY MCSymmetry
INVARIANT AnswersHold
