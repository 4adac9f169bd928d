\* One run, two capabilities, two digests and two content types: the races of
\* intents, uploads, events and finalization.
SPECIFICATION Spec
CONSTANTS
  u1 = u1  u2 = u2
  Runs = {r1}
  Users = {u1, u2}
  RunKeys = {c1}
  Keys = {k1, k2}
  EventKeys = {e1}
  KeyUser <- MCKeyUser
  Digests = {d1, d2}
  Types = {t1, t2}
  Bodies = {b1}
  Slots = {s1, s2}
  UploadTtl = 1
  MaxTime = 1
  None = None
SYMMETRY MCSymmetry
INVARIANT TypeOK
INVARIANT AttachmentComplete
INVARIANT CapabilitySpentWhole
INVARIANT OneUploadAnswered
PROPERTY TraceWriteOnce
PROPERTY IntentRenewedOnlyExpired
PROPERTY EventsOnlyWhileOpen
PROPERTY ImplementsContract
