\* Two accounts, three claims, two addresses and three requests in flight.
SPECIFICATION Spec
CONSTANTS
  Actors = {g1, g2}
  Ids = {i1, i2, i3}
  Addresses = {w1, w2}
  Stamps = {t1}
  Slots = {s1, s2, s3}
  None = None
SYMMETRY MCSymmetry
INVARIANT TypeOK
INVARIANT OneLineage
INVARIANT AnswersHold
PROPERTY ImplementsRegister
