\* One sign-in, two GitHub accounts and two requests in flight, under fairness of the
\* clock and of the cleanup.
SPECIFICATION FairSpec
CONSTANTS
  Flows = {f1}
  Actors = {a1, a2}
  Slots = {s1, s2}
  FlowTtl = 1
  AssertionTtl = 1
  LastStart = 0
  MaxTime = 3
  None = None
INVARIANT TypeOK
INVARIANT OneActor
INVARIANT AnsweredOnce
PROPERTY SpentUntilExpiry
PROPERTY EverythingForgotten
