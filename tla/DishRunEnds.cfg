SPECIFICATION FairSpec
CONSTANTS
  c1 = c1
  c2 = c2
  t1 = t1
  t2 = t2
  Steps = {1, 2, 3, 4, 5}
  Bucket <- Recipe
  Continues = {3}
  Requests = {c1, c2}
  Timers = {t1, t2}
INVARIANT TypeOK
INVARIANT InOrder
INVARIANT EndJustified
INVARIANT LeftBesideFailure
PROPERTY Finishes
