SPECIFICATION Spec
CONSTANTS
  r1 = r1
  n1 = n1
  n2 = n2
  t1 = t1
  t2 = t2
  NoRow = NoRow
  Rows = {r1}
  Runners = {n1, n2}
  Timers = {t1, t2}
  Timed = {r1}
  Expecting = {r1}
  Idless = {}
SYMMETRY Symmetry
INVARIANT TypeOK
INVARIANT ClaimExclusive
INVARIANT DispatchedOnce
INVARIANT ClaimKept
INVARIANT DispatchAccounted
PROPERTY TerminalFinal
PROPERTY OwnerDecides
