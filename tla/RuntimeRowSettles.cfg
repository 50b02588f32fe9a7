SPECIFICATION FairSpec
CONSTANTS
  r1 = r1
  n1 = n1
  n2 = n2
  t1 = t1
  NoRow = NoRow
  Rows = {r1}
  Runners = {n1, n2}
  Timers = {t1}
  Timed = {r1}
  Expecting = {}
  Idless = {r1}
PROPERTY SettlesAfterCrashes
PROPERTY KeepsContract
