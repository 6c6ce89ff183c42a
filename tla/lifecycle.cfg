SPECIFICATION Spec
CONSTANTS
  h1 = h1
  t1 = t1
  t2 = t2
  Handlers = {h1}
  Jobs = {j1}
  Workers = {w1, w2}
  Checks = {c1}
  Tokens = {t1, t2}
  TokenOf <- MCTokenOf
  Slots = 1
SYMMETRY WorkerSymmetry
CHECK_DEADLOCK FALSE
INVARIANTS
  DrainedUsageIsRecorded
  AwaitedChangesAreSaved
