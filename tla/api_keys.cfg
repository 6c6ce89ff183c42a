SPECIFICATION Spec
CONSTANTS
  Requests = {r1, r2}
  Editors = {e1}
  Window = 1
  RateLimits = {0, 1}
  DailyLimits = {1}
  RateDefault = 1
  DailyDefault = 1
  Expiries = {0}
  Patches <- MCPatches
  MaxTime = 1
  MaxKeys = 2
  MaxDone = 3
  MaxEdits = 2
  MaxAdds = 2
  None = none
  Entries = {n1, n2, n3}
SYMMETRY RequestSymmetry
INVARIANTS
  TypeOK
  BurstBounded
  DailyOverrunBounded
PROPERTIES
  NoEarlyRefusal
  RevokedStaysRevoked
