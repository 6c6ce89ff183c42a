SPECIFICATION Spec
CONSTANTS
  Chat = chat
  Image = image
  Video = video
  FailThreshold = 1
  DefaultQuota <- MCDefault
  BuiltinQuota <- MCBuiltin
  MaxQuota <- MCMax
  AllowUnlimited = TRUE
  Ids = {t1}
  Rows <- ChatRows
  Requests = {r1, r2}
  RequestCats = {chat}
  Costs = {1}
  MaxAttempts = 2
  Workers = {w1}
  Probes = {p1}
  Remaining = {0, 1}
  RecoveryModes = {"auto", "upstream"}
  FailBound = 1
INVARIANTS TypeOK OverrunBounded NoZombie
PROPERTIES NoStepActivatesQuarantined ChangesAreMarkedDirty
