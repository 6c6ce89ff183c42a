SPECIFICATION Spec
CONSTANTS
  Chat = chat
  Image = image
  Video = video
  FailThreshold = 0
  DefaultQuota <- MCDefault
  BuiltinQuota <- MCBuiltin
  MaxQuota <- MCMax
  AllowUnlimited = TRUE
  Ids = {t1}
  Rows <- ChatRows
  Requests = {r1, r2}
  RequestCats = {chat}
  Costs = {1}
  MaxAttempts = 1
  Workers = {w1}
  Probes = {p1}
  Remaining = {0, 2}
  RecoveryModes = {"auto"}
  FailBound = 1
INVARIANT QuarantineNotAutoCleared
