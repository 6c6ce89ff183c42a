SPECIFICATION FairSpec
CONSTANTS
  Chat = chat
  Image = image
  Video = video
  FailThreshold = 1
  DefaultQuota <- MCDefault
  BuiltinQuota <- MCBuiltin
  MaxQuota <- MCMax
  AllowUnlimited = TRUE
  Ids = {t1}
  Rows <- MixedRows
  Requests = {r1}
  RequestCats = {chat, image, video}
  Costs = {2}
  MaxAttempts = 1
  Workers = {w1}
  Probes = {p1}
  Remaining = {0, 2}
  RecoveryModes = {"auto"}
  FailBound = 1
PROPERTY CoolingEnds
