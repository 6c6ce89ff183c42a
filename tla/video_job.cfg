SPECIFICATION FairSpec
CONSTANTS
  Jobs = {j1}
  Clients = {c1, c2}
  Failures = {"crash", "database", "hangup"}
INVARIANTS JobsTypeOK CancelSticks
PROPERTIES OnlyLateCancelsRewrite UnhurtJobsEnd
CHECK_DEADLOCK FALSE
