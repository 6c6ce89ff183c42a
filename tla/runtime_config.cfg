SPECIFICATION Spec
CONSTANTS
  Editors = {e1, e2}
  Edits <- MCEdits
  FormFields = {"app_key", "cf_clearance", "browser", "user_agent"}
  File <- MCFile
  Env <- MCEnv
  Algorithms = {"random", "round_robin"}
  BrowserUA <- MCBrowserUA
  Solutions <- MCSolutions
  Mask = "********"
  MaxPuts = 2
  MaxSolves = 1
  MaxFails = 1
  MaxRestarts = 1
INVARIANTS
  TypeOK
  RestartKeepsSettings
  ClearanceWithItsUserAgent
  MaskNeverStored
SYMMETRY EditorSymmetry
