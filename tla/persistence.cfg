SPECIFICATION Spec
CONSTANTS
  Ids = {t1}
  Operators = {o1}
  Lives = {active, quarantine}
  Profiles = {p1, p2}
INVARIANTS TypeOK OnlyOverlapsLoseChanges ProfileEditsSurvive
PROPERTY DeletedStaysGone
