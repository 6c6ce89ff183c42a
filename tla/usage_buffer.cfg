SPECIFICATION Spec
CONSTANTS
  Max = 3
  Records = 9
INVARIANTS TypeOK BufferBounded InOnePlace StopFlushes
PROPERTY KeepsLedger
CHECK_DEADLOCK FALSE
