CONSTANTS
  Trade = {t1}
  Qty = 2
  Percent = {50}
  MaxSignals = 3
  StopFills = FALSE
SPECIFICATION Spec
INVARIANTS
  RetryNeverReverses
