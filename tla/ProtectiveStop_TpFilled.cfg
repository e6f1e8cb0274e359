CONSTANTS
  Qty = 2
  TpQty = 1
  Targets = 1
SPECIFICATION Spec
INVARIANTS
  FailedMeansFlat
