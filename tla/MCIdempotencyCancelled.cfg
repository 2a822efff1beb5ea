SPECIFICATION Spec
CONSTANTS
  Calls = {c1, c2}
  Prints = {p1}
  Purchases = {}
  None = None
  Charges = {1}
  Window = 3
  Renew = 1
  Stale = 1
  Grace = 0
  Late = 0
  HoldTTL = 1
  MaxMisses = 1
  MaxNow = 4
SYMMETRY Symmetry
INVARIANTS RetryPaidOnce
CHECK_DEADLOCK FALSE
