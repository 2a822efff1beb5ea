SPECIFICATION Spec
CONSTANTS
  Procs = {p1, p2}
  Cards = {c1, c2}
  None = None
  MaxAttempts = 1
  Cap = 1
  MaxClaims = 2
  MaxManual = 1
SYMMETRY Symmetry
INVARIANTS TypeOK OneLiveInvoice OneChargePerKey
CHECK_DEADLOCK FALSE
