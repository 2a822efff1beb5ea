SPECIFICATION Spec
CONSTANTS
  Calls = {c1, c2}
  Prints = {p1, p2}
  Purchases = {p2}
  None = None
  Charges = {1}
  Window = 3
  Renew = 1
  Stale = 1
  Grace = 0
  Late = 0
  HoldTTL = 1
  MaxMisses = 1
  MaxNow = 4
SYMMETRY Symmetry
INVARIANTS TypeOK PaidTwiceOnlyIfGivenBack OneAtWork LostChargeFound
PROPERTIES ClaimIsTheOwners
CHECK_DEADLOCK FALSE
