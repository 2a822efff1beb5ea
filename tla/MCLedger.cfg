SPECIFICATION Spec
CONSTANTS
  Orgs = {o1, o2}
  Calls = {c1, c2}
  Tagged = {c1, c2}
  Refs = {r1}
  None = None
  MaxBlocks = 2
  MaxDay = 1
  Margin = 50
  Credits = {3}
  Estimates = {1}
  Actuals = {0, 2}
  Targets = {1, 3}
SYMMETRY Symmetry
INVARIANTS
  BalanceEquation
  JournalBacksBlocks
  SpentTodayAgrees
  TagRowsAgree
  OverdraftBounded
  RevokedWithinTarget
PROPERTIES
  SweepSparesTasks
  RefundSparesHolds
  PaidCreditLast
CHECK_DEADLOCK FALSE
