SPECIFICATION Spec
CONSTANTS
  Orgs = {1}
  Calls = {1, 2}
  Tagged = {}
  Refs = {r1}
  None = None
  MaxBlocks = 1
  MaxDay = 1
  Margin = 0
  Credits = {3}
  Estimates = {1}
  Actuals = {2}
  Targets = {3}
  Txs = {t1, t2}
  Jobs = {"close", "reserve", "revoke", "fund"}
  Costs = {2}
SYMMETRY Symmetry
INVARIANTS TypeOK NoDeadlock BooksHoldOverMidnight
PROPERTIES ImplementsLedger OnlyStraddlersDrift
CHECK_DEADLOCK FALSE
