SPECIFICATION Spec
CONSTANTS
  Orgs = {1, 2}
  Calls = {1, 2}
  Tagged = {}
  Refs = {}
  None = None
  MaxBlocks = 3
  MaxDay = 0
  Margin = 0
  Credits = {3}
  Estimates = {2}
  Actuals = {1}
  Targets = {3}
  Txs = {t1, t2}
  Jobs = {"close", "payTo", "reserve"}
  Costs = {1, None}
SYMMETRY Symmetry
INVARIANTS NoDeadlock
PROPERTIES ImplementsLedger
CHECK_DEADLOCK FALSE
