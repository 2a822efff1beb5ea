SPECIFICATION Spec
CONSTANTS
  Orgs = {1}
  Calls = {1}
  Tagged = {}
  Refs = {}
  None = None
  MaxBlocks = 1
  MaxDay = 1
  Margin = 0
  Credits = {3}
  Estimates = {1}
  Actuals = {2}
  Targets = {3}
  Txs = {t1, t2}
  Jobs = {"close", "reserve"}
  Costs = {2, None}
SYMMETRY Symmetry
INVARIANTS SpentTodayAgrees
CHECK_DEADLOCK FALSE
