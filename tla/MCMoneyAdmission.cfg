SPECIFICATION Spec
CONSTANTS
  Gates = {g1, g2}
  Procs = {p1, p2}
  Orgs = {1, 2}
  None = None
  TTL = 1
  ReserveWait = 0
  SettleWait = 0
SYMMETRY Symmetry
INVARIANTS LeaseBacksBelief CleanEnd OverrunReported NoCircle
CHECK_DEADLOCK FALSE
