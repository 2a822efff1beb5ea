SPECIFICATION FairSpec
CONSTANTS
  Workers = {w1, w2}
  Callers = {k1}
  None = None
  FirstCheck = 1
  Lease = 2
  ProcessTimeout = 1
  Delays = {1, 2}
  Window = 4
  Deadline = 4
  MaxFaults = 1
INVARIANTS
  OnePoller
  ChargedOnEvidence
  RowMatchesHold
  OneEnd
PROPERTIES PendingEnds
CHECK_DEADLOCK FALSE
