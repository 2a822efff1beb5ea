SPECIFICATION Spec
CONSTANTS
  Handlers = {d1, d2}
  m1 = m1
  m2 = m2
  o1 = o1
  o2 = o2
  c1 = c1
  Teams = {o1, o2}
  Payments = {m1, m2}
  Payer <- OnePayer
  Card <- OneCard
  Partials <- FirstInTwo
  Bonused = {m1}
  Users = {u1, u2}
  None = None
  Need = 1
  ReferralCap = 1
SYMMETRY Symmetry
INVARIANTS TypeOK BonusNetOfRefunds EachSideOnce OneCardOneReferral
CHECK_DEADLOCK FALSE
