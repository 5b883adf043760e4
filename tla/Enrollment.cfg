CONSTANTS
  Hosts = {h1, h2}
  Procs = {p1, p2}
  Tokens = {t1, t2}
  Ids = {m1, m2}
  Keys = {k1, k2}
  None = None
  Provisioned = TRUE
SPECIFICATION Spec
INVARIANTS TokenEnrollsOnce RevokedStaysOut PinDescendsFromToken RetirementIsSafe
PROPERTIES EnrollmentKept KeepsMembership
SYMMETRY Symmetry
CHECK_DEADLOCK FALSE
