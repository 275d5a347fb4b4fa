SPECIFICATION PlaneSpec
CONSTANTS
  Requests = {r1, r2}
  Deadline = 2
  MaxRecovery = 2
  Clients = {k1, k2, k3, k4}
  Lease = 2
  Timeout = 1
  Callers = {c1, c2}
  Tokens = {t1, t2, t3, t4, t5, t6, t7, t8}
  MaxTime = 6
  MaxFailures = 3
  Nil = Nil
SYMMETRY Symmetry
INVARIANTS
  OneBeneficiary
  OneKnownClient
  ActiveIsUsable
PROPERTIES
  NeverReopened
CHECK_DEADLOCK FALSE
