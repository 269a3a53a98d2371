SPECIFICATION MCSpec
CONSTANTS
  Call = {c1, c2, c3}
  Request = {r1, r2}
  None = None
  Other = Other
  MaxFaults = 1
  MaxLosses = 1
  MaxWithdrawals = 1
  b1 = b1
  b2 = b2
  b3 = b3
  p = p
  q = q
  x = x
  y = y
  Builds <- MCBuilds
  Processes <- MCProcesses
  Authorities <- MCAuthorities
  ProcessOf <- MCProcessOf
  AuthorityOf <- MCAuthorityOf
  MaxAuthorityDirectories = 1
  Nobody = Nobody
  MaxEvents = 1
SYMMETRY MCSymmetry
INVARIANTS
  FreshReceiptSurvives
  SealedTreesHold
PROPERTIES
  RefusalJustified
  ImplementsWriteOnce
  NeverRepaired
  RefusedForCause
CHECK_DEADLOCK FALSE
