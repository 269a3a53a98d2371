SPECIFICATION Spec
CONSTANTS
  Call = {c1, c2}
  Payload = {p1, p2}
  Role = {wheel, sbom}
  Key = key
  Manifest = manifest
  None = None
  Other = Other
  MaxRewrites = 1
  MaxFaults = 1
  MaxLosses = 1
  MaxWithdrawals = 1
SYMMETRY Symmetry
INVARIANTS
  BundleWhole
  PublishedFromOneState
  LitterExplained
PROPERTIES
  ImplementsWriteOnce
CHECK_DEADLOCK FALSE
