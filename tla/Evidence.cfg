SPECIFICATION EvidenceSpec
CONSTANTS
  Existing <- MCExisting
  Meddlings = 2
  Builds = 2
  Interrupts = {2}
INVARIANTS
  NothingDestroyed
  CompleteMeansUndone
CHECK_DEADLOCK FALSE
