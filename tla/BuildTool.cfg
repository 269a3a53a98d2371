SPECIFICATION MCSpec
CONSTANTS
  Leader = leader
  Member = member
  Escaped = escaped
  MaxOutput = 1
  MaxWrites = 3
  Decisions = {1, 2}
  Budgets <- MCBudgets
INVARIANTS
  TreeGone
  ExitIsReal
  DecidedByProject
PROPERTIES
  Returns
  PublishedAsApproved
  CommitIsLast
CHECK_DEADLOCK FALSE
