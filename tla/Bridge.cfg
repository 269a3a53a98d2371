SPECIFICATION FairSpec
CONSTANTS
  MaxCalls = 3
  MaxSpawns = 3
  MaxKills = 2
  Behaviours <- All
INVARIANTS
  AnswersMatch
  AtMostOnce
  LossReported
PROPERTIES
  CallsAnswered
  NoOrphans
CHECK_DEADLOCK FALSE
