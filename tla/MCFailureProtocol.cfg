SPECIFICATION FairSpec
CONSTANTS
  Operators = {o1}
  Choices <- KeepChoice
  SelfHeal = heal
  MaxToken = 2
  MaxGrabs = 1
  MaxCrashes = 1
CHECK_DEADLOCK FALSE
INVARIANTS
  GuardedDeleteSparesRegrab
  RemovalIsHonest
PROPERTY
  PendingCompletes
