SPECIFICATION FairSpec
CONSTANTS
  Workers = {w1, w2}
  CritTTL = 2
  DrainTTL = 2
  RecoveryAge = 2
  Policies <- Drainers
  Rows <- Fresh
  Prompt = TRUE
  Operator = TRUE
  Tokens = {1, 2, 3}
  MaxGen = 2
  MaxCrashes = 1
PROPERTIES
  DrainedBeforeStop
  PendingFinishes
  DrainEnds
