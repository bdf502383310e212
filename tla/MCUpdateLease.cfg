SPECIFICATION Spec
CONSTANTS
  Workers = {w1}
  CritTTL = 2
  DrainTTL = 2
  RecoveryAge = 2
  Policies <- AnyPolicy
  Rows <- Legacy
  Prompt = FALSE
  Operator = TRUE
  Tokens = {1, 2, 3}
  MaxGen = 2
  MaxCrashes = 1
INVARIANTS
  ReadyExcludesCritical
  LostAnswerReplays
PROPERTY
  FencesHold
