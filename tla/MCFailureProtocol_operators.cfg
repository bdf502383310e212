SPECIFICATION Spec
CONSTANTS
  Operators = {o1, o2}
  Choices <- OpposedChoices
  SelfHeal = heal
  MaxToken = 2
  MaxGrabs = 0
  MaxCrashes = 0
CHECK_DEADLOCK FALSE
SYMMETRY Symmetry
INVARIANTS
  GuardAccounting
  FailureIsSettled
PROPERTY MarkerGoverns
