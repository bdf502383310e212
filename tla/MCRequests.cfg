SPECIFICATION CycleSpec
CONSTANTS
  u1 = u1
  u2 = u2
  Users <- MCUsers
  Admins = {}
  Automation = "api"
  Seasons = {1, 2, 3}
  Aired = 2
  Asks <- SmallAsks
  Pasts <- MCPasts
  _MAX_DEDUP_JOIN_ATTEMPTS = 2
  MaxRows = 5
  MaxCalls = 3
  MaxEvents = 2
SYMMETRY Alike
INVARIANT
  AnswersHold
PROPERTIES
  JoinRevivesNothing
  PromotionIsConfirmed
  HealStrandsNobody
