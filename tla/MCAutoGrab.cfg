SPECIFICATION SearchSpec
CONSTANTS
  Movies = {1}
  Seasons = {2}
  Episodes = {1, 2}
  MaxSearches = 2
  BACKOFF_SCHEDULE <- Backoff
  COOLDOWN_SCHEDULE <- Cooldown
  MaxOverdue = 0
  MaxEvents = 2
INVARIANTS
  ParkedIsIdle
PROPERTIES
  DoneIsWhole
  EagerSettles
  MissingIsChased
