SPECIFICATION Spec
CONSTANTS
  Records = {1, 2}
  Logged = {"q1", "k1"}
  Short = {"q1"}
  AppKeys <- Keys
  Holders = {"h1", "h2"}
  Exchangers = {"e1"}
  QUEUE_MAXSIZE = 1
  MaxFaults = 1
  Accounts = {"a", "b"}
  Signers = {"s1", "s2"}
  Casts <- Scenes
  _MAX_SIGN_IN_SHAPE_ATTEMPTS = 3
  MaxPuts = 2
  MaxSweeps = 2
  MaxEvents = 1
  MaxClock = 1
INVARIANTS
  SessionsAreCurrent
  RetiredIsErased
PROPERTIES
  VerdictSparesOthers
  SnapshotIsTrue
  WatchlistSurvives
CHECK_DEADLOCK FALSE
