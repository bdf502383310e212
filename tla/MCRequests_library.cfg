SPECIFICATION CycleSpec
CONSTANTS
  u1 = u1
  u2 = u2
  Users <- MCUsers
  Admins = {}
  Automation = "api"
  Seasons = {1, 2, 3}
  Aired = 3
  Asks <- LibraryAsks
  Pasts <- LibraryPasts
  _MAX_DEDUP_JOIN_ATTEMPTS = 2
  MaxRows = 5
  MaxCalls = 4
  MaxEvents = 0
SYMMETRY Alike
PROPERTIES
  NoResurrection
