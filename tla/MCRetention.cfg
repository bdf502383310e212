SPECIFICATION FairSpec
CONSTANTS
  Rows = {1, 2}
  First = 1
  Kinds = {"movie", "tv"}
  Reports = 1
  Grabs = 1
  MaxCrashes = 1
INVARIANT TreeIsAccounted
PROPERTIES DeleteSparesOwner LeaseIsReleased
CHECK_DEADLOCK FALSE
