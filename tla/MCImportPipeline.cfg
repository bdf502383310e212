CONSTANTS
  Units = {u1, u2}
  First = u1
  Files = {1, 2}
  Kinds = {"movie", "scalar", "pack"}
  MaxOutages = 1
  Troubles = 2
SPECIFICATION FairSpec
INVARIANT ImportIsWhole
PROPERTIES OthersFilesSurvive FailedStays ImportSettles
CHECK_DEADLOCK FALSE
