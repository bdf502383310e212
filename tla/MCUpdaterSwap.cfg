SPECIFICATION FairSpec
CONSTANTS
  MaxFaults = 4
PROPERTIES
  Refinement
  InstallSettles
