SPECIFICATION FairSpec
CONSTANTS
  Grace = 2
  MetadataWindow = 2
  ProgressWindow = 3
  Holds = {TRUE, FALSE}
PROPERTIES
  GraceHonoured
  HealIsHonest
  StuckMetadataHeals
  RejectionLands
