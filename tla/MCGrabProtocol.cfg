SPECIFICATION Spec
CONSTANTS
  Grabbers = {g1, g2}
  First = first
  Again = again
  Kinds = {"tv", "movie"}
  Seasons = {1, 2}
  Hashes = {pack, single}
  Pack = pack
  MaxEvents = 4
SYMMETRY Interchangeable
CHECK_DEADLOCK FALSE
INVARIANTS
  DownloadingIsCarried
  TorrentsAreOwned
