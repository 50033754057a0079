SPECIFICATION FairSpec
CONSTANTS
  Dirs <- MCDirs
  NoDir = 0
  Parent <- MCParent
  Crawler = crawler
  Askers = {asker}
  Commanders = {commander}
  Saved <- MCSaved
  Vanishing = {2}
  Exclusions <- MCExclusions
  MaxCalls = 2
  MaxDisk = 1
CHECK_DEADLOCK FALSE
INVARIANT CacheInv
PROPERTIES PointersKept RemovalsComplete CallsEnd
