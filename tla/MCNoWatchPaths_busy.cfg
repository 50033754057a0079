SPECIFICATION BusySpec
CONSTANTS
  Dirs <- MCDirs
  Parent <- MCParent
  NoDir = 0
  WCDirs <- MCWCDirs
  SpecialDirs = {5}
  DefaultTimeout = 2
  ShortTimeouts = {1}
  Forever = 1
  MaxBlocks = 2
INVARIANT BlocksTypeOK
PROPERTIES CrawlAfterTimeout BlockTimesOut
