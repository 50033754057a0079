SPECIFICATION FairSpec
CONSTANTS
  Nodes = {1, 2, 3, 4, 5}
  NoNode = 0
  Parent <- MCParent
  Kind <- MCKind
  Excluded = {}
  bRecursive = TRUE
  Feedback = TRUE
  MayFail = TRUE
  MaxEvents = 2
CHECK_DEADLOCK FALSE
INVARIANTS CrawlerInv NoLostWakeup InhibitBound
PROPERTIES NoDoubleCrawl Settles Terminates Quiesces
