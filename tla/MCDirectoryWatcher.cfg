SPECIFICATION FairSpec
CONSTANTS
  Dirs <- MCDirs
  NoDir = 0
  Parent <- MCParent
  Continues <- MCContinues
  Versioned = {2, 3, 4}
  MaxAdds = 2
  MaxCloses = 1
  MaxChanges = 2
  MaxFails = 1
CHECK_DEADLOCK FALSE
INVARIANTS WatcherInv AllWatched
PROPERTIES ChangesReported WatchedInTheEnd StopEnds
