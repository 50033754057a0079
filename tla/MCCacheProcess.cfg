SPECIFICATION FairSpec
CONSTANTS
  Main = main
  Askers = {asker}
  Commanders = {}
  MaxStarts = 2
  MaxFaults = 2
INVARIANT ProcessInv
PROPERTY ShutdownEnds
CHECK_DEADLOCK FALSE
