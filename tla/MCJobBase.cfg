SPECIFICATION FairSpec
CONSTANTS
  Client = client
  Workers = {w1, w2}
CHECK_DEADLOCK FALSE
INVARIANT JobInv
PROPERTIES ResultIsThere DeleteEnds WaitEnds
