SPECIFICATION Spec
CONSTANTS
  Client = client
  Workers = {w1, w2}
CHECK_DEADLOCK FALSE
INVARIANT NotDeletedInQueue
