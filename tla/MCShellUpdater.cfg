SPECIFICATION ShellFairSpec
CONSTANTS
  Reporters = {t1, t2}
  Files = {f}
  Folders = {d}
  NoPath = none
  MaxAdds = 4
CHECK_DEADLOCK FALSE
INVARIANT QueueInv
PROPERTIES Announced Terminates
