SPECIFICATION FairSpec
CONSTANTS
  Threads = {t1, t2, t3}
  MaxRecursion = 2
INVARIANTS
  MutualExclusion
  CodeAssertions
  NoLostWakeup
  IInv
PROPERTIES
  ImplementsAbstract
  WriterProgress
  ReaderProgress
