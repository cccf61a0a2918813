SPECIFICATION Spec
CONSTANTS
  Threads = {t1, t2, t3, t4}
  Semaphores = {"empty", "mutex"}
  Locks = {"lock"}
  None = None
  InitialCount <- MCInitialCount
  PlaceholderExit = FALSE
  MaxCount = 2
SYMMETRY Symmetry
INVARIANTS
  TypeOK
  OnePlace
  NoLostWakeup
  LockQueues
  MutualExclusion
  HaltOnlyWhenBlocked
