SPECIFICATION Spec
CONSTANTS
  Threads = {t1, t2}
  Semaphores = {"empty"}
  Locks = {"lock"}
  None = None
  InitialCount <- MCInitialCount
  PlaceholderExit = FALSE
  MaxCount = 1
INVARIANT WaitersHaveHolder
