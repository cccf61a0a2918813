SPECIFICATION FairSpec
CONSTANTS
  Threads = {t1, t2, t3}
  Semaphores = {"sem disk", "sem swap"}
  Locks = {"lock disk", "lock swap"}
  None = None
  InitialCount <- MCInitialCount
  PlaceholderExit = FALSE
  Disks = {"disk", "swap"}
  DiskLock <- MCDiskLock
  DiskSem <- MCDiskSem
  Uses <- MCUses
  Sectors = {0}
  Data = {d1, d2}
INVARIANTS
  TypeOK
  OneRequestAtATime
  CompletionsCounted
PROPERTIES
  ImplementsService
  RequestsReturn
