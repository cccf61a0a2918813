SPECIFICATION Spec
CONSTANTS
  Threads = {t1, t2, t3}
  Semaphores = {"get", "put"}
  Locks = {"mutex get", "mutex put"}
  None = None
  InitialCount <- MCInitialCount
  PlaceholderExit = FALSE
  Get = "get"
  Put = "put"
  MutexGet = "mutex get"
  MutexPut = "mutex put"
  Keys = {"a", "newline"}
  NewLine = "newline"
  EOF = "EOF"
  MaxString = 2
  MaxTyped = 2
  MaxScreen = 3
  MaxTraffic = 4
  MaxPolls = 1
SYMMETRY Symmetry
INVARIANTS
  TypeOK
  PutWhenReady
  CharsCounted
  CharsInOrder
PROPERTIES
  ImplementsService
