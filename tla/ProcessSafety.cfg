SPECIFICATION Spec
CONSTANTS
  PageSize = 1
  NumPhysPages = 5
  MaxVirtPages = 7
  ByteBits = 1
  AddrBits = 4
  Procs = {boot, p1, p2, p3}
  Threads = {main, t1, t2}
  Boot = boot
  Main = main
  Files = {"prog", "data", "shift", "bad", "odd", "none"}
  Header <- MCHeader
  Sections <- MCSections
  StackPages = 1
  STACK_BLANK_LEN = 2
  MaxIds = 3
  None = None
SYMMETRY Symmetry
CHECK_DEADLOCK FALSE
INVARIANTS
  TypeOK
  PagesPartitioned
  OwnContents
  ProcessesCounted
  StackGuarded
PROPERTIES
  JoinNotEarly
