SPECIFICATION Spec
CONSTANTS
  SeekTime = 1
  RotationTime = 2
  SectorsPerTrack = 3
  NumTracks = 2
  TimerTime = 2
  CheckTime = 3
  SendTime = 3
  Accesses = {1}
  Machines <- MCMachines
  MaxTicks = 11
  MaxChars = 2
CHECK_DEADLOCK FALSE
INVARIANTS
  TypeOK
  InterruptsPending
  OnTime
  DiskTiming
  CharsKept
  HaltOnlyWhenQuiet
