SPECIFICATION Spec
CONSTANTS
  NumSectors = 7
  SectorSize = 2
  DatasInFirstSector = 2
  DatasInSector = 3
  Names = {"d", "f"}
  Spellings <- OneSpellingNames
  PathOf <- OneSpelling
  Handles = {h1, h2}
  None = None
  NumDirEntries = 2
  DirectoryFileSize = 2
  FreeMapFileSize = 2
  NBOFTENTRY = 2
  MaxFileSize = 3
SYMMETRY Symmetry
CHECK_DEADLOCK FALSE
INVARIANTS
  TypeOK
  SectorsOwned
  DirectoriesSound
  TableCounts
  NextSlotFree
  RemovedUnreachable
  NoAssertFails
