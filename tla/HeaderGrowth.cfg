SPECIFICATION Spec
CONSTANTS
  NumSectors = 10
  SectorSize = 1
  DatasInFirstSector = 1
  DatasInSector = 2
  Names = {"f"}
  Spellings <- OneFileNames
  PathOf <- OneFile
  Handles = {h1, h2}
  None = None
  NumDirEntries = 2
  DirectoryFileSize = 1
  FreeMapFileSize = 1
  NBOFTENTRY = 2
  MaxFileSize = 3
SYMMETRY Symmetry
CHECK_DEADLOCK FALSE
INVARIANT HeadersComplete
