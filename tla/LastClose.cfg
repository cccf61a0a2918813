SPECIFICATION Spec
CONSTANTS
  NumSectors = 8
  SectorSize = 2
  DatasInFirstSector = 2
  DatasInSector = 3
  Names = {"f"}
  Spellings <- OneFileNames
  PathOf <- OneFile
  Handles = {h1, h2}
  None = None
  NumDirEntries = 2
  DirectoryFileSize = 2
  FreeMapFileSize = 2
  NBOFTENTRY = 2
  MaxFileSize = 3
SYMMETRY Symmetry
CHECK_DEADLOCK FALSE
PROPERTY LastCloseFrees
