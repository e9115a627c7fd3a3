SPECIFICATION Spec
CONSTANTS
  NULL = NULL
  Name = {f, g}
  NumSectors = 3
  PagesPerSector = 2
  NumFds = 1
  MaxRestarts = 0
PROPERTIES ErasesNoActiveFile
