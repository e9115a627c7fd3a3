SPECIFICATION Spec
CONSTANTS
  NULL = NULL
  Name = {f, g}
  NumSectors = 3
  PagesPerSector = 2
  NumFds = 3
  MaxRestarts = 2
INVARIANTS NothingLost LogIsLive DescriptorsAgree
CONSTRAINT Followed
SYMMETRY Names
