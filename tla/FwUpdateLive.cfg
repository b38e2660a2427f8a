SPECIFICATION LiveSpec
CONSTANTS
  LastUnit <- TinyLastUnit
  SectorStarts <- OneSector
  Data <- MCData
  RomUnits <- MCRomUnits
  Erased = Erased
  Garbage = Garbage
  TornAnnounces = TRUE
  MaxPiece = 2
  MaxFaults = 1
INVARIANTS IInv
PROPERTIES AnnouncedGetsInstalled
