SPECIFICATION CleanSpec
CONSTANTS
  LastUnit <- MCLastUnit
  SectorStarts <- MCSectorStarts
  Data <- MCData
  RomUnits <- MCRomUnits
  Erased = Erased
  Garbage = Garbage
  TornAnnounces = TRUE
  MaxPiece = 2
  MaxFaults = 2
INVARIANTS StreamStored RunsWholeImage Recoverable AnnouncedIsComplete
PROPERTIES StoreSpec
