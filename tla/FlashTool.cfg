SPECIFICATION LiveSpec
CONSTANTS
  File <- MCFile
  Data <- MCData
  LastUnit <- MCLastUnit
  SectorStarts <- MCSectorStarts
  SectorUnits = 2
  SectorsPerBlock = 2
  OutUnits = 2
  SyncAnswers = 2
  Misplaced <- MCMisplaced
  Tries = 2
  Syncs = 2
  MaxFaults = 2
  None = None
  Old = Old
  Erased = Erased
  Garbage = Garbage
INVARIANTS IInv DoneIsWritten OthersKept OneAtATime
PROPERTIES BlocksStay CleanSucceeds ToolEnds
