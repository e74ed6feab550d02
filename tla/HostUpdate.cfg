\* Two flashes of a CH57x, each of two ERASEs and two WRITEs; one flash error
\* or power cut.
CONSTANTS
  Bits = {1}
  SlotWords = 2
  BlockSize = 1
  MaxChunk = 1
  Usable = {0, 1}
  GenLimit = 5
  BootImageCrc = FALSE
  CrcLive = FALSE
  BlankFirstWord = FALSE
  Builds <- MCBuilds
  EraseChunk = 1
  MaxAttempts = 3
  SeqMod = 4
  Flows = {"flash"}
  MaxRuns = 2
  LinkCap = 2
  MaxFaults = 1
SPECIFICATION UpdateSpec
INVARIANTS
  HostTypeOK
  ReportedMeansInstalled
  AckedMeansWritten
  RetriesAreHarmless
CHECK_DEADLOCK FALSE
