\* Every flow, once, against a CH59x that may fail or lose power once.
CONSTANTS
  Bits = {1}
  SlotWords = 2
  BlockSize = 2
  MaxChunk = 1
  Usable = {0, 1}
  GenLimit = 5
  BootImageCrc = FALSE
  CrcLive = TRUE
  BlankFirstWord = FALSE
  Builds <- MCBuilds
  EraseChunk = 2
  MaxAttempts = 2
  SeqMod = 4
  Flows = {"flash", "flash_no_boot", "flash_park", "bless", "erase", "verify", "boot", "stay", "probe"}
  MaxRuns = 1
  LinkCap = 2
  MaxFaults = 1
SPECIFICATION FairUpdate
PROPERTIES
  FlashedAppStarts
  EveryRunEnds
CHECK_DEADLOCK FALSE
