\* A CH57x die that holds slot A only; no flash error and no power cut.
CONSTANTS
  Bits = {1}
  SlotWords = 2
  BlockSize = 1
  MaxChunk = 1
  Usable = {0}
  GenLimit = 5
  BootImageCrc = FALSE
  CrcLive = FALSE
  BlankFirstWord = FALSE
  Builds <- MCBuilds
  EraseChunk = 1
  MaxAttempts = 3
  SeqMod = 4
  Flows = {"flash"}
  MaxRuns = 1
  LinkCap = 2
  MaxFaults = 0
SPECIFICATION UpdateSpec
INVARIANTS
  RetriesAreHarmless
CHECK_DEADLOCK FALSE
