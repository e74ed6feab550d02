\* A CH57x (stale XIP until reset), two erase blocks of one word per slot.
CONSTANTS
  Bits = {1}
  SlotWords = 2
  BlockSize = 1
  MaxChunk = 2
  Usable = {0, 1}
  GenLimit = 4
  BootImageCrc = FALSE
  CrcLive = FALSE
  BlankFirstWord = FALSE
SPECIFICATION Spec
INVARIANTS
  TypeOK
  RecordAttestsImage
  BootPromiseKept
  FlashStateMeansCoherent
  NoGenerationTie
  FreshMeansInstalled
PROPERTIES
  StaysBootable
  ProgramsErasedBlocksOnly
  ActiveSlotUntouched
