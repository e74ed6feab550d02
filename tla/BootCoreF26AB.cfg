\* A CH57x that attests the whole image at boot; one erase block of two words per
\* slot, so that an erase can hit the middle of the run.
CONSTANTS
  Bits = {1}
  SlotWords = 2
  BlockSize = 2
  MaxChunk = 2
  Usable = {0, 1}
  GenLimit = 4
  BootImageCrc = TRUE
  CrcLive = FALSE
  BlankFirstWord = FALSE
SPECIFICATION Spec
PROPERTIES
  ABSpec
