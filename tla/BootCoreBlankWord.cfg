\* A host that COMMITs an image whose first word is the erased pattern.
CONSTANTS
  Bits = {1}
  SlotWords = 2
  BlockSize = 2
  MaxChunk = 2
  Usable = {0, 1}
  GenLimit = 4
  BootImageCrc = FALSE
  CrcLive = TRUE
  BlankFirstWord = TRUE
SPECIFICATION Spec
PROPERTIES
  StaysBootable
CHECK_DEADLOCK FALSE
