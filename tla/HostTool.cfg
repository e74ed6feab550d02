\* Every command line below on the devices below, with any answers; and a line
\* with any frames, however chunked, and noise in any amount between them.
CONSTANTS
  None = None
  Refused = Refused
  Junk = Junk
  ByteRange = 16
  MaxPayload = 1
  MaxWriteData = 4
  Align = 2
  ProtoMajor = 0
  SegUnit = 8
  LinUnit = 256
  AddrSpace = 512
  MaxImageSpan = 12
  AppBase = 8
  Erased = 15
  Magic = 79
  FormatMajor = 1
  MaxVariants = 3
  Families = {1, 2}
  Runs <- MCRuns
  Infos <- MCInfos
  BootId <- MCBootId
  BootUsage <- MCBootUsage
  TunnelUsage <- MCTunnelUsage
  UnknownUsage <- MCUnknownUsage
  SOF1 = 2
  SOF2 = 3
  InterByte = 6
  Margin = 1
  WriteChunk = 16
  ChunkSettings = {None, Junk, 0, 3}
  Noise = {0, 1, 2, 3}
  Frames <- MCFrames
SPECIFICATION ToolSpec
INVARIANTS
  HexImageIsTheRecords
  DamagedFileIsRefused
  ParsedBundleIsSound
  BundleReadsBack
  OpensWhatWasAskedFor
  RequestsFitTheDevice
  ExitTellsWhatHappened
  HostMirrorsDevice
  QuietFrameArrives
CHECK_DEADLOCK FALSE
