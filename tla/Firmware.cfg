\* The main loop: a deadline of a third of the counter, two busy polls, an answer
\* longer than the FIFO.  USB: three reports, two faults.  Flash: four pages in
\* two blocks, two calls, a die that may be too slow.
CONSTANTS
  Wrap = 12
  IdleTimeout = 4
  BusyPollsMax = 3
  HandleTime = 1
  FifoSize = 2
  AnswerLen = 3
  None = None
  DrainPolls = 2
  MaxReports = 3
  MaxFaults = 2
  WordLen = 2
  PageLen = 8
  EraseLen = 16
  DieLen = 32
  Top = 64
  WaitIters = 1
  Requests <- MCRequests
  Contents <- MCContents
  MaxCalls = 2
SPECIFICATION FirmwareSpec
INVARIANTS
  DeadlineHolds
  WindowIsWhole
  NeverJumpsDirty
  AnswerPrecedesReset
  AnswersMatchReports
  FlashCallIsWhole
PROPERTIES
  BootableLeaves
  UsbNeverWedges
