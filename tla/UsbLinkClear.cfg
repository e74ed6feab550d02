\* Three reports, two faults.
CONSTANTS
  None = None
  DrainPolls = 2
  MaxReports = 3
  MaxFaults = 2
SPECIFICATION UsbSpec
INVARIANTS
  BufferStaysValid
