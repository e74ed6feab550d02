\* Two uses of the tunnel, one of them killed, and one mishap.
CONSTANTS
  AckTimeout = 1
  SettleMin = 1
  EnterDeadline = 3
  AutoBoot = 5
  Noise = 2
  Watchdog = 4
  SeqMod = 8
  MaxAttempts = 2
  MaxRuns = 2
  MaxKills = 1
  MaxMishaps = 1
SPECIFICATION TunnelSpec
INVARIANTS
  TunnelTypeOK
  ParkedOnlyByAccident
  KeyboardGivenBack
  FlowHoldsModule
  ProbesBeatAutoBoot
  ClientHearsItsOwn
PROPERTIES
  KeyboardComesBack
CHECK_DEADLOCK FALSE
