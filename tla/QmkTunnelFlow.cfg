\* One run, one write that fails.  No frame is lost.
CONSTANTS
  AckTimeout = 1
  SettleMin = 1
  EnterDeadline = 3
  AutoBoot = 5
  Noise = 0
  Watchdog = 4
  SeqMod = 8
  MaxAttempts = 2
  MaxRuns = 1
  MaxKills = 0
  MaxMishaps = 1
SPECIFICATION TunnelSpec
INVARIANTS
  FlowErrorPutsModuleBack
CHECK_DEADLOCK FALSE
