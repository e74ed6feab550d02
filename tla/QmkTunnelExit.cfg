\* A tool is killed, and the next adopts its tunnel.  No frame is lost.
CONSTANTS
  AckTimeout = 1
  SettleMin = 1
  EnterDeadline = 3
  AutoBoot = 5
  Noise = 0
  Watchdog = 4
  SeqMod = 8
  MaxAttempts = 2
  MaxRuns = 2
  MaxKills = 1
  MaxMishaps = 0
SPECIFICATION TunnelSpec
INVARIANTS
  ExitPutsModuleBack
CHECK_DEADLOCK FALSE
