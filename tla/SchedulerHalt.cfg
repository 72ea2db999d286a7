SPECIFICATION Spec
CONSTANTS
  MaxProcesses = 2
  PidModulus = 3
  Channels = {}
  Roles = {"system"}
  SingleForeground = FALSE
  MaxSleep = 0
  MaxTicks = 0
  MaxVruntime = 2
INVARIANTS
  HaltMeansNoneRunnable
