SPECIFICATION FairSpec
CONSTANTS
  MaxProcesses = 2
  PidModulus = 4
  Channels = {1}
  Roles = {"system"}
  SingleForeground = FALSE
  MaxSleep = 2
  MaxTicks = 3
  MaxVruntime = 2
PROPERTIES
  SleeperWakes
