SPECIFICATION Spec
CONSTANTS
  MaxProcesses = 3
  PidModulus = 4
  Channels = {1}
  Roles = {"system", "foreground"}
  SingleForeground = TRUE
  MaxSleep = 1
  MaxTicks = 1
  MaxVruntime = 1
INVARIANTS
  QueueMatchesTable
  QueueHoldsRunnable
  NoOverdueSleeper
  OneRunning
  PidsUnique
  WaitersHaveLiveChild
  OneForeground
PROPERTIES
  KeysStable
  ZombiesStayDead
  SwitchTakesLeast
