SPECIFICATION Spec
CONSTANTS
  NumProcs = 3
  Semaphores = {"semaphore"}
  Mutexes = {"mutex"}
  Mailboxes = {"mailbox"}
  Events = {"event"}
  InitialCount = 1
  MaxCount = 2
  MaxMessages = 3
  MaxKills = 1
INVARIANTS
  WaitersCounted
  NoLostWakeup
  MutexExclusive
  MessagesOnce
  NoWaitOnFreed
CHECK_DEADLOCK FALSE
