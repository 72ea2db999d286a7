SPECIFICATION SystemSpec
CONSTANTS
  NumProcs = 4
  Semaphores = {"replied"}
  Mutexes = {"state"}
  Mailboxes = {"request", "reply", "worker"}
  Events = {"requested"}
  InitialCount = 0
  MaxCount = 1
  MaxMessages = 4
  MaxKills = 1
  LineCapacity = 2
  KeysPerPoll = 1
  Spawnable = {"server", "supervisor"}
PROPERTIES
  RepliesMatch
  HeardIsAnswered
CHECK_DEADLOCK FALSE
