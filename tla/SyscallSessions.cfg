SPECIFICATION Spec
CONSTANTS
  MaxHandles = 3
  SessionCapacity = 2
  FileCapacity = 1
  Addresses = {11}
  Callers = {1, 2}
  MaxPid = 4
INVARIANT
  SessionsOwned
