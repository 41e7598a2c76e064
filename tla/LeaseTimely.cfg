SPECIFICATION Spec
CONSTANTS
  Client = {c1, c2}
  NoLease = NoLease
  TTL = 2
  Timely = TRUE
  MaxClock = 4
  MaxLocks = 3
  MaxForce = 0
INVARIANTS
  HoldersOwn
PROPERTIES
  ImplementsStateLock
CHECK_DEADLOCK FALSE
