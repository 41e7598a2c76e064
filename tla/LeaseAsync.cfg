SPECIFICATION Spec
CONSTANTS
  Client = {c1, c2}
  NoLease = NoLease
  TTL = 2
  Timely = FALSE
  MaxClock = 3
  MaxLocks = 3
  MaxForce = 1
PROPERTIES
  TakenOnlyExpired
CHECK_DEADLOCK FALSE
