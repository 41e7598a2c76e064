CONSTANTS
  Key = {k1, k2}
  N = 2
  MaxCommands = 2
  MaxFaults = 2
SPECIFICATION Spec
INVARIANTS
  SidecarMeansWhole
  TargetWhole
  SuccessIsWhole
  FailureLeavesNothing
CHECK_DEADLOCK FALSE
