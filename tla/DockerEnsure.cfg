CONSTANTS
  MaxReplicas = 2
  MaxGen = 1
  MaxMeddling = 2
SPECIFICATION Spec
INVARIANTS
  OneShape
  EnsuredExactly
  DownLeavesNothing
PROPERTIES
  ForeignUntouched
  MatchingUndisturbed
