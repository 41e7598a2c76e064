SPECIFICATION Spec
CONSTANTS
  Ctr = {a, b}
  Subject = a
  Targets = {{a}, {a, b}}
  MaxEvents = 2
INVARIANTS EnsuredExactly RemovedLeavesNothing IsolationRealized
PROPERTY SiblingsSurvive
