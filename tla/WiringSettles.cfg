SPECIFICATION Spec
CONSTANTS
  MaxEdits = 2
  MaxFaults = 1
CHECK_DEADLOCK FALSE
INVARIANTS FactsSettle ReachIsDeclared AuditAgrees AdmittedResolves
