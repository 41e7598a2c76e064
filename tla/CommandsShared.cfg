SPECIFICATION FairSpec
CONSTANTS
  Key = {p, a}
  Provider = {p}
  Applier = {a1, a2}
  Prober = {d1}
  Repairer = {r1}
  Collector = {g1}
  NoCall = NoCall
  MaxRuns = 3
  MaxFaults = 1
INVARIANTS
  FileIsHolders
PROPERTIES
  OrphansGo
CHECK_DEADLOCK FALSE
