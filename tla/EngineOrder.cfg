SPECIFICATION FairSpec
CONSTANTS
  s = s
  p = p
  a = a
  b = b
  c = c
  e = e
  x = x
  NoProvider = NoProvider
  NoEnvelope = NoEnvelope
  Key = {p, a, b, c}
  SecretKey = {}
  Manifests <- DiamondManifests
  InitialState <- NoState
  InitialLive <- NoObjects
  Importable = {}
  Options <- HaltOptions
  Parallelism = 2
  MaxFaults = 1
  MaxSecret = 1
INVARIANTS
  ReconcileAfterDependencies
  DestroyAfterDependents
PROPERTIES
  SaveTouchesOnlyRealized
  EventuallyConverges
