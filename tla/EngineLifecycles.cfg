SPECIFICATION Spec
CONSTANTS
  s = s
  p = p
  a = a
  b = b
  c = c
  e = e
  x = x
  NoProvider = NoProvider
  NoEnvelope = NoEnvelope
  Key = {s, p, a, e, x}
  SecretKey = {s}
  Manifests <- MixedManifests
  InitialState <- LegacyState
  InitialLive <- Preexisting
  Importable = {a}
  Options <- MixedOptions
  Parallelism = 1
  MaxFaults = 1
  MaxSecret = 2
INVARIANTS
  IInv
  SettledIsAuthoritative
  SettledReplansNoop
  SettledSecretsCurrent
PROPERTIES
  NoUninvitedDestroy
