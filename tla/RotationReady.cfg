CONSTANTS
  Accounts = {remote, loc}
  Remote = remote
  MaxSecret = 3
  OutOfBand = TRUE
SPECIFICATION Spec
INVARIANTS
  ReadyAuthenticates
  GivesUpOnlyIfCut
  ExporterKept
