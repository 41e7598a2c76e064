SPECIFICATION Spec
CONSTANTS
  Conn = {c1, c2}
  Sharings = {"consumer", "target"}
  MaxEdits = 1
  MaxMishaps = 1
INVARIANTS ReadyMeansMediated RevokedLeavesNoAccess CredentialKept
SYMMETRY ConnSymmetry
