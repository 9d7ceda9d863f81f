SPECIFICATION Spec
CONSTANTS
  Confirmations = {"first", "altered", "second", "third"}
  Keys = {"k1", "k2"}
  Experiments = {"x"}
  Tenants = {"t"}
  Claim <- MCClaim
  Registration <- MCRegistration
  MaxDeployDelay = 1
  WindowDays = 3
  AllowedSkew = 0
  Bases <- MCBases
  MinRepeats = 2
  Callers = {p, q}
  Runs = {"r1", "r2"}
  Inputs = {"plain", "other_run", "early", "altered", "reanchored", "replayed", "contradicted",
            "untrusted", "late", "denied", "foreign", "sparse", "shared", "too_late", "resent"}
  Input <- MCInput
  MaxCalls = 3
SYMMETRY CallerSymmetry
CHECK_DEADLOCK FALSE
INVARIANTS
  DecisionIsBacked
  ReturnedIsRecorded
  OneWindow
  VerdictIsRight
PROPERTIES
  AppendOnly
