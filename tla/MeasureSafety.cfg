CONSTANTS
  good = good
  other = other
  second = second
  forged = forged
  foreign = foreign
  x1 = x1
  k1 = k1
  k2 = k2
  t1 = t1
  t2 = t2
  w1 = w1
  w2 = w2
  Confirmations = {good, other, second, forged}
  Keys = {k1, k2}
  Experiments = {x1}
  Tenants = {t1, t2}
  Claim <- MCClaim
  Registration <- MCRegistration
  MaxDeployDelay = 1
  WindowDays = 1
  AllowedSkew = 0
  Workers = {w1, w2}
  MaxTime = 3
  MaxFailures = 0
SPECIFICATION Spec
CHECK_DEADLOCK FALSE
SYMMETRY WorkerSymmetry
INVARIANTS
  BoundIsGenuine
  DecidedAfterWindow
PROPERTIES
  FirstConfirmationWins
