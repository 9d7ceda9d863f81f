CONSTANTS
  good = good
  other = other
  second = second
  forged = forged
  foreign = foreign
  x1 = x1
  k1 = k1
  k2 = k2
  t1 = t1
  t2 = t2
  w1 = w1
  w2 = w2
  Confirmations = {good, foreign}
  Keys = {k1, k2}
  Experiments = {x1}
  Tenants = {t1, t2}
  Claim <- MCClaim
  Registration <- MCRegistration
  MaxDeployDelay = 1
  WindowDays = 2
  AllowedSkew = 0
  Workers = {w1, w2}
  MaxTime = 4
  MaxFailures = 1
SPECIFICATION LiveSpec
CHECK_DEADLOCK FALSE
PROPERTIES
  WindowsEnd
