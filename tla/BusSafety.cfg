CONSTANTS
  plain = plain
  poison = poison
  exact = exact
  below = below
  float = float
  t1 = t1
  d1 = d1
  d2 = d2
  c1 = c1
  c2 = c2
  k1 = k1
  k2 = k2
  Events = {plain, poison, below, float}
  Envelope <- MCEnvelope
  DedupKey <- MCDedupKey
  Keys = {k1, k2}
  Tenants = {t1}
  Drainers = {d1, d2}
  Consumers = {c1, c2}
  MaxCrashes = 1
SPECIFICATION Spec
CHECK_DEADLOCK FALSE
SYMMETRY Symmetry
INVARIANTS
  RoutingIsSafe
  NothingLost
  HandlingIsBounded
