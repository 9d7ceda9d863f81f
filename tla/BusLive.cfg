CONSTANTS
  plain = plain
  poison = poison
  exact = exact
  below = below
  float = float
  t1 = t1
  d1 = d1
  d2 = d2
  c1 = c1
  c2 = c2
  k1 = k1
  k2 = k2
  Events = {exact, below}
  Envelope <- MCEnvelope
  DedupKey <- MCDedupKey
  Keys = {k1, k2}
  Tenants = {t1}
  Drainers = {d1}
  Consumers = {c1}
  MaxCrashes = 1
SPECIFICATION LiveSpec
CHECK_DEADLOCK FALSE
PROPERTIES
  OutboxDrains
