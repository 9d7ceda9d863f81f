CONSTANTS
  ann = ann
  bob = bob
  Bob = Bob
  cat = cat
  p1 = p1
  p2 = p2
  w1 = w1
  w2 = w2
  Plans = {p1}
  Actors = {ann, bob, Bob, cat}
  Ids <- MCIds
  CanonicalActorId <- MCCanonicalActorId
  HighRisk = {p1}
  Workers = {w1, w2}
  AllowRepropose = TRUE
  MaxRequests = 4
SPECIFICATION Spec
CHECK_DEADLOCK FALSE
SYMMETRY Symmetry
INVARIANTS
  SettledIsBacked
  ExecutionAllowedIsBacked
  SettledIsOnRecord
PROPERTIES
  DecisionsStand
