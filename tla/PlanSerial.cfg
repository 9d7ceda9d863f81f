CONSTANTS
  ann = ann
  bob = bob
  Bob = Bob
  cat = cat
  p1 = p1
  p2 = p2
  w1 = w1
  w2 = w2
  Plans = {p1, p2}
  Actors = {ann, bob, Bob, cat}
  Ids <- MCIds
  CanonicalActorId <- MCCanonicalActorId
  HighRisk = {p2}
  Workers = {w1}
  AllowRepropose = FALSE
  MaxRequests = 5
SPECIFICATION Spec
CHECK_DEADLOCK FALSE
PROPERTIES
  OutcomeIsOrderly
  FollowsLifecycle
