CONSTANTS
  ann = ann
  bob = bob
  Bob = Bob
  cat = cat
  p1 = p1
  p2 = p2
  w1 = w1
  w2 = w2
  Plans = {p1}
  Actors = {ann, bob, Bob, cat}
  Ids <- MCIds
  CanonicalActorId <- MCCanonicalActorId
  HighRisk = {}
  Workers = {w1, w2}
  AllowRepropose = FALSE
  MaxRequests = 3
SPECIFICATION Spec
CHECK_DEADLOCK FALSE
PROPERTIES
  TerminalIsFinal
