SPECIFICATION Spec
CONSTANTS
  q1 = q1  q2 = q2
  Slugs = {1}
  Requests = {q1, q2}
  Intents = {"i1", "i2"}
  Notes = {"n1"}
  Outputs = {1}
  InitStages = {"none", "approved"}
  MaxGrowth = 5
  ClientEdges = {}
SYMMETRY Symm
INVARIANTS TypeOK FunnelOutputsPresent VersionIdentifiesRow HashNamesRow IntentReconstructed
CHECK_DEADLOCK FALSE
