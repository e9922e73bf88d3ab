SPECIFICATION Spec
CONSTANTS
  q1 = q1  q2 = q2
  Slugs = {1}
  Requests = {q1}
  Intents = {"i1", "i2"}
  Notes = {"n1"}
  Outputs = {1}
  InitStages = {"none"}
  MaxGrowth = 4
  ClientEdges = {}
INVARIANT HashCoversOutputs
CHECK_DEADLOCK FALSE
