SPECIFICATION FairSpec
CONSTANTS
  q1 = q1  q2 = q2
  Slugs = {1, 2}
  Requests = {q1, q2}
  Intents = {"i1"}
  Notes = {"n1"}
  Outputs = {1}
  InitStages = {"approved"}
  MaxGrowth = 2
  ClientEdges <- OneEdge
INVARIANT SupersessionLinked
PROPERTIES ClosedButForCompletion RequestsFinish
CHECK_DEADLOCK FALSE
