SPECIFICATION Spec
CONSTANTS
  s1 = s1  s2 = s2
  a1 = a1  a2 = a2
  r1 = r1  r2 = r2
  Specs = {s1}
  Swept = {s1}
  Agents = {a1, a2}
  Requests = {r1, r2}
  None = None
  InitStages = {"approved"}
  Durations = {0, 1}
  DefaultLease = 2
  MaxTime = 3
  MaxVersion = 7
PROPERTY ClaimReplyNamesHolder
CHECK_DEADLOCK FALSE
