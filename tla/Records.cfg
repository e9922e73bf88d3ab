\* Two-element sets of different components share their values, so that one
\* permutation serves all of them.
SPECIFICATION MCSpec
CONSTANTS
  None = None
  Requests = {r1, r2}
  sliceA = sliceA  sliceB = sliceB  other = other
  Ids = {sliceA, sliceB}
  Agents = {t1, t2}
  Parent = Parent
  Project = Project
  Outside = {other}
  ClientEdges <- MCClientEdges
  DecSlugs = {d}
  CitingSpecs = {s1, s2}
  Texts = {text}
  ClientStatus = {"proposed", "superseded"}
  ClientLinks <- MCClientLinks
  MaxDecVersion = 3
  Passes = {t1, t2}
  LastStage = 2
  MaxVersion = 3
  MaxLogs = 2
INVARIANTS RecordsTypeOK SliceReferencesExist SiblingEdgesAgree
  UpdatesSeeLast ApprovedDecisionsSettled LogWhole
PROPERTY WorkKept
SYMMETRY Sym
CHECK_DEADLOCK FALSE
