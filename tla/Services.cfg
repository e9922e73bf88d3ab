SPECIFICATION MCSpec
CONSTANTS
  None = None
  Requests = {r1, r2}
  MaxKeys = 3
  Quota = 1
  ListLimit = 2
  UsedKeys = {f1, f2}
  BufferSize = 2
  Flows = {f1, f2}
  LoginUsers = {u1, u2}
  MaxTime = 3
  TTLCap = 1
  AskTimeout = 1
  CLayers = {"org", "project"}
  SentLayers = {"project"}
  SentHashes = {"h1"}
  MergeKeys = {"a", "b", ""}
  MergeTexts = {"v1", "v2"}
  MaxSaid = 4
  LintSpecs = {1, 2, 3}
  MaxCycleDepth = 1000
  MaxSpecsPerLint = 10000
INVARIANTS ServicesTypeOK CloseFlushes LoginsSound
  DeadNeverAccepted ClientsFitServer MergeFollowsPrecedence LintCleanMeansReady
PROPERTIES EditsSurvive UnchangedMeansSame ImplementsKeyRing
SYMMETRY Sym
CHECK_DEADLOCK FALSE
