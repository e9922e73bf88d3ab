SPECIFICATION SLSpec
CONSTANTS
  Servers = {v1}
  CredMaxRetry = 2
  MaxStarts = 2
INVARIANT ReadyMeansUsable
PROPERTIES BecomesReady StopsWhenTold
CHECK_DEADLOCK FALSE
