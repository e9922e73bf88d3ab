\* Two-element sets of different components share their values, so that one
\* permutation serves both.
SPECIFICATION MCSpec
CONSTANTS
  None = None
  Requests = {r1, r2}
  down = down  up = up  choice = choice
  DriftSpecs = {down, up}
  DriftDecisions = {choice}
  Contents = {c1, c2}
  Links <- MCLinks
  MaxEdits = 1
  SyncedSpecs = {c1, c2}
  Items = {i1, i2, i3}
  Strangers = {i3}
  deep = deep  flat = flat
  XSpecs = {deep, flat}
  XDecs = {choice}
  XItems = {i3}
  Ceiling <- MCCeiling
  Tended = {deep}
  Meanwhile = 1
INVARIANT CleanImportRestoresStage
SYMMETRY Sym
CHECK_DEADLOCK FALSE
