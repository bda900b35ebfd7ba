SPECIFICATION Spec
CONSTANTS
  Work = {batch, sub, dub}
  TranslationWork = {sub, dub}
  BatchWork = {batch}
  NoWork = NoWork
  Concurrent = 2
  LaneLimit = 1
  HistoryLimit = 1
  MaxJobs = 2
  Runs = {r1, r2, r3}
  Editors = {e1, e2}
  Waiters = {}
SYMMETRY Symmetry
INVARIANTS
  CapacityRespected
  OneThreadPerWork
  NothingLost
CHECK_DEADLOCK FALSE
PROPERTIES
  RunsOnce
