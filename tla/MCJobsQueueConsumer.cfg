SPECIFICATION Spec
CONSTANTS
  Work = {batch, sub, dub}
  TranslationWork = {sub, dub}
  BatchWork = {batch}
  NoWork = NoWork
  Concurrent = 2
  LaneLimit = 1
  HistoryLimit = 1
  MaxJobs = 2
  Runs = {r1, r2}
  Editors = {e1}
  Waiters = {t1}
INVARIANT
  ConsumerSurvives
