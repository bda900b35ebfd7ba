SPECIFICATION Spec
CONSTANTS
  Videos = {v1, v2}
  Libraries = {a}
  PendingLimit = 1
  Rescanners = {r1, r2}
  NoVideo = NoVideo
  NoLibrary = NoLibrary
  MaxRevision = 2
  MaxPublications = 2
  MaxGeneration = 1
  MaxDropped = 1
SYMMETRY Symmetry
CHECK_DEADLOCK FALSE
INVARIANTS
  TypeOK
PROPERTIES
  OverflowReported
