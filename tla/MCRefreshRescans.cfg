\* What covered says of a drop that arrives meanwhile: two rescans that read one
\* count take the report of a later drop away.  A trace of README, section 4.
SPECIFICATION Spec
CONSTANTS
  Videos = {v1, v2}
  Libraries = {a}
  PendingLimit = 1
  Rescanners = {r1, r2}
  NoVideo = NoVideo
  NoLibrary = NoLibrary
  MaxRevision = 1
  MaxPublications = 1
  MaxGeneration = 1
  MaxDropped = 1
CHECK_DEADLOCK FALSE
INVARIANTS
  DropsStayReported
