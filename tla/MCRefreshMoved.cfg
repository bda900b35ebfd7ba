SPECIFICATION Spec
CONSTANTS
  Videos = {v1, v2}
  Libraries = {a}
  PendingLimit = 2
  Rescanners = {}
  NoVideo = NoVideo
  NoLibrary = NoLibrary
  MaxRevision = 1
  MaxPublications = 3
  MaxGeneration = 2
  MaxDropped = 0
INVARIANT
  MovedSubtitleIsAskedFor
CHECK_DEADLOCK FALSE
