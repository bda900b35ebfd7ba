SPECIFICATION Spec
CONSTANTS
  Videos = {v1, v2}
  Libraries = {a}
  PendingLimit = 2
  Rescanners = {}
  NoVideo = NoVideo
  NoLibrary = NoLibrary
  MaxRevision = 2
  MaxPublications = 3
  MaxGeneration = 2
  MaxDropped = 0
PROPERTY
  SavedServerAsked
CHECK_DEADLOCK FALSE
