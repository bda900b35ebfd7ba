SPECIFICATION FairSpec
CONSTANTS
  Videos = {v1, v2}
  Libraries = {a, b}
  PendingLimit = 2
  Rescanners = {}
  NoVideo = NoVideo
  NoLibrary = NoLibrary
  MaxRevision = 2
  MaxPublications = 2
  MaxGeneration = 2
  MaxDropped = 0
INVARIANTS
  NoPublicationLost
  QuietIsUnconfirmed
  WarningKept
PROPERTIES
  PublicationSettles
CHECK_DEADLOCK FALSE
