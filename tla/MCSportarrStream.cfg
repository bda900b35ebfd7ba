SPECIFICATION FairSpec
CONSTANTS
  Leagues = {l1}
  Job = Job
  Free = Free
  PendingLimit = 1
  MaxClients = 2
  MaxEdits = 1
  MaxChanges = 1
  MaxFaults = 1
  MaxJobs = 1
PROPERTIES
  LibraryConverges
CHECK_DEADLOCK FALSE
