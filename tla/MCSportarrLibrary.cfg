SPECIFICATION Spec
CONSTANTS
  Leagues = {l1, l2}
  Job = Job
  Free = Free
  PendingLimit = 1
  MaxClients = 2
  MaxEdits = 1
  MaxChanges = 2
  MaxFaults = 0
  MaxJobs = 1
SYMMETRY Symmetry
INVARIANTS
  TypeOK
  NothingForgotten
PROPERTIES
  LibraryNeverGoesBack
CHECK_DEADLOCK FALSE
