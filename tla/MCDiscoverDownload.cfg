SPECIFICATION Spec
CONSTANTS
  Requests = {j1, p1, p2}
  Jobs = {j1}
  Results = {x1, x2}
  LargeResults = {x2}
  None = None
  Concurrent = 1
  ThreadLimit = 2
  CacheEntries = 2
  CacheBytes = 3
  FetchWait = 1
  JobWait = 2
  CacheTtl = 1
  TicketTtl = 2
  RecheckAfter = 0
  MaxTime = 2
  MaxUpsets = 1
SYMMETRY Symmetry
INVARIANTS
  ThreadsCounted
  InTimeWaiterKept
  BytesCounted
PROPERTIES
  TicketsKept
  FreshDelivery
CHECK_DEADLOCK FALSE
