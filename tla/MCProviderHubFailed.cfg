SPECIFICATION Spec
CONSTANTS
  Jobs = {j1, j2}
  Builds = {1, 2}
  Official = Official
  Community = Community
  Local = Local
  None = None
  BuiltIn = TRUE
  MaxEdits = 1
  MaxRefreshes = 1
  MaxRestarts = 2
  MaxFaults = 1
SYMMETRY Symmetry
INVARIANTS
  ActiveIsLoaded
CHECK_DEADLOCK FALSE
