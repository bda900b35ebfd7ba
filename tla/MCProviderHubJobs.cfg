SPECIFICATION Spec
CONSTANTS
  Jobs = {j1, j2, j3}
  Builds = {1, 2}
  Official = Official
  Community = Community
  Local = Local
  None = None
  BuiltIn = FALSE
  MaxEdits = 0
  MaxRefreshes = 1
  MaxRestarts = 1
  MaxFaults = 0
SYMMETRY Symmetry
INVARIANTS
  LoadedKept
  StagedWhole
CHECK_DEADLOCK FALSE
