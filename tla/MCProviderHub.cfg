SPECIFICATION Spec
CONSTANTS
  Jobs = {j1, j2}
  Builds = {1, 2}
  Official = Official
  Community = Community
  Local = Local
  None = None
  BuiltIn = FALSE
  MaxEdits = 1
  MaxRefreshes = 2
  MaxRestarts = 2
  MaxFaults = 1
SYMMETRY Symmetry
INVARIANTS
  LoadedKept
  StagedWhole
  UninstallSticks
  SourceIsOrigin
PROPERTIES
  EditsKept
CHECK_DEADLOCK FALSE
