SPECIFICATION Spec
CONSTANTS
  Source = Source
  Engines = {e1, e2}
  Writers = {w}
  Syncs = {y}
  NoEngine = NoEngine
  Free = Free
  MaxWrites = 3
  MaxOutside = 1
SYMMETRY Symmetry
INVARIANTS
  NoWriteUndone
  NoOutsideChangeUndone
  OutputsFollowSource
