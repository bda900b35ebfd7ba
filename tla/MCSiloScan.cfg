SPECIFICATION Spec
CONSTANTS
  Runs = {r1, r2, r3}
  PostLimit = 2
  MaxOthers = 1
  MaxUpsets = 2
SYMMETRY Symmetry
INVARIANTS
  TypeOK
  ConfirmedScanSawTheChange
  IncompleteOnlyWhenDisturbed
CHECK_DEADLOCK FALSE
