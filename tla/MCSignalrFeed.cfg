SPECIFICATION FeedSpec
CONSTANTS
  Instances = {1, 2}
  Fanners = {f1, f2}
  MaxEdits = 2
  MaxExtras = 2
  MaxStarts = 4
SYMMETRY Symmetry
INVARIANTS
  FeedTypeOK
  NoFeedWithoutOwner
  EveryFeedListedUnlessRaced
CHECK_DEADLOCK FALSE
