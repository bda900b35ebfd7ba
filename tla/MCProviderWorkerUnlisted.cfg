SPECIFICATION Spec
CONSTANTS
  Callers = {c1, c2}
  Stopper = Stopper
  Reaper = Reaper
  Free = Free
  MaxSpawns = 2
  MaxBehind = 2
SYMMETRY Symmetry
INVARIANT EveryLiveWorkerListed
