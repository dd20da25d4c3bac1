\* fork runs out of pages: the leaked lock.
SPECIFICATION Spec
CONSTANTS
  NPROC = 2
  Quantum = 1
  MaxNest = 1
  EpilogueTicks = FALSE
  KallocMayFail = TRUE
INVARIANT
  NoPanic
