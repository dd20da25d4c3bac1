\* An interrupt between w_sepc and w_sstatus.
SPECIFICATION Spec
CONSTANTS
  NPROC = 2
  Quantum = 1
  MaxNest = 1
  EpilogueTicks = TRUE
  KallocMayFail = FALSE
INVARIANT
  SretReturns
