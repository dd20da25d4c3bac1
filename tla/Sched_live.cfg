\* Every READY process gets the hart, also when fork runs out of pages and
\* when interrupts hit the trap epilogue.
SPECIFICATION FairSpec
CONSTANTS
  NPROC = 3
  Quantum = 2
  MaxNest = 1
  EpilogueTicks = TRUE
  KallocMayFail = TRUE
INVARIANTS
  OneRunning
  ReadyHasContext
PROPERTIES
  ReadyRuns
  ImplementsAbsSched
