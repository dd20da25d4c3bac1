\* The kernel with memory to spare and no interrupt in the trap epilogue.
SPECIFICATION BypassSpec
CONSTANTS
  NPROC = 3
  Quantum = 1
  MaxNest = 2
  EpilogueTicks = FALSE
  KallocMayFail = FALSE
INVARIANTS
  TypeOK
  NoPanic
  InterruptsOffUnderLock
  SystemCallsInterruptible
  BoundedBypass
PROPERTY
  FreedOnlyOffCpu
