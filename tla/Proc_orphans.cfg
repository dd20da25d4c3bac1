\* A zombie whose parent is gone.
SPECIFICATION Spec
CONSTANTS
  NPROC = 3
  MaxPid = 6
  ReapBeforeExit = FALSE
INVARIANT
  ZombieHasParent
