\* Processes come and go with memory that runs out at every step of fork and
\* exec.  The hart stops after a fork that leaked a lock.  Besides, the copy
\* functions and exec's stack on pages of 32 bytes.
SPECIFICATION MCSpec
CONSTANTS
  NPROC = 3
  NPAGE = 24
  Content = {p, q}
  Machines <- MCMachines
  PGSIZE = 32
  MAXVA = 96
  PTRSIZE = 2
  ByteMod = 16
  MAXARG = 4
  MAXPATH = 12
SYMMETRY ContentSymmetry
CHECK_DEADLOCK FALSE
INVARIANTS
  TypeOK
  OneOwner
  NeverFaults
  NoNullStack
  CopiesAgree
  ExecArgsArrive
PROPERTIES
  OnlyFailedForksLose
  ImplementsAbsImages
