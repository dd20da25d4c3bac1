\* Programs that reap their children before they exit, with their files.
SPECIFICATION FilesFairSpec
CONSTANTS
  NPROC = 3
  MaxPid = 5
  ReapBeforeExit = TRUE
  NOFILE = 5
  NFILE = 9
  Serial = TRUE
INVARIANTS
  TypeOK
  PidsUnique
  ZombieHasParent
  FilesTypeOK
  RefCovers
PROPERTIES
  ImplementsAbsFiles
  ParentStays
  ImplementsAbsProc
  WaitReturns
