\* The file table fills up although few files are open.
SPECIFICATION FilesSpec
CONSTANTS
  NPROC = 3
  MaxPid = 6
  ReapBeforeExit = TRUE
  NOFILE = 5
  NFILE = 9
  Serial = TRUE
INVARIANT
  FullOnlyWhenOpen
