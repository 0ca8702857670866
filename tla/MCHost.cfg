SPECIFICATION MCSpec
CONSTANTS
  Parts = {"files", "chans", "dirs", "blocks", "threads", "tree", "race", "stat"}
  Serial = TRUE
  t1 = t1
  t2 = t2
  shell = shell
  gdb = gdb
  MaxFiles = 6
  MaxDirs = 2
  FdLimit = 7
  Chan = {shell, gdb}
  MaxOpen = 3
  MaxEntries = 2
  MaxSession = 2
  Stale = FALSE
  Thread = {t1, t2}
  Fid = {3, 4}
  Size = 5
  MaxBlock = 2
  Lens <- LensAsked
  MaxHandles = 2
  MaxFaults = 2
  Hours = 2
  Minute = {10, 40}
  Perm = {6, 7}
INVARIANTS
  NoLeak BulkFileIsBulk DataLands EnumerationExact TransfersExact
PROPERTIES
  PathsMeanWhatTheySay UnaskedKept
CHECK_DEADLOCK FALSE
