SPECIFICATION MCSpec
CONSTANTS
  Parts = {"config"}
  Buffer = 3
  t1 = t1
  t2 = t2
  Threads = {t1, t2}
  Patched = {3}
  APIHOOK_MAXIDS = 2
  MaxHooks = 3
  Libraries <- ExportTables
  HookNames <- NamesTyped
  SymFiles <- SymbolTables
  Bases = {10, 20, 30}
  ModuleSize = 6
  AbsFrom = 8
  Again = FALSE
  MaxLoads = 4
  KPRINTF_BUF_SIZE = 3
  MaxPut = 7
  Files = {"p", "q"}
  ArgLists <- ArgsTyped
  Dirs = {"host0", "ms0"}
  InitDir = "host0"
  MAX_ARGS = 16
  Inis <- IniHolds
  None = "none"
  MaxBoots = 4
  Stream <- BytesSent
  retries = 1
  MaxOpens = 5
  MaxLines = 1
  buttmap <- ButtonMap
  analog = TRUE
  Positions <- Reported
  tol = 10000
  Chunk = 6
  BufSize = 7
  MaxEvents = 5
INVARIANT NothingLost
CHECK_DEADLOCK FALSE
