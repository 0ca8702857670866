SPECIFICATION MCSpec
CONSTANTS
  Parts = {"loop", "call", "pool", "stub", "line"}
  t1 = t1
  t2 = t2
  Words = 6
  Mirrors = 1
  Code <- LoopCode
  LongJmp = 4
  Thread = {t1}
  Parse = parse
  GdbWords = 5
  GdbCode <- TracedCode
  Value = {0, 1}
  HwAddr = {1}
  MaxTraps = 1
  MaxDrops = 1
  Patient = FALSE
  Commands <- LineCommands
  Mod = 4
  MaxBuf = 3
  OutSize = 9
  ReplyLens <- LineReplies
  MaxCommands = 3
  MaxNoise = 2
  MaxNaks = 1
  MaxResend = 1
  MaxContext = 2
  MaxBps = 1
  MaxFaults = 1
  MaxWake = 1
  Orderly = TRUE
INVARIANTS
  MemoryFaithful ContextsOwned PacketsOnce
PROPERTIES
  DebuggerObeys AsGdbLeft
CHECK_DEADLOCK FALSE
