SPECIFICATION MCSpec
CONSTANTS
  Parts = {"tty", "lines", "words", "editor", "typed", "printed"}
  t1 = t1
  t2 = t2
  usb = usb
  sio = sio
  p = p
  q = q
  NULL = NULL
  Reader = {t1, t2}
  BufSize = 3
  Byte <- OneByte
  Line <- Inputs
  MaxLen = 2
  MaxStray = 2
  Client = {usb, sio}
  Urgent = {sio}
  Table <- CommandTable
  Scripts <- ScriptFiles
  Words <- UsersWords
  Custom = "outer.sh"
  Startups = {"start.sh", "tty.sh"}
  MaxLines = 3
  Chars = {1, 2}
  CLI_MAX = 4
  CLI_HISTSIZE = 2
  MaxEnter = 3
  Printer = {p, q}
  Sizes = {1, 2, 3}
  DataSize = 2
  MaxConn = 2
  MaxPrints = 2
  MaxChars = 3
INVARIANTS
  StdinSafe WordsTaken LinesOverNet
PROPERTIES
  LinesRun EntersWhatIsSeen
CHECK_DEADLOCK FALSE
