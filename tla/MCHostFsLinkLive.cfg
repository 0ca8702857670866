SPECIFICATION FairSpec
CONSTANTS
  c1 = c1
  c2 = c2
  NULL = NULL
  Client = {c1}
  Ops = {"read", "write", "bulk", "async", "close"}
  MaxSession = 2
  MaxRestart = 0
  PcTimeouts = FALSE
  Unplugged = {"error"}
  Prompt = TRUE
PROPERTIES SessionConnects ExchangeEnds
CHECK_DEADLOCK FALSE
