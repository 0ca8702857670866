SPECIFICATION Spec
CONSTANTS
  c1 = c1
  c2 = c2
  NULL = NULL
  Client = {c1}
  Ops = {"close"}
  MaxSession = 1
  MaxRestart = 1
  PcTimeouts = FALSE
  Unplugged = {"error"}
  Prompt = TRUE
INVARIANTS ConnectedMeansSession
CHECK_DEADLOCK FALSE
