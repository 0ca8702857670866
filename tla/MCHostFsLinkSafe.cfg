SPECIFICATION Spec
CONSTANTS
  c1 = c1
  c2 = c2
  NULL = NULL
  Client = {c1, c2}
  Ops = {"read"}
  MaxSession = 2
  MaxRestart = 1
  PcTimeouts = TRUE
  Unplugged = {"error", "refuse"}
  Prompt = FALSE
SYMMETRY Symmetry
INVARIANTS ExchangeIsMine ConnectionFollows
CHECK_DEADLOCK FALSE
CONSTRAINT NotCaught
