SPECIFICATION Spec
CONSTANTS
  shell = shell
  echo = echo
  NULL = NULL
  NumChan = 2
  AsyncUser = 0
  BufSize = 2
  Byte <- TwoBytes
  Client = {shell, echo}
  Want <- WantAlloc
  Payload <- Words
  MaxRead = 2
  Quiesce = FALSE
CONSTRAINT AlikeOrAlone
INVARIANTS RingsConsistent NoLostWakeup
PROPERTIES ImplementsPipe
