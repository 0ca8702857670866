SPECIFICATION FairSpec
CONSTANTS
  shell = shell
  echo = echo
  NULL = NULL
  NumChan = 2
  AsyncUser = 1
  BufSize = 2
  Byte <- OneByte
  Client = {shell, echo}
  Want <- WantBoth
  Payload <- Lengths
  MaxRead = 2
  Quiesce = TRUE
INVARIANTS TypeOK NoFault ReaderOwnsChannel
PROPERTIES HeadIsRead
