CONSTANTS
  N = 3
  Clients = {s, w}
  Senders = {s}
  Main = main
  Kinds = {"alloc", "log"}
  Outcomes = {"SUCCESS", "ERROR"}
  AtExit = FALSE
  None = None
SPECIFICATION FairSpec
INVARIANT ReplyIsOwn
PROPERTIES
  ImplementsService
  SendReturns
  WaitReturns
