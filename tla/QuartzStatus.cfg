CONSTANTS
  N = 3
  Clients = {s, w}
  Senders = {s}
  Main = main
  Kinds = {"alloc", "callback"}
  Outcomes = {"SUCCESS", "ERROR"}
  AtExit = FALSE
  None = None
SPECIFICATION Spec
INVARIANT WaitReturnsResult
