CONSTANTS
  N = 3
  Clients = {s1, s2}
  Senders = {s1, s2}
  Main = main
  Kinds = {"log"}
  Outcomes = {"SUCCESS"}
  AtExit = FALSE
  None = None
SPECIFICATION Spec
INVARIANT NoAbort
CHECK_DEADLOCK FALSE
