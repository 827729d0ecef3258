\* The mailbox thread may stop for good: behaviours may end.
CONSTANTS
  N = 3
  Clients = {s, w}
  Senders = {s}
  Main = main
  Kinds = {"callback", "kill"}
  Outcomes = {"SUCCESS"}
  AtExit = TRUE
  None = None
SPECIFICATION FairSpec
INVARIANTS
  CrashOnlyAtExit
PROPERTY
  KillerReturns
CHECK_DEADLOCK FALSE
