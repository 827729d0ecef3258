CONSTANTS
  N = 4
  Clients = {s, w}
  Senders = {s}
  Main = main
  Kinds = {"callback", "log"}
  Outcomes = {"SUCCESS"}
  AtExit = FALSE
  None = None
SPECIFICATION Spec
INVARIANTS
  TypeOK
  NoAbort
  SlotExclusive
  NoSlotLost
  PermitsMatchPool
  StackLinked
  QueueLinked
  NoLostWakeup
