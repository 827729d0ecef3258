CONSTANTS
  N = 4
  Kinds = {"spsc", "spmc", "mpsc", "mpmc"}
  Producers = {p}
  Consumers = {c}
  Waiters = {}
  SendFlags <- IgnoreAll
  Results = {"SUCCESS"}
  MaxHandles = 1
SPECIFICATION FairSpec
INVARIANTS
  QueueLinked
PROPERTIES
  PermitReturns
