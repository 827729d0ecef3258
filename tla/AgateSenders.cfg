CONSTANTS
  N = 4
  Kinds = {"mpsc"}
  Producers = {p1, p2}
  Consumers = {c}
  Waiters = {}
  SendFlags <- IgnoreAll
  Results = {"SUCCESS"}
  MaxHandles = 1
SPECIFICATION Spec
PROPERTY ReceivedInOrder
