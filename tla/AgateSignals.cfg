CONSTANTS
  N = 4
  Kinds = {"mpmc"}
  Producers = {p}
  Consumers = {c}
  Waiters = {w1, w2}
  SendFlags <- LeaveStatus
  Results = {"SUCCESS"}
  MaxHandles = 2
SPECIFICATION Spec
INVARIANTS
  TypeOK
  SlotsConserved
  PermitsBacked
  ReplyIsOwn
  HandlesCounted
PROPERTIES
  ImplementsService
SYMMETRY Interchangeable
