CONSTANTS
  Receivers = {r1, r2}
  Foreign = {r2}
  MaxResets = 3
  MaxResponses = 3
  ResponseCounts = {0, 2}
  Counters = {"c1", "c2"}
  Waiters = {"w1", "w2", "w3"}
  Expected <- Awaited
  TimedWaiters = {"w3"}
  MaxCount = 2
  ArraySize = 8
  Priorities = {1, 2}
  Junk = {0}
  BufferCount = 4
  BufSize = 4
  MaxLogPushes = 3
  RingSize = 8
  MaxChars = 14
  WriteLengths = {1, 3}
  InitThreads = {t1, t2, t3}
  MaxInitCalls = 2
  Creators = {c1, c2, c3}
  PoolBlocks = 2
  MaxCreates = 3
  Keys = {"k1", "k2", "k3", "k4", "k5"}
  Hash <- Hashes
  FirstSizes = {2, 4}
  FreshMemory = {"zeroed", "recycled"}
  SlotCount = 4
  MaxSends = 6
SPECIFICATION ComponentsSpec
INVARIANTS
  ComponentsTypeOK
  CountsExact
  StaleOnlyInFlight
  NoSleeperMissed
  ShortQueueOrdered
  PrintedInOrder
  PrintedAsWritten
  ClearedLogStops
  InitializedOnce
  InitLockHeld
  HandlesLive
  FindsExactly
  PrivateInOrder
CHECK_DEADLOCK FALSE
