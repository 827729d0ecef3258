CONSTANTS
  KindsUsed = {"semaphore", "shared", "binary", "counter"}
  Acquirers = {a1, a2, a3}
  Hasty = {a3}
  Releasers = {r}
  Permits = 2
  BlockAmounts = {1}
  TryAmounts = {1, 2}
  ReleaseAmounts = {1, 2}
SPECIFICATION FairSpec
INVARIANTS
  TypeOK
  PermitsConserved
  NoStrandedSleeper
  WaitersCounted
PROPERTY
  SleeperWakes
