CONSTANTS
  MaxThreads = 3
  ClientQueues = {l1, c1}
  Locks = {l1}
  Cvs = {c1}
VIEW View
SPECIFICATION SyncSpec
INVARIANTS
  SyncTypeOK
  MutualExclusion
  FreeLockHasNoSleepers
  SuspendedOnlyAsleep
PROPERTIES
  SignalsWakeWaiters
  ImplementsMonitor
