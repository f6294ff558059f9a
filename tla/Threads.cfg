CONSTANTS
  MaxThreads = 3
  ClientQueues = {q1}
SPECIFICATION Spec
INVARIANTS
  TypeOK
  OneQueuePerThread
  StateMatchesQueue
  NoStrandedSleeper
  CrashesExplained
PROPERTIES
  ZombiesWereWoken
  JoinersLeaveWhenTargetEnds
  QueuesAreFIFO
  NoStarvation
  ExitedAreReclaimed
