CONSTANTS
  MaxThreads = 3
  ClientQueues = {q1}
SPECIFICATION Spec
INVARIANT WaitReturnsAfterEnd
