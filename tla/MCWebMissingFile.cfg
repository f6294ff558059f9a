CONSTANTS
  File = {1}
  Run = {"a"}
  MaxChanges = 1
  FilesOf <- MCFilesOf
  Client = {c1, c2}
  Worker = {w1, w2}
  MaxRequests = 1
  Unserved = {}
  None = None
SPECIFICATION Spec
INVARIANT
  FailureIsAnswered
