CONSTANTS
  File = {0, 1, 2}
  Run = {"big", "small", "other"}
  MaxRuns = 2
  FilesOf <- MCFilesOf
SPECIFICATION FileSetSpec
INVARIANTS
  FileSetTypeOK
  IndexDescribesFiles
PROPERTIES
  ImplementsFiles
