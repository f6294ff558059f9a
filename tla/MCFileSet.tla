----------------------------- MODULE MCFileSet -----------------------------
(* FileSet for TLC: two runs with options of their own over three names,   *)
(* and one that makes the same files with other contents.                  *)
EXTENDS FileSet

MCFilesOf == [big |-> {0, 1, 2}, small |-> {0}, other |-> {0, 1, 2}]
=============================================================================
