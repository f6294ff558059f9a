------------------------------- MODULE MCWeb -------------------------------
(* Web for TLC: every run of fileset makes all the files.                  *)
EXTENDS Web

MCFilesOf == [r \in Run |-> File]
=============================================================================
