------------------------------- MODULE Files -------------------------------
(***************************************************************************)
(* The files of webserver/ as the server and the client see them: stat and *)
(* read find a file absent, not whole, or as a run of fileset made it; the *)
(* index describes the files of one run.  Nothing that the server or the   *)
(* client does keeps a file from changing.  FileSet implements this.       *)
(***************************************************************************)
CONSTANTS
  File,       \* the names that a run may make: it takes them in a fixed order
  Run,        \* what a run makes: its options decide it, as the seed is fixed
  FilesOf     \* the files that a run makes

ASSUME FilesAssumption ==
  /\ FilesOf \in [Run -> (SUBSET File) \ {{}}]
  /\ {"absent", "partial"} \cap Run = {}

VARIABLES
  disk,       \* per file: "absent", "partial", or the run that it is of
  index       \* "partial", or the run that it describes

(* What a run of fileset or any other program may leave in a file. *)
States == {"absent", "partial"} \cup Run

FilesInit ==
  /\ index \in Run
  /\ disk \in [File -> States]
  /\ \A f \in FilesOf[index] : disk[f] = index

(* A file is unlinked, truncated or written; only one that was truncated   *)
(* is written, and when the index is made the files it describes are.      *)
ChangeFile(f) ==
  /\ disk' \in {[disk EXCEPT ![f] = s] :
                  s \in {"absent", "partial"} \cup (IF disk[f] = "partial" THEN Run ELSE {})}
  /\ UNCHANGED index

ChangeIndex ==
  /\ \E i \in {"partial"} \cup Run :
       /\ i \in Run => \A f \in FilesOf[i] : disk[f] = i
       /\ index' = i
  /\ UNCHANGED disk

FilesNext == ChangeIndex \/ \E f \in File : ChangeFile(f)

FilesSpec == FilesInit /\ [][FilesNext]_<<disk, index>>

=============================================================================
