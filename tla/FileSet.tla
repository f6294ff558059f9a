------------------------------ MODULE FileSet ------------------------------
(***************************************************************************)
(* webserver/fileset.c, which makes the files that the server serves and   *)
(* the index that the client reads.  It is run again over the files of an  *)
(* earlier run, with other options, and may end at any step.               *)
(***************************************************************************)
EXTENDS Integers

CONSTANTS
  File,       \* the names that a run may make: it takes them in a fixed order
  Run,        \* what a run makes: its options decide it, as the seed is fixed
  FilesOf,    \* the files that a run makes
  MaxRuns     \* bound: the runs over the first one's files

ASSUME FilesAssumption ==
  /\ FilesOf \in [Run -> (SUBSET File) \ {{}}]
  /\ {"absent", "partial"} \cap Run = {}
  /\ MaxRuns \in Nat

VARIABLES
  disk,       \* per file: "absent", "partial", or the run that it is of
  index,      \* what is in the index: the run that the count and the lines
              \* are of, or None
  gen         \* the last run: what it makes, how many there were before it,
              \* where it is, the files it has yet to unlink or to make, and
              \* the lines of the index in its buffer

fileVars == <<disk, index, gen>>

None == "none"

(* What a run or any other program may leave in a file. *)
States == {"absent", "partial"} \cup Run

Empty == [count |-> None, rows |-> {}]

(* What is written about the files of a run: how many, and a row for each. *)
Whole(r) == [count |-> r, rows |-> {<<f, r>> : f \in FilesOf[r]}]

FileSetInit ==
  \E r \in Run :
    /\ disk \in [File -> States]
    /\ \A f \in FilesOf[r] : disk[f] = r
    /\ index = Whole(r)
    /\ gen = [of |-> r, nr |-> 0, pc |-> "done", left |-> {}, rows |-> {}]

OnDisk == {f \in File : disk[f] # "absent"}

GenRunning == gen.pc \notin {"done", "failed"}

(* A run starts; readdir gives it the files that are there.                *)
Start ==
  /\ ~GenRunning
  /\ gen.nr < MaxRuns
  /\ \E r \in Run :
       gen' = [of |-> r, nr |-> gen.nr + 1, pc |-> "unlink", left |-> OnDisk, rows |-> {}]
  /\ UNCHANGED <<disk, index>>

(* unlink, whose result is not looked at, of a file after the other.       *)
Unlink ==
  /\ gen.pc = "unlink"
  /\ \/ \E f \in gen.left :
          /\ disk' \in {disk, [disk EXCEPT ![f] = "absent"]}
          /\ gen' = [gen EXCEPT !.left = @ \ {f}]
     \/ /\ gen.left = {}
        /\ gen' = [gen EXCEPT !.pc = "open", !.left = FilesOf[gen.of]]
        /\ UNCHANGED disk
  /\ UNCHANGED index

NextFile == CHOOSE f \in gen.left : TRUE

\* Mutant: a file that unlink left is kept as it is (O_EXCL for O_TRUNC).
OpenFileOnce ==
  /\ gen.pc = "open"
  /\ disk' = [disk EXCEPT ![NextFile] = IF @ = "absent" THEN "partial" ELSE @]
  /\ gen' = [gen EXCEPT !.pc = "write"]
  /\ UNCHANGED index

(* The next file is opened with O_TRUNC. *)
OpenFile ==
  /\ gen.pc = "open"
  /\ disk' = [disk EXCEPT ![NextFile] = "partial"]
  /\ gen' = [gen EXCEPT !.pc = "write"]
  /\ UNCHANGED index

\* Mutant: the row is made from what the file held before.
WriteFileOldRow ==
  /\ gen.pc = "write"
  /\ disk' = [disk EXCEPT ![NextFile] = gen.of]
  /\ gen' = [gen EXCEPT !.rows = @ \cup {<<NextFile, disk[NextFile]>>},
                        !.left = @ \ {NextFile},
                        !.pc = IF gen.left = {NextFile} THEN "index" ELSE "open"]
  /\ UNCHANGED index

(* It is written in blocks, of which the last makes it whole, and its row  *)
(* is added to the buffer.                                                 *)
WriteFile ==
  /\ gen.pc = "write"
  /\ disk' = [disk EXCEPT ![NextFile] = gen.of]
  /\ gen' = [gen EXCEPT !.rows = @ \cup {<<NextFile, gen.of>>},
                        !.left = @ \ {NextFile},
                        !.pc = IF gen.left = {NextFile} THEN "index" ELSE "open"]
  /\ UNCHANGED index

IndexGoes(pc) == gen' = [gen EXCEPT !.pc = pc]

\* Mutant: the index is not truncated, and the count is written over it.
WriteIndexOver ==
  /\ \/ gen.pc = "index" /\ IndexGoes("count") /\ UNCHANGED index
     \/ gen.pc = "count" /\ IndexGoes("rows") /\ index' = [index EXCEPT !.count = gen.of]
     \/ gen.pc = "rows" /\ IndexGoes("done") /\ index' = [index EXCEPT !.rows = @ \cup gen.rows]
  /\ UNCHANGED disk

(* The index is opened with O_TRUNC; then the count is written, and with   *)
(* one more Rio_write the buffer, of which each write takes a part.        *)
WriteIndex ==
  /\ \/ gen.pc = "index" /\ IndexGoes("count") /\ index' = Empty
     \/ gen.pc = "count" /\ IndexGoes("rows") /\ index' = [index EXCEPT !.count = gen.of]
     \/ /\ gen.pc = "rows"
        /\ \E part \in SUBSET gen.rows :
             /\ index.rows \subseteq part
             /\ index' = [index EXCEPT !.rows = part]
             /\ IndexGoes(IF part = gen.rows THEN "done" ELSE "rows")
  /\ UNCHANGED disk

(* open or Rio_write fails, the index does not fit in its buffer, or the   *)
(* run is killed.                                                          *)
GenFails ==
  /\ GenRunning
  /\ gen' = [gen EXCEPT !.pc = "failed", !.left = {}, !.rows = {}]
  /\ UNCHANGED <<disk, index>>

Terminated == ~GenRunning /\ UNCHANGED fileVars

FileSetNext ==
  \/ Start
  \/ Unlink
  \/ OpenFile
  \/ WriteFile
  \/ WriteIndex
  \/ GenFails
  \/ Terminated

FileSetSpec == FileSetInit /\ [][FileSetNext]_fileVars

-----------------------------------------------------------------------------
(* Type invariant. *)
FileSetTypeOK ==
  /\ disk \in [File -> States]
  /\ index \in [count : Run \cup {None}, rows : SUBSET (File \X Run)]
  /\ gen \in [of : Run, nr : 0..MaxRuns, left : SUBSET File, rows : SUBSET (File \X Run),
              pc : {"unlink", "open", "write", "index", "count", "rows", "done", "failed"}]

(* When a run has ended well, the index lists the files of that run, as    *)
(* many as its first line says, and each of them is on the disk as its row *)
(* describes it, whatever the runs before had left and unlink could not    *)
(* remove (fileset.c:82-155).                                              *)
IndexDescribesFiles ==
  gen.pc = "done" =>
    /\ index = Whole(gen.of)
    /\ \A row \in index.rows : disk[row[1]] = row[2]

(* What the client finds in an index. *)
DescribedBy(i) == IF \E r \in Run : i = Whole(r) THEN i.count ELSE "partial"

(* To the server and the client a run is what Files says: no file is       *)
(* written that was not truncated, and whoever finds the index whole found *)
(* every file of it whole when it was written.                             *)
F == INSTANCE Files WITH index <- DescribedBy(index)

ImplementsFiles == F!FilesSpec

=============================================================================
