---------------------------- MODULE FileSetProofs ----------------------------
(***************************************************************************)
(* Proof that a run of fileset that ends well leaves an index that is true *)
(* of every file, and that fileset does to the files only what Files says, *)
(* for any names, any runs and any series of runs over each other.         *)
(***************************************************************************)
EXTENDS FileSet, TLAPS

(* What is known of a run where it is: the files it has made are whole,    *)
(* the buffer has their rows, and the one it writes was truncated.         *)
Made == FilesOf[gen.of] \ gen.left

RowsOf(files, r) == {<<f, r>> : f \in files}

FilesMade ==
  gen.pc \in {"open", "write", "index", "count", "rows", "done"} =>
    \A f \in Made : disk[f] = gen.of

RowsMade ==
  /\ gen.pc = "unlink" => gen.rows = {}
  /\ gen.pc \in {"open", "write", "index", "count", "rows"} => gen.rows = RowsOf(Made, gen.of)

LeftToMake ==
  /\ gen.pc \in {"open", "write"} => gen.left # {} /\ gen.left \subseteq FilesOf[gen.of]
  /\ gen.pc \in {"index", "count", "rows", "done"} => gen.left = {}

Truncated == gen.pc = "write" => disk[NextFile] = "partial"

IndexSoFar ==
  /\ gen.pc = "count" => index = Empty
  /\ gen.pc = "rows" =>
       index.count = gen.of /\ index.rows \subseteq gen.rows /\ index.rows # gen.rows
  /\ gen.pc = "done" => index = Whole(gen.of)

(* The inductive invariant. *)
FileSetInv ==
  FileSetTypeOK /\ FilesMade /\ RowsMade /\ LeftToMake /\ Truncated /\ IndexSoFar

USE FilesAssumption

-----------------------------------------------------------------------------
(* The rows of a run, one of which each file has. *)
LEMMA WholeRows ==
  ASSUME NEW r \in Run
  PROVE  /\ Whole(r) = [count |-> r, rows |-> RowsOf(FilesOf[r], r)]
         /\ Whole(r) \in [count : Run \cup {None}, rows : SUBSET (File \X Run)]
         /\ Whole(r).rows # {}
<1>1. FilesOf[r] \subseteq File /\ FilesOf[r] # {}
  OBVIOUS
<1>2. Whole(r) = [count |-> r, rows |-> RowsOf(FilesOf[r], r)]
  BY DEF Whole, RowsOf
<1>3. RowsOf(FilesOf[r], r) \in SUBSET (File \X Run)
  BY <1>1 DEF RowsOf
<1>4. RowsOf(FilesOf[r], r) # {}
  <2>1. PICK f \in FilesOf[r] : TRUE
    BY <1>1
  <2>2. <<f, r>> \in RowsOf(FilesOf[r], r)
    BY <2>1 DEF RowsOf
  <2> QED BY <2>2
<1> QED BY <1>2, <1>3, <1>4

(* An index that is whole describes its run, and one that lacks rows none. *)
LEMMA WholeDescribes ==
  ASSUME NEW r \in Run
  PROVE  DescribedBy(Whole(r)) = r
BY DEF DescribedBy, Whole

LEMMA PartDescribesNothing ==
  ASSUME NEW i, i.rows = {} \/ i.rows # RowsOf(FilesOf[i.count], i.count)
  PROVE  DescribedBy(i) = "partial"
<1>1. ASSUME NEW r \in Run, i = Whole(r)
      PROVE  i.count = r /\ i.rows = RowsOf(FilesOf[r], r) /\ i.rows # {}
  BY <1>1, WholeRows
<1> QED BY <1>1 DEF DescribedBy

LEMMA NextFileIsLeft ==
  ASSUME gen.left # {}
  PROVE  NextFile \in gen.left
BY DEF NextFile

-----------------------------------------------------------------------------
LEMMA FileSetInvInit == FileSetInit => FileSetInv
<1> SUFFICES ASSUME FileSetInit PROVE FileSetInv
  OBVIOUS
<1>1. PICK r \in Run :
        /\ disk \in [File -> States]
        /\ \A f \in FilesOf[r] : disk[f] = r
        /\ index = Whole(r)
        /\ gen = [of |-> r, nr |-> 0, pc |-> "done", left |-> {}, rows |-> {}]
  BY DEF FileSetInit
<1>2. FileSetTypeOK
  BY <1>1, WholeRows DEF FileSetTypeOK
<1>3. FilesMade /\ RowsMade /\ LeftToMake /\ Truncated /\ IndexSoFar
  BY <1>1 DEF FilesMade, RowsMade, LeftToMake, Truncated, IndexSoFar, Made
<1> QED BY <1>2, <1>3 DEF FileSetInv

(* A file that is made leaves those that were made before.                 *)
LEMMA WriteFileKeeps ==
  ASSUME FileSetInv, WriteFile
  PROVE  FileSetInv'
<1>1. /\ gen.pc = "write" /\ gen.left # {} /\ gen.left \subseteq FilesOf[gen.of]
      /\ gen.of \in Run /\ NextFile \in gen.left
  BY NextFileIsLeft DEF FileSetInv, FileSetTypeOK, LeftToMake, WriteFile
<1> DEFINE next == NextFile
<1>2. next \in FilesOf[gen.of] /\ next \in File
  BY <1>1
<1>3. /\ gen'.of = gen.of /\ gen'.nr = gen.nr /\ gen'.left = gen.left \ {next}
      /\ gen'.rows = gen.rows \cup {<<next, gen.of>>}
      /\ gen'.pc = IF gen.left = {next} THEN "index" ELSE "open"
      /\ disk' = [disk EXCEPT ![next] = gen.of]
      /\ index' = index
  BY DEF WriteFile, FileSetInv, FileSetTypeOK
<1>4. FileSetTypeOK'
  <2>1. disk' \in [File -> States]
    BY <1>1, <1>2, <1>3 DEF FileSetInv, FileSetTypeOK, States
  <2>2. <<next, gen.of>> \in File \X Run
    BY <1>1, <1>2
  <2>3. gen.rows \subseteq File \X Run /\ gen.left \subseteq File
    BY DEF FileSetInv, FileSetTypeOK
  <2>4. gen.rows \cup {<<next, gen.of>>} \in SUBSET (File \X Run) /\ gen.left \ {next} \in SUBSET File
    BY <2>2, <2>3
  <2>5. gen' = [gen EXCEPT !.rows = gen.rows \cup {<<next, gen.of>>},
                           !.left = gen.left \ {next},
                           !.pc = IF gen.left = {next} THEN "index" ELSE "open"]
    BY DEF WriteFile
  <2>6. gen' \in [of : Run, nr : 0..MaxRuns, left : SUBSET File, rows : SUBSET (File \X Run),
                  pc : {"unlink", "open", "write", "index", "count", "rows", "done", "failed"}]
    <3> HIDE DEF next
    <3> QED BY <2>4, <2>5 DEF FileSetInv, FileSetTypeOK
  <2> QED BY <1>3, <2>1, <2>6 DEF FileSetInv, FileSetTypeOK
<1> HIDE DEF next
<1>5. Made' = Made \cup {next}
  BY <1>1, <1>2, <1>3 DEF Made
<1>6. FilesMade'
  <2>1. \A f \in Made : f \in File /\ disk[f] = gen.of
    BY <1>1 DEF FileSetInv, FilesMade, Made
  <2>2. \A f \in Made \cup {next} : disk'[f] = gen.of
    BY <1>2, <1>3, <2>1 DEF FileSetInv, FileSetTypeOK
  <2> QED BY <2>2, <1>3, <1>5 DEF FilesMade
<1>7. RowsMade'
  <2>1. gen.rows = RowsOf(Made, gen.of)
    BY <1>1 DEF FileSetInv, RowsMade
  <2>2. RowsOf(Made \cup {next}, gen.of) = RowsOf(Made, gen.of) \cup {<<next, gen.of>>}
    BY DEF RowsOf
  <2>3. gen'.rows = RowsOf(Made', gen'.of)
    BY <1>3, <1>5, <2>1, <2>2
  <2> QED BY <1>3, <2>3 DEF RowsMade
<1>8. LeftToMake' /\ Truncated' /\ IndexSoFar'
  BY <1>1, <1>3 DEF LeftToMake, Truncated, IndexSoFar
<1> QED BY <1>4, <1>6, <1>7, <1>8 DEF FileSetInv

LEMMA WriteIndexKeeps ==
  ASSUME FileSetInv, WriteIndex
  PROVE  FileSetInv'
<1>1. /\ gen.pc \in {"index", "count", "rows"} /\ gen.left = {} /\ gen.of \in Run
      /\ Made = FilesOf[gen.of]
  BY DEF FileSetInv, FileSetTypeOK, LeftToMake, WriteIndex, Made
<1>2. PICK pc \in {"count", "rows", "done"} : IndexGoes(pc)
  BY DEF WriteIndex
<1>3. /\ gen'.of = gen.of /\ gen'.nr = gen.nr /\ gen'.left = gen.left
      /\ gen'.rows = gen.rows /\ disk' = disk /\ gen'.pc = pc
  BY <1>2 DEF WriteIndex, IndexGoes, FileSetInv, FileSetTypeOK
<1>4. gen.rows = RowsOf(FilesOf[gen.of], gen.of) /\ gen.rows # {}
  BY <1>1, WholeRows DEF FileSetInv, RowsMade
<1>5. /\ index \in [count : Run \cup {None}, rows : SUBSET (File \X Run)]
      /\ gen.rows \in SUBSET (File \X Run)
  BY DEF FileSetInv, FileSetTypeOK
<1>6. IndexSoFar' /\ index' \in [count : Run \cup {None}, rows : SUBSET (File \X Run)]
  <2>1. CASE gen.pc = "index"
    <3>1. gen'.pc = "count" /\ index' = Empty
      BY <2>1 DEF WriteIndex, IndexGoes, FileSetInv, FileSetTypeOK
    <3> QED BY <3>1 DEF IndexSoFar, Empty
  <2>2. CASE gen.pc = "count"
    <3>1. gen'.pc = "rows" /\ index' = [index EXCEPT !.count = gen.of]
      BY <2>2 DEF WriteIndex, IndexGoes, FileSetInv, FileSetTypeOK
    <3>2. index.rows = {}
      BY <2>2 DEF FileSetInv, IndexSoFar, Empty
    <3>3. index'.count = gen.of /\ index'.rows = {}
      BY <1>5, <3>1, <3>2
    <3> QED BY <1>1, <1>3, <1>4, <1>5, <3>1, <3>3 DEF IndexSoFar
  <2>3. CASE gen.pc = "rows"
    <3>1. PICK part \in SUBSET gen.rows :
            /\ index' = [index EXCEPT !.rows = part]
            /\ IndexGoes(IF part = gen.rows THEN "done" ELSE "rows")
      BY <2>3 DEF WriteIndex
    <3>2. gen'.pc = IF part = gen.rows THEN "done" ELSE "rows"
      BY <3>1 DEF IndexGoes, FileSetInv, FileSetTypeOK
    <3>3. index.count = gen.of
      BY <2>3 DEF FileSetInv, IndexSoFar
    <3>4. index' = [count |-> gen.of, rows |-> part]
      BY <1>5, <3>1, <3>3
    <3>5. part = gen.rows => index' = Whole(gen.of)
      BY <1>1, <1>4, <3>4, WholeRows
    <3> QED BY <1>1, <1>3, <1>5, <3>2, <3>4, <3>5 DEF IndexSoFar
  <2> QED BY <1>1, <2>1, <2>2, <2>3
<1>7. gen' \in [of : Run, nr : 0..MaxRuns, left : SUBSET File, rows : SUBSET (File \X Run),
                pc : {"unlink", "open", "write", "index", "count", "rows", "done", "failed"}]
  BY <1>2 DEF IndexGoes, FileSetInv, FileSetTypeOK
<1>8. FileSetTypeOK'
  BY <1>3, <1>6, <1>7 DEF FileSetInv, FileSetTypeOK
<1>9. Made' = Made
  BY <1>3 DEF Made
<1>10. FilesMade' /\ RowsMade' /\ LeftToMake' /\ Truncated'
  BY <1>1, <1>3, <1>9 DEF FileSetInv, FilesMade, RowsMade, LeftToMake, Truncated
<1> QED BY <1>6, <1>8, <1>10 DEF FileSetInv

LEMMA FileSetInvStep == FileSetInv /\ [FileSetNext]_fileVars => FileSetInv'
<1> SUFFICES ASSUME FileSetInv, [FileSetNext]_fileVars PROVE FileSetInv'
  OBVIOUS
<1> USE DEF FileSetInv, FileSetTypeOK, FilesMade, RowsMade, LeftToMake, Truncated, IndexSoFar, Made
<1>1. CASE Start
  BY <1>1 DEF Start, OnDisk, GenRunning
<1>2. CASE Unlink
  <2>1. CASE \E f \in gen.left : /\ disk' \in {disk, [disk EXCEPT ![f] = "absent"]}
                                /\ gen' = [gen EXCEPT !.left = @ \ {f}]
    BY <1>2, <2>1 DEF Unlink, States
  <2>2. CASE gen.left = {} /\ gen' = [gen EXCEPT !.pc = "open", !.left = FilesOf[gen.of]]
             /\ UNCHANGED disk
    <3>1. FilesOf[gen.of] # {} /\ FilesOf[gen.of] \in SUBSET File
      OBVIOUS
    <3>2. index' = index /\ disk' = disk /\ gen.pc = "unlink"
      BY <1>2, <2>2 DEF Unlink
    <3>3. gen'.pc = "open" /\ gen'.left = FilesOf[gen.of] /\ gen'.of = gen.of /\ gen'.rows = gen.rows
      BY <2>2
    <3>4. FileSetTypeOK' /\ LeftToMake'
      BY <2>2, <3>1, <3>2, <3>3
    <3>5. Made' = {}
      BY <3>3
    <3>6. gen.rows = {}
      BY <3>2
    <3>7. RowsMade' /\ FilesMade'
      BY <3>3, <3>5, <3>6 DEF RowsOf
    <3>8. Truncated' /\ IndexSoFar'
      BY <3>3
    <3> QED BY <3>4, <3>7, <3>8
  <2> QED BY <1>2, <2>1, <2>2 DEF Unlink
<1>3. CASE OpenFile
  BY <1>3, NextFileIsLeft DEF OpenFile, States, NextFile
<1>4. CASE WriteFile
  BY <1>4, WriteFileKeeps
<1>5. CASE WriteIndex
  BY <1>5, WriteIndexKeeps
<1>6. CASE GenFails
  BY <1>6 DEF GenFails
<1>7. CASE Terminated \/ UNCHANGED fileVars
  BY <1>7 DEF Terminated, fileVars, NextFile
<1> QED BY <1>1, <1>2, <1>3, <1>4, <1>5, <1>6, <1>7 DEF FileSetNext

(* Types, for any files and runs. *)
THEOREM FileSetTypeCorrect == FileSetSpec => []FileSetTypeOK
BY FileSetInvInit, FileSetInvStep, PTL DEF FileSetSpec, FileSetInv

(* After a run that ended well the index is whole, and every file is what  *)
(* its row says, whatever was there before.                                *)
THEOREM IndexIsTrue == FileSetSpec => []IndexDescribesFiles
<1>1. FileSetInv => IndexDescribesFiles
  <2> SUFFICES ASSUME FileSetInv, gen.pc = "done"
               PROVE  index = Whole(gen.of) /\ \A row \in index.rows : disk[row[1]] = row[2]
    BY DEF IndexDescribesFiles
  <2>1. gen.of \in Run /\ index = Whole(gen.of) /\ Made = FilesOf[gen.of]
    BY DEF FileSetInv, FileSetTypeOK, IndexSoFar, LeftToMake, Made
  <2>2. \A f \in FilesOf[gen.of] : disk[f] = gen.of
    BY <2>1 DEF FileSetInv, FilesMade
  <2>3. \A row \in index.rows : disk[row[1]] = row[2]
    BY <2>1, <2>2, WholeRows DEF RowsOf
  <2> QED BY <2>1, <2>3
<1> QED BY <1>1, FileSetInvInit, FileSetInvStep, PTL DEF FileSetSpec

-----------------------------------------------------------------------------
(* The refinement: the initial states, and the steps. *)
LEMMA FilesInitial == FileSetInit => F!FilesInit
<1> SUFFICES ASSUME FileSetInit PROVE F!FilesInit
  OBVIOUS
<1>1. PICK r \in Run :
        /\ disk \in [File -> States]
        /\ \A f \in FilesOf[r] : disk[f] = r
        /\ index = Whole(r)
  BY DEF FileSetInit
<1>2. DescribedBy(index) = r
  BY <1>1, WholeDescribes
<1> QED BY <1>1, <1>2 DEF F!FilesInit, F!States, States

LEMMA FilesStep ==
  FileSetInv /\ [FileSetNext]_fileVars => [F!FilesNext]_<<disk, DescribedBy(index)>>
<1> SUFFICES ASSUME FileSetInv, [FileSetNext]_fileVars
             PROVE  F!FilesNext \/ UNCHANGED <<disk, DescribedBy(index)>>
  OBVIOUS
<1>1. CASE Unlink
  <2>1. CASE \E f \in gen.left : disk' \in {disk, [disk EXCEPT ![f] = "absent"]}
    <3>1. PICK f \in gen.left : disk' \in {disk, [disk EXCEPT ![f] = "absent"]}
      BY <2>1
    <3>2. f \in File /\ index' = index
      BY <1>1 DEF FileSetInv, FileSetTypeOK, Unlink
    <3>3. CASE disk' = [disk EXCEPT ![f] = "absent"]
      BY <3>2, <3>3 DEF F!FilesNext, F!ChangeFile
    <3> QED BY <3>1, <3>2, <3>3
  <2>2. CASE UNCHANGED disk
    BY <1>1, <2>2 DEF Unlink
  <2> QED BY <1>1, <2>1, <2>2 DEF Unlink
<1>2. CASE OpenFile
  <2>1. NextFile \in File
    BY <1>2, NextFileIsLeft DEF FileSetInv, FileSetTypeOK, LeftToMake, OpenFile
  <2> QED BY <1>2, <2>1 DEF OpenFile, F!FilesNext, F!ChangeFile
<1>3. CASE WriteFile
  <2>1. NextFile \in File /\ gen.of \in Run /\ disk[NextFile] = "partial"
    BY <1>3, NextFileIsLeft DEF FileSetInv, FileSetTypeOK, LeftToMake, Truncated, WriteFile
  <2> QED BY <1>3, <2>1 DEF WriteFile, F!FilesNext, F!ChangeFile
<1>4. CASE WriteIndex
  <2>1. /\ gen.left = {} /\ gen.of \in Run /\ UNCHANGED disk /\ FileSetInv'
        /\ \A f \in FilesOf[gen.of] : disk[f] = gen.of
    BY <1>4, WriteIndexKeeps DEF FileSetInv, FileSetTypeOK, LeftToMake, FilesMade, Made, WriteIndex
  <2>2. gen'.pc \in {"count", "rows", "done"} /\ gen'.of = gen.of
    BY <1>4 DEF WriteIndex, IndexGoes, FileSetInv, FileSetTypeOK
  <2>3. CASE gen'.pc \in {"count", "rows"}
    <3>1. gen'.pc = "count" => index'.rows = {}
      BY <2>1 DEF FileSetInv, IndexSoFar, Empty
    <3>2. gen'.pc = "rows" => index'.rows # RowsOf(FilesOf[index'.count], index'.count)
      <4> SUFFICES ASSUME gen'.pc = "rows"
                   PROVE  index'.rows # RowsOf(FilesOf[index'.count], index'.count)
        OBVIOUS
      <4>1. index'.count = gen.of /\ index'.rows # gen'.rows
        BY <2>1, <2>2 DEF FileSetInv, IndexSoFar
      <4>2. gen'.rows = RowsOf(FilesOf[gen.of], gen.of)
        BY <2>1, <2>2 DEF FileSetInv, RowsMade, LeftToMake, Made
      <4> QED BY <4>1, <4>2
    <3>3. DescribedBy(index') = "partial"
      BY <2>3, <3>1, <3>2, PartDescribesNothing
    <3> QED BY <2>1, <3>3 DEF F!FilesNext, F!ChangeIndex
  <2>4. CASE gen'.pc = "done"
    <3>1. index' = Whole(gen.of)
      BY <2>1, <2>2, <2>4 DEF FileSetInv, IndexSoFar
    <3>2. DescribedBy(index') = gen.of
      BY <2>1, <3>1, WholeDescribes
    <3> QED BY <2>1, <3>2 DEF F!FilesNext, F!ChangeIndex
  <2> QED BY <2>2, <2>3, <2>4
<1>5. CASE Start \/ GenFails \/ Terminated \/ UNCHANGED fileVars
  <2>1. disk' = disk /\ index' = index
    BY <1>5 DEF Start, GenFails, Terminated, fileVars
  <2> QED BY <2>1
<1> QED BY <1>1, <1>2, <1>3, <1>4, <1>5 DEF FileSetNext

(* Whatever a series of runs does, the server and the client see only what *)
(* Files allows: no file is written that was not truncated first, and the  *)
(* index becomes whole only when all its files are.                        *)
THEOREM FileSetImplementsFiles == FileSetSpec => ImplementsFiles
BY FileSetInvInit, FileSetInvStep, FilesInitial, FilesStep, PTL
   DEF FileSetSpec, ImplementsFiles, F!FilesSpec

=============================================================================
