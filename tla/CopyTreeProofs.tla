--------------------------- MODULE CopyTreeProofs ---------------------------
(***************************************************************************)
(* Proofs of the safety invariants of the recursive copy, for every tree,  *)
(* every umask, every size of the buffer and every number of descriptors.  *)
(***************************************************************************)
EXTENDS CopyTree, FiniteSetTheorems, SequenceTheorems, TLAPS

(* The directories of the calls, and what the program is not done with:    *)
(* these, srcdir, and the entry that the last call is at.                  *)
Path == {stack[n].dir : n \in 1..Len(stack)}
Active == {Root} \cup Path \cup (IF pc = "readdir" THEN {} ELSE {entry})

(* The entries of directory d are copied, but for those in S. *)
ChildrenDone(d, S) == \A c \in Children(d) \ S : IsCopied(c) => IsCopy(c)

Prefix(n) == [k \in 1..n |-> k]

(* Up to the mkdir of main nothing was done. *)
NothingDone ==
  /\ stack = <<>> /\ entry = Root /\ opened = {} /\ ~lost
  /\ dst \in {[e \in {} |-> Made({})], [e \in {Root} |-> Made(Bits)]}
  /\ status # "0"

(* What was made is a copy of something, in a directory that was opened.   *)
MadeInv ==
  /\ Root \in DOMAIN dst /\ dst[Root] = Made(tree.mode[Root] \ Umask)
  /\ \A e \in DOMAIN dst : IsCopied(e)
  /\ \A e \in DOMAIN dst : tree.kind[e] = "dir" => dst[e].bytes = <<>>
  /\ \A e \in DOMAIN dst \ {Root} : tree.up[e] \in opened
  /\ \A d \in opened : d \in DOMAIN dst /\ tree.kind[d] = "dir"

(* The calls are at a directory and its subdirectories, one in the other,  *)
(* and what readdir has left was not made.                                 *)
StackInv ==
  /\ \A n \in 1..Len(stack) :
       /\ stack[n].dir \in opened
       /\ stack[n].rest \subseteq Children(stack[n].dir) \ DOMAIN dst
       /\ n = 1 => stack[n].dir = Root
       /\ n > 1 => /\ stack[n].dir \in Children(stack[n - 1].dir)
                   /\ dst[stack[n].dir].mode = Bits \ Umask
  /\ \A m, n \in 1..Len(stack) : stack[m].dir = stack[n].dir => m = n

(* What the program is done with is complete, and so is what readdir has   *)
(* returned of the directories it is in.                                   *)
DoneInv ==
  lost \/ /\ \A e \in DOMAIN dst \ Active : IsCopy(e) /\ ChildrenDone(e, {})
          /\ \A n \in 1..Len(stack) :
               ChildrenDone(stack[n].dir, stack[n].rest \cup Active)

(* The entry that the last call is at, between its system calls. *)
AtChild == stack # <<>> /\ entry \in Children(Top.dir) \ Top.rest

EntryInv ==
  /\ pc = "readdir" => stack # <<>>
  /\ pc \in {"stat", "mkdir", "open"} => AtChild /\ entry \notin DOMAIN dst
  /\ pc = "mkdir" => tree.kind[entry] = "dir"
  /\ pc = "open" => tree.kind[entry] = "file"
  /\ pc = "opendir" =>
       /\ entry \in DOMAIN dst /\ tree.kind[entry] = "dir" /\ entry \notin opened
       /\ stack = <<>> => entry = Root
       /\ stack # <<>> => AtChild /\ dst[entry].mode = Bits \ Umask
  /\ pc \in {"read", "write"} =>
       AtChild /\ entry \in DOMAIN dst /\ tree.kind[entry] = "file"
  /\ pc = "read" /\ ~lost => dst[entry].bytes = Prefix(offset)
  /\ pc = "write" /\ ~lost => dst[entry].bytes \o buf = Prefix(offset)
  /\ pc = "chmod" =>
       /\ AtChild /\ entry \in DOMAIN dst \ Path
       /\ lost \/ /\ tree.kind[entry] = "file" => dst[entry].bytes = Contents(entry)
                  /\ tree.kind[entry] = "dir" => ChildrenDone(entry, {})

(* main returns after the call for srcdir. *)
ReturnInv ==
  status = "0" =>
    /\ stack = <<>> /\ entry = Root /\ pc = "chmod"
    /\ lost \/ ChildrenDone(Root, {})

(* The inductive invariant. *)
CopyInv ==
  /\ CopyTypeOK
  /\ reliable => ~lost
  /\ pc \notin {"read", "write"} => offset = 0
  /\ pc = "main" => NothingDone
  /\ pc # "main" => MadeInv /\ StackInv /\ DoneInv
  /\ pc # "main" /\ status = "running" => EntryInv
  /\ ReturnInv
  /\ FailsExplained

Frame == [dir : Entry, rest : SUBSET Entry]

-----------------------------------------------------------------------------
(* The stack of calls: a call, the next entry, a return. *)
LEMMA PushFrame ==
  ASSUME NEW s \in Seq(Frame), NEW f \in Frame
  PROVE  /\ Append(s, f) \in Seq(Frame)
         /\ Len(Append(s, f)) = Len(s) + 1
         /\ \A n \in 1..Len(s) : Append(s, f)[n] = s[n]
         /\ Append(s, f)[Len(s) + 1] = f
  BY AppendProperties

LEMMA ReplaceTop ==
  ASSUME NEW s \in Seq(Frame), s # <<>>, NEW f \in Frame, NEW r, r = [s EXCEPT ![Len(s)] = f]
  PROVE  /\ r \in Seq(Frame)
         /\ Len(r) = Len(s) /\ Len(s) \in Nat \ {0}
         /\ \A n \in 1..Len(s) : r[n] = IF n = Len(s) THEN f ELSE s[n]
<1>1. Len(s) \in Nat \ {0} /\ Len(s) \in 1..Len(s)
  BY EmptySeq
<1>2. s \in [1..Len(s) -> Frame]
  BY LenProperties
<1>3. /\ r \in [1..Len(s) -> Frame]
      /\ \A n \in 1..Len(s) : r[n] = IF n = Len(s) THEN f ELSE s[n]
  BY <1>1, <1>2
<1>4. PICK n \in Nat : n = Len(s)
  BY <1>1
<1>5. r \in [1..n -> Frame]
  BY <1>3, <1>4
<1>6. r \in Seq(Frame)
  BY <1>5, SeqDef
<1>7. Len(r) = n
  <2>1. DOMAIN r = 1..n /\ DOMAIN r = 1..Len(r) /\ Len(r) \in Nat
    BY <1>5, <1>6, LenProperties
  <2> QED BY <2>1
<1> QED BY <1>1, <1>3, <1>4, <1>6, <1>7

LEMMA PopFrame ==
  ASSUME NEW s \in Seq(Frame), s # <<>>, NEW r, r = SubSeq(s, 1, Len(s) - 1)
  PROVE  /\ r \in Seq(Frame)
         /\ Len(s) \in Nat \ {0} /\ Len(r) = Len(s) - 1
         /\ \A n \in 1..Len(r) : r[n] = s[n]
         /\ Len(s) = 1 <=> r = <<>>
<1>1. Len(s) \in Nat \ {0}
  BY EmptySeq
<1>2. \A n \in 1..(Len(s) - 1) : s[n] \in Frame
  BY <1>1, ElementOfSeq
<1>3. /\ r \in Seq(Frame)
      /\ Len(r) = Len(s) - 1
      /\ \A n \in 1..(Len(s) - 1) : r[n] = s[n]
  <2>1. Len(s) - 1 \in Nat
    BY <1>1
  <2> DEFINE m == Len(s) - 1
  <2>2. \A n \in 1..m : s[n] \in Frame
    BY <1>2
  <2> HIDE DEF m
  <2>3. /\ r = SubSeq(s, 1, m) /\ 1 \in Int /\ m \in Int
    BY <2>1 DEF m
  <2>4. /\ r \in Seq(Frame)
        /\ Len(r) = IF 1 <= m THEN m - 1 + 1 ELSE 0
        /\ \A n \in 1..(m - 1 + 1) : r[n] = s[1 + n - 1]
    BY <2>2, <2>3, SubSeqProperties
  <2>5. m - 1 + 1 = m /\ m \in Nat /\ \A n \in 1..m : 1 + n - 1 = n
    BY <2>1 DEF m
  <2>6. m = Len(s) - 1
    BY DEF m
  <2>7. Len(r) = m /\ \A n \in 1..m : r[n] = s[n]
    BY <2>4, <2>5
  <2> QED BY <2>4, <2>6, <2>7
<1>4. r = <<>> <=> Len(r) = 0
  BY <1>3, EmptySeq
<1> QED BY <1>1, <1>3, <1>4

(* The contents of a file, part by part. *)
LEMMA NextPart ==
  ASSUME NEW e, tree.size[e] \in Nat, NEW m \in Nat, NEW k \in Nat, m + k <= tree.size[e]
  PROVE  /\ SubSeq(Contents(e), m + 1, m + k) \in Seq(Nat)
         /\ Len(SubSeq(Contents(e), m + 1, m + k)) = k
         /\ Prefix(m) \o SubSeq(Contents(e), m + 1, m + k) = Prefix(m + k)
<1> DEFINE c == Contents(e)
           p == SubSeq(c, m + 1, m + k)
<1>1. \A j \in (m + 1)..(m + k) : c[j] = j /\ c[j] \in Nat
  BY DEF Contents
<1> HIDE DEF c
<1>2. /\ p \in Seq(Nat)
      /\ Len(p) = k
      /\ \A j \in 1..k : p[j] = m + j
  <2>1. /\ p \in Seq(Nat)
        /\ Len(p) = IF m + 1 <= m + k THEN (m + k) - (m + 1) + 1 ELSE 0
        /\ \A j \in 1..((m + k) - (m + 1) + 1) : p[j] = c[(m + 1) + j - 1]
    BY <1>1, SubSeqProperties
  <2>2. \A j \in 1..k : (m + 1) + j - 1 = m + j /\ m + j \in (m + 1)..(m + k)
    OBVIOUS
  <2>3. (m + k) - (m + 1) + 1 = k
    OBVIOUS
  <2> QED BY <1>1, <2>1, <2>2, <2>3
<1> HIDE DEF p
<1>3. \A n \in Nat : /\ Prefix(n) \in Seq(Nat) /\ Len(Prefix(n)) = n
                      /\ \A j \in 1..n : Prefix(n)[j] = j
  BY DEF Prefix
<1>4. /\ Prefix(m) \o p \in Seq(Nat)
      /\ Len(Prefix(m) \o p) = m + k
      /\ \A j \in 1..(m + k) : (Prefix(m) \o p)[j] = IF j <= m THEN Prefix(m)[j] ELSE p[j - m]
  <2>1. Prefix(m) \in Seq(Nat) /\ p \in Seq(Nat)
    BY <1>2, <1>3
  <2>2. /\ Prefix(m) \o p \in Seq(Nat)
        /\ Len(Prefix(m) \o p) = Len(Prefix(m)) + Len(p)
        /\ \A j \in 1..(Len(Prefix(m)) + Len(p)) : (Prefix(m) \o p)[j] =
             IF j <= Len(Prefix(m)) THEN Prefix(m)[j] ELSE p[j - Len(Prefix(m))]
    BY <2>1, ConcatProperties
  <2>3. Len(Prefix(m)) = m /\ Len(p) = k
    BY <1>2, <1>3
  <2> QED BY <2>2, <2>3
<1>5. ASSUME NEW j \in 1..(m + k) PROVE (Prefix(m) \o p)[j] = Prefix(m + k)[j]
  <2>1. Prefix(m + k)[j] = j
    BY DEF Prefix
  <2>2. CASE j <= m
    BY <1>4, <2>1, <2>2 DEF Prefix
  <2>3. CASE j > m
    <3>1. j - m \in 1..k /\ m + (j - m) = j
      BY <2>3
    <3> QED BY <1>2, <1>4, <2>1, <2>3, <3>1
  <2>4. j <= m \/ j > m
    OBVIOUS
  <2> QED BY <2>2, <2>3, <2>4
<1>6. Prefix(m + k) \in Seq(Nat) /\ Len(Prefix(m + k)) = m + k
  BY <1>3
<1>7. Prefix(m) \o p = Prefix(m + k)
  BY <1>4, <1>5, <1>6, SeqEqual
<1> QED BY <1>2, <1>7 DEF p, c

-----------------------------------------------------------------------------
(* What the type invariant says of the tree and of the destination. *)
LEMMA TreeFacts ==
  ASSUME CopyTypeOK
  PROVE  /\ IsFiniteSet(Entry) /\ Root \in Entry /\ entry \in Entry
         /\ tree.up \in [Entry -> Entry] /\ tree.up[Root] = Root
         /\ tree.kind \in [Entry -> {"dir", "file", "other"}] /\ tree.kind[Root] = "dir"
         /\ tree.mode \in [Entry -> SUBSET Bits]
         /\ tree.size \in [Entry -> Nat]
         /\ \A e \in Entry : tree.kind[tree.up[e]] = "dir"
         /\ \A d : \A c \in Children(d) : c \in Entry /\ c # Root /\ tree.up[c] = d
         /\ DOMAIN dst \subseteq Entry
         /\ \A e \in DOMAIN dst : dst[e] \in [mode : SUBSET Bits, bytes : Seq(Nat)]
  BY TreesAssumption DEF CopyTypeOK, IsTree, Children

LEMMA StackFacts ==
  ASSUME CopyTypeOK
  PROVE  /\ stack \in Seq(Frame) /\ Len(stack) \in Nat
         /\ \A n \in 1..Len(stack) : stack[n].dir \in Entry /\ stack[n].rest \in SUBSET Entry
         /\ stack # <<>> => Len(stack) \in 1..Len(stack) /\ Top = stack[Len(stack)]
         /\ stack = <<>> <=> Len(stack) = 0
<1>1. stack \in Seq(Frame)
  BY DEF CopyTypeOK, Frame
<1>2. /\ Len(stack) \in Nat
      /\ stack # <<>> => Len(stack) \in Nat \ {0}
      /\ stack = <<>> => Len(stack) = 0
  BY <1>1, EmptySeq, LenProperties
<1>3. \A n \in 1..Len(stack) : stack[n] \in Frame
  BY <1>1, ElementOfSeq
<1> QED BY <1>1, <1>2, <1>3 DEF Frame, Top

(* The directory of what the program is not done with is such a directory. *)
LEMMA AboveActive ==
  ASSUME CopyInv, pc # "main", status = "running", NEW c \in Active, c # Root
  PROVE  tree.up[c] \in Active
<1> USE DEF CopyInv
<1>1. CASE c \in Path
  <2>1. PICK n \in 1..Len(stack) : c = stack[n].dir
    BY <1>1 DEF Path
  <2>2. n > 1 /\ n - 1 \in 1..Len(stack) /\ c \in Children(stack[n - 1].dir)
    BY <2>1, StackFacts DEF StackInv
  <2>3. tree.up[c] = stack[n - 1].dir
    BY <2>2 DEF Children
  <2> QED BY <2>2, <2>3 DEF Active, Path
<1>2. CASE c = entry /\ pc # "readdir"
  <2>1. AtChild
    <3>1. EntryInv /\ pc \in {"opendir", "readdir", "stat", "mkdir", "chmod", "open",
                              "read", "write"}
      BY DEF CopyTypeOK
    <3> QED BY <1>2, <3>1 DEF EntryInv
  <2>2. tree.up[c] = Top.dir /\ stack # <<>>
    BY <1>2, <2>1 DEF AtChild, Children
  <2> QED BY <2>2, StackFacts DEF Active, Path
<1> QED BY <1>1, <1>2 DEF Active

(* A step that changes nothing that is done leaves what is done complete.  *)
LEMMA CopiesKept ==
  ASSUME CopyInv, pc # "main", status = "running", ~lost, tree' = tree,
         \A e \in DOMAIN dst \ Active : e \in DOMAIN dst' /\ dst'[e] = dst[e]
  PROVE  /\ \A e : IsCopied(e)' <=> IsCopied(e)
         /\ \A e : e \notin Active /\ IsCopy(e) => IsCopy(e)'
         /\ \A d, S : Children(d)' = Children(d)
         /\ \A d, S : Active \subseteq S /\ ChildrenDone(d, S) => ChildrenDone(d, S)'
         /\ \A e \in DOMAIN dst \ Active : IsCopy(e)' /\ ChildrenDone(e, {})'
<1>1. /\ \A e : IsCopied(e)' <=> IsCopied(e)
      /\ \A d, S : Children(d)' = Children(d)
  BY DEF IsCopied, Children
<1>2. \A e : e \notin Active /\ IsCopy(e) => IsCopy(e)'
  BY DEF IsCopy, Contents
<1>3. ASSUME NEW d, NEW S, Active \subseteq S, ChildrenDone(d, S)
      PROVE  ChildrenDone(d, S)'
  BY <1>1, <1>2, <1>3 DEF ChildrenDone
<1>4. ASSUME NEW e \in DOMAIN dst \ Active
      PROVE  IsCopy(e)' /\ ChildrenDone(e, {})'
  <2>1. IsCopy(e) /\ ChildrenDone(e, {})
    BY DEF CopyInv, DoneInv
  <2>2. \A c \in Children(e) : c \notin Active
    BY AboveActive DEF Children
  <2> QED BY <1>1, <1>2, <2>1, <2>2 DEF ChildrenDone
<1> QED BY <1>1, <1>2, <1>3, <1>4

LEMMA DoneKept ==
  ASSUME CopyInv, pc # "main", status = "running", tree' = tree, lost => lost',
         \A e \in DOMAIN dst \ Active : e \in DOMAIN dst' /\ dst'[e] = dst[e],
         DOMAIN dst' \ Active' \subseteq DOMAIN dst \ Active,
         \A n \in 1..Len(stack') : \E m \in 1..Len(stack) :
           /\ stack'[n].dir = stack[m].dir
           /\ \A c \in Entry : IsCopied(c) /\ c \in stack[m].rest \cup Active =>
                                 c \in stack'[n].rest \cup Active'
  PROVE  DoneInv'
<1> SUFFICES ASSUME ~lost'
             PROVE  /\ \A e \in DOMAIN dst' \ Active' : IsCopy(e)' /\ ChildrenDone(e, {})'
                    /\ \A n \in 1..Len(stack') :
                         ChildrenDone(stack[n].dir, stack[n].rest \cup Active)'
  BY DEF DoneInv
<1>1. \A e \in DOMAIN dst' \ Active' : IsCopy(e)' /\ ChildrenDone(e, {})'
  BY CopiesKept
<1>2. ASSUME NEW n \in 1..Len(stack')
      PROVE  ChildrenDone(stack[n].dir, stack[n].rest \cup Active)'
  <2>1. PICK m \in 1..Len(stack) :
           /\ stack'[n].dir = stack[m].dir
           /\ \A c \in Entry : IsCopied(c) /\ c \in stack[m].rest \cup Active =>
                                 c \in stack'[n].rest \cup Active'
    OBVIOUS
  <2>2. PICK d, S : d = stack[m].dir /\ S = stack[m].rest \cup Active
    OBVIOUS
  <2>3. ChildrenDone(d, S)
    BY <2>2 DEF CopyInv, DoneInv
  <2>4. ChildrenDone(d, S)' /\ (\A e : IsCopied(e)' <=> IsCopied(e)) /\ Children(d)' = Children(d)
    BY <2>2, <2>3, CopiesKept
  <2>5. \A c \in Children(d) : IsCopied(c) /\ c \notin stack'[n].rest \cup Active' => c \notin S
    BY <2>1, <2>2 DEF Children
  <2>6. Children(stack[n].dir)' = Children(d)
    BY <2>1, <2>2 DEF Children
  <2>7. \A c \in Children(d) : IsCopied(c) /\ c \notin S => IsCopy(c)'
    BY <2>4 DEF ChildrenDone
  <2> QED BY <2>4, <2>5, <2>6, <2>7 DEF ChildrenDone
<1> QED BY <1>1, <1>2

-----------------------------------------------------------------------------
(* The invariant holds initially. *)
LEMMA InitCopyInv == Init => CopyInv
<1> SUFFICES ASSUME Init PROVE CopyInv
  OBVIOUS
<1>1. IsTree(tree) /\ Root \in Entry /\ tree.size[Root] \in Nat
  BY TreesAssumption DEF Init, IsTree
<1>2. /\ DOMAIN dst \subseteq Entry
      /\ dst \in [DOMAIN dst -> [mode : SUBSET Bits, bytes : Seq(Nat)]]
  <2>1. Made(Bits) \in [mode : SUBSET Bits, bytes : Seq(Nat)]
    BY EmptySeq DEF Made
  <2>2. CASE dst = [e \in {} |-> Made({})]
    BY <2>2
  <2>3. CASE dst = [e \in {Root} |-> Made(Bits)]
    BY <1>1, <2>1, <2>3
  <2> QED BY <2>2, <2>3 DEF Init
<1>3. CopyTypeOK
  <2>1. <<>> \in Seq([dir : Entry, rest : SUBSET Entry]) /\ <<>> \in Seq(Nat) /\ Len(<<>>) = 0
    BY EmptySeq
  <2>2. stack \in Seq([dir : Entry, rest : SUBSET Entry]) /\ buf \in Seq(Nat) /\ Len(buf) = 0
    BY <2>1 DEF Init
  <2>3. Len(buf) <= BufSize /\ offset \in 0..tree.size[entry] /\ entry \in Entry
    BY <1>1, <2>2, LimitsAssumption DEF Init
  <2> QED BY <1>1, <1>2, <2>2, <2>3 DEF Init, CopyTypeOK
<1> QED BY <1>3 DEF Init, CopyInv, NothingDone, ReturnInv, FailsExplained

(* What the failure of a system call leaves.  One that fails although no   *)
(* call fails by itself has one of the reasons that FailsExplained names.  *)
Explained ==
  \/ pc = "main"
  \/ "w" \in Umask
  \/ "w" \notin tree.mode[Root]
  \/ Cardinality({e \in Entry : tree.kind[e] = "dir"}) + 1 >= OpenMax

LEMMA SysErrorKeeps ==
  ASSUME CopyInv, status = "running", SysError, UNCHANGED dst, reliable => Explained
  PROVE  CopyInv'
<1>1. /\ status' = "1"
      /\ UNCHANGED <<tree, reliable, stack, entry, pc, buf, offset, opened, lost>>
      /\ UNCHANGED <<tree, reliable, stack, entry, pc, buf, offset, opened, lost, dst>>
  BY DEF SysError
<1>2. CopyTypeOK'
  BY <1>1 DEF CopyInv, CopyTypeOK
<1>3. NothingDone => NothingDone'
  BY <1>1 DEF NothingDone, Made
<1>4. MadeInv /\ StackInv => MadeInv' /\ StackInv'
  BY <1>1 DEF MadeInv, StackInv, IsCopied, Made, Children
<1>5. pc # "main" => DoneInv'
  <2>1. Active' = Active
    BY <1>1 DEF Active, Path
  <2> QED BY <1>1, <2>1, DoneKept
<1>6. (reliable => ~lost)' /\ (pc \notin {"read", "write"} => offset = 0)'
  BY <1>1 DEF CopyInv
<1>7. ReturnInv' /\ FailsExplained'
  BY <1>1 DEF ReturnInv, FailsExplained, Explained
<1>8. ~(status' = "running")
  BY <1>1
<1> QED BY <1>1, <1>2, <1>3, <1>4, <1>5, <1>6, <1>7, <1>8 DEF CopyInv

(* No more directories are open than there are. *)
LEMMA OpenedAreDirectories ==
  ASSUME CopyInv, pc # "main"
  PROVE  /\ Cardinality(opened) \in Nat
         /\ Cardinality({e \in Entry : tree.kind[e] = "dir"}) \in Nat
         /\ Cardinality(opened) <= Cardinality({e \in Entry : tree.kind[e] = "dir"})
<1> DEFINE dirs == {e \in Entry : tree.kind[e] = "dir"}
<1>1. IsFiniteSet(dirs) /\ Cardinality(dirs) \in Nat
  BY TreeFacts, FS_Subset, FS_CardinalityType DEF CopyInv
<1>2. opened \in SUBSET dirs
  BY TreeFacts DEF CopyInv, MadeInv
<1>3. IsFiniteSet(opened) /\ Cardinality(opened) <= Cardinality(dirs)
  BY <1>1, <1>2, FS_Subset
<1> QED BY <1>1, <1>3, FS_CardinalityType

(* A directory that mkdir made has the permissions that it gave to it,     *)
(* until the program is done with it.                                      *)
LEMMA TopWritable ==
  ASSUME CopyInv, pc # "main", status = "running", AtChild, ~Writable(tree.up[entry])
  PROVE  Explained
<1>1. tree.up[entry] = Top.dir /\ Top = stack[Len(stack)] /\ Len(stack) \in 1..Len(stack)
  BY StackFacts DEF AtChild, Children, CopyInv
<1>2. Top.dir = Root \/ dst[Top.dir].mode = Bits \ Umask
  BY <1>1 DEF CopyInv, StackInv
<1>3. dst[Root].mode = tree.mode[Root] \ Umask
  BY DEF CopyInv, MadeInv, Made
<1>4. "w" \in Bits
  BY LimitsAssumption
<1> QED BY <1>1, <1>2, <1>3, <1>4 DEF Writable, Explained

LEMMA MainKeeps ==
  ASSUME CopyInv, Main
  PROVE  CopyInv'
<1>1. pc = "main" /\ status = "running" /\ NothingDone /\ CopyTypeOK
  BY DEF CopyInv, Main, At
<1>2. CASE SysError /\ UNCHANGED dst
  BY <1>1, <1>2, SysErrorKeeps DEF Explained
<1>3. CASE /\ Root \notin DOMAIN dst
           /\ dst' = [e \in {Root} |-> Made(tree.mode[Root] \ Umask)]
           /\ pc' = "opendir"
           /\ UNCHANGED <<tree, reliable, stack, entry, buf, offset, opened, lost, status>>
  <2>1. DOMAIN dst' = {Root} /\ dst'[Root] = Made(tree.mode[Root] \ Umask)
    BY <1>3
  <2>2. Made(tree.mode[Root] \ Umask) \in [mode : SUBSET Bits, bytes : Seq(Nat)]
    BY <1>1, TreeFacts, EmptySeq DEF Made
  <2>3. /\ DOMAIN dst' \subseteq Entry
        /\ dst' \in [DOMAIN dst' -> [mode : SUBSET Bits, bytes : Seq(Nat)]]
    BY <1>1, <1>3, <2>1, <2>2, TreeFacts
  <2>4. CopyTypeOK'
    BY <1>1, <1>3, <2>3 DEF CopyTypeOK
  <2>5. stack' = <<>> /\ entry' = Root /\ opened' = {} /\ Len(stack') = 0
    BY <1>1, <1>3 DEF NothingDone
  <2>6. MadeInv'
    BY <1>1, <1>3, <2>1, <2>5, TreeFacts DEF MadeInv, Made, IsCopied
  <2>7. StackInv'
    BY <2>5 DEF StackInv
  <2>8. DoneInv'
    BY <2>1, <2>5 DEF DoneInv, Active
  <2>9. EntryInv'
    BY <1>1, <1>3, <2>1, <2>5, TreeFacts DEF EntryInv
  <2> QED BY <1>1, <1>3, <2>4, <2>6, <2>7, <2>8, <2>9
          DEF CopyInv, ReturnInv, FailsExplained
<1> QED BY <1>2, <1>3 DEF Main

LEMMA OpenDirKeeps ==
  ASSUME CopyInv, OpenDir
  PROVE  CopyInv'
<1>1. /\ pc = "opendir" /\ status = "running" /\ pc # "main"
      /\ CopyTypeOK /\ EntryInv /\ MadeInv /\ StackInv
  BY DEF CopyInv, OpenDir, At
<1>2. CASE (~reliable \/ Cardinality(opened) >= OpenMax) /\ SysError /\ UNCHANGED dst
  <2>1. reliable => Explained
    BY <1>1, <1>2, OpenedAreDirectories, LimitsAssumption DEF Explained
  <2> QED BY <1>1, <1>2, <2>1, SysErrorKeeps
<1>3. CASE /\ stack' = Append(stack, [dir |-> entry, rest |-> Children(entry)])
           /\ opened' = opened \cup {entry}
           /\ pc' = "readdir"
           /\ UNCHANGED <<tree, reliable, dst, entry, buf, offset, lost, status>>
  <2> DEFINE f == [dir |-> entry, rest |-> Children(entry)]
             l == Len(stack)
  <2>1. f \in Frame /\ f.dir = entry /\ f.rest = Children(entry)
    BY <1>1, TreeFacts DEF Frame
  <2>2. stack \in Seq(Frame) /\ l \in Nat
    BY <1>1, StackFacts
  <2> HIDE DEF f
  <2>3. /\ stack' \in Seq(Frame)
        /\ Len(stack') = l + 1
        /\ \A n \in 1..l : stack'[n] = stack[n]
        /\ stack'[l + 1] = f
    BY <1>3, <2>1, <2>2, PushFrame DEF f
  <2>4. \A n \in 1..(l + 1) : n \in 1..l \/ n = l + 1
    BY <2>2
  <2>5. stack' # <<>>
    BY <2>2, <2>3, EmptySeq
  <2>6. Active' = Active
    BY <1>1, <1>3, <2>1, <2>2, <2>3, <2>4 DEF Active, Path
  <2>7. CopyTypeOK'
    BY <1>1, <1>3, <2>3, TreeFacts DEF CopyTypeOK, Frame
  <2>8. MadeInv'
    BY <1>1, <1>3 DEF MadeInv, EntryInv, IsCopied, Made
  <2>9. Children(entry) \cap DOMAIN dst = {}
    BY <1>1 DEF MadeInv, EntryInv, Children
  <2>10. StackInv'
    <3>1. ASSUME NEW n \in 1..(l + 1)
          PROVE  /\ stack'[n].dir \in opened'
                 /\ stack'[n].rest \subseteq Children(stack'[n].dir) \ DOMAIN dst
                 /\ n = 1 => stack'[n].dir = Root
                 /\ n > 1 => /\ stack'[n].dir \in Children(stack'[n - 1].dir)
                             /\ dst[stack'[n].dir].mode = Bits \ Umask
      <4>1. CASE n \in 1..l
        <5>1. stack'[n] = stack[n] /\ (n > 1 => stack'[n - 1] = stack[n - 1])
          BY <2>2, <2>3, <4>1
        <5> QED BY <1>1, <1>3, <4>1, <5>1 DEF StackInv
      <4>2. CASE n = l + 1
        <5>1. stack'[n] = f
          BY <2>3, <4>2
        <5>2. stack'[n].dir = entry /\ stack'[n].rest = Children(entry)
          BY <2>1, <5>1
        <5>3. n = 1 => entry = Root
          BY <1>1, <2>2, <4>2, StackFacts DEF EntryInv
        <5>4. ASSUME n > 1
              PROVE  entry \in Children(stack'[n - 1].dir) /\ dst[entry].mode = Bits \ Umask
          <6>1. l > 0 /\ l = n - 1 /\ l \in 1..l
            BY <2>2, <4>2, <5>4
          <6>2. stack # <<>> /\ Top = stack[l] /\ stack'[n - 1] = stack[l]
            BY <1>1, <2>3, <6>1, StackFacts
          <6> QED BY <1>1, <6>2 DEF EntryInv, AtChild
        <5> QED BY <1>3, <2>9, <5>2, <5>3, <5>4
      <4> QED BY <2>4, <4>1, <4>2
    <3>2. ASSUME NEW m \in 1..(l + 1), NEW n \in 1..(l + 1), stack'[m].dir = stack'[n].dir
          PROVE  m = n
      <4>1. \A k \in 1..l : stack[k].dir # entry
        BY <1>1 DEF EntryInv, StackInv
      <4> QED BY <1>1, <2>1, <2>3, <2>4, <3>2, <4>1 DEF StackInv
    <3>3. Children(Root)' = Children(Root) /\ \A d : Children(d)' = Children(d)
      BY <1>3 DEF Children
    <3> QED BY <1>3, <2>3, <3>1, <3>2 DEF StackInv, Children
  <2>11. DoneInv'
    <3>1. CASE lost
      BY <1>3, <3>1 DEF DoneInv
    <3>2. CASE ~lost
      <4>1. /\ \A e \in DOMAIN dst \ Active : IsCopy(e)' /\ ChildrenDone(e, {})'
            /\ \A d, S : Active \subseteq S /\ ChildrenDone(d, S) => ChildrenDone(d, S)'
            /\ \A d, S : Children(d)' = Children(d)
        BY <1>1, <1>3, <3>2, CopiesKept
      <4>2. ASSUME NEW n \in 1..(l + 1)
            PROVE  ChildrenDone(stack[n].dir, stack[n].rest \cup Active)'
        <5>1. CASE n \in 1..l
          <6>1. PICK d, S : d = stack[n].dir /\ S = stack[n].rest \cup Active
            OBVIOUS
          <6>2. ChildrenDone(d, S)
            <7>1. ChildrenDone(stack[n].dir, stack[n].rest \cup Active)
              BY <1>1, <3>2, <5>1 DEF CopyInv, DoneInv
            <7> QED BY <6>1, <7>1
          <6>3. ChildrenDone(d, S)'
            BY <4>1, <6>1, <6>2
          <6>4. d = stack'[n].dir /\ S = stack'[n].rest \cup Active'
            BY <2>3, <2>6, <5>1, <6>1
          <6> QED BY <6>3, <6>4
        <5>2. CASE n = l + 1
          BY <1>3, <2>1, <2>3, <5>2 DEF ChildrenDone, Children
        <5> QED BY <2>4, <5>1, <5>2
      <4> QED BY <1>3, <2>3, <2>6, <4>1, <4>2 DEF DoneInv
    <3> QED BY <3>1, <3>2
  <2>12. EntryInv'
    BY <1>3, <2>5 DEF EntryInv
  <2> QED BY <1>1, <1>3, <2>7, <2>8, <2>10, <2>11, <2>12 DEF CopyInv, ReturnInv, FailsExplained
<1> QED BY <1>2, <1>3 DEF OpenDir

LEMMA ReadDirKeeps ==
  ASSUME CopyInv, ReadDir
  PROVE  CopyInv'
<1>1. /\ pc = "readdir" /\ status = "running" /\ pc # "main"
      /\ CopyTypeOK /\ EntryInv /\ MadeInv /\ StackInv /\ offset = 0 /\ stack # <<>>
      /\ (reliable => ~lost)
  BY DEF CopyInv, ReadDir, At, EntryInv
<1>2. /\ stack \in Seq(Frame) /\ Len(stack) \in 1..Len(stack) /\ Len(stack) \in Nat
      /\ Top = stack[Len(stack)] /\ Top.dir \in Entry /\ Top.rest \in SUBSET Entry
  BY <1>1, StackFacts
<1> DEFINE l == Len(stack)
<1>3. CASE ~reliable /\ SysError /\ UNCHANGED dst
  BY <1>1, <1>3, SysErrorKeeps
<1>4. CASE /\ \E e \in Top.rest :
                /\ entry' = e
                /\ stack' = [stack EXCEPT ![Len(stack)].rest = @ \ {e}]
           /\ pc' = "stat"
           /\ UNCHANGED <<tree, reliable, dst, buf, offset, opened, lost, status>>
  <2>1. PICK e \in Top.rest : /\ entry' = e
                              /\ stack' = [stack EXCEPT ![Len(stack)].rest = @ \ {e}]
    BY <1>4
  <2>2. /\ stack' \in Seq(Frame)
        /\ Len(stack') = l
        /\ \A n \in 1..l : stack'[n].dir = stack[n].dir
        /\ \A n \in 1..l : stack'[n].rest = IF n = l THEN stack[n].rest \ {e} ELSE stack[n].rest
    <3>1. stack \in Seq(Frame) /\ stack # <<>>
      BY <1>1, <1>2
    <3>2. stack' = [stack EXCEPT ![Len(stack)].rest = @ \ {e}]
      BY <2>1
    <3> DEFINE f == [stack[Len(stack)] EXCEPT !.rest = @ \ {e}]
    <3>3. stack[Len(stack)] \in Frame
      BY <1>2, ElementOfSeq
    <3>4. f \in Frame /\ f.dir = stack[l].dir /\ f.rest = stack[l].rest \ {e}
      BY <3>3 DEF Frame
    <3>5. stack' = [stack EXCEPT ![Len(stack)] = f]
      BY <3>2
    <3> HIDE DEF f
    <3>6. /\ stack' \in Seq(Frame)
          /\ Len(stack') = l
          /\ \A n \in 1..l : stack'[n] = IF n = l THEN f ELSE stack[n]
      BY <3>1, <3>4, <3>5, ReplaceTop
    <3>7. \A n \in 1..l : stack'[n].dir = stack[n].dir
      BY <3>4, <3>6
    <3>8. ASSUME NEW n \in 1..l
          PROVE  stack'[n].rest = IF n = l THEN stack[n].rest \ {e} ELSE stack[n].rest
      <4>1. CASE n = l
        BY <3>4, <3>6, <4>1
      <4>2. CASE n # l
        BY <3>6, <4>2
      <4> QED BY <4>1, <4>2
    <3> QED BY <3>6, <3>7, <3>8
  <2>3. /\ e \in Children(Top.dir) /\ e \notin DOMAIN dst /\ e \in Entry
        /\ Top.rest \subseteq Children(Top.dir) \ DOMAIN dst
    BY <1>1, <1>2, <2>1 DEF StackInv
  <2>4. stack' # <<>> /\ Top' = stack'[l] /\ l \in 1..l
    BY <1>2, <2>2, EmptySeq DEF Top
  <2>5. Path' = Path
    BY <2>2 DEF Path
  <2>6. CopyTypeOK'
    <3>1. stack' \in Seq([dir : Entry, rest : SUBSET Entry]) /\ entry' \in Entry
      BY <2>1, <2>2, <2>3 DEF Frame
    <3>2. offset' \in 0..tree'.size[entry']
      BY <1>1, <1>4, <3>1, TreeFacts
    <3> QED BY <1>1, <1>4, <3>1, <3>2 DEF CopyTypeOK
  <2>7. MadeInv'
    BY <1>1, <1>4 DEF MadeInv, IsCopied, Made
  <2>8. StackInv'
    <3>1. ASSUME NEW n \in 1..l
          PROVE  /\ stack'[n].dir \in opened
                 /\ stack'[n].rest \subseteq Children(stack'[n].dir) \ DOMAIN dst
                 /\ n = 1 => stack'[n].dir = Root
                 /\ n > 1 => /\ stack'[n].dir \in Children(stack'[n - 1].dir)
                             /\ dst[stack'[n].dir].mode = Bits \ Umask
      <4>1. n > 1 => n - 1 \in 1..l
        BY <1>2
      <4>2. stack'[n].rest \subseteq stack[n].rest
        BY <2>2
      <4> QED BY <1>1, <2>2, <4>1, <4>2 DEF StackInv
    <3>2. \A m, n \in 1..l : stack'[m].dir = stack'[n].dir => m = n
      BY <1>1, <2>2 DEF StackInv
    <3>3. \A d : Children(d)' = Children(d)
      BY <1>4 DEF Children
    <3> QED BY <1>4, <2>2, <3>1, <3>2 DEF StackInv, Children
  <2>9. DoneInv'
    <3>1. Active = {Root} \cup Path /\ Active' = {Root} \cup Path \cup {e}
      BY <1>1, <1>4, <2>1, <2>5 DEF Active
    <3>2. ASSUME NEW n \in 1..l
          PROVE  \E m \in 1..l :
                   /\ stack'[n].dir = stack[m].dir
                   /\ \A c \in Entry : IsCopied(c) /\ c \in stack[m].rest \cup Active =>
                                         c \in stack'[n].rest \cup Active'
      BY <2>2, <3>1
    <3> QED BY <1>1, <1>4, <2>2, <3>1, <3>2, DoneKept
  <2>10. AtChild'
    <3>1. Top'.dir = Top.dir /\ e \notin Top'.rest
      BY <1>2, <2>2, <2>4
    <3>2. e \in Children(Top.dir)'
      BY <1>4, <2>2, <2>3, <2>4, <3>1, <1>2 DEF Children
    <3> QED BY <2>1, <2>3, <2>4, <3>1, <1>4 DEF AtChild, Children
  <2>11. EntryInv'
    BY <1>4, <2>1, <2>3, <2>10 DEF EntryInv
  <2> QED BY <1>1, <1>4, <2>6, <2>7, <2>8, <2>9, <2>11 DEF CopyInv, ReturnInv, FailsExplained
<1>5. CASE /\ Top.rest = {}
           /\ entry' = Top.dir
           /\ stack' = SubSeq(stack, 1, Len(stack) - 1)
           /\ pc' = "chmod"
           /\ status' = IF Len(stack) = 1 THEN "0" ELSE "running"
           /\ UNCHANGED <<tree, reliable, dst, buf, offset, opened, lost>>
  <2>1. /\ stack' \in Seq(Frame)
        /\ Len(stack') = l - 1
        /\ \A n \in 1..(l - 1) : stack'[n] = stack[n]
        /\ l = 1 <=> stack' = <<>>
    BY <1>1, <1>2, <1>5, PopFrame
  <2>2. \A n \in 1..l : n \in 1..(l - 1) \/ n = l
    BY <1>2
  <2>3. \A n \in 1..(l - 1) : n \in 1..l /\ n # l
    BY <1>2
  <2>4. Path = Path' \cup {Top.dir} /\ Top.dir \notin Path'
    <3>1. \A n \in 1..(l - 1) : stack[n].dir # Top.dir
      BY <1>1, <1>2, <2>3 DEF StackInv
    <3>2. Path' = {stack[n].dir : n \in 1..(l - 1)}
      BY <2>1 DEF Path
    <3> QED BY <1>2, <2>2, <2>3, <3>1, <3>2 DEF Path
  <2>5. Active' = Active
    BY <1>1, <1>5, <2>4 DEF Active
  <2>6. CopyTypeOK'
    <3>1. stack' \in Seq([dir : Entry, rest : SUBSET Entry]) /\ entry' \in Entry
      BY <1>2, <1>5, <2>1 DEF Frame
    <3>2. offset' \in 0..tree'.size[entry']
      BY <1>1, <1>5, <3>1, TreeFacts
    <3>3. pc' \in {"main", "opendir", "readdir", "stat", "mkdir", "chmod", "open", "read", "write"}
          /\ status' \in {"running", "0", "1"}
      BY <1>5
    <3> QED BY <1>1, <1>5, <3>1, <3>2, <3>3 DEF CopyTypeOK
  <2>7. MadeInv'
    BY <1>1, <1>5 DEF MadeInv, IsCopied, Made
  <2>8. StackInv'
    <3>1. ASSUME NEW n \in 1..(l - 1)
          PROVE  /\ stack'[n].dir \in opened
                 /\ stack'[n].rest \subseteq Children(stack'[n].dir) \ DOMAIN dst
                 /\ n = 1 => stack'[n].dir = Root
                 /\ n > 1 => /\ stack'[n].dir \in Children(stack'[n - 1].dir)
                             /\ dst[stack'[n].dir].mode = Bits \ Umask
      <4>1. n > 1 => n - 1 \in 1..(l - 1)
        BY <1>2
      <4>2. stack'[n] = stack[n] /\ n \in 1..l /\ (n > 1 => stack'[n - 1] = stack[n - 1])
        BY <2>1, <2>3, <4>1
      <4> QED BY <1>1, <4>2 DEF StackInv
    <3>2. \A m, n \in 1..(l - 1) : stack'[m].dir = stack'[n].dir => m = n
      BY <1>1, <2>1, <2>3 DEF StackInv
    <3> QED BY <1>5, <2>1, <3>1, <3>2 DEF StackInv, Children
  <2>9. DoneInv'
    <3>1. ASSUME NEW n \in 1..(l - 1)
          PROVE  \E m \in 1..l :
                   /\ stack'[n].dir = stack[m].dir
                   /\ \A c \in Entry : IsCopied(c) /\ c \in stack[m].rest \cup Active =>
                                         c \in stack'[n].rest \cup Active'
      BY <2>1, <2>3, <2>5
    <3> QED BY <1>1, <1>5, <2>1, <2>5, <3>1, DoneKept
  <2>10. lost \/ ChildrenDone(Top.dir, {})
    <3>1. SUFFICES ASSUME ~lost, NEW c \in Children(Top.dir), IsCopied(c)
                   PROVE  IsCopy(c)
      BY DEF ChildrenDone
    <3>2. c \in Entry /\ c # Root /\ tree.up[c] = Top.dir
      BY <1>1, TreeFacts
    <3>3. c \notin Path
      <4>1. SUFFICES ASSUME NEW n \in 1..l, c = stack[n].dir PROVE FALSE
        BY DEF Path
      <4>2. n > 1 /\ n - 1 \in 1..l /\ n - 1 # l /\ c \in Children(stack[n - 1].dir)
        BY <1>1, <1>2, <3>2, <4>1 DEF StackInv
      <4>3. stack[n - 1].dir = stack[l].dir
        BY <1>2, <3>2, <4>2 DEF Children
      <4> QED BY <1>1, <1>2, <4>2, <4>3 DEF StackInv
    <3>4. c \notin Active
      BY <1>1, <3>2, <3>3 DEF Active
    <3>5. ChildrenDone(stack[l].dir, stack[l].rest \cup Active)
      BY <1>1, <1>2, <3>1 DEF CopyInv, DoneInv
    <3> QED BY <1>2, <1>5, <3>1, <3>4, <3>5 DEF ChildrenDone
  <2>11. (lost \/ ChildrenDone(Top.dir, {})) => (lost \/ ChildrenDone(entry, {}))'
    BY <1>5 DEF ChildrenDone, Children, IsCopied, IsCopy, Contents
  <2>12. CASE l = 1
    <3>1. stack' = <<>> /\ entry' = Root /\ status' = "0"
      BY <1>1, <1>2, <1>5, <2>1, <2>12 DEF StackInv
    <3>2. ReturnInv'
      <4>1. (lost \/ ChildrenDone(Root, {}))'
        BY <2>10, <2>11, <3>1 DEF ChildrenDone, Children
      <4> QED BY <1>5, <3>1, <4>1 DEF ReturnInv
    <3> QED BY <1>1, <1>5, <2>6, <2>7, <2>8, <2>9, <3>1, <3>2 DEF CopyInv, FailsExplained
  <2>13. CASE l > 1
    <3>1. status' = "running" /\ stack' # <<>>
      BY <1>2, <1>5, <2>1, <2>13
    <3>2. l - 1 \in 1..l /\ l - 1 \in 1..(l - 1) /\ Top' = stack[l - 1]
      BY <1>2, <2>1, <2>13 DEF Top
    <3>3. Top.dir \in Children(stack[l - 1].dir)
      BY <1>1, <1>2, <2>13 DEF StackInv
    <3>4. Top.dir \in DOMAIN dst
      BY <1>1, <1>2 DEF StackInv, MadeInv
    <3>5. Top.dir \notin stack[l - 1].rest /\ tree.kind[Top.dir] = "dir"
      BY <1>1, <1>2, <3>2, <3>4 DEF StackInv, MadeInv
    <3>6. AtChild'
      BY <1>5, <3>1, <3>2, <3>3, <3>5 DEF AtChild, Children
    <3>7. EntryInv'
      <4>1. (lost \/ (tree.kind[entry] = "dir" => ChildrenDone(entry, {})))'
        BY <2>10, <2>11
      <4> QED BY <1>5, <2>4, <3>4, <3>5, <3>6, <4>1 DEF EntryInv
    <3> QED BY <1>1, <1>5, <2>6, <2>7, <2>8, <2>9, <3>1, <3>7
            DEF CopyInv, ReturnInv, FailsExplained
  <2>14. l = 1 \/ l > 1
    <3>1. PICK n \in Nat : n = Len(stack) /\ n \in 1..n
      BY <1>2
    <3>2. n = 1 \/ n > 1
      BY <3>1
    <3> QED BY <3>1, <3>2
  <2> QED BY <2>12, <2>13, <2>14
<1> QED BY <1>3, <1>4, <1>5 DEF ReadDir

LEMMA StatKeeps ==
  ASSUME CopyInv, Stat
  PROVE  CopyInv'
<1>1. /\ pc = "stat" /\ status = "running" /\ pc # "main"
      /\ CopyTypeOK /\ EntryInv /\ MadeInv /\ StackInv /\ AtChild /\ entry \notin DOMAIN dst
      /\ offset = 0 /\ (reliable => ~lost) /\ stack # <<>>
  BY DEF CopyInv, Stat, At, EntryInv, AtChild
<1>2. CASE ~reliable /\ SysError /\ UNCHANGED dst
  BY <1>1, <1>2, SysErrorKeeps
<1>3. CASE /\ pc' = CASE tree.kind[entry] = "file"  -> "open"
                     [] tree.kind[entry] = "dir"   -> "mkdir"
                     [] tree.kind[entry] = "other" -> "readdir"
           /\ UNCHANGED <<tree, reliable, dst, stack, entry, buf, offset, opened, lost, status>>
  <2>1. /\ pc' \in {"open", "mkdir", "readdir"}
        /\ pc' = "open" => tree.kind[entry] = "file"
        /\ pc' = "mkdir" => tree.kind[entry] = "dir"
        /\ pc' = "readdir" => tree.kind[entry] = "other"
    <3>1. tree.kind[entry] \in {"dir", "file", "other"}
      BY <1>1, TreeFacts
    <3> QED BY <1>3, <3>1
  <2>2. CopyTypeOK'
    BY <1>1, <1>3, <2>1 DEF CopyTypeOK
  <2>3. MadeInv'
    BY <1>1, <1>3 DEF MadeInv, IsCopied, Made
  <2>4. StackInv'
    BY <1>1, <1>3 DEF StackInv, Children
  <2>5. DoneInv'
    <3>1. Path' = Path /\ Active = {Root} \cup Path \cup {entry}
      BY <1>1, <1>3 DEF Path, Active
    <3>2. Active' \subseteq Active /\ (\A c \in Active : IsCopied(c) => c \in Active')
      BY <1>3, <2>1, <3>1 DEF Active, IsCopied
    <3>3. DOMAIN dst \ Active' \subseteq DOMAIN dst \ Active
      BY <1>1, <3>2 DEF MadeInv
    <3>4. ASSUME NEW n \in 1..Len(stack)
          PROVE  \E m \in 1..Len(stack) :
                   /\ stack'[n].dir = stack[m].dir
                   /\ \A c \in Entry : IsCopied(c) /\ c \in stack[m].rest \cup Active =>
                                         c \in stack'[n].rest \cup Active'
      BY <1>3, <3>2
    <3> QED BY <1>1, <1>3, <3>3, <3>4, DoneKept
  <2>6. AtChild'
    BY <1>1, <1>3 DEF AtChild, Children, Top
  <2>7. EntryInv'
    BY <1>1, <1>3, <2>1, <2>6 DEF EntryInv
  <2> QED BY <1>1, <1>3, <2>1, <2>2, <2>3, <2>4, <2>5, <2>7 DEF CopyInv, ReturnInv, FailsExplained
<1> QED BY <1>2, <1>3 DEF Stat

(* mkdir and open add the entry that the last call is at.                  *)
LEMMA EntryMade ==
  ASSUME CopyInv, pc \in {"mkdir", "open"}, status = "running",
         pc' \in {"open", "read", "opendir"},
         dst' = [e \in DOMAIN dst \cup {entry} |->
                   IF e = entry THEN Made(Bits \ Umask) ELSE dst[e]],
         UNCHANGED <<tree, stack, entry, opened, lost>>
  PROVE  /\ entry \in DOMAIN dst' /\ dst'[entry] = Made(Bits \ Umask)
         /\ DOMAIN dst' \subseteq Entry
         /\ dst' \in [DOMAIN dst' -> [mode : SUBSET Bits, bytes : Seq(Nat)]]
         /\ MadeInv' /\ StackInv' /\ DoneInv' /\ AtChild'
<1>1. /\ CopyTypeOK /\ MadeInv /\ StackInv /\ pc # "main" /\ pc # "readdir" /\ pc' # "readdir"
      /\ AtChild /\ entry \notin DOMAIN dst /\ tree.kind[entry] \in {"dir", "file"}
  BY DEF CopyInv, EntryInv
<1>2. /\ Top.dir \in opened /\ Top.dir = stack[Len(stack)].dir
      /\ Len(stack) \in 1..Len(stack) /\ Top = stack[Len(stack)]
      /\ entry \in Entry /\ entry # Root /\ tree.up[entry] = Top.dir /\ entry \notin Top.rest
  BY <1>1, StackFacts DEF AtChild, Children, StackInv
<1>3. /\ DOMAIN dst' = DOMAIN dst \cup {entry}
      /\ dst'[entry] = Made(Bits \ Umask)
      /\ \A e \in DOMAIN dst : dst'[e] = dst[e]
  BY <1>1
<1>4. Made(Bits \ Umask) \in [mode : SUBSET Bits, bytes : Seq(Nat)]
  BY EmptySeq DEF Made
<1>5. /\ DOMAIN dst' \subseteq Entry
      /\ dst' \in [DOMAIN dst' -> [mode : SUBSET Bits, bytes : Seq(Nat)]]
  BY <1>1, <1>2, <1>3, <1>4, TreeFacts
<1>6. MadeInv'
  <2>1. \A e \in DOMAIN dst' : e \in DOMAIN dst \/ e = entry
    BY <1>3
  <2>2. IsCopied(entry) /\ Made(Bits \ Umask).bytes = <<>>
    BY <1>1 DEF IsCopied, Made
  <2> QED BY <1>1, <1>2, <1>3, <2>1, <2>2 DEF MadeInv, IsCopied, Made
<1>7. ASSUME NEW n \in 1..Len(stack)
      PROVE  entry \notin stack[n].rest /\ stack[n].dir # entry
  <2>1. stack[n].dir \in DOMAIN dst
    BY <1>1 DEF StackInv, MadeInv
  <2>2. CASE entry \in stack[n].rest
    <3>1. tree.up[entry] = stack[n].dir
      BY <1>1, <2>2 DEF StackInv, Children
    <3>2. n = Len(stack)
      BY <1>1, <1>2, <3>1 DEF StackInv
    <3> QED BY <1>2, <2>2, <3>2
  <2> QED BY <1>1, <2>1, <2>2
<1>8. StackInv'
  <2>1. ASSUME NEW n \in 1..Len(stack)
        PROVE  /\ stack[n].dir \in opened
               /\ stack[n].rest \subseteq Children(stack[n].dir) \ DOMAIN dst'
               /\ n = 1 => stack[n].dir = Root
               /\ n > 1 => /\ stack[n].dir \in Children(stack[n - 1].dir)
                           /\ dst'[stack[n].dir].mode = Bits \ Umask
    <3>1. stack[n].dir \in DOMAIN dst
      BY <1>1 DEF StackInv, MadeInv
    <3> QED BY <1>1, <1>3, <1>7, <3>1 DEF StackInv
  <2>2. \A m, n \in 1..Len(stack) : stack[m].dir = stack[n].dir => m = n
    BY <1>1 DEF StackInv
  <2> QED BY <2>1, <2>2 DEF StackInv, Children
<1>9. DoneInv'
  <2>1. Active' = Active /\ entry \in Active
    BY <1>1 DEF Active, Path
  <2>2. DOMAIN dst' \ Active' \subseteq DOMAIN dst \ Active
    BY <1>3, <2>1
  <2> QED BY <1>1, <1>3, <2>1, <2>2, DoneKept
<1>10. AtChild'
  BY <1>1 DEF AtChild, Children, Top
<1> QED BY <1>3, <1>5, <1>6, <1>8, <1>9, <1>10

LEMMA MkDirKeeps ==
  ASSUME CopyInv, MkDir
  PROVE  CopyInv'
<1>1. /\ pc = "mkdir" /\ status = "running" /\ pc # "main"
      /\ CopyTypeOK /\ EntryInv /\ MadeInv /\ AtChild /\ entry \notin DOMAIN dst
      /\ tree.kind[entry] = "dir" /\ offset = 0 /\ (reliable => ~lost) /\ stack # <<>>
  BY DEF CopyInv, MkDir, At, EntryInv, AtChild
<1>2. CASE (~reliable \/ ~Writable(tree.up[entry])) /\ SysError /\ UNCHANGED dst
  BY <1>1, <1>2, TopWritable, SysErrorKeeps
<1>3. CASE /\ dst' = [e \in DOMAIN dst \cup {entry} |->
                        IF e = entry THEN Made(Bits \ Umask) ELSE dst[e]]
           /\ pc' = "opendir"
           /\ UNCHANGED <<tree, reliable, stack, entry, buf, offset, opened, lost, status>>
  <2>1. /\ entry \in DOMAIN dst' /\ dst'[entry] = Made(Bits \ Umask)
        /\ DOMAIN dst' \subseteq Entry
        /\ dst' \in [DOMAIN dst' -> [mode : SUBSET Bits, bytes : Seq(Nat)]]
        /\ MadeInv' /\ StackInv' /\ DoneInv' /\ AtChild'
    BY <1>1, <1>3, EntryMade
  <2>2. CopyTypeOK'
    BY <1>1, <1>3, <2>1 DEF CopyTypeOK
  <2>3. entry \notin opened
    BY <1>1 DEF MadeInv
  <2>4. EntryInv'
    BY <1>1, <1>3, <2>1, <2>3 DEF EntryInv, Made
  <2> QED BY <1>1, <1>3, <2>1, <2>2, <2>4 DEF CopyInv, ReturnInv, FailsExplained
<1> QED BY <1>2, <1>3 DEF MkDir

LEMMA OpenKeeps ==
  ASSUME CopyInv, Open
  PROVE  CopyInv'
<1>1. /\ pc = "open" /\ status = "running" /\ pc # "main"
      /\ CopyTypeOK /\ EntryInv /\ MadeInv /\ AtChild /\ entry \notin DOMAIN dst
      /\ tree.kind[entry] = "file" /\ offset = 0 /\ (reliable => ~lost) /\ stack # <<>>
  BY DEF CopyInv, Open, At, EntryInv, AtChild
<1> DEFINE made == [e \in DOMAIN dst \cup {entry} |->
                      IF e = entry THEN Made(Bits \ Umask) ELSE dst[e]]
           room == OpenMax - Cardinality(opened)
<1>2. room < 2 => Explained
  BY <1>1, OpenedAreDirectories, LimitsAssumption DEF Explained
<1>3. CASE /\ dst' = made
           /\ pc' = "read"
           /\ UNCHANGED <<tree, reliable, stack, entry, buf, offset, opened, lost, status>>
  <2>1. /\ entry \in DOMAIN dst' /\ dst'[entry] = Made(Bits \ Umask)
        /\ DOMAIN dst' \subseteq Entry
        /\ dst' \in [DOMAIN dst' -> [mode : SUBSET Bits, bytes : Seq(Nat)]]
        /\ MadeInv' /\ StackInv' /\ DoneInv' /\ AtChild'
    BY <1>1, <1>3, EntryMade
  <2>2. CopyTypeOK'
    BY <1>1, <1>3, <2>1 DEF CopyTypeOK
  <2>3. Made(Bits \ Umask).bytes = Prefix(0)
    BY DEF Made, Prefix
  <2>4. EntryInv'
    BY <1>1, <1>3, <2>1, <2>3 DEF EntryInv
  <2> QED BY <1>1, <1>3, <2>1, <2>2, <2>4 DEF CopyInv, ReturnInv, FailsExplained
<1>4. CASE /\ ~reliable \/ room < 1 \/ ~Writable(tree.up[entry])
           /\ SysError /\ UNCHANGED dst
  <2>1. room < 1 => room < 2
    BY <1>1, OpenedAreDirectories, LimitsAssumption
  <2> QED BY <1>1, <1>2, <1>4, <2>1, TopWritable, SysErrorKeeps
<1>5. CASE (~reliable \/ room = 1) /\ SysError /\ dst' = made
  <2>1. /\ status' = "1" /\ pc' = pc
        /\ UNCHANGED <<tree, reliable, stack, entry, buf, offset, opened, lost>>
    BY <1>5 DEF SysError
  <2>2. /\ DOMAIN dst' \subseteq Entry
        /\ dst' \in [DOMAIN dst' -> [mode : SUBSET Bits, bytes : Seq(Nat)]]
        /\ MadeInv' /\ StackInv' /\ DoneInv'
    BY <1>1, <1>5, <2>1, EntryMade
  <2>3. CopyTypeOK'
    BY <1>1, <2>1, <2>2 DEF CopyTypeOK
  <2>4. reliable => Explained
    BY <1>2, <1>5
  <2>5. FailsExplained'
    BY <2>1, <2>4 DEF FailsExplained, Explained
  <2> QED BY <1>1, <2>1, <2>2, <2>3, <2>5 DEF CopyInv, ReturnInv
<1> QED BY <1>3, <1>4, <1>5 DEF Open

(* Reading and writing leave all that is done as it is. *)
LEMMA ReadKeeps ==
  ASSUME CopyInv, Read
  PROVE  CopyInv'
<1>1. /\ pc = "read" /\ status = "running" /\ pc # "main"
      /\ CopyTypeOK /\ EntryInv /\ MadeInv /\ StackInv /\ AtChild /\ entry \in DOMAIN dst
      /\ tree.kind[entry] = "file" /\ (reliable => ~lost) /\ stack # <<>>
      /\ UNCHANGED <<tree, reliable, dst, stack, entry, opened, status>>
      /\ (~lost => dst[entry].bytes = Prefix(offset))
  BY DEF CopyInv, Read, At, EntryInv, AtChild
<1>2. MadeInv' /\ StackInv' /\ AtChild'
  <2>1. MadeInv'
    BY <1>1 DEF MadeInv, IsCopied, Made
  <2>2. StackInv'
    BY <1>1 DEF StackInv, Children
  <2> QED BY <1>1, <2>1, <2>2 DEF AtChild, Children, Top
<1>3. offset \in Nat /\ tree.size[entry] \in Nat /\ offset <= tree.size[entry]
  <2>1. tree.size[entry] \in Nat
    BY <1>1, TreeFacts
  <2> QED BY <1>1, <2>1 DEF CopyTypeOK
<1>4. ASSUME pc' \in {"write", "chmod"}, lost => lost' PROVE DoneInv'
  <2>1. Active' = Active
    BY <1>1, <1>4 DEF Active, Path
  <2> QED BY <1>1, <1>4, <2>1, DoneKept
<1>5. CASE /\ \E k \in 1..(tree.size[entry] - offset) :
                /\ k <= BufSize
                /\ buf' = SubSeq(Contents(entry), offset + 1, offset + k)
                /\ offset' = offset + k
           /\ pc' = "write"
           /\ UNCHANGED lost
  <2>1. PICK k \in 1..(tree.size[entry] - offset) :
                /\ k <= BufSize
                /\ buf' = SubSeq(Contents(entry), offset + 1, offset + k)
                /\ offset' = offset + k
    BY <1>5
  <2>2. k \in Nat /\ offset + k <= tree.size[entry] /\ offset + k \in 0..tree.size[entry]
    BY <1>3, <2>1
  <2>3. /\ buf' \in Seq(Nat)
        /\ Len(buf') = k
        /\ Prefix(offset) \o buf' = Prefix(offset')
    BY <1>3, <2>1, <2>2, NextPart
  <2>4. CopyTypeOK'
    <3>1. Len(buf') <= BufSize /\ offset' \in 0..tree'.size[entry']
      BY <1>1, <2>1, <2>2, <2>3
    <3> QED BY <1>1, <1>5, <2>3, <3>1 DEF CopyTypeOK
  <2>5. EntryInv'
    BY <1>1, <1>2, <1>5, <2>3 DEF EntryInv
  <2> QED BY <1>1, <1>2, <1>4, <1>5, <2>4, <2>5 DEF CopyInv, ReturnInv, FailsExplained
<1>6. CASE /\ \/ offset = tree.size[entry] /\ UNCHANGED lost
              \/ ~reliable /\ lost' = TRUE
           /\ pc' = "chmod" /\ offset' = 0
           /\ UNCHANGED buf
  <2>1. (lost => lost') /\ lost' \in BOOLEAN /\ (reliable => ~lost')
    <3>1. lost \in BOOLEAN
      BY <1>1 DEF CopyTypeOK
    <3>2. CASE UNCHANGED lost
      BY <1>1, <3>1, <3>2
    <3>3. CASE ~reliable /\ lost' = TRUE
      BY <3>3
    <3> QED BY <1>6, <3>2, <3>3
  <2>2. CopyTypeOK'
    <3>1. offset' \in 0..tree'.size[entry']
      BY <1>1, <1>3, <1>6
    <3>2. pc' \in {"main", "opendir", "readdir", "stat", "mkdir", "chmod", "open", "read", "write"}
      BY <1>6
    <3> QED BY <1>1, <1>6, <2>1, <3>1, <3>2 DEF CopyTypeOK
  <2>3. lost' \/ dst[entry].bytes = Contents(entry)
    BY <1>1, <1>6, <2>1 DEF Contents, Prefix
  <2>4. entry \notin Path
    BY <1>1 DEF Path, StackInv, MadeInv
  <2>5. EntryInv'
    BY <1>1, <1>2, <1>6, <2>3, <2>4 DEF EntryInv, Path, Contents
  <2> QED BY <1>1, <1>2, <1>4, <1>6, <2>1, <2>2, <2>5 DEF CopyInv, ReturnInv, FailsExplained
<1> QED BY <1>5, <1>6 DEF Read

LEMMA WriteKeeps ==
  ASSUME CopyInv, Write
  PROVE  CopyInv'
<1>1. /\ pc = "write" /\ status = "running" /\ pc # "main"
      /\ CopyTypeOK /\ EntryInv /\ MadeInv /\ StackInv /\ AtChild /\ entry \in DOMAIN dst
      /\ tree.kind[entry] = "file" /\ (reliable => ~lost) /\ stack # <<>>
      /\ buf' = <<>> /\ pc' = "read"
      /\ UNCHANGED <<tree, reliable, stack, entry, offset, opened, status>>
      /\ (~lost => dst[entry].bytes \o buf = Prefix(offset))
  BY DEF CopyInv, Write, At, EntryInv, AtChild
<1>2. PICK k \in 0..Len(buf) :
        /\ reliable => k = Len(buf)
        /\ dst' = [dst EXCEPT ![entry].bytes = @ \o SubSeq(buf, 1, k)]
        /\ lost' = (lost \/ k < Len(buf))
  BY DEF Write
<1>3. buf \in Seq(Nat) /\ Len(buf) \in Nat /\ k \in Nat /\ k <= Len(buf)
  <2>1. buf \in Seq(Nat) /\ Len(buf) \in Nat
    BY <1>1, LenProperties DEF CopyTypeOK
  <2> QED BY <2>1
<1>4. SubSeq(buf, 1, k) \in Seq(Nat)
  <2>1. \A j \in 1..k : buf[j] \in Nat
    BY <1>3, ElementOfSeq
  <2> QED BY <1>3, <2>1, SubSeqProperties
<1> DEFINE new == dst[entry].bytes \o SubSeq(buf, 1, k)
<1>5. dst[entry] \in [mode : SUBSET Bits, bytes : Seq(Nat)] /\ entry \in Entry
  BY <1>1, TreeFacts
<1>6. new \in Seq(Nat)
  BY <1>4, <1>5, ConcatProperties
<1>7. /\ DOMAIN dst' = DOMAIN dst
      /\ \A e \in DOMAIN dst : e # entry => dst'[e] = dst[e]
      /\ dst'[entry] = [dst[entry] EXCEPT !.bytes = new]
  BY <1>1, <1>2
<1> HIDE DEF new
<1>8. dst'[entry].bytes = new /\ dst'[entry] \in [mode : SUBSET Bits, bytes : Seq(Nat)]
  BY <1>5, <1>6, <1>7
<1>9. dst' \in [DOMAIN dst' -> [mode : SUBSET Bits, bytes : Seq(Nat)]]
  <2>1. \A e \in DOMAIN dst' : dst'[e] \in [mode : SUBSET Bits, bytes : Seq(Nat)]
    BY <1>1, <1>7, <1>8, TreeFacts
  <2>2. dst' = [e \in DOMAIN dst' |-> dst'[e]]
    BY <1>1, <1>2 DEF CopyTypeOK
  <2> QED BY <2>1, <2>2
<1>10. lost' \in BOOLEAN /\ (lost => lost') /\ (reliable => ~lost')
  BY <1>1, <1>2, <1>3 DEF CopyTypeOK
<1>11. CopyTypeOK'
  <2>1. Len(buf') <= BufSize /\ buf' \in Seq(Nat)
    BY <1>1, EmptySeq, LimitsAssumption
  <2> QED BY <1>1, <1>7, <1>9, <1>10, <2>1 DEF CopyTypeOK
<1>12. MadeInv'
  <2>1. entry # Root
    BY <1>1 DEF AtChild, Children
  <2>2. dst'[Root] = dst[Root] /\ Root \in DOMAIN dst'
    BY <1>1, <1>7, <2>1 DEF MadeInv
  <2>3. \A e \in DOMAIN dst' : tree.kind[e] = "dir" => dst'[e].bytes = <<>>
    BY <1>1, <1>7 DEF MadeInv
  <2> QED BY <1>1, <1>7, <2>2, <2>3 DEF MadeInv, IsCopied, Made
<1>13. StackInv'
  <2>1. ASSUME NEW n \in 1..Len(stack)
        PROVE  stack[n].dir \in DOMAIN dst /\ stack[n].dir # entry
    BY <1>1 DEF StackInv, MadeInv
  <2>2. ASSUME NEW n \in 1..Len(stack)
        PROVE  /\ stack[n].dir \in opened
               /\ stack[n].rest \subseteq Children(stack[n].dir) \ DOMAIN dst'
               /\ n = 1 => stack[n].dir = Root
               /\ n > 1 => /\ stack[n].dir \in Children(stack[n - 1].dir)
                           /\ dst'[stack[n].dir].mode = Bits \ Umask
    BY <1>1, <1>7, <2>1 DEF StackInv
  <2>3. \A m, n \in 1..Len(stack) : stack[m].dir = stack[n].dir => m = n
    BY <1>1 DEF StackInv
  <2> QED BY <1>1, <2>2, <2>3 DEF StackInv, Children
<1>14. DoneInv'
  <2>1. Active' = Active /\ entry \in Active
    BY <1>1 DEF Active, Path
  <2> QED BY <1>1, <1>7, <1>10, <2>1, DoneKept
<1>15. ~lost' => new = Prefix(offset)
  <2>1. SUFFICES ASSUME ~lost' PROVE new = Prefix(offset)
    OBVIOUS
  <2>2. ~lost /\ k = Len(buf)
    <3>1. ~lost /\ ~(k < Len(buf))
      BY <1>2, <2>1
    <3> QED BY <1>3, <3>1
  <2>3. SubSeq(buf, 1, k) = buf
    BY <1>3, <2>2, SubSeqFull
  <2> QED BY <1>1, <2>2, <2>3 DEF new
<1>16. AtChild'
  BY <1>1 DEF AtChild, Children, Top
<1>17. EntryInv'
  BY <1>1, <1>7, <1>8, <1>15, <1>16 DEF EntryInv, Prefix
<1> QED BY <1>1, <1>10, <1>11, <1>12, <1>13, <1>14, <1>17 DEF CopyInv, ReturnInv, FailsExplained

LEMMA ChmodKeeps ==
  ASSUME CopyInv, Chmod
  PROVE  CopyInv'
<1>1. /\ pc = "chmod" /\ status = "running" /\ pc # "main" /\ pc # "readdir"
      /\ CopyTypeOK /\ EntryInv /\ MadeInv /\ StackInv /\ AtChild
      /\ entry \in DOMAIN dst \ Path /\ offset = 0 /\ (reliable => ~lost) /\ stack # <<>>
      /\ lost \/ /\ tree.kind[entry] = "file" => dst[entry].bytes = Contents(entry)
                 /\ tree.kind[entry] = "dir" => ChildrenDone(entry, {})
  BY DEF CopyInv, Chmod, At, EntryInv, AtChild
<1>2. CASE ~reliable /\ SysError /\ UNCHANGED dst
  BY <1>1, <1>2, SysErrorKeeps
<1>3. CASE /\ dst' = [dst EXCEPT ![entry].mode = tree.mode[entry]]
           /\ pc' = "readdir"
           /\ UNCHANGED <<tree, reliable, stack, entry, buf, offset, opened, lost, status>>
  <2>1. /\ entry \in Entry /\ entry # Root /\ tree.up[entry] = Top.dir
        /\ dst[entry] \in [mode : SUBSET Bits, bytes : Seq(Nat)]
        /\ tree.mode[entry] \in SUBSET Bits
    BY <1>1, TreeFacts DEF AtChild, Children
  <2>2. /\ DOMAIN dst' = DOMAIN dst
        /\ \A e \in DOMAIN dst : e # entry => dst'[e] = dst[e]
        /\ dst'[entry] = [dst[entry] EXCEPT !.mode = tree.mode[entry]]
    BY <1>1, <1>3
  <2>3. /\ dst'[entry].bytes = dst[entry].bytes /\ dst'[entry].mode = tree.mode[entry]
        /\ dst'[entry] \in [mode : SUBSET Bits, bytes : Seq(Nat)]
    BY <2>1, <2>2
  <2>4. dst' \in [DOMAIN dst' -> [mode : SUBSET Bits, bytes : Seq(Nat)]]
    <3>1. \A e \in DOMAIN dst' : dst'[e] \in [mode : SUBSET Bits, bytes : Seq(Nat)]
      BY <1>1, <2>2, <2>3, TreeFacts
    <3>2. dst' = [e \in DOMAIN dst' |-> dst'[e]]
      BY <1>1, <1>3 DEF CopyTypeOK
    <3> QED BY <3>1, <3>2
  <2>5. CopyTypeOK'
    BY <1>1, <1>3, <2>2, <2>4 DEF CopyTypeOK
  <2>6. MadeInv'
    BY <1>1, <1>3, <2>1, <2>2, <2>3 DEF MadeInv, IsCopied, Made
  <2>7. StackInv'
    <3>1. ASSUME NEW n \in 1..Len(stack)
          PROVE  stack[n].dir \in DOMAIN dst /\ stack[n].dir # entry
      BY <1>1 DEF StackInv, MadeInv, Path
    <3>2. ASSUME NEW n \in 1..Len(stack)
          PROVE  /\ stack[n].dir \in opened
                 /\ stack[n].rest \subseteq Children(stack[n].dir) \ DOMAIN dst'
                 /\ n = 1 => stack[n].dir = Root
                 /\ n > 1 => /\ stack[n].dir \in Children(stack[n - 1].dir)
                             /\ dst'[stack[n].dir].mode = Bits \ Umask
      BY <1>1, <2>2, <3>1 DEF StackInv
    <3>3. \A m, n \in 1..Len(stack) : stack[m].dir = stack[n].dir => m = n
      BY <1>1 DEF StackInv
    <3> QED BY <1>3, <3>2, <3>3 DEF StackInv, Children
  <2>8. DoneInv'
    <3>1. CASE lost
      BY <1>3, <3>1 DEF DoneInv
    <3>2. CASE ~lost
      <4>1. Active = {Root} \cup Path \cup {entry} /\ Active' = {Root} \cup Path
        BY <1>1, <1>3 DEF Active, Path
      <4>2. /\ \A e : IsCopied(e)' <=> IsCopied(e)
            /\ \A e : e \notin Active /\ IsCopy(e) => IsCopy(e)'
            /\ \A d, S : Children(d)' = Children(d)
            /\ \A d, S : Active \subseteq S /\ ChildrenDone(d, S) => ChildrenDone(d, S)'
            /\ \A e \in DOMAIN dst \ Active : IsCopy(e)' /\ ChildrenDone(e, {})'
        <5>1. \A e \in DOMAIN dst \ Active : e \in DOMAIN dst' /\ dst'[e] = dst[e]
          BY <2>2, <4>1
        <5> QED BY <1>1, <1>3, <3>2, <5>1, CopiesKept
      <4>3. (IsCopy(entry) /\ ChildrenDone(entry, {}))'
        <5>1. tree.kind[entry] \in {"dir", "file"}
          BY <1>1 DEF MadeInv, IsCopied
        <5>2. dst[entry].bytes = IF tree.kind[entry] = "file" THEN Contents(entry) ELSE <<>>
          BY <1>1, <3>2, <5>1 DEF MadeInv
        <5>3. IsCopy(entry)'
          BY <1>1, <1>3, <2>2, <2>3, <5>2 DEF IsCopy, Contents
        <5>4. ASSUME NEW c \in Children(entry), IsCopied(c)
              PROVE  IsCopy(c)'
          <6>1. c \in Entry /\ c # Root /\ tree.up[c] = entry
            BY <1>1, TreeFacts
          <6>2. tree.kind[entry] = "dir"
            BY <1>1, <6>1, TreeFacts
          <6>3. IsCopy(c)
            BY <1>1, <3>2, <5>4, <6>2 DEF ChildrenDone
          <6>4. c \notin Path
            <7>1. SUFFICES ASSUME NEW n \in 1..Len(stack), c = stack[n].dir PROVE FALSE
              BY DEF Path
            <7>2. n > 1 /\ n - 1 \in 1..Len(stack) /\ c \in Children(stack[n - 1].dir)
              BY <1>1, <6>1, <7>1, StackFacts DEF StackInv
            <7>3. entry = stack[n - 1].dir
              BY <6>1, <7>2 DEF Children
            <7> QED BY <1>1, <7>2, <7>3 DEF Path
          <6>5. c # entry
            <7>1. entry \notin {Top.dir} /\ tree.up[entry] = Top.dir
              BY <1>1, <2>1, StackFacts DEF Path
            <7> QED BY <6>1, <7>1
          <6> QED BY <4>1, <4>2, <6>1, <6>3, <6>4, <6>5
        <5> QED BY <1>3, <4>2, <5>3, <5>4 DEF ChildrenDone, Children, IsCopied
      <4>4. \A e \in DOMAIN dst' \ Active' : (IsCopy(e) /\ ChildrenDone(e, {}))'
        <5>1. PICK x : x = entry
          OBVIOUS
        <5>2. (IsCopy(x) /\ ChildrenDone(x, {}))'
          BY <1>3, <4>3, <5>1
        <5> QED BY <2>2, <4>1, <4>2, <5>1, <5>2
      <4>5. ASSUME NEW n \in 1..Len(stack)
            PROVE  ChildrenDone(stack[n].dir, stack[n].rest \cup Active)'
        <5>1. PICK d, S : d = stack[n].dir /\ S = stack[n].rest \cup Active
          OBVIOUS
        <5>2. ChildrenDone(stack[n].dir, stack[n].rest \cup Active)
          BY <1>1, <3>2 DEF CopyInv, DoneInv
        <5>3. ChildrenDone(d, S)'
          BY <4>2, <5>1, <5>2
        <5>4. PICK x : x = entry
          OBVIOUS
        <5>5. IsCopy(x)'
          BY <1>3, <4>3, <5>4
        <5>6. \A c \in Children(d)' : c \notin S => (IsCopied(c)' => IsCopy(c)')
          BY <5>3 DEF ChildrenDone
        <5>7. \A c : c \notin stack[n].rest \cup Active' => c \notin S \/ c = x
          BY <4>1, <5>1, <5>4
        <5>8. \A c \in Children(d)' :
                c \notin stack[n].rest \cup Active' => (IsCopied(c)' => IsCopy(c)')
          BY <5>5, <5>6, <5>7
        <5> QED BY <1>3, <5>1, <5>8 DEF ChildrenDone
      <4> QED BY <1>3, <4>4, <4>5 DEF DoneInv
    <3> QED BY <3>1, <3>2
  <2>9. EntryInv'
    BY <1>1, <1>3 DEF EntryInv
  <2> QED BY <1>1, <1>3, <2>5, <2>6, <2>7, <2>8, <2>9 DEF CopyInv, ReturnInv, FailsExplained
<1> QED BY <1>2, <1>3 DEF Chmod

-----------------------------------------------------------------------------
(* Every step keeps the invariant. *)
LEMMA NextCopyInv == CopyInv /\ [Next]_copyVars => CopyInv'
<1> SUFFICES ASSUME CopyInv, [Next]_copyVars PROVE CopyInv'
  OBVIOUS
<1>1. CASE UNCHANGED copyVars
  <2>1. UNCHANGED <<tree, reliable, dst, stack, entry, pc, buf, offset, opened, lost, status>>
    BY <1>1 DEF copyVars
  <2>2. CopyTypeOK' /\ FailsExplained'
    BY <2>1 DEF CopyInv, CopyTypeOK, FailsExplained
  <2>3. pc # "main" => MadeInv' /\ StackInv' /\ DoneInv'
    <3>1. MadeInv => MadeInv'
      BY <2>1 DEF MadeInv, IsCopied, Made
    <3>2. StackInv => StackInv'
      BY <2>1 DEF StackInv, Children
    <3>3. Active' = Active
      BY <2>1 DEF Active, Path
    <3>4. \A d, S : ChildrenDone(d, S) => ChildrenDone(d, S)'
      BY <2>1 DEF ChildrenDone, IsCopied, IsCopy, Contents, Children
    <3>5. \A e : IsCopy(e) => IsCopy(e)'
      BY <2>1 DEF IsCopy, Contents
    <3>6. DoneInv => DoneInv'
      BY <2>1, <3>3, <3>4, <3>5 DEF DoneInv
    <3> QED BY <3>1, <3>2, <3>6 DEF CopyInv
  <2>4. EntryInv => EntryInv'
    BY <2>1 DEF EntryInv, AtChild, ChildrenDone, IsCopied, IsCopy, Contents, Children,
                Path, Prefix, Top
  <2>5. ReturnInv'
    BY <2>1 DEF CopyInv, ReturnInv, ChildrenDone, IsCopied, IsCopy, Contents, Children
  <2>6. NothingDone => NothingDone'
    BY <2>1 DEF NothingDone, Made
  <2> QED BY <2>1, <2>2, <2>3, <2>4, <2>5, <2>6 DEF CopyInv
<1>2. CASE Main
  BY <1>2, MainKeeps
<1>3. CASE OpenDir
  BY <1>3, OpenDirKeeps
<1>4. CASE ReadDir
  BY <1>4, ReadDirKeeps
<1>5. CASE Stat
  BY <1>5, StatKeeps
<1>6. CASE MkDir
  BY <1>6, MkDirKeeps
<1>7. CASE Chmod
  BY <1>7, ChmodKeeps
<1>8. CASE Open
  BY <1>8, OpenKeeps
<1>9. CASE Read
  BY <1>9, ReadKeeps
<1>10. CASE Write
  BY <1>10, WriteKeeps
<1>11. CASE Terminated
  BY <1>1, <1>11 DEF Terminated
<1> QED BY <1>1, <1>2, <1>3, <1>4, <1>5, <1>6, <1>7, <1>8, <1>9, <1>10, <1>11 DEF Next

LEMMA SpecCopyInv == Spec => []CopyInv
  BY InitCopyInv, NextCopyInv, PTL DEF Spec

(* The types of everything that the program and the file system hold.      *)
THEOREM CopyTypeCorrect == Spec => []CopyTypeOK
<1>1. CopyInv => CopyTypeOK
  BY DEF CopyInv
<1> QED BY <1>1, SpecCopyInv, PTL

(* A copy that ends with status 0 and lost nothing has all the entries of  *)
(* the source and no other; those below dstdir have its contents and       *)
(* permissions, and dstdir has srcdir's if the umask clears none of them.  *)
THEOREM CopiesAreRight == Spec => []CopyIsRight
<1>1. ASSUME CopyInv PROVE CopyIsRight
  <2>1. SUFFICES ASSUME status = "0", ~lost
                 PROVE  /\ DOMAIN dst = {e \in Entry : IsCopied(e)}
                        /\ \A e \in DOMAIN dst \ {Root} : IsCopy(e)
                        /\ IsCopy(Root) <=> tree.mode[Root] \cap Umask = {}
    BY DEF CopyIsRight
  <2>2. /\ stack = <<>> /\ entry = Root /\ pc = "chmod" /\ ChildrenDone(Root, {})
        /\ MadeInv /\ DoneInv /\ CopyTypeOK
    BY <1>1, <2>1 DEF CopyInv, ReturnInv
  <2>3. Active = {Root}
    BY <1>1, <2>2, StackFacts DEF Active, Path
  <2>4. \A e \in DOMAIN dst \ {Root} : IsCopy(e) /\ ChildrenDone(e, {})
    BY <2>1, <2>2, <2>3 DEF DoneInv
  <2> DEFINE S == {e \in Entry : IsCopied(e) => e \in DOMAIN dst}
  <2>5. Root \in S
    BY <2>2, TreeFacts DEF MadeInv
  <2>6. ASSUME NEW e \in Entry, tree.up[e] \in S PROVE e \in S
    <3>1. SUFFICES ASSUME IsCopied(e), e # Root PROVE e \in DOMAIN dst
      BY <2>5
    <3>2. tree.up[e] \in Entry /\ IsCopied(tree.up[e]) /\ e \in Children(tree.up[e])
      BY <2>2, <3>1, TreeFacts DEF IsCopied, Children
    <3>3. ChildrenDone(tree.up[e], {})
      BY <2>2, <2>4, <2>6, <3>2
    <3> QED BY <3>1, <3>2, <3>3 DEF ChildrenDone, IsCopy
  <2>7. S = Entry
    <3>1. \A T \in SUBSET Entry :
            Root \in T /\ (\A e \in Entry : tree.up[e] \in T => e \in T) => T = Entry
      BY <2>2 DEF CopyTypeOK, IsTree
    <3>2. S \in SUBSET Entry
      OBVIOUS
    <3> HIDE DEF S
    <3> QED BY <2>5, <2>6, <3>1, <3>2
  <2>8. DOMAIN dst = {e \in Entry : IsCopied(e)}
    BY <2>2, <2>7, TreeFacts DEF MadeInv
  <2>9. IsCopy(Root) <=> tree.mode[Root] \cap Umask = {}
    <3>1. /\ Root \in DOMAIN dst
          /\ dst[Root] = Made(tree.mode[Root] \ Umask)
          /\ tree.kind[Root] = "dir"
      BY <2>2, <2>5, <2>8, TreeFacts DEF MadeInv, CopyTypeOK, IsTree, IsCopied
    <3>2. tree.mode[Root] \ Umask = tree.mode[Root] <=> tree.mode[Root] \cap Umask = {}
      OBVIOUS
    <3> QED BY <3>1, <3>2 DEF IsCopy, Made
  <2> QED BY <2>4, <2>8, <2>9
<1> QED BY <1>1, SpecCopyInv, PTL

(* Wherever the program stops, the incomplete entries are on the path to   *)
(* the one it was at.                                                      *)
THEOREM IncompleteIsOnPath == Spec => []PartialOnPath
<1>1. ASSUME CopyInv PROVE PartialOnPath
  <2>1. Active \subseteq OnPath
    BY DEF Active, Path, OnPath
  <2>2. CASE pc = "main"
    <3>1. DOMAIN dst \subseteq {Root}
      BY <1>1, <2>2 DEF CopyInv, NothingDone
    <3> QED BY <2>1, <3>1 DEF PartialOnPath, OnPath
  <2>3. CASE pc # "main"
    BY <1>1, <2>1, <2>3 DEF CopyInv, DoneInv, ChildrenDone, PartialOnPath
  <2> QED BY <2>2, <2>3
<1> QED BY <1>1, SpecCopyInv, PTL

(* A copy whose system calls do not fail by themselves stops early for     *)
(* three reasons only.                                                     *)
THEOREM FailuresAreExplained == Spec => []FailsExplained
<1>1. CopyInv => FailsExplained
  BY DEF CopyInv
<1> QED BY <1>1, SpecCopyInv, PTL

=============================================================================
