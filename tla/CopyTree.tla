------------------------------ MODULE CopyTree ------------------------------
(***************************************************************************)
(* warmup/cpr.c: the recursive copy of a directory.  A step is a system    *)
(* call and what the program does up to the next one.  The source tree     *)
(* does not change meanwhile, and the destination is not part of it.       *)
(***************************************************************************)
EXTENDS Integers, Sequences, FiniteSets

CONSTANTS
  Entry, Root,   \* the files and directories of the source, and srcdir
  Trees,         \* the trees that may be copied
  Bits,          \* permission bits; "w" lets the owner add entries
  Umask,         \* the bits that mkdir and open clear
  BufSize,       \* sizeof(buf) in copyFile
  OpenMax        \* the descriptors besides the standard ones that a process may have

(* A tree: what an entry is, the directory it is in, its permissions, and  *)
(* the number of bytes of a file.  Every entry is below Root.              *)
IsTree(t) ==
  /\ t.kind \in [Entry -> {"dir", "file", "other"}]
  /\ t.up \in [Entry -> Entry]
  /\ t.mode \in [Entry -> SUBSET Bits]
  /\ t.size \in [Entry -> Nat]
  /\ t.kind[Root] = "dir" /\ t.up[Root] = Root
  /\ \A e \in Entry : t.kind[t.up[e]] = "dir"
  /\ \A S \in SUBSET Entry :
       Root \in S /\ (\A e \in Entry : t.up[e] \in S => e \in S) => S = Entry

ASSUME TreesAssumption ==
  IsFiniteSet(Entry) /\ Root \in Entry /\ \A t \in Trees : IsTree(t)
ASSUME LimitsAssumption ==
  "w" \in Bits /\ Umask \subseteq Bits /\ BufSize \in Nat \ {0} /\ OpenMax \in Nat

VARIABLES
  tree,          \* the source
  reliable,      \* no system call fails but for a reason in this state
  dst,           \* the entries made in the destination
  stack,         \* the calls of recursiveCopy: srcDir, what readdir has left
  entry,         \* next_entry of the last call
  pc,            \* the next system call
  buf, offset,   \* copyFile: buf, and how far fd_src was read
  opened,        \* the directories opened; none is ever closed
  lost,          \* a read or a write has failed or was cut short
  status         \* "running", or the status of exit

copyVars ==
  <<tree, reliable, dst, stack, entry, pc, buf, offset, opened, lost, status>>

Made(mode) == [mode |-> mode, bytes |-> <<>>]

Contents(e) == [i \in 1..tree.size[e] |-> i]

Children(d) == {e \in Entry \ {Root} : tree.up[e] = d}

(* Entries can be made in directory d of the destination. *)
Writable(d) == "w" \in dst[d].mode

Init ==
  /\ tree \in Trees
  /\ reliable \in BOOLEAN
  /\ dst \in {[e \in {} |-> Made({})], [e \in {Root} |-> Made(Bits)]}
  /\ stack = <<>>
  /\ entry = Root
  /\ pc = "main"
  /\ buf = <<>> /\ offset = 0
  /\ opened = {}
  /\ lost = FALSE
  /\ status = "running"

At(call) == status = "running" /\ pc = call

(* syserror *)
SysError ==
  /\ status' = "1"
  /\ UNCHANGED <<tree, reliable, stack, entry, pc, buf, offset, opened, lost>>

-----------------------------------------------------------------------------
(* main: stat and mkdir. *)
Main ==
  /\ At("main")
  /\ \/ /\ Root \notin DOMAIN dst
        /\ dst' = [e \in {Root} |-> Made(tree.mode[Root] \ Umask)]
        /\ pc' = "opendir"
        /\ UNCHANGED <<tree, reliable, stack, entry, buf, offset, opened, lost, status>>
     \/ (~reliable \/ Root \in DOMAIN dst) /\ SysError /\ UNCHANGED dst

(* recursiveCopy: opendir. *)
OpenDir ==
  /\ At("opendir")
  /\ \/ /\ Cardinality(opened) < OpenMax
        /\ stack' = Append(stack, [dir |-> entry, rest |-> Children(entry)])
        /\ opened' = opened \cup {entry}
        /\ pc' = "readdir"
        /\ UNCHANGED <<tree, reliable, dst, entry, buf, offset, lost, status>>
     \/ /\ ~reliable \/ Cardinality(opened) >= OpenMax
        /\ SysError /\ UNCHANGED dst

Top == stack[Len(stack)]

\* Mutant: the loop continues without calling readdir again.
ReadDirAgain ==
  /\ At("readdir")
  /\ \/ /\ \E e \in Top.rest : entry' = e
        /\ pc' = "stat"
        /\ UNCHANGED <<stack, status>>
     \/ /\ Top.rest = {}
        /\ entry' = Top.dir
        /\ stack' = SubSeq(stack, 1, Len(stack) - 1)
        /\ pc' = "chmod"
        /\ status' = IF Len(stack) = 1 THEN "0" ELSE "running"
  /\ UNCHANGED <<tree, reliable, dst, buf, offset, opened, lost>>

(* readdir returns the entries of a directory in an order of its own.      *)
(* After the last the call returns, to main or to the directory above.     *)
ReadDir ==
  /\ At("readdir")
  /\ \/ /\ \E e \in Top.rest :
             /\ entry' = e
             /\ stack' = [stack EXCEPT ![Len(stack)].rest = @ \ {e}]
        /\ pc' = "stat"
        /\ UNCHANGED <<tree, reliable, dst, buf, offset, opened, lost, status>>
     \/ /\ Top.rest = {}
        /\ entry' = Top.dir
        /\ stack' = SubSeq(stack, 1, Len(stack) - 1)
        /\ pc' = "chmod"
        /\ status' = IF Len(stack) = 1 THEN "0" ELSE "running"
        /\ UNCHANGED <<tree, reliable, dst, buf, offset, opened, lost>>
     \/ ~reliable /\ SysError /\ UNCHANGED dst

(* stat: what is neither a file nor a directory is left out. *)
Stat ==
  /\ At("stat")
  /\ \/ /\ pc' = CASE tree.kind[entry] = "file"  -> "open"
                   [] tree.kind[entry] = "dir"   -> "mkdir"
                   [] tree.kind[entry] = "other" -> "readdir"
        /\ UNCHANGED <<tree, reliable, dst, stack, entry, buf, offset, opened, lost, status>>
     \/ ~reliable /\ SysError /\ UNCHANGED dst

\* Mutant: the copy of a directory is made with its mode at once.
MkDirWithMode ==
  /\ At("mkdir")
  /\ \/ /\ Writable(tree.up[entry])
        /\ dst' = [e \in DOMAIN dst \cup {entry} |->
                     IF e = entry THEN Made(tree.mode[entry]) ELSE dst[e]]
        /\ pc' = "opendir"
        /\ UNCHANGED <<tree, reliable, stack, entry, buf, offset, opened, lost, status>>
     \/ (~reliable \/ ~Writable(tree.up[entry])) /\ SysError /\ UNCHANGED dst

\* Mutant: recursiveCopy is not called.
MkDirOnly ==
  /\ At("mkdir")
  /\ \/ /\ Writable(tree.up[entry])
        /\ dst' = [e \in DOMAIN dst \cup {entry} |->
                     IF e = entry THEN Made(Bits \ Umask) ELSE dst[e]]
        /\ pc' = "chmod"
        /\ UNCHANGED <<tree, reliable, stack, entry, buf, offset, opened, lost, status>>
     \/ (~reliable \/ ~Writable(tree.up[entry])) /\ SysError /\ UNCHANGED dst

(* mkdir(curr_dst, 0777), and recursiveCopy is called. *)
MkDir ==
  /\ At("mkdir")
  /\ \/ /\ Writable(tree.up[entry])
        /\ dst' = [e \in DOMAIN dst \cup {entry} |->
                     IF e = entry THEN Made(Bits \ Umask) ELSE dst[e]]
        /\ pc' = "opendir"
        /\ UNCHANGED <<tree, reliable, stack, entry, buf, offset, opened, lost, status>>
     \/ (~reliable \/ ~Writable(tree.up[entry])) /\ SysError /\ UNCHANGED dst

\* Mutant: the umask applies to chmod.
ChmodMasked ==
  /\ At("chmod")
  /\ dst' = [dst EXCEPT ![entry].mode = tree.mode[entry] \ Umask]
  /\ pc' = "readdir"
  /\ UNCHANGED <<tree, reliable, stack, entry, buf, offset, opened, lost, status>>

(* chmod to the mode that stat found, after everything else.               *)
Chmod ==
  /\ At("chmod")
  /\ \/ /\ dst' = [dst EXCEPT ![entry].mode = tree.mode[entry]]
        /\ pc' = "readdir"
        /\ UNCHANGED <<tree, reliable, stack, entry, buf, offset, opened, lost, status>>
     \/ ~reliable /\ SysError /\ UNCHANGED dst

-----------------------------------------------------------------------------
(* copyFile: both files are opened before either result is looked at, so   *)
(* that the copy may have been made when the source cannot be opened.      *)
Open ==
  /\ At("open")
  /\ LET made == [e \in DOMAIN dst \cup {entry} |->
                    IF e = entry THEN Made(Bits \ Umask) ELSE dst[e]]
         room == OpenMax - Cardinality(opened)
     IN  \/ /\ Writable(tree.up[entry]) /\ room >= 2
            /\ dst' = made
            /\ pc' = "read"
            /\ UNCHANGED <<tree, reliable, stack, entry, buf, offset, opened, lost, status>>
         \/ /\ ~reliable \/ room < 1 \/ ~Writable(tree.up[entry])
            /\ SysError /\ UNCHANGED dst
         \/ /\ Writable(tree.up[entry]) /\ room >= 1
            /\ ~reliable \/ room = 1
            /\ SysError /\ dst' = made

\* Mutant: read is asked for one byte more than the buffer holds.
ReadTooMuch ==
  /\ At("read")
  /\ \E k \in 1..(tree.size[entry] - offset) :
       /\ k <= BufSize + 1
       /\ buf' = SubSeq(Contents(entry), offset + 1, offset + k)
       /\ offset' = offset + k
  /\ pc' = "write"
  /\ UNCHANGED <<tree, reliable, dst, stack, entry, opened, lost, status>>

(* read fills the buffer as far as it likes; at the end of the file, or    *)
(* when it fails, the loop ends and the files are closed.                  *)
Read ==
  /\ At("read")
  /\ \/ /\ \E k \in 1..(tree.size[entry] - offset) :
             /\ k <= BufSize
             /\ buf' = SubSeq(Contents(entry), offset + 1, offset + k)
             /\ offset' = offset + k
        /\ pc' = "write"
        /\ UNCHANGED lost
     \/ /\ \/ offset = tree.size[entry] /\ UNCHANGED lost
           \/ ~reliable /\ lost' = TRUE
        /\ pc' = "chmod" /\ offset' = 0
        /\ UNCHANGED buf
  /\ UNCHANGED <<tree, reliable, dst, stack, entry, opened, status>>

(* write puts the first k bytes in the copy.  Its result is not looked at. *)
Write ==
  /\ At("write")
  /\ \E k \in 0..Len(buf) :
       /\ reliable => k = Len(buf)
       /\ dst' = [dst EXCEPT ![entry].bytes = @ \o SubSeq(buf, 1, k)]
       /\ lost' = (lost \/ k < Len(buf))
  /\ buf' = <<>>
  /\ pc' = "read"
  /\ UNCHANGED <<tree, reliable, stack, entry, offset, opened, status>>

Terminated == status # "running" /\ UNCHANGED copyVars

Next ==
  \/ Main
  \/ OpenDir
  \/ ReadDir
  \/ Stat
  \/ MkDir
  \/ Chmod
  \/ Open
  \/ Read
  \/ Write
  \/ Terminated

(* The program runs, and every system call returns. *)
Spec == Init /\ [][Next]_copyVars /\ WF_copyVars(Next)

-----------------------------------------------------------------------------
(* Type invariant. *)
CopyTypeOK ==
  /\ IsTree(tree)
  /\ reliable \in BOOLEAN
  /\ DOMAIN dst \subseteq Entry
  /\ dst \in [DOMAIN dst -> [mode : SUBSET Bits, bytes : Seq(Nat)]]
  /\ stack \in Seq([dir : Entry, rest : SUBSET Entry])
  /\ entry \in Entry
  /\ pc \in {"main", "opendir", "readdir", "stat", "mkdir", "chmod", "open", "read", "write"}
  /\ buf \in Seq(Nat) /\ Len(buf) <= BufSize
  /\ offset \in 0..tree.size[entry]
  /\ opened \subseteq Entry
  /\ lost \in BOOLEAN
  /\ status \in {"running", "0", "1"}

IsCopied(e) == tree.kind[e] \in {"dir", "file"}

IsCopy(e) ==
  /\ e \in DOMAIN dst
  /\ dst[e].mode = tree.mode[e]
  /\ dst[e].bytes = IF tree.kind[e] = "file" THEN Contents(e) ELSE <<>>

(* When the program ends with status 0 and every read and write did all it *)
(* was asked, the destination has the directories and files of the source, *)
(* and nothing else, with their contents and permissions.  dstdir itself   *)
(* is the exception: cpr.c:27 wants it to have the "same permissions as    *)
(* source dir", and test_cpr compares them, but it has them only if the    *)
(* umask clears none, as no chmod follows its mkdir.                       *)
CopyIsRight ==
  status = "0" /\ ~lost =>
    /\ DOMAIN dst = {e \in Entry : IsCopied(e)}
    /\ \A e \in DOMAIN dst \ {Root} : IsCopy(e)
    /\ IsCopy(Root) <=> tree.mode[Root] \cap Umask = {}

(* Wherever the program stops, what is incomplete in the destination is on *)
(* the path to the entry it was at: everything else that was made has its  *)
(* contents, its final permissions and all that is in it.                  *)
OnPath == {Root, entry} \cup {stack[i].dir : i \in 1..Len(stack)}

PartialOnPath ==
  lost \/ \A e \in DOMAIN dst \ OnPath :
            /\ IsCopy(e)
            /\ \A c \in Children(e) : IsCopied(c) => IsCopy(c)

(* Without a failing system call, only three things stop the copy: the     *)
(* destination exists, nothing can be added to a directory that mkdir made *)
(* (dstdir with the mode of a read-only srcdir, or any of them under such  *)
(* an umask), or the directories, none of which is closed, use up the      *)
(* descriptors.  The permissions of the other directories never do.        *)
FailsExplained ==
  status = "1" /\ reliable =>
    \/ pc = "main"
    \/ "w" \in Umask
    \/ "w" \notin tree.mode[Root]
    \/ Cardinality({e \in Entry : tree.kind[e] = "dir"}) + 1 >= OpenMax

(* The program ends, whatever fails. *)
CopyEnds == <>(status # "running")

(* common.h:18: "When you invoke a system call, ALWAYS check if it returns *)
(* an error."  With status 0 every file has its contents.                  *)
CopyIsComplete ==
  status = "0" =>
    \A e \in DOMAIN dst : tree.kind[e] = "file" => dst[e].bytes = Contents(e)

=============================================================================
