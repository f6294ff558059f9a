----------------------------- MODULE MCCopyTree -----------------------------
(* CopyTree for TLC: all trees of three entries under srcdir.  A file has  *)
(* one byte more than the buffer.                                          *)
EXTENDS CopyTree

MCEntry == 0..3

Tree(kind, up, mode) ==
  [kind |-> kind, up |-> up, mode |-> mode,
   size |-> [e \in MCEntry |-> IF kind[e] = "file" THEN 3 ELSE 0]]

(* An entry is in srcdir or in a directory with a lower number. *)
Shapes ==
  {<<kind, up>> \in [MCEntry -> {"dir", "file", "other"}] \X [MCEntry -> 0..2] :
     /\ kind[0] = "dir" /\ up[0] = 0
     /\ \A e \in 1..3 : up[e] < e /\ kind[up[e]] = "dir"}

(* Any permissions for srcdir; the first entry is or is not read-only, and *)
(* the others are.                                                         *)
Modes == {mode \in [MCEntry -> SUBSET {"w", "o"}] :
            "o" \in mode[1] /\ mode[2] = {"o"} /\ mode[3] = {"o"}}

MCTrees == {Tree(s[1], s[2], mode) : s \in Shapes, mode \in Modes}
=============================================================================
