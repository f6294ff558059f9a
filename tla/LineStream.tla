----------------------------- MODULE LineStream -----------------------------
(***************************************************************************)
(* What the robust reads of webserver/common.c promise, without processes, *)
(* buffers or interrupted calls: the bytes of a text are returned in order *)
(* and none is left out, cut in pieces that depend on the text alone.      *)
(***************************************************************************)
EXTENDS Integers, Sequences

CONSTANTS
  Texts,     \* the texts that may be sent
  NewLine,   \* the byte '\n'
  MaxLen     \* the size of the caller's buffer

VARIABLES
  call,      \* the function that reads: "rio_readlineb" or "rio_read"
  unread,    \* the bytes that no call has returned yet
  lines,     \* what the calls have returned
  open       \* whether the sender is still there

streamVars == <<call, unread, lines, open>>

Init ==
  /\ call \in {"rio_readlineb", "rio_read"}
  /\ unread \in Texts
  /\ lines = <<>>
  /\ open = TRUE

(* The next n bytes are what a call returns: they fill the buffer, or are  *)
(* the last ones of a sender that has ended, or, of a line, they are it.   *)
IsPiece(n) ==
  /\ n <= MaxLen
  /\ \/ n = MaxLen
     \/ ~open /\ n = Len(unread)
     \/ call = "rio_readlineb" /\ unread[n] = NewLine
  /\ call = "rio_readlineb" => \A m \in 1..(n - 1) : unread[m] # NewLine

Return ==
  \E n \in 1..Len(unread) :
    /\ IsPiece(n)
    /\ lines' = Append(lines, SubSeq(unread, 1, n))
    /\ unread' = SubSeq(unread, n + 1, Len(unread))
    /\ UNCHANGED <<call, open>>

(* The sender ends, once, when it has sent the text or a part of it: from  *)
(* then on no byte of what it sent is given up.                            *)
SenderEnds ==
  /\ open
  /\ open' = FALSE
  /\ \E n \in 0..Len(unread) : unread' = SubSeq(unread, 1, n)
  /\ UNCHANGED <<call, lines>>

Next == Return \/ SenderEnds

Spec == Init /\ [][Next]_streamVars

=============================================================================
