-------------------------------- MODULE Rio --------------------------------
(***************************************************************************)
(* The robust I/O package of webserver/common.c, at the two ends of a      *)
(* connection.  One process sends a text with Rio_write and closes; the    *)
(* other reads it, call after call, with Rio_readlineb or with Rio_read,   *)
(* until a call returns 0.  A step is a system call, or a byte that        *)
(* rio_readb hands over.  The kernel transfers as much as it likes, and a  *)
(* signal or an error may end any call.                                    *)
(***************************************************************************)
EXTENDS Integers, Sequences

CONSTANTS
  Texts,        \* the texts that may be sent
  NewLine,      \* the byte '\n'
  MaxLen,       \* the size of the caller's buffer: maxlen, or n of rio_read
  BufSize,      \* RIO_BUFSIZE
  SocketSize    \* the bytes the kernel holds between the processes

ASSUME TextsAssumption == \A t \in Texts : t \in Seq(Int)
ASSUME SizesAssumption == {MaxLen, BufSize, SocketSize} \subseteq Nat \ {0}

VARIABLES
  text,         \* the buffer of rio_write
  sent,         \* n - nleft
  writer,       \* "writing"; "closed" when all is sent; "failed"
  socket,       \* the bytes between the processes
  call,         \* the function that reads
  reader,       \* "reading"; "done" when a call returned 0; "failed"
  rioBuf,       \* the rio_cnt bytes at rio_bufptr
  usrbuf,       \* what the present call has put in the caller's buffer
  lines,        \* what the calls have returned
  received      \* history: the bytes of lines, one call after the other

rioVars == <<text, sent, writer, socket, call, reader, rioBuf, usrbuf, lines, received>>

Calls == {"rio_readlineb", "rio_read"}

AtMost(m, n) == IF m < n THEN m ELSE n

Init ==
  /\ text \in Texts
  /\ sent = 0
  /\ writer = "writing"
  /\ socket = <<>>
  /\ call \in Calls
  /\ reader = "reading"
  /\ rioBuf = <<>>
  /\ usrbuf = <<>>
  /\ lines = <<>>
  /\ received = <<>>

-----------------------------------------------------------------------------
(* rio_write *)

(* write() takes k bytes: it blocks while the kernel has no room.          *)
Write ==
  /\ writer = "writing"
  /\ \E k \in 1..AtMost(Len(text) - sent, SocketSize - Len(socket)) :
       /\ socket' = socket \o SubSeq(text, sent + 1, sent + k)
       /\ sent' = sent + k
  /\ UNCHANGED <<text, writer, call, reader, rioBuf, usrbuf, lines, received>>

(* EINTR: nothing was taken, and write() is called again. *)
WriteInterrupted == writer = "writing" /\ sent < Len(text) /\ UNCHANGED rioVars

(* Any other error ends the process, and with it its end of the connection. *)
WriteFails ==
  /\ writer = "writing"
  /\ sent < Len(text)
  /\ writer' = "failed"
  /\ UNCHANGED <<text, sent, socket, call, reader, rioBuf, usrbuf, lines, received>>

Close ==
  /\ writer = "writing"
  /\ sent = Len(text)
  /\ writer' = "closed"
  /\ UNCHANGED <<text, sent, socket, call, reader, rioBuf, usrbuf, lines, received>>

-----------------------------------------------------------------------------
(* rio_readb, rio_readlineb and rio_read *)

(* What the call has read so far is bytes.  It returns them when there is  *)
(* no room for more, or a line is whole.                                   *)
IsFull(bytes) == Len(bytes) = MaxLen

EndsLine(bytes) == bytes # <<>> /\ bytes[Len(bytes)] = NewLine

GotInto(bytes, full) ==
  IF full
    THEN /\ lines' = Append(lines, bytes)
         /\ received' = received \o bytes
         /\ usrbuf' = <<>>
    ELSE usrbuf' = bytes /\ UNCHANGED <<lines, received>>

\* Mutant: read() is asked for one byte more than the buffer holds.
RefillTooMuch ==
  /\ reader = "reading"
  /\ call = "rio_readlineb"
  /\ rioBuf = <<>>
  /\ \E k \in 1..AtMost(BufSize + 1, Len(socket)) :
       /\ rioBuf' = SubSeq(socket, 1, k)
       /\ socket' = SubSeq(socket, k + 1, Len(socket))
  /\ UNCHANGED <<text, sent, writer, call, reader, usrbuf, lines, received>>

(* rio_readb finds the internal buffer empty, and read() fills it with k   *)
(* bytes: it blocks while there are none and the sender has not closed.    *)
Refill ==
  /\ reader = "reading"
  /\ call = "rio_readlineb"
  /\ rioBuf = <<>>
  /\ \E k \in 1..AtMost(BufSize, Len(socket)) :
       /\ rioBuf' = SubSeq(socket, 1, k)
       /\ socket' = SubSeq(socket, k + 1, Len(socket))
  /\ UNCHANGED <<text, sent, writer, call, reader, usrbuf, lines, received>>

\* Mutant: a whole line is returned without looking at what follows it in
\* the internal buffer, which is given up.
TakeByteAndForget ==
  /\ reader = "reading"
  /\ rioBuf # <<>>
  /\ LET bytes == Append(usrbuf, Head(rioBuf))
         full  == IsFull(bytes) \/ EndsLine(bytes)
     IN  /\ GotInto(bytes, full)
         /\ rioBuf' = IF full THEN <<>> ELSE Tail(rioBuf)
  /\ UNCHANGED <<text, sent, writer, socket, call, reader>>

(* A turn of rio_readlineb: rio_readb hands over a byte of the buffer.     *)
TakeByte ==
  /\ reader = "reading"
  /\ rioBuf # <<>>
  /\ LET bytes == Append(usrbuf, Head(rioBuf))
     IN  GotInto(bytes, IsFull(bytes) \/ EndsLine(bytes))
  /\ rioBuf' = Tail(rioBuf)
  /\ UNCHANGED <<text, sent, writer, socket, call, reader>>

(* A turn of rio_read: read() puts k bytes in the caller's buffer.         *)
ReadBlock ==
  /\ reader = "reading"
  /\ call = "rio_read"
  /\ \E k \in 1..AtMost(MaxLen - Len(usrbuf), Len(socket)) :
       LET bytes == usrbuf \o SubSeq(socket, 1, k) IN
         /\ GotInto(bytes, IsFull(bytes))
         /\ socket' = SubSeq(socket, k + 1, Len(socket))
  /\ UNCHANGED <<text, sent, writer, call, reader, rioBuf>>

(* EINTR: nothing was read, and read() is called again. *)
ReadInterrupted == reader = "reading" /\ rioBuf = <<>> /\ UNCHANGED rioVars

\* Mutant: at the end of the file rio_readlineb goes on as long as it has data.
EndOfFileOnlyEmpty ==
  /\ reader = "reading"
  /\ rioBuf = <<>> /\ socket = <<>> /\ writer # "writing"
  /\ usrbuf = <<>>
  /\ reader' = "done"
  /\ UNCHANGED <<text, sent, writer, socket, call, rioBuf, usrbuf, lines, received>>

\* Mutant: rio_readlineb returns 0 at the end of the file whatever it has
\* read, as if the test n == 0 were not there: the rest of a line is lost.
EndOfFileDropsRest ==
  /\ reader = "reading"
  /\ rioBuf = <<>> /\ socket = <<>> /\ writer # "writing"
  /\ reader' = "done"
  /\ usrbuf' = <<>>
  /\ UNCHANGED <<text, sent, writer, socket, call, rioBuf, lines, received>>

(* read() returns 0.  The call returns the data it has; without any, it    *)
(* returns 0, and the caller stops.                                        *)
EndOfFile ==
  /\ reader = "reading"
  /\ rioBuf = <<>> /\ socket = <<>> /\ writer # "writing"
  /\ IF usrbuf = <<>>
       THEN reader' = "done" /\ UNCHANGED <<usrbuf, lines, received>>
       ELSE GotInto(usrbuf, TRUE) /\ UNCHANGED reader
  /\ UNCHANGED <<text, sent, writer, socket, call, rioBuf>>

(* Any other error ends the process. *)
ReadFails ==
  /\ reader = "reading"
  /\ rioBuf = <<>>
  /\ reader' = "failed"
  /\ UNCHANGED <<text, sent, writer, socket, call, rioBuf, usrbuf, lines, received>>

Terminated ==
  /\ writer # "writing" /\ reader # "reading"
  /\ UNCHANGED rioVars

Next ==
  \/ Write
  \/ WriteInterrupted
  \/ WriteFails
  \/ Close
  \/ Refill
  \/ TakeByte
  \/ ReadBlock
  \/ ReadInterrupted
  \/ EndOfFile
  \/ ReadFails
  \/ Terminated

(* The kernel completes a call that can transfer something and that is not *)
(* interrupted for ever, tells the reader of the end of the file, and the  *)
(* sender of a connection without a reader.                                *)
Fairness ==
  /\ WF_rioVars(Write)
  /\ WF_rioVars(reader = "failed" /\ WriteFails)
  /\ WF_rioVars(Close)
  /\ WF_rioVars(Refill)
  /\ WF_rioVars(TakeByte)
  /\ WF_rioVars(ReadBlock)
  /\ WF_rioVars(EndOfFile)

Spec == Init /\ [][Next]_rioVars /\ Fairness

-----------------------------------------------------------------------------
(* Type invariant. *)
RioTypeOK ==
  /\ text \in Texts
  /\ sent \in 0..Len(text)
  /\ writer \in {"writing", "closed", "failed"}
  /\ socket \in Seq(Int) /\ Len(socket) <= SocketSize
  /\ call \in Calls
  /\ reader \in {"reading", "done", "failed"}
  /\ rioBuf \in Seq(Int) /\ Len(rioBuf) <= BufSize
  /\ usrbuf \in Seq(Int) /\ Len(usrbuf) < MaxLen
  /\ lines \in Seq(Seq(Int))
  /\ received \in Seq(Int)

(* The bytes of the text that no call has returned, in the order in which  *)
(* they will be: in the caller's buffer, in struct rio, in the kernel, and *)
(* those to be sent, unless the sender has ended.                          *)
Unsent == IF writer = "writing" THEN SubSeq(text, sent + 1, Len(text)) ELSE <<>>

Unread == usrbuf \o rioBuf \o socket \o Unsent

Stream == INSTANCE LineStream WITH unread <- Unread, open <- writer = "writing"

(* Whatever the kernel transfers at a time and whichever calls are         *)
(* interrupted, the calls return the bytes of the text in order, each      *)
(* once, cut into lines (rio_readlineb) or full buffers (rio_read).        *)
ReadsTheStream == Stream!Spec

(* A call returns 0 only when the calls before it have returned the whole  *)
(* text, the rest of a last line without its '\n' included; if the sender  *)
(* failed, all that it had sent.                                           *)
ZeroOnlyAtTheEnd ==
  reader = "done" =>
    /\ received = SubSeq(text, 1, sent)
    /\ \/ writer = "closed" /\ sent = Len(text)
       \/ writer = "failed"

(* Neither process waits for ever: for room, for bytes, or for the end.    *)
TransferEnds == <>(writer # "writing" /\ reader # "reading")

=============================================================================
