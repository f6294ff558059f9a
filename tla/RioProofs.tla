----------------------------- MODULE RioProofs -----------------------------
(***************************************************************************)
(* Proof that the robust reads of common.c return the text in order and    *)
(* complete, for any text, any sizes of the buffers and whatever the       *)
(* kernel transfers: Rio implements LineStream.                            *)
(***************************************************************************)
EXTENDS Rio, SequenceTheorems, TLAPS

(* What the present call has read does not fill the caller's buffer and    *)
(* holds no whole line; only rio_readlineb uses the internal buffer.       *)
CallUnfinished ==
  /\ call = "rio_readlineb" => \A m \in 1..Len(usrbuf) : usrbuf[m] # NewLine
  /\ call = "rio_read" => rioBuf = <<>>

(* The inductive invariant. *)
RioInv == RioTypeOK /\ CallUnfinished

-----------------------------------------------------------------------------
(* A sequence cut in two. *)
LEMMA Cut ==
  ASSUME NEW s \in Seq(Int), NEW k \in 0..Len(s)
  PROVE  /\ SubSeq(s, 1, k) \in Seq(Int) /\ Len(SubSeq(s, 1, k)) = k
         /\ SubSeq(s, k + 1, Len(s)) \in Seq(Int)
         /\ Len(SubSeq(s, k + 1, Len(s))) = Len(s) - k
         /\ SubSeq(s, 1, k) \o SubSeq(s, k + 1, Len(s)) = s
<1>1. Len(s) \in Nat /\ \A j \in 1..Len(s) : s[j] \in Int
  OBVIOUS
<1>2. SubSeq(s, 1, k) \in Seq(Int) /\ Len(SubSeq(s, 1, k)) = k
  <2>1. \A j \in 1..k : s[j] \in Int
    BY <1>1
  <2> QED BY <2>1, SubSeqProperties
<1>3. SubSeq(s, k + 1, Len(s)) \in Seq(Int) /\ Len(SubSeq(s, k + 1, Len(s))) = Len(s) - k
  <2>1. \A j \in (k + 1)..Len(s) : s[j] \in Int
    BY <1>1
  <2>2. k + 1 \in Int /\ Len(s) \in Int
    BY <1>1
  <2> QED BY <1>1, <2>1, <2>2, SubSeqProperties
<1>4. SubSeq(s, 1, k) \o SubSeq(s, k + 1, Len(s)) = s
  <2>1. 1 \in 1..(Len(s) + 1) /\ k \in (1 - 1)..Len(s) /\ Len(s) \in k..Len(s)
    BY <1>1
  <2>2. SubSeq(s, 1, k) \o SubSeq(s, k + 1, Len(s)) = SubSeq(s, 1, Len(s))
    BY <2>1, ConcatAdjacentSubSeq
  <2> QED BY <2>2, SubSeqFull
<1> QED BY <1>2, <1>3, <1>4

(* The two parts of a concatenation. *)
LEMMA Parts ==
  ASSUME NEW a \in Seq(Int), NEW b \in Seq(Int)
  PROVE  /\ a \o b \in Seq(Int) /\ Len(a \o b) = Len(a) + Len(b)
         /\ SubSeq(a \o b, 1, Len(a)) = a
         /\ SubSeq(a \o b, Len(a) + 1, Len(a \o b)) = b
         /\ \A m \in 1..Len(a) : (a \o b)[m] = a[m]
<1> DEFINE s == a \o b
           front == SubSeq(s, 1, Len(a))
           back == SubSeq(s, Len(a) + 1, Len(s))
<1>1. /\ s \in Seq(Int) /\ Len(s) = Len(a) + Len(b)
      /\ Len(a) \in Nat /\ Len(b) \in Nat
      /\ \A m \in 1..(Len(a) + Len(b)) :
           s[m] = IF m <= Len(a) THEN a[m] ELSE b[m - Len(a)]
  BY ConcatProperties
<1> HIDE DEF s
<1>2. /\ front \in Seq(Int) /\ Len(front) = Len(a)
      /\ back \in Seq(Int) /\ Len(back) = Len(b)
  BY <1>1, Cut
<1>3. \A m \in 1..Len(a) : s[m] = a[m]
  BY <1>1
<1>4. front = a
  <2>1. \A j \in 1..Len(s) : s[j] \in Int
    BY <1>1
  <2>2. \A m \in 1..Len(a) : front[m] = s[1 + m - 1]
    BY <1>1, <2>1, SubSeqProperties
  <2>3. \A m \in 1..Len(front) : front[m] = a[m]
    BY <1>1, <1>2, <1>3, <2>2
  <2> QED BY <1>2, <2>3, SeqEqual
<1>5. back = b
  <2>1. Len(a) + 1 \in Int /\ Len(s) \in Int /\ \A j \in (Len(a) + 1)..Len(s) : s[j] \in Int
    BY <1>1
  <2>2. \A m \in 1..(Len(s) - (Len(a) + 1) + 1) : back[m] = s[(Len(a) + 1) + m - 1]
    BY <2>1, SubSeqProperties
  <2>3. \A m \in 1..Len(back) : back[m] = b[m]
    <3> SUFFICES ASSUME NEW m \in 1..Len(back) PROVE back[m] = b[m]
      OBVIOUS
    <3>1. m \in 1..Len(b)
      BY <1>2
    <3> HIDE DEF back
    <3>2. back[m] = s[Len(a) + m]
      <4>1. m \in 1..(Len(s) - (Len(a) + 1) + 1) /\ (Len(a) + 1) + m - 1 = Len(a) + m
        BY <1>1, <3>1
      <4> QED BY <2>2, <4>1
    <3>3. s[Len(a) + m] = b[m]
      <4>1. Len(a) + m \in 1..(Len(a) + Len(b)) /\ ~(Len(a) + m <= Len(a))
        BY <1>1, <3>1
      <4>2. Len(a) + m - Len(a) = m
        BY <1>1, <3>1
      <4> QED BY SMTT(60), <1>1, <4>1, <4>2
    <3> QED BY <3>2, <3>3
  <2> QED BY <1>2, <2>3, SeqEqual
<1> QED BY <1>1, <1>3, <1>4, <1>5 DEF s

(* Three sequences, and four. *)
LEMMA Associative ==
  ASSUME NEW a \in Seq(Int), NEW b \in Seq(Int), NEW c \in Seq(Int)
  PROVE  (a \o b) \o c = a \o (b \o c)
BY ConcatAssociative

Joined(u, r, s, x) == ((u \o r) \o s) \o x

LEMMA JoinedIsSeq ==
  ASSUME NEW u \in Seq(Int), NEW r \in Seq(Int), NEW s \in Seq(Int), NEW x \in Seq(Int)
  PROVE  Joined(u, r, s, x) \in Seq(Int)
<1>1. u \o r \in Seq(Int)
  BY ConcatProperties
<1> DEFINE a == u \o r
<1> HIDE DEF a
<1>2. a \o s \in Seq(Int)
  BY <1>1, ConcatProperties DEF a
<1> DEFINE b == a \o s
<1> HIDE DEF b
<1>3. b \o x \in Seq(Int)
  BY <1>2, ConcatProperties DEF b
<1> QED BY <1>3 DEF a, b, Joined

(* The first sequence comes first. *)
ComesFirst(u, r, s, x) == Joined(u, r, s, x) = u \o Joined(<<>>, r, s, x)

LEMMA JoinedFirst ==
  ASSUME NEW u \in Seq(Int), NEW r \in Seq(Int), NEW s \in Seq(Int), NEW x \in Seq(Int)
  PROVE  ComesFirst(u, r, s, x)
<1>1. <<>> \o r = r /\ r \o s \in Seq(Int)
  BY ConcatEmptySeq, ConcatProperties
<1> DEFINE rs == r \o s
<1> HIDE DEF rs
<1>2. (u \o r) \o s = u \o rs
  BY SMTT(60), Associative DEF rs
<1>3. (u \o rs) \o x = u \o (rs \o x)
  BY SMTT(60), <1>1, Associative DEF rs
<1> QED BY <1>1, <1>2, <1>3 DEF ComesFirst, Joined, rs

(* Bytes that move from the front of one buffer to the end of another.     *)
LEMMA Moved ==
  ASSUME NEW a \in Seq(Int), NEW s \in Seq(Int), NEW k \in 0..Len(s)
  PROVE  (a \o SubSeq(s, 1, k)) \o SubSeq(s, k + 1, Len(s)) = a \o s
<1> DEFINE front == SubSeq(s, 1, k)
           back == SubSeq(s, k + 1, Len(s))
<1>1. front \in Seq(Int) /\ back \in Seq(Int) /\ front \o back = s
  BY Cut
<1> HIDE DEF front, back
<1>2. (a \o front) \o back = a \o (front \o back)
  BY ZenonT(60), <1>1, Associative
<1> QED BY <1>1, <1>2 DEF front, back

(* A byte that moves from the internal buffer to the caller's.             *)
LEMMA Taken ==
  ASSUME NEW u \in Seq(Int), NEW r \in Seq(Int), r # <<>>
  PROVE  /\ Append(u, Head(r)) \in Seq(Int) /\ Tail(r) \in Seq(Int)
         /\ Len(Append(u, Head(r))) = Len(u) + 1 /\ Len(Tail(r)) = Len(r) - 1
         /\ \A m \in 1..Len(u) : Append(u, Head(r))[m] = u[m]
         /\ Append(u, Head(r)) \o Tail(r) = u \o r
<1>1. /\ Head(r) \in Int /\ Tail(r) \in Seq(Int) /\ Len(Tail(r)) = Len(r) - 1
      /\ \A m \in 1..Len(Tail(r)) : Tail(r)[m] = r[m + 1]
  BY HeadTailProperties
<1>2. /\ Append(u, Head(r)) \in Seq(Int) /\ Len(Append(u, Head(r))) = Len(u) + 1
      /\ \A m \in 1..Len(u) : Append(u, Head(r))[m] = u[m]
      /\ Append(u, Head(r))[Len(u) + 1] = Head(r)
  BY <1>1, AppendProperties
<1>3. Append(u, Head(r)) \o Tail(r) = u \o r
  <2> DEFINE h == <<Head(r)>>
             t == Tail(r)
  <2>1. Len(r) \in Nat \ {0} /\ Head(r) = r[1] /\ 1 + 1 = 2
    BY EmptySeq
  <2>2. r = h \o t
    <3>1. SubSeq(r, 1, Len(r)) = <<r[1]>> \o SubSeq(r, 1 + 1, Len(r))
      BY <2>1, SubSeqRecursiveFirst
    <3>2. SubSeq(r, 1, Len(r)) = r /\ Tail(r) = SubSeq(r, 2, Len(r))
      BY SubSeqFull, TailIsSubSeq
    <3> QED BY <2>1, <3>1, <3>2
  <2>3. h \in Seq(Int) /\ t \in Seq(Int) /\ Append(u, Head(r)) = u \o h
    BY <1>1, AppendIsConcat
  <2> HIDE DEF h, t
  <2>4. (u \o h) \o t = u \o (h \o t)
    BY <2>3, Associative
  <2> QED BY <2>2, <2>3, <2>4 DEF t
<1> QED BY <1>1, <1>2, <1>3

-----------------------------------------------------------------------------
(* RioInv holds initially, and every step preserves it. *)
LEMMA SizesPositive ==
  /\ MaxLen \in Nat \ {0} /\ BufSize \in Nat \ {0} /\ SocketSize \in Nat \ {0}
BY SizesAssumption

LEMMA RioInvInit == Init => RioInv
<1> SUFFICES ASSUME Init PROVE RioInv
  OBVIOUS
<1>1. text \in Seq(Int)
  BY TextsAssumption DEF Init
<1>2. RioTypeOK
  BY <1>1, SizesPositive DEF Init, RioTypeOK, Calls
<1>3. CallUnfinished
  BY DEF Init, CallUnfinished
<1> QED BY <1>2, <1>3 DEF RioInv

(* The bytes that are still to be sent. *)
LEMMA UnsentIsSeq ==
  ASSUME RioTypeOK
  PROVE  /\ text \in Seq(Int) /\ Unsent \in Seq(Int)
         /\ writer = "writing" =>
              /\ sent \in 0..Len(text)
              /\ Unsent = SubSeq(text, sent + 1, Len(text))
         /\ writer # "writing" => Unsent = <<>>
<1>1. text \in Seq(Int)
  BY TextsAssumption DEF RioTypeOK
<1>2. SubSeq(text, sent + 1, Len(text)) \in Seq(Int)
  BY <1>1, Cut DEF RioTypeOK
<1> QED BY <1>1, <1>2 DEF RioTypeOK, Unsent

(* What a turn of a call leaves, when it has read bytes. *)
LEMMA GotTypes ==
  ASSUME RioTypeOK, NEW bytes \in Seq(Int), NEW full \in BOOLEAN,
         Len(bytes) <= MaxLen, IsFull(bytes) => full, GotInto(bytes, full)
  PROVE  /\ usrbuf' \in Seq(Int) /\ Len(usrbuf') < MaxLen
         /\ lines' \in Seq(Seq(Int)) /\ received' \in Seq(Int)
<1>1. CASE full
  <2>1. lines' = Append(lines, bytes) /\ usrbuf' = <<>> /\ received' = received \o bytes
    BY <1>1 DEF GotInto
  <2>2. Append(lines, bytes) \in Seq(Seq(Int)) /\ received \o bytes \in Seq(Int)
    BY AppendProperties, ConcatProperties DEF RioTypeOK
  <2> QED BY <2>1, <2>2, SizesPositive
<1>2. CASE ~full
  <2>1. lines' = lines /\ usrbuf' = bytes /\ received' = received
    BY <1>2 DEF GotInto
  <2>2. Len(bytes) # MaxLen /\ Len(bytes) \in Nat
    BY <1>2 DEF IsFull
  <2> QED BY <2>1, <2>2, SizesPositive DEF RioTypeOK
<1> QED BY <1>1, <1>2

(* The result for the part of the call that goes on. *)
LEMMA GotUnfinished ==
  ASSUME NEW bytes \in Seq(Int), NEW full \in BOOLEAN, EndsLine(bytes) => full,
         call = "rio_readlineb" => \A m \in 1..(Len(bytes) - 1) : bytes[m] # NewLine,
         GotInto(bytes, full), call' = call
  PROVE  call' = "rio_readlineb" => \A m \in 1..Len(usrbuf') : usrbuf'[m] # NewLine
<1> SUFFICES ASSUME call = "rio_readlineb"
             PROVE  \A m \in 1..Len(usrbuf') : usrbuf'[m] # NewLine
  OBVIOUS
<1>1. CASE full
  <2>1. usrbuf' = <<>>
    BY <1>1 DEF GotInto
  <2> QED BY <2>1
<1>2. CASE ~full
  <2>1. usrbuf' = bytes
    BY <1>2 DEF GotInto
  <2>2. bytes = <<>> \/ (Len(bytes) \in Nat \ {0} /\ bytes[Len(bytes)] # NewLine)
    BY <1>2, EmptySeq DEF EndsLine
  <2> QED BY <2>1, <2>2
<1> QED BY <1>1, <1>2

(* A turn of rio_readlineb, and one of rio_read, with what they have read. *)
LEMMA TakeByteReads ==
  ASSUME RioInv, TakeByte
  PROVE  \E bytes \in Seq(Int) :
           /\ GotInto(bytes, IsFull(bytes) \/ EndsLine(bytes))
           /\ Len(bytes) = Len(usrbuf) + 1
           /\ call = "rio_readlineb"
           /\ \A m \in 1..(Len(bytes) - 1) : bytes[m] # NewLine
           /\ rioBuf' \in Seq(Int) /\ Len(rioBuf') <= BufSize
           /\ bytes \o rioBuf' = usrbuf \o rioBuf
<1>1. /\ usrbuf \in Seq(Int) /\ rioBuf \in Seq(Int) /\ rioBuf # <<>>
      /\ Len(rioBuf) <= BufSize /\ rioBuf' = Tail(rioBuf)
      /\ call = "rio_readlineb"
      /\ \A m \in 1..Len(usrbuf) : usrbuf[m] # NewLine
  BY DEF RioInv, RioTypeOK, CallUnfinished, TakeByte, Calls
<1> DEFINE bytes == Append(usrbuf, Head(rioBuf))
<1>2. GotInto(bytes, IsFull(bytes) \/ EndsLine(bytes))
  BY DEF TakeByte
<1>3. /\ bytes \in Seq(Int) /\ Tail(rioBuf) \in Seq(Int)
      /\ Len(bytes) = Len(usrbuf) + 1 /\ Len(Tail(rioBuf)) = Len(rioBuf) - 1
      /\ \A m \in 1..Len(usrbuf) : bytes[m] = usrbuf[m]
      /\ bytes \o Tail(rioBuf) = usrbuf \o rioBuf
  BY <1>1, Taken
<1> HIDE DEF bytes
<1>4. Len(usrbuf) \in Nat /\ Len(rioBuf) \in Nat /\ Len(Tail(rioBuf)) <= BufSize
  BY <1>1, <1>3, SizesPositive
<1>5. \A m \in 1..(Len(bytes) - 1) : bytes[m] # NewLine
  <2> SUFFICES ASSUME NEW m \in 1..(Len(bytes) - 1) PROVE bytes[m] # NewLine
    OBVIOUS
  <2>1. Len(bytes) - 1 = Len(usrbuf)
    BY <1>3, <1>4
  <2>2. m \in 1..Len(usrbuf)
    BY <2>1
  <2> QED BY <1>1, <1>3, <2>2
<1> QED BY <1>1, <1>2, <1>3, <1>4, <1>5

LEMMA ReadBlockReads ==
  ASSUME RioInv, ReadBlock
  PROVE  \E bytes \in Seq(Int) :
           /\ GotInto(bytes, IsFull(bytes))
           /\ Len(bytes) \in 1..MaxLen
           /\ call = "rio_read"
           /\ socket' \in Seq(Int) /\ Len(socket') <= SocketSize
           /\ rioBuf = <<>>
           /\ bytes \o socket' = usrbuf \o socket
<1>1. /\ usrbuf \in Seq(Int) /\ socket \in Seq(Int) /\ Len(socket) <= SocketSize
      /\ Len(usrbuf) < MaxLen /\ call = "rio_read" /\ rioBuf = <<>>
      /\ Len(usrbuf) \in Nat /\ Len(socket) \in Nat
  BY DEF RioInv, RioTypeOK, CallUnfinished, ReadBlock, Calls
<1>2. PICK k \in 1..AtMost(MaxLen - Len(usrbuf), Len(socket)) :
        /\ GotInto(usrbuf \o SubSeq(socket, 1, k), IsFull(usrbuf \o SubSeq(socket, 1, k)))
        /\ socket' = SubSeq(socket, k + 1, Len(socket))
  BY DEF ReadBlock
<1>3. k \in Nat /\ k >= 1 /\ k <= MaxLen - Len(usrbuf) /\ k \in 0..Len(socket)
  BY <1>1, <1>2, SizesPositive DEF AtMost
<1> DEFINE front == SubSeq(socket, 1, k)
           bytes == usrbuf \o front
<1>4. /\ front \in Seq(Int) /\ Len(front) = k
      /\ socket' \in Seq(Int) /\ Len(socket') = Len(socket) - k
  BY <1>1, <1>2, <1>3, Cut
<1>5. bytes \o socket' = usrbuf \o socket
  BY <1>1, <1>2, <1>3, Moved
<1> HIDE DEF front
<1>6. bytes \in Seq(Int) /\ Len(bytes) = Len(usrbuf) + k
  BY <1>1, <1>4, ConcatProperties
<1>7. GotInto(bytes, IsFull(bytes))
  BY <1>2 DEF front
<1> HIDE DEF bytes
<1>8. Len(bytes) \in 1..MaxLen
  <2>1. Len(usrbuf) + k \in 1..MaxLen
    BY <1>1, <1>3, SizesPositive
  <2> QED BY <1>6, <2>1
<1>9. Len(socket') <= SocketSize
  <2>1. Len(socket) - k <= SocketSize
    BY <1>1, <1>3, SizesPositive
  <2> QED BY <1>4, <2>1
<1> QED BY <1>1, <1>4, <1>5, <1>6, <1>7, <1>8, <1>9

LEMMA RioInvStep == RioInv /\ [Next]_rioVars => RioInv'
<1> SUFFICES ASSUME RioInv, [Next]_rioVars PROVE RioInv'
  OBVIOUS
<1>0. RioTypeOK /\ CallUnfinished
  BY DEF RioInv
<1>1. CASE Write
  <2>1. PICK k \in 1..AtMost(Len(text) - sent, SocketSize - Len(socket)) :
          /\ socket' = socket \o SubSeq(text, sent + 1, sent + k)
          /\ sent' = sent + k
    BY <1>1 DEF Write
  <2>2. text \in Seq(Int) /\ Len(text) \in Nat /\ Len(socket) \in Nat
        /\ sent \in 0..Len(text) /\ socket \in Seq(Int)
    BY <1>0, UnsentIsSeq DEF RioTypeOK
  <2>3. k \in Nat /\ k >= 1 /\ k <= Len(text) - sent /\ k <= SocketSize - Len(socket)
    BY <2>1, <2>2, SizesPositive DEF AtMost
  <2> DEFINE p == SubSeq(text, sent + 1, sent + k)
  <2>4. p \in Seq(Int) /\ Len(p) = k
    <3>1. \A j \in (sent + 1)..(sent + k) : text[j] \in Int
      BY <2>2, <2>3
    <3>2. sent + 1 \in Int /\ sent + k \in Int /\ sent + 1 <= sent + k
          /\ (sent + k) - (sent + 1) + 1 = k
      BY <2>2, <2>3
    <3> QED BY <3>1, <3>2, SubSeqProperties
  <2> HIDE DEF p
  <2>5. socket \o p \in Seq(Int) /\ Len(socket \o p) = Len(socket) + k
    BY <2>2, <2>4, ConcatProperties
  <2>6. socket' \in Seq(Int) /\ Len(socket') <= SocketSize
    BY <2>1, <2>2, <2>3, <2>5, SizesPositive DEF p
  <2>7. sent' \in 0..Len(text')
    BY <1>1, <2>1, <2>2, <2>3 DEF Write
  <2>8. RioTypeOK'
    BY <1>0, <1>1, <2>6, <2>7 DEF Write, RioTypeOK
  <2>9. CallUnfinished'
    BY <1>0, <1>1 DEF Write, CallUnfinished
  <2> QED BY <2>8, <2>9 DEF RioInv
<1>2. CASE WriteFails \/ Close \/ ReadFails
  BY <1>0, <1>2 DEF WriteFails, Close, ReadFails, RioInv, RioTypeOK, CallUnfinished
<1>3. CASE Refill
  <2>1. PICK k \in 1..AtMost(BufSize, Len(socket)) :
          /\ rioBuf' = SubSeq(socket, 1, k)
          /\ socket' = SubSeq(socket, k + 1, Len(socket))
    BY <1>3 DEF Refill
  <2>2. socket \in Seq(Int) /\ Len(socket) \in Nat /\ Len(socket) <= SocketSize
    BY <1>0 DEF RioTypeOK
  <2>3. k \in 0..Len(socket) /\ k <= BufSize /\ k >= 1
    BY <2>1, <2>2, SizesPositive DEF AtMost
  <2>4. /\ rioBuf' \in Seq(Int) /\ Len(rioBuf') <= BufSize
        /\ socket' \in Seq(Int) /\ Len(socket') = Len(socket) - k
    BY <2>1, <2>2, <2>3, Cut
  <2>5. Len(socket') <= SocketSize
    BY <2>2, <2>3, <2>4, SizesPositive
  <2>6. RioTypeOK'
    BY <1>0, <1>3, <2>4, <2>5 DEF Refill, RioTypeOK
  <2>7. CallUnfinished'
    BY <1>0, <1>3 DEF Refill, CallUnfinished
  <2> QED BY <2>6, <2>7 DEF RioInv
<1>4. CASE TakeByte
  <2>1. PICK bytes \in Seq(Int) :
           /\ GotInto(bytes, IsFull(bytes) \/ EndsLine(bytes))
           /\ Len(bytes) = Len(usrbuf) + 1
           /\ call = "rio_readlineb"
           /\ \A m \in 1..(Len(bytes) - 1) : bytes[m] # NewLine
           /\ rioBuf' \in Seq(Int) /\ Len(rioBuf') <= BufSize
           /\ bytes \o rioBuf' = usrbuf \o rioBuf
    BY <1>4, TakeByteReads
  <2>2. Len(bytes) <= MaxLen
    BY <1>0, <2>1, SizesPositive DEF RioTypeOK
  <2>3. /\ usrbuf' \in Seq(Int) /\ Len(usrbuf') < MaxLen
        /\ lines' \in Seq(Seq(Int)) /\ received' \in Seq(Int)
    <3> DEFINE full == IsFull(bytes) \/ EndsLine(bytes)
    <3>1. full \in BOOLEAN
      BY DEF IsFull, EndsLine
    <3>2. IsFull(bytes) => full
      OBVIOUS
    <3> HIDE DEF full
    <3> QED BY <1>0, <2>1, <2>2, <3>1, <3>2, GotTypes DEF full
  <2>4. call' = "rio_readlineb" => \A m \in 1..Len(usrbuf') : usrbuf'[m] # NewLine
    <3> DEFINE full == IsFull(bytes) \/ EndsLine(bytes)
    <3>1. full \in BOOLEAN
      BY DEF IsFull, EndsLine
    <3>2. EndsLine(bytes) => full
      OBVIOUS
    <3>3. call' = call
      BY <1>4 DEF TakeByte
    <3> HIDE DEF full
    <3> QED BY <2>1, <3>1, <3>2, <3>3, GotUnfinished DEF full
  <2>5. RioTypeOK'
    BY <1>0, <1>4, <2>1, <2>3 DEF TakeByte, RioTypeOK
  <2>6. CallUnfinished'
    BY <1>4, <2>1, <2>4 DEF TakeByte, CallUnfinished
  <2> QED BY <2>5, <2>6 DEF RioInv
<1>5. CASE ReadBlock
  <2>1. PICK bytes \in Seq(Int) :
           /\ GotInto(bytes, IsFull(bytes))
           /\ Len(bytes) \in 1..MaxLen
           /\ call = "rio_read"
           /\ socket' \in Seq(Int) /\ Len(socket') <= SocketSize
           /\ rioBuf = <<>>
           /\ bytes \o socket' = usrbuf \o socket
    BY <1>5, ReadBlockReads
  <2>2. /\ usrbuf' \in Seq(Int) /\ Len(usrbuf') < MaxLen
        /\ lines' \in Seq(Seq(Int)) /\ received' \in Seq(Int)
    <3> DEFINE full == IsFull(bytes)
    <3>1. full \in BOOLEAN /\ (IsFull(bytes) => full) /\ Len(bytes) <= MaxLen
      BY <2>1, SizesPositive DEF IsFull
    <3> HIDE DEF full
    <3> QED BY <1>0, <2>1, <3>1, GotTypes DEF full
  <2>3. RioTypeOK'
    BY <1>0, <1>5, <2>1, <2>2 DEF ReadBlock, RioTypeOK
  <2>4. CallUnfinished'
    BY <1>5, <2>1 DEF ReadBlock, CallUnfinished
  <2> QED BY <2>3, <2>4 DEF RioInv
<1>6. CASE EndOfFile
  <2>1. CASE usrbuf = <<>>
    BY <1>0, <1>6, <2>1 DEF EndOfFile, RioInv, RioTypeOK, CallUnfinished
  <2>2. CASE usrbuf # <<>>
    <3>1. GotInto(usrbuf, TRUE)
      BY <1>6, <2>2 DEF EndOfFile
    <3>2. usrbuf' = <<>> /\ lines' = Append(lines, usrbuf) /\ received' = received \o usrbuf
      BY <3>1 DEF GotInto
    <3>3. lines' \in Seq(Seq(Int)) /\ received' \in Seq(Int)
      BY <1>0, <3>2, AppendProperties, ConcatProperties DEF RioTypeOK
    <3>4. RioTypeOK'
      BY <1>0, <1>6, <2>2, <3>2, <3>3, SizesPositive DEF EndOfFile, RioTypeOK
    <3>5. CallUnfinished'
      BY <1>0, <1>6, <3>2 DEF EndOfFile, CallUnfinished
    <3> QED BY <3>4, <3>5 DEF RioInv
  <2> QED BY <2>1, <2>2
<1>7. CASE UNCHANGED rioVars
  BY <1>0, <1>7 DEF rioVars, RioInv, RioTypeOK, CallUnfinished
<1>8. CASE WriteInterrupted \/ ReadInterrupted \/ Terminated
  BY <1>7, <1>8 DEF WriteInterrupted, ReadInterrupted, Terminated
<1> QED BY <1>1, <1>2, <1>3, <1>4, <1>5, <1>6, <1>7, <1>8 DEF Next

(* Type correctness: no buffer is ever filled past its end. *)
THEOREM RioTypeCorrect == Spec => []RioTypeOK
<1>1. RioInv => RioTypeOK
  BY DEF RioInv
<1> QED BY RioInvInit, RioInvStep, <1>1, PTL DEF Spec

-----------------------------------------------------------------------------
(* Every step returns the next piece of the text, or ends the sender, or   *)
(* is invisible in what is unread and what was returned.                   *)
LEMMA UnreadIsJoined == Unread = Joined(usrbuf, rioBuf, socket, Unsent)
BY DEF Unread, Joined

(* A turn of a call that has read bytes, and leaves rest unread, returns   *)
(* bytes as a piece or only moves them.                                    *)
LEMMA ReturnsAPiece ==
  ASSUME NEW bytes \in Seq(Int), NEW rest \in Seq(Int), NEW full \in BOOLEAN,
         bytes # <<>>, Unread = bytes \o rest,
         GotInto(bytes, full), call' = call, writer' = writer,
         Unread' = usrbuf' \o rest,
         Len(bytes) <= MaxLen,
         call = "rio_readlineb" => \A m \in 1..(Len(bytes) - 1) : bytes[m] # NewLine,
         full => \/ Len(bytes) = MaxLen
                 \/ writer # "writing" /\ rest = <<>>
                 \/ call = "rio_readlineb" /\ bytes[Len(bytes)] = NewLine
  PROVE  Stream!Return \/ UNCHANGED Stream!streamVars
<1>1. CASE ~full
  <2>1. usrbuf' = bytes /\ lines' = lines
    BY <1>1 DEF GotInto
  <2>2. Unread' = Unread
    BY <2>1
  <2> QED BY <2>1, <2>2 DEF Stream!streamVars
<1>2. CASE full
  <2>1. usrbuf' = <<>> /\ lines' = Append(lines, bytes)
    BY <1>2 DEF GotInto
  <2>2. Unread' = rest
    BY <2>1, ConcatEmptySeq
  <2> DEFINE n == Len(bytes)
             u == Unread
  <2>3. /\ u \in Seq(Int) /\ Len(u) = n + Len(rest)
        /\ SubSeq(u, 1, n) = bytes
        /\ SubSeq(u, n + 1, Len(u)) = rest
        /\ \A m \in 1..n : u[m] = bytes[m]
    BY Parts
  <2>4. n \in Nat \ {0} /\ Len(rest) \in Nat /\ (rest = <<>> => Len(rest) = 0)
    BY EmptySeq
  <2> DEFINE total == Len(u)
  <2>9. total = n + Len(rest)
    BY <2>3
  <2> HIDE DEF u, n, total
  <2>10. n \in 1..total /\ n \in 1..n /\ (rest = <<>> => n = total)
    BY <2>4, <2>9
  <2>5. n \in 1..Len(u) /\ n \in 1..n /\ (rest = <<>> => n = Len(u))
    BY <2>10 DEF total
  <2>6. u[n] = bytes[n] /\ \A m \in 1..(n - 1) : u[m] = bytes[m]
    <3>1. \A m \in 1..(n - 1) : m \in 1..n
      BY <2>4
    <3> QED BY <2>3, <2>5, <3>1
  <2>7. Stream!IsPiece(n)
    <3>1. n <= MaxLen
      BY DEF n
    <3>2. \/ n = MaxLen
          \/ writer # "writing" /\ n = Len(u)
          \/ call = "rio_readlineb" /\ u[n] = NewLine
      BY <1>2, <2>5, <2>6 DEF n
    <3>3. call = "rio_readlineb" => \A m \in 1..(n - 1) : u[m] # NewLine
      BY <2>6 DEF n
    <3> QED BY <3>1, <3>2, <3>3 DEF Stream!IsPiece, u
  <2>8. lines' = Append(lines, SubSeq(u, 1, n)) /\ Unread' = SubSeq(u, n + 1, Len(u))
    BY <2>1, <2>2, <2>3 DEF n
  <2> QED BY <2>5, <2>7, <2>8 DEF Stream!Return, u
<1> QED BY <1>1, <1>2

LEMMA UnreadStep == RioInv /\ [Next]_rioVars => [Stream!Next]_Stream!streamVars
<1> SUFFICES ASSUME RioInv, [Next]_rioVars
             PROVE  Stream!Return \/ Stream!SenderEnds \/ UNCHANGED Stream!streamVars
  BY DEF Stream!Next
<1> DEFINE u == usrbuf
           r == rioBuf
           s == socket
           x == Unsent
<1>0. /\ u \in Seq(Int) /\ r \in Seq(Int) /\ s \in Seq(Int) /\ x \in Seq(Int)
      /\ Len(u) < MaxLen
      /\ call = "rio_readlineb" => \A m \in 1..Len(u) : u[m] # NewLine
      /\ call = "rio_read" => r = <<>>
      /\ call \in Calls
  BY UnsentIsSeq DEF RioInv, RioTypeOK, CallUnfinished
<1>00. Unread = Joined(u, r, s, x) /\ <<>> \in Seq(Int)
  BY UnreadIsJoined, EmptySeq
<1>1. CASE Write
  <2>1. PICK k \in 1..AtMost(Len(text) - sent, SocketSize - Len(socket)) :
          /\ socket' = socket \o SubSeq(text, sent + 1, sent + k)
          /\ sent' = sent + k
    BY <1>1 DEF Write
  <2>2. /\ text \in Seq(Int) /\ Len(text) \in Nat /\ Len(socket) \in Nat
        /\ sent \in 0..Len(text)
        /\ x = SubSeq(text, sent + 1, Len(text))
    BY <1>1, UnsentIsSeq DEF RioInv, RioTypeOK, Write
  <2>3. k \in Nat /\ k >= 1 /\ k <= Len(text) - sent
    BY <2>1, <2>2, SizesPositive DEF AtMost
  <2> DEFINE p == SubSeq(text, sent + 1, sent + k)
             y == SubSeq(text, sent + k + 1, Len(text))
             a == u \o r
  <2>4. p \in Seq(Int)
    <3>1. \A j \in (sent + 1)..(sent + k) : text[j] \in Int
      BY <2>2, <2>3
    <3>2. sent + 1 \in Int /\ sent + k \in Int
      BY <2>2, <2>3
    <3> QED BY <3>1, <3>2, SubSeqProperties
  <2>5. y \in Seq(Int)
    <3>1. sent + k \in 0..Len(text)
      BY <2>2, <2>3
    <3> QED BY <2>2, <3>1, Cut
  <2>6. p \o y = x
    <3>1. sent + 1 \in 1..(Len(text) + 1) /\ sent + k \in ((sent + 1) - 1)..Len(text)
          /\ Len(text) \in (sent + k)..Len(text)
      BY <2>2, <2>3
    <3> QED BY <2>2, <3>1, ConcatAdjacentSubSeq
  <2>7. Unsent' = y /\ socket' = s \o p /\ UNCHANGED <<usrbuf, rioBuf, call, lines, writer>>
    BY <1>1, <2>1 DEF Write, Unsent
  <2>8. a \in Seq(Int)
    BY <1>0, ConcatProperties
  <2> HIDE DEF p, y, a, u, r, s, x
  <2>9. (a \o (s \o p)) \o y = (a \o s) \o x
    <3>1. a \o s \in Seq(Int)
      BY <1>0, <2>8, ConcatProperties
    <3>2. a \o (s \o p) = (a \o s) \o p
      BY <1>0, <2>4, <2>8, Associative
    <3>3. ((a \o s) \o p) \o y = (a \o s) \o (p \o y)
      BY <2>4, <2>5, <3>1, Associative
    <3> QED BY <2>6, <3>2, <3>3
  <2>10. Unread' = Unread
    BY <2>7, <2>9 DEF Unread, a, u, r, s, x
  <2> QED BY <2>7, <2>10 DEF Stream!streamVars
<1>2. CASE WriteFails
  <2> DEFINE b == (u \o r) \o s
  <2>1. /\ x' = <<>> /\ UNCHANGED <<usrbuf, rioBuf, socket, call, lines>>
        /\ writer = "writing" /\ writer' # "writing"
    BY <1>2 DEF WriteFails, Unsent
  <2>2. b \in Seq(Int)
    <3>1. u \o r \in Seq(Int)
      BY <1>0, ConcatProperties
    <3> QED BY <1>0, <3>1, ConcatProperties
  <2>3. Unread = b \o x /\ Unread' = b \o x'
    BY <2>1 DEF Unread
  <2> HIDE DEF b, x
  <2>4. /\ Unread' = b
        /\ SubSeq(Unread, 1, Len(b)) = b /\ Len(Unread) = Len(b) + Len(x)
    BY <1>0, <2>1, <2>2, <2>3, ConcatEmptySeq, Parts
  <2>5. Len(b) \in 0..Len(Unread)
    BY <1>0, <2>2, <2>4
  <2> QED BY <2>1, <2>4, <2>5 DEF Stream!SenderEnds
<1>3. CASE Close
  <2>1. x = <<>> /\ x' = <<>>
    <3>1. Len(text) \in Nat /\ x = SubSeq(text, Len(text) + 1, Len(text))
      BY <1>3, UnsentIsSeq DEF Close, RioInv
    <3>2. Len(text) + 1 \in Int /\ Len(text) \in Int /\ Len(text) < Len(text) + 1
      BY <3>1
    <3>3. SubSeq(text, Len(text) + 1, Len(text)) = <<>>
      BY <3>2, SubSeqEmpty
    <3>4. x' = <<>>
      BY <1>3 DEF Close, Unsent
    <3> QED BY <3>1, <3>3, <3>4
  <2>2. /\ Unread' = Unread /\ UNCHANGED <<call, lines>>
        /\ writer = "writing" /\ writer' # "writing"
    BY <1>3, <2>1 DEF Close, Unread
  <2>3. Unread \in Seq(Int)
    BY <1>0, <1>00, JoinedIsSeq
  <2>4. Len(Unread) \in 0..Len(Unread) /\ SubSeq(Unread, 1, Len(Unread)) = Unread
    BY <2>3, SubSeqFull
  <2> QED BY <2>2, <2>4 DEF Stream!SenderEnds
<1>4. CASE Refill
  <2>1. PICK k \in 1..AtMost(BufSize, Len(socket)) :
          /\ rioBuf' = SubSeq(socket, 1, k)
          /\ socket' = SubSeq(socket, k + 1, Len(socket))
    BY <1>4 DEF Refill
  <2>2. k \in 0..Len(socket)
    BY <1>0, <2>1, SizesPositive DEF AtMost
  <2>3. (u \o rioBuf') \o socket' = u \o s
    BY <1>0, <2>1, <2>2, Moved
  <2>4. r = <<>> /\ UNCHANGED <<usrbuf, Unsent, call, lines, writer>>
    BY <1>4 DEF Refill, Unsent
  <2>5. u \o r = u
    BY <1>0, <2>4, ConcatEmptySeq
  <2> QED BY <2>3, <2>4, <2>5 DEF Unread, Stream!streamVars
<1>5. CASE TakeByte
  <2>1. PICK bytes \in Seq(Int) :
           /\ GotInto(bytes, IsFull(bytes) \/ EndsLine(bytes))
           /\ Len(bytes) = Len(usrbuf) + 1
           /\ call = "rio_readlineb"
           /\ \A m \in 1..(Len(bytes) - 1) : bytes[m] # NewLine
           /\ rioBuf' \in Seq(Int) /\ Len(rioBuf') <= BufSize
           /\ bytes \o rioBuf' = usrbuf \o rioBuf
    BY <1>5, TakeByteReads
  <2> DEFINE rest == Joined(<<>>, rioBuf', s, x)
             full == IsFull(bytes) \/ EndsLine(bytes)
  <2>2. UNCHANGED <<socket, Unsent, call, writer>>
    BY <1>5 DEF TakeByte, Unsent
  <2>3. rest \in Seq(Int)
    BY <1>0, <1>00, <2>1, JoinedIsSeq
  <2>4. Unread = bytes \o rest
    <3>1. Unread = Joined(bytes, rioBuf', s, x)
      BY <1>00, <2>1 DEF Joined
    <3>2. ComesFirst(bytes, rioBuf', s, x)
      BY <1>0, <2>1, JoinedFirst
    <3> QED BY <3>1, <3>2 DEF ComesFirst
  <2>5. Unread' = usrbuf' \o rest
    <3>1. Unread' = Joined(usrbuf', rioBuf', s, x)
      BY <2>2 DEF Unread, Joined
    <3>2. usrbuf' \in Seq(Int)
      BY RioInvStep DEF RioInv, RioTypeOK
    <3>3. ComesFirst(usrbuf', rioBuf', s, x)
      BY <1>0, <2>1, <3>2, JoinedFirst
    <3> QED BY <3>1, <3>3 DEF ComesFirst
  <2>6. Len(bytes) <= MaxLen /\ bytes # <<>>
    BY <1>0, <2>1, SizesPositive
  <2>7. full \in BOOLEAN
        /\ (full => \/ Len(bytes) = MaxLen
                    \/ writer # "writing" /\ rest = <<>>
                    \/ call = "rio_readlineb" /\ bytes[Len(bytes)] = NewLine)
    BY <2>1 DEF IsFull, EndsLine
  <2> HIDE DEF rest, full
  <2> QED BY <2>1, <2>2, <2>3, <2>4, <2>5, <2>6, <2>7, ReturnsAPiece DEF full
<1>6. CASE ReadBlock
  <2>1. PICK bytes \in Seq(Int) :
           /\ GotInto(bytes, IsFull(bytes))
           /\ Len(bytes) \in 1..MaxLen
           /\ call = "rio_read"
           /\ socket' \in Seq(Int) /\ Len(socket') <= SocketSize
           /\ rioBuf = <<>>
           /\ bytes \o socket' = usrbuf \o socket
    BY <1>6, ReadBlockReads
  <2> DEFINE rest == Joined(<<>>, <<>>, socket', x)
             full == IsFull(bytes)
  <2>2. UNCHANGED <<rioBuf, Unsent, call, writer>>
    BY <1>6 DEF ReadBlock, Unsent
  <2>3. rest \in Seq(Int)
    BY <1>0, <1>00, <2>1, JoinedIsSeq
  <2>4. Unread = bytes \o rest
    <3>1. u \o <<>> = u /\ bytes \o <<>> = bytes
      BY <1>0, ConcatEmptySeq
    <3>2. Unread = Joined(bytes, <<>>, socket', x)
      BY <1>00, <2>1, <3>1 DEF Joined
    <3>3. ComesFirst(bytes, <<>>, socket', x)
      BY <1>0, <1>00, <2>1, JoinedFirst
    <3> QED BY <3>2, <3>3 DEF ComesFirst
  <2>5. Unread' = usrbuf' \o rest
    <3>1. Unread' = Joined(usrbuf', <<>>, socket', x)
      BY <2>1, <2>2 DEF Unread, Joined
    <3>2. usrbuf' \in Seq(Int)
      BY RioInvStep DEF RioInv, RioTypeOK
    <3>3. ComesFirst(usrbuf', <<>>, socket', x)
      BY <1>0, <1>00, <2>1, <3>2, JoinedFirst
    <3> QED BY <3>1, <3>3 DEF ComesFirst
  <2>6. Len(bytes) <= MaxLen /\ bytes # <<>>
    BY <2>1, SizesPositive
  <2>7. full \in BOOLEAN
        /\ (full => \/ Len(bytes) = MaxLen
                    \/ writer # "writing" /\ rest = <<>>
                    \/ call = "rio_readlineb" /\ bytes[Len(bytes)] = NewLine)
    BY <2>1 DEF IsFull
  <2>8. call # "rio_readlineb"
    BY <2>1
  <2> HIDE DEF rest, full
  <2> QED BY <2>1, <2>2, <2>3, <2>4, <2>5, <2>6, <2>7, <2>8, ReturnsAPiece DEF full
<1>7. CASE EndOfFile
  <2>1. r = <<>> /\ s = <<>> /\ x = <<>> /\ writer # "writing"
        /\ UNCHANGED <<rioBuf, socket, Unsent, call, writer>>
    BY <1>7 DEF EndOfFile, Unsent
  <2>2. CASE usrbuf = <<>>
    BY <1>7, <2>1, <2>2 DEF EndOfFile, Unread, Stream!streamVars
  <2>3. CASE usrbuf # <<>>
    <3>1. GotInto(usrbuf, TRUE)
      BY <1>7, <2>3 DEF EndOfFile
    <3>2. usrbuf' = <<>>
      BY <3>1 DEF GotInto
    <3>3. Unread = u \o <<>> /\ Unread' = usrbuf' \o <<>>
      <4>1. u \o <<>> = u /\ usrbuf' \o <<>> = usrbuf'
        BY <1>0, <1>00, <3>2, ConcatEmptySeq
      <4> QED BY <2>1, <4>1 DEF Unread
    <3>4. Len(u) <= MaxLen
      BY <1>0, SizesPositive
    <3>5. call = "rio_readlineb" => \A m \in 1..(Len(u) - 1) : u[m] # NewLine
      BY <1>0
    <3> QED BY <1>0, <1>00, <2>1, <2>3, <3>1, <3>3, <3>4, <3>5, ReturnsAPiece
  <2> QED BY <2>2, <2>3
<1>8. CASE ReadFails
  BY <1>8 DEF ReadFails, Unread, Unsent, Stream!streamVars
<1>9. CASE UNCHANGED rioVars
  BY <1>9 DEF rioVars, Unread, Unsent, Stream!streamVars
<1>10. CASE WriteInterrupted \/ ReadInterrupted \/ Terminated
  BY <1>9, <1>10 DEF WriteInterrupted, ReadInterrupted, Terminated
<1> QED BY <1>1, <1>2, <1>3, <1>4, <1>5, <1>6, <1>7, <1>8, <1>9, <1>10 DEF Next

LEMMA UnreadInit == Init => Stream!Init
<1> SUFFICES ASSUME Init PROVE Stream!Init
  OBVIOUS
<1>1. /\ text \in Texts /\ text \in Seq(Int) /\ lines = <<>> /\ call \in Calls
      /\ usrbuf = <<>> /\ rioBuf = <<>> /\ socket = <<>> /\ sent = 0 /\ writer = "writing"
  BY TextsAssumption DEF Init
<1>2. Unsent = text
  <2>1. 0 + 1 = 1 /\ SubSeq(text, 1, Len(text)) = text
    BY <1>1, SubSeqFull
  <2> QED BY <1>1, <2>1 DEF Unsent
<1>3. Unread = text
  <2>1. <<>> \o text = text /\ <<>> \o <<>> = <<>>
    BY <1>1, ConcatEmptySeq, EmptySeq
  <2> QED BY <1>1, <1>2, <2>1 DEF Unread
<1> QED BY <1>1, <1>3 DEF Stream!Init, Calls

(* The robust reads implement the abstract stream: in order, each byte     *)
(* once, in pieces that depend on the text and the function alone.         *)
THEOREM RioImplementsStream == Spec => ReadsTheStream
BY RioInvInit, RioInvStep, UnreadInit, UnreadStep, PTL DEF Spec, ReadsTheStream, Stream!Spec

(* A sender that closes has sent everything. *)
ClosedWhenSent == writer = "closed" => sent = Len(text)

LEMMA ClosedStep == ClosedWhenSent /\ [Next]_rioVars => ClosedWhenSent'
<1> SUFFICES ASSUME ClosedWhenSent, [Next]_rioVars, writer' = "closed"
             PROVE  sent' = Len(text')
  BY DEF ClosedWhenSent
<1>1. Close \/ (writer = "closed" /\ UNCHANGED <<text, sent>>)
  BY DEF Next, Write, WriteInterrupted, WriteFails, Close, Refill, TakeByte,
     ReadBlock, ReadInterrupted, EndOfFile, ReadFails, Terminated, rioVars
<1> QED BY <1>1 DEF ClosedWhenSent, Close

(* The bytes that were sent, in order: those the calls have returned, then *)
(* those of the present call, of struct rio and of the kernel.             *)
InOrder == received \o (usrbuf \o (rioBuf \o socket)) = SubSeq(text, 1, sent)

(* A turn of a call that has read bytes keeps what it has and returned.    *)
LEMMA NothingDropped ==
  ASSUME RioTypeOK, NEW bytes \in Seq(Int), NEW rest \in Seq(Int), NEW left \in Seq(Int),
         NEW full \in BOOLEAN, GotInto(bytes, full), bytes \o left = usrbuf \o rest
  PROVE  received' \o (usrbuf' \o left) = received \o (usrbuf \o rest)
<1>0. received \in Seq(Int) /\ usrbuf \in Seq(Int)
  BY DEF RioTypeOK
<1>1. CASE full
  <2>1. received' = received \o bytes /\ usrbuf' = <<>>
    BY <1>1 DEF GotInto
  <2>2. <<>> \o left = left
    BY ConcatEmptySeq
  <2>3. (received \o bytes) \o left = received \o (bytes \o left)
    BY <1>0, Associative
  <2> QED BY <2>1, <2>2, <2>3
<1>2. CASE ~full
  BY <1>2 DEF GotInto
<1> QED BY <1>1, <1>2

LEMMA InOrderStep == RioInv /\ InOrder /\ [Next]_rioVars => InOrder'
<1> SUFFICES ASSUME RioInv, InOrder, [Next]_rioVars PROVE InOrder'
  OBVIOUS
<1> DEFINE u == usrbuf
           r == rioBuf
           s == socket
<1>0. /\ u \in Seq(Int) /\ r \in Seq(Int) /\ s \in Seq(Int) /\ received \in Seq(Int)
  BY DEF RioInv, RioTypeOK
<1>00. /\ text \in Seq(Int) /\ sent \in 0..Len(text) /\ Len(text) \in Nat
  BY UnsentIsSeq DEF RioInv, RioTypeOK
<1>01. RioTypeOK
  BY DEF RioInv
<1>02. r \o s \in Seq(Int)
  BY <1>0, ConcatProperties
<1>1. CASE Write
  <2>1. PICK k \in 1..AtMost(Len(text) - sent, SocketSize - Len(socket)) :
          /\ socket' = socket \o SubSeq(text, sent + 1, sent + k)
          /\ sent' = sent + k
    BY <1>1 DEF Write
  <2>2. k \in Nat /\ k >= 1 /\ k <= Len(text) - sent
    <3>1. Len(socket) \in Nat
      BY <1>0
    <3> QED BY <1>00, <2>1, <3>1, SizesPositive DEF AtMost
  <2> DEFINE p == SubSeq(text, sent + 1, sent + k)
             a == SubSeq(text, 1, sent)
  <2>3. p \in Seq(Int)
    <3>1. \A j \in (sent + 1)..(sent + k) : text[j] \in Int
      BY <1>00, <2>2
    <3>2. sent + 1 \in Int /\ sent + k \in Int
      BY <1>00, <2>2
    <3> QED BY <3>1, <3>2, SubSeqProperties
  <2>4. a \o p = SubSeq(text, 1, sent + k)
    <3>1. /\ 1 \in 1..(Len(text) + 1) /\ sent \in (1 - 1)..Len(text)
          /\ sent + k \in sent..Len(text)
      BY <1>00, <2>2
    <3> QED BY <1>00, <3>1, ConcatAdjacentSubSeq
  <2>5. socket' = s \o p /\ sent' = sent + k /\ UNCHANGED <<usrbuf, rioBuf, received, text>>
    BY <1>1, <2>1 DEF Write
  <2> DEFINE rs == r \o s
             urs == u \o rs
  <2>6. rs \in Seq(Int)
    BY <1>02
  <2> HIDE DEF a, p, u, r, s
  <2>7. r \o (s \o p) = rs \o p
    BY <1>0, <2>3, Associative
  <2> HIDE DEF rs
  <2>61. urs \in Seq(Int)
    BY <1>0, <2>6, ConcatProperties
  <2>8. u \o (rs \o p) = urs \o p
    <3>1. u \in Seq(Int)
      BY <1>0
    <3> QED BY <2>3, <2>6, <3>1, Associative
  <2> HIDE DEF urs
  <2>9. received \o (urs \o p) = (received \o urs) \o p
    BY <1>0, <2>3, <2>61, Associative
  <2>10. received \o urs = a
    BY DEF InOrder, urs, rs, a, u, r, s
  <2>11. received' \o (usrbuf' \o (rioBuf' \o socket')) = a \o p
    BY <2>5, <2>7, <2>8, <2>9, <2>10 DEF u, r, s
  <2>12. SubSeq(text', 1, sent') = a \o p
    BY <2>4, <2>5
  <2> QED BY <2>11, <2>12 DEF InOrder
<1>2. CASE WriteFails \/ Close \/ ReadFails
  BY <1>2 DEF WriteFails, Close, ReadFails, InOrder
<1>3. CASE Refill
  <2>1. PICK k \in 1..AtMost(BufSize, Len(socket)) :
          /\ rioBuf' = SubSeq(socket, 1, k)
          /\ socket' = SubSeq(socket, k + 1, Len(socket))
    BY <1>3 DEF Refill
  <2>2. k \in 0..Len(socket)
    BY <1>0, <2>1, SizesPositive DEF AtMost
  <2>3. rioBuf' \o socket' = s
    BY <1>0, <2>1, <2>2, Cut
  <2>4. r = <<>> /\ UNCHANGED <<usrbuf, received, text, sent>>
    BY <1>3 DEF Refill
  <2>5. r \o s = s
    BY <1>0, <2>4, ConcatEmptySeq
  <2> QED BY <2>3, <2>4, <2>5 DEF InOrder
<1>4. CASE TakeByte
  <2>1. PICK bytes \in Seq(Int) :
           /\ GotInto(bytes, IsFull(bytes) \/ EndsLine(bytes))
           /\ rioBuf' \in Seq(Int)
           /\ bytes \o rioBuf' = usrbuf \o rioBuf
    BY <1>4, TakeByteReads
  <2> DEFINE full == IsFull(bytes) \/ EndsLine(bytes)
             left == rioBuf' \o s
             rest == r \o s
  <2>2. full \in BOOLEAN /\ GotInto(bytes, full)
    BY <2>1 DEF IsFull, EndsLine
  <2>3. left \in Seq(Int) /\ rest \in Seq(Int)
    BY <1>0, <2>1, ConcatProperties
  <2>4. bytes \o left = usrbuf \o rest
    <3>1. (bytes \o rioBuf') \o s = bytes \o left
      BY <1>0, <2>1, Associative
    <3>2. (u \o r) \o s = u \o rest
      BY <1>0, Associative
    <3> QED BY <2>1, <3>1, <3>2
  <2>5. UNCHANGED <<socket, text, sent>>
    BY <1>4 DEF TakeByte
  <2> HIDE DEF full, left, rest
  <2>6. received' \o (usrbuf' \o left) = received \o (usrbuf \o rest)
    BY <1>01, <2>1, <2>2, <2>3, <2>4, NothingDropped
  <2> QED BY <2>5, <2>6 DEF InOrder, left, rest
<1>5. CASE ReadBlock
  <2>1. PICK bytes \in Seq(Int) :
           /\ GotInto(bytes, IsFull(bytes))
           /\ socket' \in Seq(Int)
           /\ rioBuf = <<>>
           /\ bytes \o socket' = usrbuf \o socket
    BY <1>5, ReadBlockReads
  <2> DEFINE full == IsFull(bytes)
  <2>2. full \in BOOLEAN /\ GotInto(bytes, full)
    BY <2>1 DEF IsFull
  <2>3. UNCHANGED <<rioBuf, text, sent>> /\ <<>> \o s = s /\ <<>> \o socket' = socket'
    BY EmptySeq, <1>0, <1>5, <2>1, ConcatEmptySeq DEF ReadBlock
  <2>10. bytes \in Seq(Int) /\ socket' \in Seq(Int) /\ bytes \o socket' = usrbuf \o socket
    BY <2>1
  <2> HIDE DEF full
  <2>4. received' \o (usrbuf' \o socket') = received \o (usrbuf \o socket)
    <3>1. socket \in Seq(Int)
      BY <1>0
    <3> QED BY <1>01, <2>2, <2>10, <3>1, NothingDropped
  <2> QED BY <2>1, <2>3, <2>4 DEF InOrder
<1>6. CASE EndOfFile
  <2>1. CASE usrbuf = <<>>
    BY <1>6, <2>1 DEF EndOfFile, InOrder
  <2>2. CASE usrbuf # <<>>
    <3>1. GotInto(usrbuf, TRUE) /\ UNCHANGED <<rioBuf, socket, text, sent>>
      BY <1>6, <2>2 DEF EndOfFile
    <3> DEFINE rest == r \o s
    <3>2. rest \in Seq(Int)
      BY <1>02
    <3> HIDE DEF rest
    <3>3. received' \o (usrbuf' \o rest) = received \o (usrbuf \o rest)
      BY <1>0, <1>01, <3>1, <3>2, NothingDropped
    <3> QED BY <3>1, <3>3 DEF InOrder, rest
  <2> QED BY <2>1, <2>2
<1>7. CASE UNCHANGED rioVars
  BY <1>7 DEF rioVars, InOrder
<1>8. CASE WriteInterrupted \/ ReadInterrupted \/ Terminated
  BY <1>7, <1>8 DEF WriteInterrupted, ReadInterrupted, Terminated
<1> QED BY <1>1, <1>2, <1>3, <1>4, <1>5, <1>6, <1>7, <1>8 DEF Next

(* A call returns 0 at an end of file that finds every buffer empty: then  *)
(* all that was sent has been returned.                                    *)
LEMMA ZeroStep ==
  RioInv /\ InOrder /\ ClosedWhenSent /\ ZeroOnlyAtTheEnd /\ [Next]_rioVars => ZeroOnlyAtTheEnd'
<1> SUFFICES ASSUME RioInv, InOrder, ClosedWhenSent, ZeroOnlyAtTheEnd, [Next]_rioVars,
                    reader' = "done"
             PROVE  /\ received' = SubSeq(text', 1, sent')
                    /\ \/ writer' = "closed" /\ sent' = Len(text')
                       \/ writer' = "failed"
  BY DEF ZeroOnlyAtTheEnd
<1>1. CASE reader = "done"
  <2>1. received = SubSeq(text, 1, sent) /\ writer # "writing"
        /\ ((writer = "closed" /\ sent = Len(text)) \/ writer = "failed")
    BY <1>1 DEF ZeroOnlyAtTheEnd
  <2>2. UNCHANGED rioVars
    BY <1>1, <2>1 DEF Next, Write, WriteInterrupted, WriteFails, Close, Refill, TakeByte,
       ReadBlock, ReadInterrupted, EndOfFile, ReadFails, Terminated, rioVars
  <2> QED BY <2>1, <2>2 DEF rioVars
<1>2. CASE reader # "done"
  <2>1. EndOfFile /\ usrbuf = <<>>
    BY <1>2 DEF Next, Write, WriteInterrupted, WriteFails, Close, Refill, TakeByte,
       ReadBlock, ReadInterrupted, EndOfFile, ReadFails, Terminated, rioVars
  <2>2. usrbuf = <<>> /\ rioBuf = <<>> /\ socket = <<>> /\ received \in Seq(Int)
    BY <2>1 DEF EndOfFile, RioInv, RioTypeOK
  <2>3. received = SubSeq(text, 1, sent)
    BY <2>2, ConcatEmptySeq, EmptySeq DEF InOrder
  <2>4. writer # "writing" /\ UNCHANGED <<text, sent, writer, received>>
    BY <2>1 DEF EndOfFile
  <2>5. (writer' = "closed" /\ sent' = Len(text')) \/ writer' = "failed"
    BY <2>1, <2>4 DEF RioInv, RioTypeOK, EndOfFile, ClosedWhenSent
  <2> QED BY <2>3, <2>4, <2>5
<1> QED BY <1>1, <1>2

(* A call returns 0 only after the calls have returned the whole text, or  *)
(* all that a failed sender had sent.                                      *)
THEOREM ZeroOnlyAtEnd == Spec => []ZeroOnlyAtTheEnd
<1>1. Init => ClosedWhenSent /\ ZeroOnlyAtTheEnd
  BY DEF Init, ClosedWhenSent, ZeroOnlyAtTheEnd
<1>2. Init => InOrder
  <2> SUFFICES ASSUME Init PROVE InOrder
    OBVIOUS
  <2>1. /\ text \in Seq(Int) /\ sent = 0
        /\ received = <<>> /\ usrbuf = <<>> /\ rioBuf = <<>> /\ socket = <<>>
    BY TextsAssumption DEF Init
  <2>2. <<>> \o <<>> = <<>> /\ SubSeq(text, 1, 0) = <<>>
    BY <2>1, EmptySeq, ConcatEmptySeq, SubSeqEmpty
  <2> QED BY <2>1, <2>2 DEF InOrder
<1> QED BY RioInvInit, RioInvStep, InOrderStep, ClosedStep, ZeroStep, <1>1, <1>2, PTL DEF Spec

=============================================================================
