------------------------ MODULE ThreadQueuesProofs ------------------------
(***************************************************************************)
(* What the queue operators of ThreadQueues return: their type, the        *)
(* elements they keep, and that a queue without duplicates stays one.      *)
(***************************************************************************)
EXTENDS ThreadQueues, SequenceTheorems, FiniteSetTheorems, FunctionTheorems, TLAPS

(* The elements of a sequence, by position. *)
LEMMA RangeAt ==
  ASSUME NEW S, NEW q \in Seq(S)
  PROVE  /\ \A i \in 1..Len(q) : q[i] \in Range(q)
         /\ \A x \in Range(q) : x \in S /\ \E i \in 1..Len(q) : q[i] = x
         /\ DOMAIN q = 1..Len(q)
         /\ Len(q) \in Nat
  BY LenProperties DEF Range

(* queuePush adds its element, and no duplicate if the element is new. *)
LEMMA PushProperties ==
  ASSUME NEW S, NEW q \in Seq(S), NEW x \in S
  PROVE  /\ QueuePush(q, x) \in Seq(S)
         /\ QueuePush(q, x) # <<>>
         /\ Range(QueuePush(q, x)) = Range(q) \cup {x}
         /\ IsInjective(q) /\ x \notin Range(q) => IsInjective(QueuePush(q, x))
<1> DEFINE r == QueuePush(q, x)
<1>1. /\ r \in Seq(S)
      /\ r # <<>>
      /\ Len(r) = Len(q) + 1
      /\ \A i \in 1..Len(q) : r[i] = q[i]
      /\ r[Len(q) + 1] = x
  BY AppendProperties DEF QueuePush
<1>2. /\ DOMAIN q = 1..Len(q)
      /\ DOMAIN r = 1..Len(r)
      /\ Len(q) \in Nat
  BY <1>1, LenProperties
<1>3. Range(r) = Range(q) \cup {x}
  <2>1. ASSUME NEW y \in Range(r) PROVE y \in Range(q) \cup {x}
    <3>1. PICK i \in 1..(Len(q) + 1) : y = r[i]
      BY <1>1, <1>2 DEF Range
    <3>2. i \in 1..Len(q) \/ i = Len(q) + 1
      BY <1>2
    <3> QED BY <1>1, <1>2, <3>1, <3>2 DEF Range
  <2>2. ASSUME NEW y \in Range(q) PROVE y \in Range(r)
    <3>1. PICK i \in 1..Len(q) : y = q[i]
      BY <1>2 DEF Range
    <3>2. i \in DOMAIN r
      BY <1>1, <1>2
    <3> QED BY <1>1, <3>1, <3>2 DEF Range
  <2>3. x \in Range(r)
    <3>1. Len(q) + 1 \in DOMAIN r
      BY <1>1, <1>2
    <3> QED BY <1>1, <3>1 DEF Range
  <2> QED BY <2>1, <2>2, <2>3
<1>4. ASSUME IsInjective(q), x \notin Range(q)
      PROVE  IsInjective(r)
  <2> SUFFICES ASSUME NEW a \in 1..(Len(q) + 1), NEW b \in 1..(Len(q) + 1), r[a] = r[b]
               PROVE  a = b
    BY <1>1, <1>2 DEF IsInjective
  <2>1. CASE a \in 1..Len(q) /\ b \in 1..Len(q)
    BY <1>1, <1>2, <1>4, <2>1 DEF IsInjective
  <2>2. CASE a = Len(q) + 1 /\ b = Len(q) + 1
    BY <2>2
  <2>3. CASE a = Len(q) + 1 /\ b \in 1..Len(q)
    BY <1>1, <1>2, <1>4, <2>3 DEF Range
  <2>4. CASE a \in 1..Len(q) /\ b = Len(q) + 1
    BY <1>1, <1>2, <1>4, <2>4 DEF Range
  <2> QED BY <1>2, <2>1, <2>2, <2>3, <2>4
<1> QED BY <1>1, <1>3, <1>4

(* queuePop returns the head, which a queue without duplicates then lacks. *)
LEMMA PopProperties ==
  ASSUME NEW S, NEW q \in Seq(S), q # <<>>
  PROVE  /\ Head(q) \in S
         /\ Head(q) \in Range(q)
         /\ Tail(q) \in Seq(S)
         /\ Range(q) = Range(Tail(q)) \cup {Head(q)}
         /\ IsInjective(q) => IsInjective(Tail(q)) /\ Head(q) \notin Range(Tail(q))
<1> DEFINE t == Tail(q)
<1>1. /\ Head(q) \in S
      /\ t \in Seq(S)
      /\ Len(t) = Len(q) - 1
      /\ \A i \in 1..Len(t) : t[i] = q[i + 1]
      /\ Head(q) = q[1]
  BY HeadTailProperties
<1>2. /\ Len(q) \in Nat /\ Len(q) # 0
      /\ DOMAIN q = 1..Len(q)
      /\ DOMAIN t = 1..(Len(q) - 1)
  BY <1>1, LenProperties, EmptySeq
<1>3. Head(q) \in Range(q)
  <2>1. 1 \in DOMAIN q
    BY <1>2
  <2> QED BY <1>1, <2>1 DEF Range
<1>4. Range(q) = Range(t) \cup {Head(q)}
  <2>1. ASSUME NEW y \in Range(q) PROVE y \in Range(t) \cup {Head(q)}
    <3>1. PICK i \in 1..Len(q) : y = q[i]
      BY <1>2 DEF Range
    <3>2. CASE i = 1
      BY <1>1, <3>1, <3>2
    <3>3. CASE i # 1
      <4>1. i - 1 \in DOMAIN t /\ t[i - 1] = q[i]
        BY <1>1, <1>2, <3>3
      <4> QED BY <3>1, <4>1 DEF Range
    <3> QED BY <3>2, <3>3
  <2>2. ASSUME NEW y \in Range(t) PROVE y \in Range(q)
    <3>1. PICK i \in 1..(Len(q) - 1) : y = t[i]
      BY <1>2 DEF Range
    <3>2. i + 1 \in DOMAIN q /\ t[i] = q[i + 1]
      BY <1>1, <1>2
    <3> QED BY <3>1, <3>2 DEF Range
  <2> QED BY <1>3, <2>1, <2>2
<1>5. ASSUME IsInjective(q)
      PROVE  IsInjective(t) /\ Head(q) \notin Range(t)
  <2>1. ASSUME NEW a \in 1..(Len(q) - 1), NEW b \in 1..(Len(q) - 1), t[a] = t[b]
        PROVE  a = b
    BY <1>1, <1>2, <1>5, <2>1 DEF IsInjective
  <2>2. ASSUME NEW a \in 1..(Len(q) - 1) PROVE t[a] # Head(q)
    BY <1>1, <1>2, <1>5 DEF IsInjective
  <2> QED BY <1>2, <2>1, <2>2 DEF IsInjective, Range
<1> QED BY <1>1, <1>3, <1>4, <1>5

(* Appending one queue to another. *)
LEMMA ConcatQueues ==
  ASSUME NEW S, NEW q \in Seq(S), NEW r \in Seq(S)
  PROVE  /\ q \o r \in Seq(S)
         /\ Range(q \o r) = Range(q) \cup Range(r)
         /\ IsInjective(q) /\ IsInjective(r) /\ Range(q) \cap Range(r) = {}
              => IsInjective(q \o r)
<1> DEFINE c == q \o r
<1>1. /\ c \in Seq(S)
      /\ Len(c) = Len(q) + Len(r)
      /\ \A i \in 1..(Len(q) + Len(r)) :
           c[i] = IF i <= Len(q) THEN q[i] ELSE r[i - Len(q)]
  BY ConcatProperties
<1>2. /\ Len(q) \in Nat /\ Len(r) \in Nat
      /\ DOMAIN c = 1..(Len(q) + Len(r))
      /\ DOMAIN q = 1..Len(q) /\ DOMAIN r = 1..Len(r)
  BY <1>1, LenProperties
<1>3. Range(c) = Range(q) \cup Range(r)
  BY RangeConcatenation
<1>4. ASSUME IsInjective(q), IsInjective(r), Range(q) \cap Range(r) = {}
      PROVE  IsInjective(c)
  <2> SUFFICES ASSUME NEW a \in DOMAIN c, NEW b \in DOMAIN c, c[a] = c[b]
               PROVE  a = b
    BY DEF IsInjective
  <2>1. CASE a <= Len(q) /\ b <= Len(q)
    BY <1>1, <1>2, <1>4, <2>1 DEF IsInjective
  <2>2. CASE a > Len(q) /\ b > Len(q)
    <3>1. a - Len(q) \in DOMAIN r /\ b - Len(q) \in DOMAIN r
      BY <1>2, <2>2
    <3>2. r[a - Len(q)] = r[b - Len(q)]
      BY <1>1, <1>2, <2>2
    <3> QED BY <1>2, <1>4, <3>1, <3>2 DEF IsInjective
  <2>3. CASE a <= Len(q) /\ b > Len(q)
    <3>1. a \in DOMAIN q /\ b - Len(q) \in DOMAIN r /\ q[a] = r[b - Len(q)]
      BY <1>1, <1>2, <2>3
    <3> QED BY <1>4, <3>1 DEF Range
  <2>4. CASE a > Len(q) /\ b <= Len(q)
    <3>1. b \in DOMAIN q /\ a - Len(q) \in DOMAIN r /\ q[b] = r[a - Len(q)]
      BY <1>1, <1>2, <2>4
    <3> QED BY <1>4, <3>1 DEF Range
  <2> QED BY <1>2, <2>1, <2>2, <2>3, <2>4
<1> QED BY <1>1, <1>3, <1>4

(* queueRemove takes its element out of a queue without duplicates, and    *)
(* nothing else.                                                           *)
LEMMA RemoveProperties ==
  ASSUME NEW S, NEW q \in Seq(S), NEW x
  PROVE  /\ QueueRemove(q, x) \in Seq(S)
         /\ IsInjective(q) => /\ IsInjective(QueueRemove(q, x))
                              /\ Range(QueueRemove(q, x)) = Range(q) \ {x}
<1> DEFINE First(i) == q[i] = x /\ \A j \in 1..(i - 1) : q[j] # x
           first == CHOOSE i \in DOMAIN q : First(i)
           r == [i \in 1..(Len(q) - 1) |-> IF i < first THEN q[i] ELSE q[i + 1]]
<1>1. /\ Len(q) \in Nat
      /\ DOMAIN q = 1..Len(q)
      /\ \A i \in 1..Len(q) : q[i] \in S
  BY LenProperties
<1>2. CASE x \notin Range(q)
  BY <1>2 DEF QueueRemove
<1>3. CASE x \in Range(q)
  <2>1. QueueRemove(q, x) = r
    BY <1>3 DEF QueueRemove
  <2>2. Len(q) # 0
    BY <1>1, <1>3 DEF Range
  <2>3. \A i \in 1..(Len(q) - 1) : r[i] \in S
    BY <1>1
  <2>4. r \in [1..(Len(q) - 1) -> S]
    BY <2>3
  <2>5. r \in Seq(S)
    <3>1. Len(q) - 1 \in Nat
      BY <1>1, <2>2
    <3> QED BY <2>4, <3>1, IsASeq, SMT
  <2>6. ASSUME IsInjective(q)
        PROVE  IsInjective(r) /\ Range(r) = Range(q) \ {x}
    <3>1. PICK k \in 1..Len(q) : q[k] = x
      BY <1>1, <1>3 DEF Range
    <3>2. \A i \in 1..Len(q) : q[i] = x => i = k
      BY <1>1, <2>6, <3>1 DEF IsInjective
    <3>3. First(k)
      BY <1>1, <3>1, <3>2
    <3>4. first \in DOMAIN q /\ First(first)
      BY <1>1, <3>3
    <3>5. first = k
      BY <1>1, <3>2, <3>4
    <3> HIDE DEF first
    <3>6. DOMAIN r = 1..(Len(q) - 1)
      OBVIOUS
    <3>7. ASSUME NEW a \in DOMAIN r, NEW b \in DOMAIN r, r[a] = r[b]
          PROVE  a = b
      <4>1. \A i, j \in 1..Len(q) : q[i] = q[j] => i = j
        BY <1>1, <2>6 DEF IsInjective
      <4> QED BY <1>1, <3>1, <3>5, <3>7, <4>1
    <3>8. ASSUME NEW y \in Range(r) PROVE y \in Range(q) \ {x}
      <4>1. PICK i \in 1..(Len(q) - 1) : y = r[i]
        BY <3>6 DEF Range
      <4>2. CASE i < k
        <5>1. i \in DOMAIN q /\ y = q[i] /\ i # k
          BY <1>1, <3>1, <3>5, <4>1, <4>2
        <5> QED BY <1>1, <3>2, <5>1 DEF Range
      <4>3. CASE ~(i < k)
        <5>1. i + 1 \in DOMAIN q /\ y = q[i + 1] /\ i + 1 # k
          BY <1>1, <3>1, <3>5, <4>1, <4>3
        <5> QED BY <1>1, <3>2, <5>1 DEF Range
      <4> QED BY <4>2, <4>3
    <3>9. ASSUME NEW y \in Range(q), y # x PROVE y \in Range(r)
      <4>1. PICK i \in 1..Len(q) : y = q[i]
        BY <1>1 DEF Range
      <4>2. CASE i < k
        <5>1. i \in DOMAIN r /\ r[i] = y
          BY <1>1, <3>1, <3>5, <4>1, <4>2
        <5> QED BY <5>1 DEF Range
      <4>3. CASE i > k
        <5>1. i - 1 \in DOMAIN r /\ r[i - 1] = y
          BY <1>1, <3>1, <3>5, <4>1, <4>3
        <5> QED BY <5>1 DEF Range
      <4>4. i # k
        BY <3>1, <3>9, <4>1
      <4> QED BY <1>1, <3>1, <4>2, <4>3, <4>4
    <3> QED BY <3>7, <3>8, <3>9 DEF IsInjective
  <2> QED BY <2>1, <2>5, <2>6
<1> QED BY <1>2, <1>3

(* The selection of T from a queue: its elements are those of the queue    *)
(* that are in T, each at one position of the queue, in the queue's order. *)
(* Rank counts the selected positions up to one; it is injective into as   *)
(* many numbers as there are positions, hence onto them.                   *)
LEMMA SelectPositions ==
  ASSUME NEW S, NEW q \in Seq(S), NEW T
  PROVE  \E n \in Nat : \E at \in [1..n -> DOMAIN q] :
           /\ QueueSelect(q, T) = [k \in 1..n |-> q[at[k]]]
           /\ \A i, j \in 1..n : i < j => at[i] < at[j]
           /\ \A i \in DOMAIN q : q[i] \in T <=> \E k \in 1..n : at[k] = i
<1> DEFINE P == {i \in DOMAIN q : q[i] \in T}
           UpTo(i) == {j \in P : j <= i}
           Rank(i) == Cardinality(UpTo(i))
           n == Cardinality(P)
           at == [k \in 1..n |-> CHOOSE i \in P : Rank(i) = k]
           f == [i \in P |-> Rank(i)]
<1>1. Len(q) \in Nat /\ DOMAIN q = 1..Len(q)
  BY LenProperties
<1>2. IsFiniteSet(P) /\ n \in Nat
  <2>1. IsFiniteSet(1..Len(q))
    BY <1>1, FS_Interval
  <2>2. IsFiniteSet(P)
    BY <1>1, <2>1, FS_Subset
  <2> QED BY <2>2, FS_CardinalityType
<1>3. \A i \in P : IsFiniteSet(UpTo(i)) /\ Rank(i) \in 1..n /\ Rank(i) \in Nat
  <2> TAKE i \in P
  <2>1. UpTo(i) \in SUBSET P
    OBVIOUS
  <2>2. IsFiniteSet(UpTo(i)) /\ Rank(i) <= n
    BY <1>2, <2>1, FS_Subset
  <2>3. Rank(i) \in Nat
    BY <2>2, FS_CardinalityType
  <2>4. i \in UpTo(i)
    BY <1>1
  <2>5. Rank(i) # 0
    BY <2>2, <2>4, FS_EmptySet
  <2> HIDE DEF Rank, UpTo, n, P
  <2> QED BY <1>2, <2>2, <2>3, <2>5
<1>4. \A i, j \in P : i < j => Rank(i) < Rank(j)
  <2> SUFFICES ASSUME NEW i \in P, NEW j \in P, i < j
               PROVE  Rank(i) < Rank(j)
    OBVIOUS
  <2>1. UpTo(i) \in SUBSET UpTo(j)
    BY <1>1
  <2>2. j \in UpTo(j) /\ j \notin UpTo(i)
    BY <1>1
  <2>3. Rank(i) <= Rank(j) /\ Rank(i) # Rank(j)
    BY <1>3, <2>1, <2>2, FS_Subset
  <2>4. Rank(i) \in Nat /\ Rank(j) \in Nat
    BY <1>3
  <2> HIDE DEF Rank
  <2> QED BY <2>3, <2>4
<1>5. \A i, j \in P : Rank(i) = Rank(j) => i = j
  <2>1. \A i \in P : Rank(i) \in Nat
    BY <1>3
  <2>2. \A i \in P : i \in Nat
    BY <1>1
  <2> HIDE DEF Rank, P
  <2> QED BY <1>4, <2>1, <2>2
<1>6. \A k \in 1..n : \E i \in P : Rank(i) = k
  <2>1. IsFiniteSet(1..n) /\ Cardinality(1..n) = n
    BY <1>2, FS_Interval
  <2>2. f \in Injection(P, 1..n)
    BY <1>3, <1>5 DEF Injection, IsInjective
  <2>3. f \in Surjection(P, 1..n)
    BY <2>1, <2>2, FS_Injection
  <2> QED BY <2>3 DEF Surjection
<1> HIDE DEF n, Rank
<1>7. \A k \in 1..n : at[k] \in P /\ Rank(at[k]) = k
  BY <1>6
<1>8. at \in [1..n -> DOMAIN q]
  BY <1>7
<1>9. QueueSelect(q, T) = [k \in 1..n |-> q[at[k]]]
  BY DEF QueueSelect, n, Rank
<1>10. \A i, j \in 1..n : i < j => at[i] < at[j]
  <2> SUFFICES ASSUME NEW i \in 1..n, NEW j \in 1..n, i < j
               PROVE  at[i] < at[j]
    OBVIOUS
  <2>1. /\ at[i] \in P /\ at[j] \in P
        /\ Rank(at[i]) = i /\ Rank(at[j]) = j
    BY <1>7
  <2>2. at[i] \in Nat /\ at[j] \in Nat
    BY <1>1, <2>1
  <2> HIDE DEF at, P
  <2>3. at[j] < at[i] => FALSE
    BY <1>4, <2>1, <1>2
  <2>4. at[i] # at[j]
    BY <2>1
  <2> QED BY <2>2, <2>3, <2>4
<1>11. \A i \in DOMAIN q : q[i] \in T <=> \E k \in 1..n : at[k] = i
  <2>1. ASSUME NEW i \in P PROVE \E k \in 1..n : at[k] = i
    <3>1. Rank(i) \in 1..n /\ at[Rank(i)] \in P /\ Rank(at[Rank(i)]) = Rank(i)
      BY <1>3, <1>7
    <3> QED BY <1>5, <3>1
  <2>2. \A k \in 1..n : q[at[k]] \in T
    BY <1>7
  <2> QED BY <2>1, <2>2
<1> HIDE DEF at
<1> QED BY <1>2, <1>8, <1>9, <1>10, <1>11

(* A selection from a queue is a queue of those of its elements that are   *)
(* in T, without duplicates if the queue has none.                         *)
LEMMA SelectProperties ==
  ASSUME NEW S, NEW q \in Seq(S), NEW T
  PROVE  /\ QueueSelect(q, T) \in Seq(S)
         /\ Range(QueueSelect(q, T)) = Range(q) \cap T
         /\ IsInjective(q) => IsInjective(QueueSelect(q, T))
<1> DEFINE r == QueueSelect(q, T)
<1>a. PICK n \in Nat : \E at \in [1..n -> DOMAIN q] :
           /\ r = [k \in 1..n |-> q[at[k]]]
           /\ \A i, j \in 1..n : i < j => at[i] < at[j]
           /\ \A i \in DOMAIN q : q[i] \in T <=> \E k \in 1..n : at[k] = i
  BY SMTT(60), SelectPositions
<1>1. PICK at \in [1..n -> DOMAIN q] :
           /\ r = [k \in 1..n |-> q[at[k]]]
           /\ \A i, j \in 1..n : i < j => at[i] < at[j]
           /\ \A i \in DOMAIN q : q[i] \in T <=> \E k \in 1..n : at[k] = i
  BY <1>a
<1>2. Len(q) \in Nat /\ DOMAIN q = 1..Len(q) /\ \A i \in 1..Len(q) : q[i] \in S
  BY LenProperties
<1>3. DOMAIN r = 1..n /\ \A k \in 1..n : r[k] = q[at[k]] /\ at[k] \in DOMAIN q
  BY <1>1
<1> HIDE DEF r
<1>4. r \in Seq(S)
  <2>1. r \in [1..n -> S]
    BY <1>1, <1>2
  <2> QED BY <2>1, IsASeq, SMT
<1>5. Range(r) = Range(q) \cap T
  <2>1. ASSUME NEW y \in Range(r) PROVE y \in Range(q) \cap T
    <3>1. PICK k \in 1..n : y = q[at[k]]
      BY <1>3 DEF Range
    <3> QED BY <1>1, <1>3, <3>1 DEF Range
  <2>2. ASSUME NEW y \in Range(q), y \in T PROVE y \in Range(r)
    <3>1. PICK i \in DOMAIN q : y = q[i]
      BY DEF Range
    <3>2. PICK k \in 1..n : at[k] = i
      BY <1>1, <2>2, <3>1
    <3> QED BY <1>3, <3>1, <3>2 DEF Range
  <2> QED BY <2>1, <2>2
<1>6. ASSUME IsInjective(q) PROVE IsInjective(r)
  <2> SUFFICES ASSUME NEW a \in 1..n, NEW b \in 1..n, r[a] = r[b]
               PROVE  a = b
    BY <1>3 DEF IsInjective
  <2>1. at[a] = at[b]
    BY <1>3, <1>6 DEF IsInjective
  <2>2. ~(a < b) /\ ~(b < a)
    BY <1>1, <1>2, <1>3, <2>1
  <2> QED BY <2>2
<1> QED BY <1>4, <1>5, <1>6 DEF r

-----------------------------------------------------------------------------
(* What the operations on queues do to the order.                          *)

(* Whoever stands before another is in the queue, and so is the other; in  *)
(* a queue without duplicates nobody stands before himself, or before the  *)
(* head.                                                                   *)
LEMMA BeforeInQueue ==
  ASSUME NEW S, NEW q \in Seq(S), NEW a, NEW b, Before(q, a, b)
  PROVE  /\ a \in Range(q) /\ b \in Range(q)
         /\ IsInjective(q) => a # b /\ b # Head(q)
<1>1. PICK i, j \in DOMAIN q : i < j /\ q[i] = a /\ q[j] = b
  BY DEF Before
<1>2. i \in 1..Len(q) /\ j \in 1..Len(q) /\ Len(q) \in Nat /\ Head(q) = q[1] /\ 1 \in DOMAIN q
  BY <1>1, RangeAt
<1>3. a \in Range(q) /\ b \in Range(q)
  BY <1>1, <1>2, RangeAt
<1>4. ASSUME IsInjective(q) PROVE a # b /\ b # Head(q)
  BY <1>1, <1>2, <1>4 DEF IsInjective
<1> QED BY <1>3, <1>4

(* A part of a queue, in the order of its positions, keeps the order.      *)
LEMMA PartKeepsOrder ==
  ASSUME NEW S, NEW q \in Seq(S), IsInjective(q), NEW n \in Nat,
         NEW at \in [1..n -> DOMAIN q], \A i, j \in 1..n : i < j => at[i] < at[j],
         NEW r, r = [k \in 1..n |-> q[at[k]]]
  PROVE  KeepsOrder(q, r)
<1>1. DOMAIN q = 1..Len(q) /\ Len(q) \in Nat /\ DOMAIN r = 1..n
  BY RangeAt
<1>2. \A x \in Range(r) : x \in Range(q) /\ \E k \in 1..n : r[k] = x /\ q[at[k]] = x
  BY <1>1 DEF Range
<1> SUFFICES ASSUME NEW a \in Range(q) \cap Range(r), NEW b \in Range(r), Before(q, a, b)
             PROVE  Before(r, a, b)
  BY <1>2 DEF KeepsOrder
<1>3. PICK i, j \in DOMAIN q : i < j /\ q[i] = a /\ q[j] = b
  BY DEF Before
<1>4. PICK k \in 1..n : r[k] = a /\ q[at[k]] = a
  BY <1>2
<1>5. PICK l \in 1..n : r[l] = b /\ q[at[l]] = b
  BY <1>2
<1>6. at[k] \in DOMAIN q /\ at[l] \in DOMAIN q
  OBVIOUS
<1>7. at[k] = i /\ at[l] = j
  BY <1>3, <1>4, <1>5, <1>6 DEF IsInjective
<1>8. k < l
  BY <1>1, <1>3, <1>4, <1>5, <1>7
<1> QED BY <1>1, <1>4, <1>5, <1>8 DEF Before

(* A queue that is left as it is, or emptied.                              *)
LEMMA SameKeepsOrder ==
  ASSUME NEW S, NEW q \in Seq(S)
  PROVE  KeepsOrder(q, q) /\ KeepsOrder(q, <<>>)
  BY DEF KeepsOrder, Range

(* queueRemove keeps the order of the others.                              *)
LEMMA RemoveKeepsOrder ==
  ASSUME NEW S, NEW q \in Seq(S), IsInjective(q), NEW x
  PROVE  KeepsOrder(q, QueueRemove(q, x))
<1>1. CASE x \notin Range(q)
  BY <1>1, SameKeepsOrder DEF QueueRemove
<1>2. CASE x \in Range(q)
  <2> DEFINE First(i) == i \in DOMAIN q /\ q[i] = x /\ \A j \in 1..(i - 1) : q[j] # x
             first == CHOOSE i \in DOMAIN q : q[i] = x /\ \A j \in 1..(i - 1) : q[j] # x
             n == Len(q) - 1
             at == [k \in 1..n |-> IF k < first THEN k ELSE k + 1]
  <2>1. DOMAIN q = 1..Len(q) /\ Len(q) \in Nat
    BY RangeAt
  <2>2. PICK p \in 1..Len(q) : q[p] = x
    BY <1>2, RangeAt
  <2>3. First(p)
    BY <2>1, <2>2 DEF IsInjective
  <2>4. first \in 1..Len(q)
    BY <2>1, <2>3
  <2> HIDE DEF first
  <2>5. n \in Nat /\ at \in [1..n -> DOMAIN q]
    BY <2>1, <2>4
  <2>6. \A i, j \in 1..n : i < j => at[i] < at[j]
    BY <2>1, <2>4
  <2>7. QueueRemove(q, x) = [i \in 1..n |-> IF i < first THEN q[i] ELSE q[i + 1]]
    BY <1>2 DEF QueueRemove, first
  <2>8. QueueRemove(q, x) = [k \in 1..n |-> q[at[k]]]
    BY <2>7
  <2> HIDE DEF n, at
  <2> QED BY <2>5, <2>6, <2>8, PartKeepsOrder
<1> QED BY <1>1, <1>2

(* queuePop keeps the order of the others.                                 *)
LEMMA TailKeepsOrder ==
  ASSUME NEW S, NEW q \in Seq(S), IsInjective(q), q # <<>>
  PROVE  KeepsOrder(q, Tail(q))
<1> DEFINE n == Len(q) - 1
           at == [k \in 1..n |-> k + 1]
<1>1. DOMAIN q = 1..Len(q) /\ Len(q) \in Nat \ {0}
  BY RangeAt
<1>2. n \in Nat /\ at \in [1..n -> DOMAIN q] /\ \A i, j \in 1..n : i < j => at[i] < at[j]
  BY <1>1
<1>3. Tail(q) = [k \in 1..n |-> q[at[k]]]
  <2>1. \A k \in 1..n : at[k] = k + 1
    OBVIOUS
  <2>2. /\ Tail(q) \in Seq(S) /\ Len(Tail(q)) = n
        /\ \A k \in 1..n : Tail(q)[k] = q[k + 1]
    BY <1>1, HeadTailProperties
  <2>3. Tail(q) \in [1..n -> S]
    BY <2>2, LenProperties
  <2> HIDE DEF n, at
  <2> QED BY <2>1, <2>2, <2>3
<1> HIDE DEF n, at
<1> QED BY <1>2, <1>3, PartKeepsOrder

(* So does the loop that sorts the sleepers.                               *)
LEMMA SelectKeepsOrder ==
  ASSUME NEW S, NEW q \in Seq(S), IsInjective(q), NEW T
  PROVE  KeepsOrder(q, QueueSelect(q, T))
<1>1. PICK n \in Nat : \E at \in [1..n -> DOMAIN q] :
        /\ QueueSelect(q, T) = [k \in 1..n |-> q[at[k]]]
        /\ \A i, j \in 1..n : i < j => at[i] < at[j]
  BY SelectPositions
<1>2. PICK at \in [1..n -> DOMAIN q] :
        /\ QueueSelect(q, T) = [k \in 1..n |-> q[at[k]]]
        /\ \A i, j \in 1..n : i < j => at[i] < at[j]
  BY <1>1
<1> QED BY <1>2, PartKeepsOrder

(* What is linked at the end stands behind, and in its own order.          *)
LEMMA ConcatKeepsOrder ==
  ASSUME NEW S, NEW q \in Seq(S), NEW r \in Seq(S)
  PROVE  /\ KeepsOrder(q, q \o r)
         /\ \A a, b : Before(r, a, b) => Before(q \o r, a, b)
<1> DEFINE c == q \o r
<1>1. /\ Len(q) \in Nat /\ Len(r) \in Nat /\ Len(c) = Len(q) + Len(r)
      /\ DOMAIN q = 1..Len(q) /\ DOMAIN r = 1..Len(r) /\ DOMAIN c = 1..Len(c)
      /\ \A i \in 1..Len(q) : c[i] = q[i]
      /\ \A i \in 1..Len(r) : c[Len(q) + i] = r[i]
  BY ConcatProperties, RangeAt
<1>2. Range(c) = Range(q) \cup Range(r)
  BY ConcatQueues
<1>3. /\ \A x \in Range(q) : \E i \in 1..Len(q) : q[i] = x
      /\ \A x \in Range(r) : \E i \in 1..Len(r) : r[i] = x
  BY RangeAt
<1> HIDE DEF c
<1>4. ASSUME NEW a, NEW b, Before(r, a, b) PROVE Before(c, a, b)
  <2>1. PICK i, j \in 1..Len(r) : i < j /\ r[i] = a /\ r[j] = b
    BY <1>1, <1>4 DEF Before
  <2>2. /\ Len(q) + i \in DOMAIN c /\ Len(q) + j \in DOMAIN c /\ Len(q) + i < Len(q) + j
        /\ c[Len(q) + i] = a /\ c[Len(q) + j] = b
    BY <1>1, <2>1
  <2> QED BY <2>2 DEF Before
<1>5. ASSUME NEW a \in Range(q), NEW b \in Range(c), Before(q, a, b) PROVE Before(c, a, b)
  <2>1. PICK i, j \in 1..Len(q) : i < j /\ q[i] = a /\ q[j] = b
    BY <1>1, <1>5 DEF Before
  <2>2. i \in DOMAIN c /\ j \in DOMAIN c /\ c[i] = a /\ c[j] = b
    BY <1>1, <2>1
  <2> QED BY <2>1, <2>2 DEF Before
<1>6. ASSUME NEW a \in Range(q), NEW b \in Range(c), b \notin Range(q) PROVE Before(c, a, b)
  <2>1. PICK i \in 1..Len(q) : q[i] = a
    BY <1>3
  <2>2. PICK j \in 1..Len(r) : r[j] = b
    BY <1>2, <1>3, <1>6
  <2>3. /\ i \in DOMAIN c /\ Len(q) + j \in DOMAIN c /\ i < Len(q) + j
        /\ c[i] = a /\ c[Len(q) + j] = b
    BY <1>1, <2>1, <2>2
  <2> QED BY <2>3 DEF Before
<1>7. KeepsOrder(q, c)
  BY <1>5, <1>6 DEF KeepsOrder
<1> QED BY <1>4, <1>7 DEF c

(* queuePush. *)
LEMMA PushKeepsOrder ==
  ASSUME NEW S, NEW q \in Seq(S), NEW x \in S
  PROVE  KeepsOrder(q, QueuePush(q, x))
<1>1. QueuePush(q, x) = q \o <<x>> /\ <<x>> \in Seq(S)
  BY DEF QueuePush
<1> QED BY <1>1, ConcatKeepsOrder

(* Two operations in a row.                                                *)
LEMMA KeepsOrderTwice ==
  ASSUME NEW old, NEW mid, NEW new, KeepsOrder(old, mid), KeepsOrder(mid, new),
         Range(old) \cap Range(new) \subseteq Range(mid)
  PROVE  KeepsOrder(old, new)
  BY DEF KeepsOrder

=============================================================================
