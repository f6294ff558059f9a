-------------------------- MODULE WordCountProofs --------------------------
(***************************************************************************)
(* Proofs that the second pass of wc_init counts every word right, that    *)
(* wc_output prints each with its count, and what wc_destroy leaves, for   *)
(* any text and any hash function.                                         *)
(***************************************************************************)
EXTENDS WordCount, FiniteSetTheorems, SequenceTheorems, WellFoundedInduction,
        TLAPS

Entries == [word : Seq(Int), count : Nat \ {0}]

(* The types of what the two passes read and write. *)
PassTypes ==
  /\ text \in Texts
  /\ i \in 0..Len(text)
  /\ firstSpace \in 0..i
  /\ wordCount \in Nat
  /\ phase \in {"insert", "printed"} =>
       hashTable \in [0..(2 * wordCount - 1) -> Seq(Entries)]

(* No separator was read after the one at firstSpace. *)
FirstIsLast ==
  /\ firstSpace = 0 \/ text[firstSpace] \in Separators
  /\ \A q \in (firstSpace + 1)..i : text[q] \notin Separators

(* The first pass counts the words that separators end, and only the       *)
(* second drops words.                                                     *)
FirstPassCounts ==
  /\ phase = "count" => wordCount = Cardinality(Ends(text, i)) /\ dropped = {}
  /\ phase \in {"insert", "printed"} => wordCount = Cardinality(Ends(text, Len(text)))
  /\ phase \in {"insert", "printed"} => dropped \subseteq Ends(text, i)

(* The inductive invariant. *)
WcInv == PassTypes /\ FirstIsLast /\ FirstPassCounts /\ CountsAreRight

-----------------------------------------------------------------------------
(* The ends of words are finitely many, and grow with the text. *)
LEMMA EndsFinite ==
  ASSUME NEW t, NEW n \in Nat
  PROVE  /\ IsFiniteSet(Ends(t, n))
         /\ Ends(t, n) \subseteq 2..n
<1>1. IsFiniteSet(2..n)
  BY FS_Interval
<1>2. Ends(t, n) \subseteq 2..n
  BY DEF Ends
<1> QED BY <1>1, <1>2, FS_Subset

LEMMA EndsMonotone ==
  ASSUME NEW t, NEW n \in Nat, NEW m \in Nat, m <= n
  PROVE  Ends(t, m) \subseteq Ends(t, n)
BY DEF Ends

(* What the loops test and copy is what the reference says: the character  *)
(* read is the end of a word, and that word stands before it.              *)
LEMMA NextEnd ==
  ASSUME PassTypes, FirstIsLast, i < Len(text)
  PROVE  /\ Ends(text, i + 1) = IF WordEnds THEN Ends(text, i) \cup {i + 1} ELSE Ends(text, i)
         /\ i + 1 \notin Ends(text, i)
         /\ WordEnds => WordBefore(text, i + 1) = Word
<1> USE DEF PassTypes
<1>1. /\ text \in Seq(Int) /\ Len(text) \in Nat
      /\ i \in Nat /\ firstSpace \in Nat /\ firstSpace <= i
  BY TextsAssumption
<1>2. i + 1 \notin Ends(text, i)
  BY <1>1 DEF Ends
<1>3. WordEnds <=> i + 1 >= 2 /\ text[i + 1] \in Separators /\ text[i] \notin Separators
  <2>1. CASE i = firstSpace
    BY <1>1, <2>1 DEF WordEnds, AtSeparator, FirstIsLast
  <2>2. CASE i > firstSpace
    <3>1. i \in (firstSpace + 1)..i
      BY <1>1, <2>2
    <3> QED BY <1>1, <2>2, <3>1 DEF WordEnds, AtSeparator, FirstIsLast
  <2> QED BY <1>1, <2>1, <2>2
<1>4. Ends(text, i + 1) = IF WordEnds THEN Ends(text, i) \cup {i + 1} ELSE Ends(text, i)
  <2>1. \A p : p \in 2..(i + 1) <=> p \in 2..i \/ (p = i + 1 /\ i + 1 >= 2)
    BY <1>1
  <2>2. (i + 1) - 1 = i
    BY <1>1
  <2> QED BY <1>3, <2>1, <2>2 DEF Ends
<1>5. ASSUME WordEnds PROVE WordBefore(text, i + 1) = Word
  <2> DEFINE Good(a) == /\ a = 1 \/ text[a - 1] \in Separators
                        /\ \A q \in a..((i + 1) - 1) : text[q] \notin Separators
  <2>1. /\ firstSpace + 1 \in 1..(i + 1)
        /\ Good(firstSpace + 1)
    BY <1>1 DEF FirstIsLast
  <2>2. ASSUME NEW a \in 1..(i + 1), Good(a) PROVE a = firstSpace + 1
    <3>1. CASE a < firstSpace + 1
      <4>1. firstSpace \in a..((i + 1) - 1)
        BY <1>1, <3>1
      <4> QED BY <1>1, <2>2, <3>1, <4>1 DEF FirstIsLast
    <3>2. CASE a > firstSpace + 1
      <4>1. a - 1 \in (firstSpace + 1)..i /\ a # 1
        BY <1>1, <3>2
      <4> QED BY <2>2, <4>1 DEF FirstIsLast
    <3> QED BY <1>1, <3>1, <3>2
  <2>3. Start(text, i + 1) = CHOOSE a \in 1..(i + 1) : Good(a)
    BY DEF Start
  <2> HIDE DEF Good
  <2>4. Start(text, i + 1) = firstSpace + 1
    BY <2>1, <2>2, <2>3
  <2>5. (i + 1) - 1 = i
    BY <1>1
  <2> QED BY <2>4, <2>5 DEF WordBefore, Word
<1> QED BY <1>2, <1>4, <1>5

(* Both loops keep firstSpace at the last separator. *)
LEMMA AdvanceKeeps ==
  ASSUME PassTypes, FirstIsLast, i < Len(text), Advance, text' = text
  PROVE  /\ i' \in 0..Len(text) /\ firstSpace' \in 0..i'
         /\ FirstIsLast'
<1>1. /\ Len(text) \in Nat /\ i \in Nat /\ firstSpace \in Nat /\ firstSpace <= i
      /\ i' = i + 1
  BY TextsAssumption DEF PassTypes, Advance
<1>2. CASE AtSeparator
  BY <1>1, <1>2 DEF Advance, AtSeparator, FirstIsLast
<1>3. CASE ~AtSeparator
  <2>1. firstSpace' = firstSpace
    BY <1>3 DEF Advance
  <2>2. \A q \in (firstSpace + 1)..(i + 1) : q \in (firstSpace + 1)..i \/ q = i + 1
    BY <1>1
  <2> QED BY <1>1, <1>3, <2>1, <2>2 DEF AtSeparator, FirstIsLast
<1> QED BY <1>2, <1>3

(* A word that ends has an index, in the table. *)
LEMMA IndexInRange ==
  ASSUME PassTypes, FirstIsLast, FirstPassCounts, phase = "insert", i < Len(text), WordEnds
  PROVE  /\ wordCount > 0
         /\ Index(Word) \in 0..(2 * wordCount - 1)
         /\ Word \in Seq(Int)
<1>1. /\ text \in Seq(Int) /\ Len(text) \in Nat /\ i \in Nat /\ firstSpace \in Nat
      /\ i + 1 <= Len(text) /\ firstSpace + 1 <= i
  BY TextsAssumption DEF PassTypes, WordEnds
<1>2. i + 1 \in Ends(text, Len(text))
  <2>1. i + 1 \in Ends(text, i + 1)
    BY NextEnd
  <2> QED BY <1>1, <2>1, EndsMonotone
<1>3. wordCount > 0
  <2>1. /\ IsFiniteSet(Ends(text, Len(text)))
        /\ Cardinality(Ends(text, Len(text))) \in Nat
    BY <1>1, EndsFinite, FS_CardinalityType
  <2>2. Cardinality(Ends(text, Len(text))) # 0
    BY <1>2, <2>1, FS_EmptySet
  <2> QED BY <2>1, <2>2 DEF FirstPassCounts
<1>4. Hash[Word] \in Nat
  <2>1. firstSpace + 1 \in 1..Len(text) /\ i \in 1..Len(text)
    BY <1>1
  <2> QED BY <2>1, HashAssumption DEF PassTypes, Word
<1>5. Index(Word) \in 0..(2 * wordCount - 1)
  <2>1. wordCount \in Nat
    BY DEF PassTypes
  <2>2. \A h \in Nat, n \in Nat \ {0} : h % n \in 0..(n - 1)
    OBVIOUS
  <2>3. 2 * wordCount \in Nat \ {0}
    BY <1>3, <2>1
  <2> QED BY <1>4, <2>2, <2>3 DEF Index
<1>6. Word \in Seq(Int)
  <2>1. /\ firstSpace + 1 \in 1..(Len(text) + 1)
        /\ i \in firstSpace..Len(text)
    BY <1>1
  <2> QED BY <1>1, <2>1, SubSeqProperties DEF Word
<1> QED BY <1>3, <1>5, <1>6

-----------------------------------------------------------------------------
(* insertWord returns a list of entries: the nodes there were, with one    *)
(* more for the node of the word, or with a new node of count 1.           *)
LEMMA InsertProperties ==
  ASSUME NEW list \in Seq(Entries), NEW word \in Seq(Int)
  PROVE  LET new == InsertWord(list, word) IN
         /\ new \in Seq(Entries)
         /\ \A k \in DOMAIN list :
              /\ k \in DOMAIN new
              /\ new[k].word = list[k].word
              /\ new[k].count = IF list[k].word = word THEN list[k].count + 1
                               ELSE list[k].count
         /\ Holds(list, word) => DOMAIN new = DOMAIN list
         /\ ~Holds(list, word) => /\ DOMAIN new = DOMAIN list \cup {Len(list) + 1}
                                  /\ Len(list) + 1 \notin DOMAIN list
                                  /\ new[Len(list) + 1] = Entry(word, 1)
<1> DEFINE new == InsertWord(list, word)
<1>1. /\ DOMAIN list = 1..Len(list) /\ Len(list) \in Nat
      /\ \A k \in DOMAIN list : list[k] \in Entries
  OBVIOUS
<1>2. CASE Holds(list, word)
  <2> DEFINE counted(k) ==
               IF list[k].word = word THEN Entry(word, list[k].count + 1) ELSE list[k]
  <2>1. new = [k \in 1..Len(list) |-> counted(k)]
    BY <1>1, <1>2 DEF InsertWord
  <2>2. ASSUME NEW k \in 1..Len(list)
        PROVE  /\ counted(k) \in Entries
               /\ counted(k).word = list[k].word
               /\ counted(k).count = IF list[k].word = word THEN list[k].count + 1
                                     ELSE list[k].count
    <3>1. list[k] \in Entries
      BY <1>1
    <3>2. list[k].word \in Seq(Int) /\ list[k].count \in Nat \ {0}
      BY <3>1 DEF Entries
    <3>3. CASE list[k].word = word
      <4>1. counted(k) = [word |-> word, count |-> list[k].count + 1]
        BY <3>3 DEF Entry
      <4>2. counted(k) \in Entries
        BY <3>2, <4>1 DEF Entries
      <4> QED BY <3>3, <4>1, <4>2
    <3>4. CASE list[k].word # word
      BY <3>1, <3>4
    <3> QED BY <3>3, <3>4
  <2> HIDE DEF counted
  <2>3. new \in Seq(Entries)
    BY <1>1, <2>1, <2>2
  <2> QED BY <1>1, <1>2, <2>1, <2>2, <2>3
<1>3. CASE ~Holds(list, word)
  <2>1. new = Append(list, Entry(word, 1))
    BY <1>3 DEF InsertWord
  <2>2. Entry(word, 1) \in Entries
    BY DEF Entry, Entries
  <2>3. /\ new \in Seq(Entries)
        /\ Len(new) = Len(list) + 1
        /\ \A k \in 1..Len(list) : new[k] = list[k]
        /\ new[Len(list) + 1] = Entry(word, 1)
    BY <2>1, <2>2, AppendProperties
  <2>4. /\ DOMAIN new = 1..(Len(list) + 1)
        /\ Len(list) + 1 \notin 1..Len(list)
    BY <1>1, <2>3
  <2>5. \A k \in DOMAIN list : list[k].word # word
    BY <1>3 DEF Holds
  <2> HIDE DEF new
  <2>6. \A k \in DOMAIN list : k \in DOMAIN new /\ new[k] = list[k]
    BY <1>1, <2>3, <2>4
  <2>7. DOMAIN new = DOMAIN list \cup {Len(list) + 1}
    BY <1>1, <2>4
  <2> QED BY <1>1, <1>3, <2>3, <2>4, <2>5, <2>6, <2>7 DEF new
<1> QED BY <1>2, <1>3

(* How one character changes the occurrences of a word. *)
LEMMA OccurrencesStep ==
  ASSUME PassTypes, FirstIsLast, i < Len(text), dropped \subseteq Ends(text, i), NEW w
  PROVE  LET old == Occurrences(text, w, i) \ dropped
             new == Occurrences(text, w, i + 1) \ dropped
         IN  /\ Cardinality(old) \in Nat
             /\ WordEnds /\ w = Word => Cardinality(new) = Cardinality(old) + 1
             /\ ~(WordEnds /\ w = Word) => new = old
             /\ WordEnds => Occurrences(text, w, i + 1) \ (dropped \cup {i + 1}) = old
<1> DEFINE old == Occurrences(text, w, i) \ dropped
           new == Occurrences(text, w, i + 1) \ dropped
<1>1. i \in Nat
  BY TextsAssumption DEF PassTypes
<1>2. IsFiniteSet(old) /\ i + 1 \notin old
  <2>1. old \subseteq Ends(text, i)
    BY DEF Occurrences
  <2> QED BY <1>1, <2>1, EndsFinite, FS_Subset, NextEnd
<1>3. ASSUME WordEnds, w = Word PROVE new = old \cup {i + 1}
  BY <1>3, NextEnd DEF Occurrences
<1>4. ASSUME ~(WordEnds /\ w = Word) PROVE new = old
  BY <1>4, NextEnd DEF Occurrences
<1>5. ASSUME WordEnds PROVE Occurrences(text, w, i + 1) \ (dropped \cup {i + 1}) = old
  BY <1>5, NextEnd DEF Occurrences
<1>6. Cardinality(old) \in Nat /\ Cardinality(old \cup {i + 1}) = Cardinality(old) + 1
  BY <1>2, FS_CardinalityType, FS_AddElement
<1> QED BY <1>3, <1>4, <1>5, <1>6

-----------------------------------------------------------------------------
(* CountsAreRight, of a table after n characters, without the words lost.  *)
Right(table, n, lost) ==
  /\ \A index \in DOMAIN table : \A k \in DOMAIN table[index] :
       /\ index = Index(table[index][k].word)
       /\ table[index][k].count
            = Cardinality(Occurrences(text, table[index][k].word, n) \ lost)
       /\ \A j \in DOMAIN table[index] \ {k} : table[index][j].word # table[index][k].word
  /\ \A p \in Ends(text, n) \ lost :
       Holds(table[Index(WordBefore(text, p))], WordBefore(text, p))

LEMMA RightNow ==
  CountsAreRight <=> (phase \in {"insert", "printed"} => Right(hashTable, i, dropped))
BY DEF CountsAreRight, Right

LEMMA RightNext ==
  ASSUME text' = text, wordCount' = wordCount
  PROVE  CountsAreRight' <=>
           (phase' \in {"insert", "printed"} => Right(hashTable', i', dropped'))
BY DEF CountsAreRight, Right, Index

(* A character that ends no word, or a word that is lost, leaves the table *)
(* right as it is.                                                         *)
LEMMA RightUnchanged ==
  ASSUME WcInv, phase = "insert", i < Len(text)
  PROVE  /\ ~WordEnds => Right(hashTable, i + 1, dropped)
         /\ WordEnds => Right(hashTable, i + 1, dropped \cup {i + 1})
<1>1. /\ PassTypes /\ FirstIsLast /\ dropped \subseteq Ends(text, i)
      /\ Right(hashTable, i, dropped)
  BY RightNow DEF WcInv, FirstPassCounts
<1>2. ASSUME ~WordEnds PROVE Right(hashTable, i + 1, dropped)
  <2>1. \A w : Occurrences(text, w, i + 1) \ dropped = Occurrences(text, w, i) \ dropped
    BY <1>1, <1>2, OccurrencesStep
  <2>2. Ends(text, i + 1) = Ends(text, i)
    BY <1>1, <1>2, NextEnd
  <2> QED BY ZenonT(60), <1>1, <2>1, <2>2 DEF Right
<1>3. ASSUME WordEnds PROVE Right(hashTable, i + 1, dropped \cup {i + 1})
  <2>1. \A w : Occurrences(text, w, i + 1) \ (dropped \cup {i + 1})
                 = Occurrences(text, w, i) \ dropped
    BY <1>1, <1>3, OccurrencesStep
  <2>2. Ends(text, i + 1) \ (dropped \cup {i + 1}) = Ends(text, i) \ dropped
    BY <1>1, <1>3, NextEnd
  <2> QED BY <1>1, <2>1, <2>2 DEF Right
<1> QED BY <1>2, <1>3

(* insertWord puts the word that ends where it belongs, and counts it.     *)
LEMMA RightAfterInsert ==
  ASSUME WcInv, phase = "insert", i < Len(text), WordEnds,
         NEW table, table = [hashTable EXCEPT ![Index(Word)] = InsertWord(@, Word)]
  PROVE  /\ table \in [0..(2 * wordCount - 1) -> Seq(Entries)]
         /\ Right(table, i + 1, dropped)
<1> DEFINE here == Index(Word)
           list == hashTable[here]
           new  == InsertWord(list, Word)
           Old(w) == Occurrences(text, w, i) \ dropped
           Now(w) == Occurrences(text, w, i + 1) \ dropped
<1>1. /\ PassTypes /\ FirstIsLast /\ FirstPassCounts /\ dropped \subseteq Ends(text, i)
      /\ Right(hashTable, i, dropped)
  BY RightNow DEF WcInv, FirstPassCounts
<1>2. /\ hashTable \in [0..(2 * wordCount - 1) -> Seq(Entries)]
      /\ here \in DOMAIN hashTable
      /\ Word \in Seq(Int)
  BY <1>1, IndexInRange DEF PassTypes
<1>3. list \in Seq(Entries)
  BY <1>2
<1>4. /\ new \in Seq(Entries)
      /\ \A k \in DOMAIN list :
           /\ k \in DOMAIN new
           /\ new[k].word = list[k].word
           /\ new[k].count = IF list[k].word = Word THEN list[k].count + 1 ELSE list[k].count
      /\ Holds(list, Word) => DOMAIN new = DOMAIN list
      /\ ~Holds(list, Word) => /\ DOMAIN new = DOMAIN list \cup {Len(list) + 1}
                               /\ Len(list) + 1 \notin DOMAIN list
                               /\ new[Len(list) + 1] = Entry(Word, 1)
  BY ZenonT(60), <1>2, <1>3, InsertProperties
<1>5. /\ table[here] = new
      /\ DOMAIN table = DOMAIN hashTable
      /\ \A index \in DOMAIN table \ {here} : table[index] = hashTable[index]
  BY <1>2
<1>6. table \in [0..(2 * wordCount - 1) -> Seq(Entries)]
  BY <1>2, <1>4
<1>7. \A w : /\ Cardinality(Old(w)) \in Nat
             /\ w = Word => Cardinality(Now(w)) = Cardinality(Old(w)) + 1
             /\ w # Word => Now(w) = Old(w)
  BY <1>1, OccurrencesStep
<1>8. /\ Ends(text, i + 1) = Ends(text, i) \cup {i + 1}
      /\ WordBefore(text, i + 1) = Word
  BY <1>1, NextEnd
<1>9. ASSUME NEW index \in DOMAIN hashTable, NEW k \in DOMAIN hashTable[index]
      PROVE  /\ index = Index(hashTable[index][k].word)
             /\ hashTable[index][k].count = Cardinality(Old(hashTable[index][k].word))
             /\ \A j \in DOMAIN hashTable[index] \ {k} :
                  hashTable[index][j].word # hashTable[index][k].word
  BY <1>1 DEF Right
<1>10. \A p \in Ends(text, i) \ dropped :
         Holds(hashTable[Index(WordBefore(text, p))], WordBefore(text, p))
  BY <1>1 DEF Right
<1>11. ~Holds(list, Word) => Cardinality(Old(Word)) = 0
  <2>1. ~Holds(list, Word) => Old(Word) = {}
    BY <1>10 DEF Occurrences
  <2> QED BY <2>1, FS_EmptySet
<1> HIDE DEF new, here, list, Old, Now
<1>12. ASSUME NEW index \in DOMAIN table, NEW k \in DOMAIN table[index]
       PROVE  /\ index = Index(table[index][k].word)
              /\ table[index][k].count = Cardinality(Now(table[index][k].word))
              /\ \A j \in DOMAIN table[index] \ {k} :
                   table[index][j].word # table[index][k].word
  <2>1. CASE index # here
    <3>1. table[index] = hashTable[index]
      BY <1>5, <2>1
    <3>2. hashTable[index][k].word # Word
      BY <1>5, <1>9, <2>1, <3>1 DEF here
    <3> QED BY <1>5, <1>7, <1>9, <3>1, <3>2
  <2>2. CASE index = here /\ k \in DOMAIN list
    <3>1. /\ table[index] = new /\ new[k].word = list[k].word
          /\ index = Index(list[k].word)
          /\ list[k].count = Cardinality(Old(list[k].word))
          /\ \A j \in DOMAIN list \ {k} : list[j].word # list[k].word
      BY <1>2, <1>4, <1>5, <1>9, <2>2 DEF list
    <3>2. new[k].count = Cardinality(Now(new[k].word))
      BY <1>4, <1>7, <2>2, <3>1
    <3>3. ASSUME NEW j \in DOMAIN new \ {k} PROVE new[j].word # new[k].word
      <4>1. CASE j \in DOMAIN list
        BY <1>4, <3>1, <3>3, <4>1
      <4>2. CASE j \notin DOMAIN list
        <5>1. ~Holds(list, Word) /\ new[j] = Entry(Word, 1)
          BY <1>4, <3>3, <4>2
        <5>2. new[j].word = Word
          BY <5>1 DEF Entry
        <5>3. list[k].word # Word
          BY <2>2, <5>1 DEF Holds
        <5> QED BY <3>1, <5>2, <5>3
      <4> QED BY <4>1, <4>2
    <3> QED BY <3>1, <3>2, <3>3
  <2>3. CASE index = here /\ k \notin DOMAIN list
    <3>1. /\ table[index] = new /\ ~Holds(list, Word)
          /\ k = Len(list) + 1 /\ new[k] = Entry(Word, 1)
          /\ DOMAIN new = DOMAIN list \cup {k}
      <4>1. table[index] = new /\ k \in DOMAIN new
        BY <1>5, <2>3
      <4>2. ~Holds(list, Word)
        BY <1>4, <2>3, <4>1
      <4>3. k = Len(list) + 1
        BY <1>4, <2>3, <4>1, <4>2
      <4> QED BY <1>4, <4>1, <4>2, <4>3
    <3>2. new[k].word = Word /\ new[k].count = 1
      BY <3>1 DEF Entry
    <3>3. Cardinality(Now(Word)) = 1
      BY <1>7, <1>11, <3>1
    <3>4. \A j \in DOMAIN new \ {k} : new[j].word # Word
      BY <1>4, <3>1 DEF Holds
    <3> QED BY <2>3, <3>1, <3>2, <3>3, <3>4 DEF here
  <2> QED BY <2>1, <2>2, <2>3
<1>13. ASSUME NEW p \in Ends(text, i + 1) \ dropped
       PROVE  Holds(table[Index(WordBefore(text, p))], WordBefore(text, p))
  <2>1. Holds(new, Word)
    <3>1. CASE Holds(list, Word)
      BY <1>4, <3>1 DEF Holds
    <3>2. CASE ~Holds(list, Word)
      BY <1>4, <3>2 DEF Holds, Entry
    <3> QED BY <3>1, <3>2
  <2>2. CASE p = i + 1
    BY <1>5, <1>8, <2>1, <2>2 DEF here
  <2>3. CASE p # i + 1
    <3>1. Holds(hashTable[Index(WordBefore(text, p))], WordBefore(text, p))
      BY <1>8, <1>10, <2>3
    <3>2. CASE WordBefore(text, p) = Word
      BY <1>5, <2>1, <3>2 DEF here
    <3>3. CASE Index(WordBefore(text, p)) = here
      BY <1>4, <1>5, <3>1, <3>3 DEF Holds, list
    <3>4. CASE Index(WordBefore(text, p)) # here
      <4>1. table[Index(WordBefore(text, p))] = hashTable[Index(WordBefore(text, p))]
        BY <3>4 DEF here
      <4> QED BY <3>1, <4>1
    <3> QED BY <3>2, <3>3, <3>4
  <2> QED BY <2>2, <2>3
<1> QED BY <1>6, <1>12, <1>13 DEF Right, Now

-----------------------------------------------------------------------------
(* WcInv is inductive. *)
LEMMA InitWcInv == Init => WcInv
<1> SUFFICES ASSUME Init PROVE WcInv
  OBVIOUS
<1>1. text \in Seq(Int) /\ Len(text) \in Nat
  BY TextsAssumption DEF Init
<1>2. PassTypes /\ FirstIsLast /\ CountsAreRight
  BY <1>1 DEF Init, PassTypes, FirstIsLast, CountsAreRight
<1>3. Cardinality(Ends(text, 0)) = 0
  BY FS_EmptySet DEF Ends
<1> QED BY <1>2, <1>3 DEF Init, FirstPassCounts, WcInv

LEMMA CountKeeps == WcInv /\ CountStep => WcInv'
<1> SUFFICES ASSUME WcInv, CountStep PROVE WcInv'
  OBVIOUS
<1>1. /\ PassTypes /\ FirstIsLast /\ FirstPassCounts
      /\ phase = "count" /\ phase' = "count" /\ text' = text /\ dropped' = dropped
      /\ i < Len(text) /\ Advance /\ i' = i + 1 /\ text \in Texts
      /\ i \in Nat /\ wordCount \in Nat
      /\ wordCount' = IF WordEnds THEN wordCount + 1 ELSE wordCount
  BY TextsAssumption DEF WcInv, CountStep, CountsWord, Advance, PassTypes
<1>2. PassTypes' /\ FirstIsLast'
  BY <1>1, AdvanceKeeps DEF PassTypes
<1>3. wordCount' = Cardinality(Ends(text', i'))
  <2>1. /\ wordCount = Cardinality(Ends(text, i)) /\ IsFiniteSet(Ends(text, i))
        /\ i + 1 \notin Ends(text, i)
    BY <1>1, EndsFinite, NextEnd DEF FirstPassCounts
  <2>2. CASE WordEnds
    <3>1. Ends(text, i + 1) = Ends(text, i) \cup {i + 1}
      BY <1>1, <2>2, NextEnd
    <3> QED BY <1>1, <2>1, <2>2, <3>1, FS_AddElement
  <2>3. CASE ~WordEnds
    <3>1. Ends(text, i + 1) = Ends(text, i)
      BY <1>1, <2>3, NextEnd
    <3> QED BY <1>1, <2>1, <2>3, <3>1
  <2> QED BY <2>2, <2>3
<1> QED BY <1>1, <1>2, <1>3 DEF WcInv, FirstPassCounts, CountsAreRight

LEMMA AllocateKeeps == WcInv /\ Allocate => WcInv'
<1> SUFFICES ASSUME WcInv, Allocate PROVE WcInv'
  OBVIOUS
<1>1. /\ PassTypes /\ FirstPassCounts
      /\ phase = "count" /\ phase' = "insert" /\ text' = text /\ dropped' = dropped
      /\ i = Len(text) /\ i' = 0 /\ firstSpace' = 0 /\ wordCount' = wordCount
      /\ hashTable' = [index \in 0..(2 * wordCount - 1) |-> <<>>]
      /\ text \in Texts /\ Len(text) \in Nat /\ wordCount \in Nat
  BY TextsAssumption DEF WcInv, Allocate, PassTypes
<1>2. PassTypes' /\ FirstIsLast'
  BY <1>1 DEF PassTypes, FirstIsLast
<1>3. FirstPassCounts'
  BY <1>1 DEF FirstPassCounts
<1>4. Right(hashTable', i', dropped')
  <2>1. \A index \in DOMAIN hashTable' : DOMAIN hashTable'[index] = {}
    BY <1>1
  <2>2. Ends(text, i') = {}
    BY <1>1 DEF Ends
  <2> QED BY <2>1, <2>2 DEF Right
<1> QED BY <1>1, <1>2, <1>3, <1>4, RightNext DEF WcInv

LEMMA InsertKeeps == WcInv /\ (InsertStep \/ InsertFails) => WcInv'
<1> SUFFICES ASSUME WcInv, InsertStep \/ InsertFails PROVE WcInv'
  OBVIOUS
<1>1. /\ PassTypes /\ FirstIsLast /\ FirstPassCounts
      /\ phase = "insert" /\ phase' = "insert" /\ text' = text /\ wordCount' = wordCount
      /\ i < Len(text) /\ Advance /\ i' = i + 1 /\ text \in Texts
      /\ i \in Nat /\ wordCount \in Nat
  BY TextsAssumption DEF WcInv, InsertStep, InsertFails, Advance, PassTypes
<1>2. \/ ~WordEnds /\ hashTable' = hashTable /\ dropped' = dropped
      \/ /\ WordEnds /\ dropped' = dropped
         /\ hashTable' = [hashTable EXCEPT ![Index(Word)] = InsertWord(@, Word)]
      \/ WordEnds /\ hashTable' = hashTable /\ dropped' = dropped \cup {i + 1}
  BY DEF InsertStep, InsertFails
<1>3. /\ hashTable' \in [0..(2 * wordCount - 1) -> Seq(Entries)]
      /\ Right(hashTable', i', dropped')
  <2>1. hashTable \in [0..(2 * wordCount - 1) -> Seq(Entries)]
    BY <1>1 DEF PassTypes
  <2>2. CASE WordEnds /\ hashTable' = [hashTable EXCEPT ![Index(Word)] = InsertWord(@, Word)]
                      /\ dropped' = dropped
    BY <1>1, <2>2, RightAfterInsert
  <2>3. CASE ~(WordEnds /\ hashTable' = [hashTable EXCEPT ![Index(Word)] = InsertWord(@, Word)]
                        /\ dropped' = dropped)
    BY <1>1, <1>2, <2>1, <2>3, RightUnchanged
  <2> QED BY <2>2, <2>3
<1>4. PassTypes' /\ FirstIsLast'
  BY <1>1, <1>3, AdvanceKeeps DEF PassTypes
<1>5. FirstPassCounts'
  <2>1. dropped \subseteq Ends(text, i) /\ wordCount = Cardinality(Ends(text, Len(text)))
    BY <1>1 DEF FirstPassCounts
  <2>2. dropped' \subseteq Ends(text, i + 1)
    BY <1>1, <1>2, <2>1, NextEnd
  <2> QED BY <1>1, <2>1, <2>2 DEF FirstPassCounts
<1> QED BY <1>1, <1>3, <1>4, <1>5, RightNext DEF WcInv

LEMMA OthersKeep ==
  WcInv /\ (AllocationCrashes \/ Output \/ Destroy \/ UNCHANGED wcVars) => WcInv'
<1> SUFFICES ASSUME WcInv, AllocationCrashes \/ Output \/ Destroy \/ UNCHANGED wcVars
             PROVE  WcInv'
  OBVIOUS
<1>1. /\ text' = text /\ i' = i /\ firstSpace' = firstSpace
      /\ wordCount' = wordCount /\ dropped' = dropped
  BY DEF AllocationCrashes, Output, Destroy, wcVars
<1>2. \/ phase' \in {"crashed", "destroyed"}
      \/ phase = "insert" /\ phase' = "printed" /\ hashTable' = hashTable
      \/ phase' = phase /\ hashTable' = hashTable
  BY DEF AllocationCrashes, Output, Destroy, wcVars
<1>3. PassTypes' /\ FirstIsLast' /\ FirstPassCounts'
  BY <1>1, <1>2 DEF WcInv, PassTypes, FirstIsLast, FirstPassCounts
<1>4. CountsAreRight'
  BY <1>1, <1>2, RightNow, RightNext DEF WcInv
<1> QED BY <1>3, <1>4 DEF WcInv

LEMMA NextWcInv == WcInv /\ [Next]_wcVars => WcInv'
BY CountKeeps, AllocateKeeps, InsertKeeps, OthersKeep DEF Next, Terminated

(* In every state reached, what wc_init has read so far is counted right.  *)
THEOREM WcInductive == Spec => []WcInv
BY InitWcInv, NextWcInv, PTL DEF Spec

-----------------------------------------------------------------------------
(* The table holds every word read by wc_init's second loop once, in the   *)
(* list of its index, with the number of times it was read, apart from the *)
(* words that insertWord had no memory for.                                *)
THEOREM CountsStayRight == Spec => []CountsAreRight
<1>1. WcInv => CountsAreRight
  BY DEF WcInv
<1> QED BY <1>1, WcInductive, PTL

(* wc_init computes no index modulo 0, and none outside the table it sized *)
(* in its first loop.                                                      *)
THEOREM IndexStaysInTable == Spec => []IndexInTable
<1>1. WcInv => IndexInTable
  BY IndexInRange DEF WcInv, IndexInTable, PassTypes
<1> QED BY <1>1, WcInductive, PTL

-----------------------------------------------------------------------------
(* A nonempty set of naturals has a least element. *)
LEMMA LeastNat ==
  ASSUME NEW T \in SUBSET Nat, T # {}
  PROVE  \E x \in T : \A y \in T : x <= y
<1>1. PICK x \in T : \A y \in T : ~ (<<y, x>> \in OpToRel(<, Nat))
  BY NatLessThanWellFounded, WFMin
<1>2. \A y \in T : ~(y < x)
  BY <1>1 DEF OpToRel
<1> QED BY <1>2

(* Induction, on the set of the numbers that have the property. *)
LEMMA SetInduction ==
  ASSUME NEW S \in SUBSET Nat, 0 \in S, \A n \in S : n + 1 \in S
  PROVE  S = Nat
<1>1. SUFFICES ASSUME Nat \ S # {} PROVE FALSE
  OBVIOUS
<1>2. PICK x \in Nat \ S : \A y \in Nat \ S : x <= y
  BY <1>1, LeastNat
<1>3. x - 1 \in Nat /\ x - 1 \notin Nat \ S /\ (x - 1) + 1 = x
  BY <1>2
<1> QED BY <1>2, <1>3

(* A separator that ends a word has the start of that word before it. *)
LEMMA StartBefore ==
  ASSUME NEW t, NEW p \in Nat \ {0}
  PROVE  Start(t, p) \in 1..p
<1> DEFINE T == {a \in 1..p : \A q \in a..(p - 1) : t[q] \notin Separators}
<1>1. p \in T
  OBVIOUS
<1>2. PICK a \in T : \A b \in T : a <= b
  <2>1. T \in SUBSET Nat /\ T # {}
    BY <1>1
  <2> HIDE DEF T
  <2> QED BY <2>1, LeastNat
<1>3. a = 1 \/ t[a - 1] \in Separators
  <2>1. SUFFICES ASSUME a # 1, t[a - 1] \notin Separators PROVE FALSE
    OBVIOUS
  <2>2. a - 1 \in 1..p /\ ~(a <= a - 1)
    BY <1>2, <2>1
  <2>3. ASSUME NEW q \in (a - 1)..(p - 1) PROVE t[q] \notin Separators
    <3>1. q = a - 1 \/ q \in a..(p - 1)
      BY <1>2
    <3> QED BY <1>2, <2>1, <3>1
  <2>4. a - 1 \in T
    BY <2>2, <2>3
  <2> QED BY <1>2, <2>2, <2>4
<1>4. /\ a \in 1..p
      /\ a = 1 \/ t[a - 1] \in Separators
      /\ \A q \in a..(p - 1) : t[q] \notin Separators
  BY <1>2, <1>3
<1> HIDE DEF T
<1> QED BY <1>4 DEF Start

-----------------------------------------------------------------------------
(* The recursion of wc_output over the indexes of the table: it has a      *)
(* solution, so Lists is one.                                              *)
TableOf(table, n) == table \in [0..(n - 1) -> Seq(Entries)]

LEMMA ListsExist ==
  ASSUME wordCount \in Nat, TableOf(hashTable, 2 * wordCount)
  PROVE  /\ Lists \in [0..(2 * wordCount) -> Seq(Entries)]
         /\ Lists[0] = <<>>
         /\ \A n \in 1..(2 * wordCount) : Lists[n] = Lists[n - 1] \o hashTable[n - 1]
<1> DEFINE N == 2 * wordCount
           S == {m \in Nat : m <= N =>
                   \E f \in [0..m -> Seq(Entries)] :
                     /\ f[0] = <<>>
                     /\ \A n \in 1..m : f[n] = f[n - 1] \o hashTable[n - 1]}
<1>0. N \in Nat /\ hashTable \in [0..(N - 1) -> Seq(Entries)]
  BY DEF TableOf
<1>1. 0 \in S
  <2> DEFINE f == [n \in 0..0 |-> <<>>]
  <2>1. f \in [0..0 -> Seq(Entries)] /\ f[0] = <<>> /\ 1..0 = {}
    BY EmptySeq
  <2> QED BY <2>1
<1>2. ASSUME NEW m \in S PROVE m + 1 \in S
  <2>1. SUFFICES ASSUME m + 1 <= N
                 PROVE  \E g \in [0..(m + 1) -> Seq(Entries)] :
                          /\ g[0] = <<>>
                          /\ \A n \in 1..(m + 1) : g[n] = g[n - 1] \o hashTable[n - 1]
    <3>1. m + 1 \in Nat
      OBVIOUS
    <3> QED BY <3>1, Zenon
  <2>2. m \in Nat /\ m <= N /\ m \in 0..(N - 1)
    BY <1>0, <2>1
  <2>3. PICK f \in [0..m -> Seq(Entries)] :
          /\ f[0] = <<>>
          /\ \A n \in 1..m : f[n] = f[n - 1] \o hashTable[n - 1]
    BY <1>2, <2>2
  <2>4. f[m] \in Seq(Entries) /\ hashTable[m] \in Seq(Entries)
    BY <1>0, <2>2
  <2> DEFINE new == f[m] \o hashTable[m]
             g == [n \in 0..(m + 1) |-> IF n <= m THEN f[n] ELSE new]
  <2>5. new \in Seq(Entries)
    BY <2>4, ConcatProperties
  <2> HIDE DEF new
  <2>6. g \in [0..(m + 1) -> Seq(Entries)]
    <3>1. ASSUME NEW n \in 0..(m + 1) PROVE (IF n <= m THEN f[n] ELSE new) \in Seq(Entries)
      BY <2>2, <2>5
    <3> QED BY <3>1
  <2>7. g[0] = <<>>
    BY <2>2, <2>3
  <2>8. ASSUME NEW n \in 1..(m + 1) PROVE g[n] = g[n - 1] \o hashTable[n - 1]
    <3>1. g[n - 1] = f[n - 1]
      BY <2>2
    <3>2. CASE n <= m
      <4>1. n \in 1..m /\ g[n] = f[n]
        BY <2>2, <3>2
      <4> QED BY <2>3, <3>1, <4>1
    <3>3. CASE n = m + 1
      <4>1. g[n] = new /\ n - 1 = m
        BY <2>2, <3>3
      <4> QED BY <3>1, <4>1 DEF new
    <3>4. n <= m \/ n = m + 1
      BY <2>2
    <3> QED BY <3>2, <3>3, <3>4
  <2> HIDE DEF g
  <2> QED BY <2>6, <2>7, <2>8
<1>3. S = Nat
  <2>1. S \in SUBSET Nat
    OBVIOUS
  <2> HIDE DEF S
  <2> QED BY <1>1, <1>2, <2>1, SetInduction
<1>4. PICK f \in [0..N -> Seq(Entries)] :
        /\ f[0] = <<>>
        /\ \A n \in 1..N : f[n] = f[n - 1] \o hashTable[n - 1]
  <2>1. N \in S /\ N <= N
    <3>1. N \in Nat /\ N <= N
      BY <1>0
    <3> HIDE DEF S, N
    <3> QED BY <1>3, <3>1
  <2> HIDE DEF N
  <2> QED BY <2>1, Zenon
<1> HIDE DEF S
<1> DEFINE F(h) == [n \in 0..(2 * wordCount) |->
                      IF n = 0 THEN <<>> ELSE h[n - 1] \o hashTable[n - 1]]
<1>5. f = F(f)
  <2>1. DOMAIN f = 0..N /\ DOMAIN F(f) = 0..N
    BY <1>4
  <2>2. ASSUME NEW n \in 0..N PROVE f[n] = F(f)[n]
    BY <1>0, <1>4
  <2>3. f = [n \in 0..N |-> f[n]]
    BY <1>4
  <2> QED BY <2>2, <2>3
<1>6. Lists = F(Lists)
  <2>1. Lists = CHOOSE h : h = F(h)
    BY DEF Lists
  <2> HIDE DEF F
  <2> QED BY <1>5, <2>1
<1>7. /\ DOMAIN Lists = 0..N /\ Lists[0] = <<>>
      /\ \A n \in 1..N : Lists[n] = Lists[n - 1] \o hashTable[n - 1]
      /\ Lists = [n \in 0..N |-> Lists[n]]
  <2>1. DOMAIN F(Lists) = 0..N /\ F(Lists) = [n \in 0..N |-> F(Lists)[n]]
    OBVIOUS
  <2>2. F(Lists)[0] = <<>>
    BY <1>0
  <2>3. ASSUME NEW n \in 1..N PROVE F(Lists)[n] = Lists[n - 1] \o hashTable[n - 1]
    <3>1. n \in 0..N /\ n # 0
      BY <1>0
    <3> QED BY <3>1
  <2> HIDE DEF F, N
  <2> QED BY <1>6, <2>1, <2>2, <2>3
<1> DEFINE T == {m \in Nat : m <= N => Lists[m] \in Seq(Entries)}
<1>8. T = Nat
  <2>1. T \in SUBSET Nat /\ 0 \in T
    BY <1>7, EmptySeq
  <2>2. ASSUME NEW m \in T PROVE m + 1 \in T
    <3>1. SUFFICES ASSUME m + 1 <= N PROVE Lists[m + 1] \in Seq(Entries)
      OBVIOUS
    <3>2. m \in 0..(N - 1) /\ m <= N /\ m + 1 \in 1..N /\ (m + 1) - 1 = m
      BY <1>0, <3>1
    <3>3. Lists[m] \in Seq(Entries) /\ hashTable[m] \in Seq(Entries)
      BY <1>0, <2>2, <3>2
    <3>4. Lists[m] \o hashTable[m] \in Seq(Entries)
      BY <3>3, ConcatProperties
    <3> QED BY <1>7, <3>2, <3>4
  <2> HIDE DEF T
  <2> QED BY <2>1, <2>2, SetInduction
<1>9. \A n \in 0..N : Lists[n] \in Seq(Entries)
  <2>1. SUFFICES ASSUME NEW n \in 0..N PROVE Lists[n] \in Seq(Entries)
    OBVIOUS
  <2>2. n \in T /\ n <= N
    <3>1. n \in Nat /\ n <= N
      BY <1>0
    <3> HIDE DEF T
    <3> QED BY <1>8, <3>1
  <2> QED BY <2>2
<1> QED BY <1>7, <1>9

(* What is printed: each entry of the lists below index m, and no word     *)
(* twice.                                                                  *)
Gathers(s, m) ==
  /\ \A k \in 1..Len(s) : \E index \in 0..(m - 1) : \E j \in 1..Len(hashTable[index]) :
       s[k] = hashTable[index][j]
  /\ \A index \in 0..(m - 1) : \A j \in 1..Len(hashTable[index]) : \E k \in 1..Len(s) :
       s[k] = hashTable[index][j]
  /\ \A k, l \in 1..Len(s) : s[k].word = s[l].word => k = l

(* The next list adds its entries, whose words have another index.         *)
LEMMA GathersNext ==
  ASSUME wordCount \in Nat, TableOf(hashTable, 2 * wordCount),
         NEW n, NEW lost, Right(hashTable, n, lost),
         NEW m \in 0..(2 * wordCount - 1), NEW s \in Seq(Entries), Gathers(s, m)
  PROVE  Gathers(s \o hashTable[m], m + 1)
<1> DEFINE list == hashTable[m]
           r == s \o list
<1>1. /\ m \in Nat /\ DOMAIN hashTable = 0..(2 * wordCount - 1)
      /\ \A index \in 0..(2 * wordCount - 1) : hashTable[index] \in Seq(Entries)
      /\ \A index \in 0..m : index \in 0..(2 * wordCount - 1)
      /\ \A index \in 0..m : index \in 0..(m - 1) \/ index = m
      /\ \A index \in 0..(m - 1) : index \in 0..m /\ index # m
      /\ m \in 0..m
  BY DEF TableOf
<1>2. list \in Seq(Entries) /\ DOMAIN list = 1..Len(list) /\ Len(list) \in Nat
      /\ Len(s) \in Nat
  BY <1>1, LenProperties
<1>3. \A index \in 0..(2 * wordCount - 1) : DOMAIN hashTable[index] = 1..Len(hashTable[index])
  BY <1>1, LenProperties
<1>4. /\ Len(r) = Len(s) + Len(list)
      /\ \A k \in 1..Len(s) : r[k] = s[k]
      /\ \A j \in 1..Len(list) : r[Len(s) + j] = list[j]
  <2>1. /\ Len(s \o list) = Len(s) + Len(list)
        /\ \A k \in 1..(Len(s) + Len(list)) :
             (s \o list)[k] = IF k <= Len(s) THEN s[k] ELSE list[k - Len(s)]
    BY <1>2, ConcatProperties
  <2>2. \A k \in 1..Len(s) : k \in 1..(Len(s) + Len(list)) /\ k <= Len(s)
    BY <1>2
  <2>3. \A j \in 1..Len(list) : /\ Len(s) + j \in 1..(Len(s) + Len(list))
                                /\ ~(Len(s) + j <= Len(s)) /\ (Len(s) + j) - Len(s) = j
    BY <1>2
  <2> QED BY <2>1, <2>2, <2>3
<1>5. \A k \in 1..Len(r) : k \in 1..Len(s) \/ \E j \in 1..Len(list) : k = Len(s) + j
  <2>1. SUFFICES ASSUME NEW k \in 1..(Len(s) + Len(list)), k \notin 1..Len(s)
                 PROVE  \E j \in 1..Len(list) : k = Len(s) + j
    BY <1>4
  <2>2. k - Len(s) \in 1..Len(list) /\ k = Len(s) + (k - Len(s))
    BY <1>2, <2>1
  <2> QED BY <2>2
<1>6. /\ \A k \in 1..Len(s) : k \in 1..Len(r)
      /\ \A j \in 1..Len(list) : Len(s) + j \in 1..Len(r)
  BY <1>2, <1>4
<1>7. \A index \in 0..m : \A j \in 1..Len(hashTable[index]) :
        index = Index(hashTable[index][j].word)
  BY <1>1, <1>3 DEF Right
<1>8. \A j, l \in 1..Len(list) : list[j].word = list[l].word => j = l
  BY <1>1, <1>2 DEF Right
<1>9. /\ \A k \in 1..Len(s) : \E index \in 0..(m - 1) : \E j \in 1..Len(hashTable[index]) :
           s[k] = hashTable[index][j]
      /\ \A index \in 0..(m - 1) : \A j \in 1..Len(hashTable[index]) : \E k \in 1..Len(s) :
           s[k] = hashTable[index][j]
      /\ \A k, l \in 1..Len(s) : s[k].word = s[l].word => k = l
  BY DEF Gathers
<1>10. (m + 1) - 1 = m
  BY <1>1
<1> HIDE DEF r
<1>11. ASSUME NEW k \in 1..Len(r)
       PROVE  \E index \in 0..m : \E j \in 1..Len(hashTable[index]) : r[k] = hashTable[index][j]
  <2>1. CASE k \in 1..Len(s)
    <3>1. PICK index \in 0..(m - 1) : \E j \in 1..Len(hashTable[index]) : s[k] = hashTable[index][j]
      BY <1>9, <2>1
    <3>2. index \in 0..m /\ r[k] = s[k]
      BY <1>1, <1>4, <2>1
    <3> QED BY <3>1, <3>2
  <2>2. CASE \E j \in 1..Len(list) : k = Len(s) + j
    <3>1. PICK j \in 1..Len(list) : k = Len(s) + j
      BY <2>2
    <3>2. r[k] = hashTable[m][j] /\ m \in 0..m
      BY <1>1, <1>4, <3>1
    <3> QED BY <3>2
  <2> QED BY <1>5, <2>1, <2>2
<1>12. ASSUME NEW index \in 0..m, NEW j \in 1..Len(hashTable[index])
       PROVE  \E k \in 1..Len(r) : r[k] = hashTable[index][j]
  <2>1. CASE index \in 0..(m - 1)
    <3>1. PICK k \in 1..Len(s) : s[k] = hashTable[index][j]
      BY <1>9, <2>1
    <3> QED BY <1>4, <1>6, <3>1
  <2>2. CASE index = m
    <3>1. r[Len(s) + j] = hashTable[index][j] /\ Len(s) + j \in 1..Len(r)
      BY <1>4, <1>6, <2>2
    <3> QED BY <3>1
  <2> QED BY <1>1, <2>1, <2>2
<1>13. ASSUME NEW k \in 1..Len(s), NEW j \in 1..Len(list)
       PROVE  s[k].word # list[j].word
  <2>1. PICK index \in 0..(m - 1) : \E l \in 1..Len(hashTable[index]) : s[k] = hashTable[index][l]
    BY <1>9
  <2>2. index = Index(s[k].word) /\ index # m
    BY <1>1, <1>7, <2>1
  <2>3. m = Index(list[j].word)
    BY <1>1, <1>7
  <2> QED BY <2>2, <2>3
<1>14. ASSUME NEW k \in 1..Len(r), NEW l \in 1..Len(r), r[k].word = r[l].word
       PROVE  k = l
  <2>1. CASE k \in 1..Len(s) /\ l \in 1..Len(s)
    BY <1>4, <1>9, <1>14, <2>1
  <2>2. CASE k \in 1..Len(s) /\ l \notin 1..Len(s)
    <3>1. PICK b \in 1..Len(list) : l = Len(s) + b
      BY <1>5, <2>2
    <3>2. s[k].word = list[b].word
      BY <1>4, <1>14, <2>2, <3>1
    <3> QED BY <1>13, <2>2, <3>2
  <2>3. CASE k \notin 1..Len(s) /\ l \in 1..Len(s)
    <3>1. PICK a \in 1..Len(list) : k = Len(s) + a
      BY <1>5, <2>3
    <3>2. s[l].word = list[a].word
      BY <1>4, <1>14, <2>3, <3>1
    <3> QED BY <1>13, <2>3, <3>2
  <2>4. CASE k \notin 1..Len(s) /\ l \notin 1..Len(s)
    <3>1. PICK a \in 1..Len(list) : k = Len(s) + a
      BY <1>5, <2>4
    <3>2. PICK b \in 1..Len(list) : l = Len(s) + b
      BY <1>5, <2>4
    <3>3. list[a].word = list[b].word
      BY <1>4, <1>14, <3>1, <3>2
    <3> QED BY <1>8, <3>1, <3>2, <3>3
  <2> QED BY <2>1, <2>2, <2>3, <2>4
<1>15. PICK next : next = m + 1 /\ 0..(next - 1) = 0..m
  BY <1>10
<1>16. Gathers(r, next)
  BY <1>11, <1>12, <1>14, <1>15 DEF Gathers
<1> QED BY <1>15, <1>16 DEF r

(* wc_output prints every entry of the table once, and no word twice.      *)
LEMMA ListsGather ==
  ASSUME wordCount \in Nat, TableOf(hashTable, 2 * wordCount),
         NEW n, NEW lost, Right(hashTable, n, lost)
  PROVE  /\ Lists[2 * wordCount] \in Seq(Entries)
         /\ Gathers(Lists[2 * wordCount], 2 * wordCount)
<1> DEFINE N == 2 * wordCount
           S == {m \in Nat : m <= N => Gathers(Lists[m], m)}
<1>1. /\ N \in Nat
      /\ Lists \in [0..N -> Seq(Entries)]
      /\ Lists[0] = <<>>
      /\ \A m \in 1..N : Lists[m] = Lists[m - 1] \o hashTable[m - 1]
  <2>1. N \in Nat
    OBVIOUS
  <2> QED BY <2>1, ListsExist
<1>2. 0 \in S
  <2>1. Gathers(<<>>, 0)
    BY EmptySeq DEF Gathers
  <2> QED BY <1>1, <2>1
<1>3. ASSUME NEW m \in S PROVE m + 1 \in S
  <2>1. SUFFICES ASSUME m + 1 <= N PROVE Gathers(Lists[m + 1], m + 1)
    OBVIOUS
  <2>2. m \in 0..(N - 1) /\ m <= N /\ m + 1 \in 1..N /\ (m + 1) - 1 = m /\ m \in 0..N
    BY <1>1, <2>1
  <2>3. Gathers(Lists[m], m) /\ Lists[m] \in Seq(Entries)
    BY <1>1, <1>3, <2>2
  <2>4. Gathers(Lists[m] \o hashTable[m], m + 1)
    BY <2>2, <2>3, GathersNext
  <2> QED BY <1>1, <2>2, <2>4
<1>4. S = Nat
  <2>1. S \in SUBSET Nat
    OBVIOUS
  <2> HIDE DEF S
  <2> QED BY <1>2, <1>3, <2>1, SetInduction
<1>5. N \in Nat /\ N <= N /\ N \in 0..N
  BY <1>1
<1>6. N \in S
  <2> HIDE DEF S, N
  <2> QED BY <1>4, <1>5
<1> QED BY <1>1, <1>5, <1>6

-----------------------------------------------------------------------------
(* Every line of the output is for a word of the text that found memory. *)
LEMMA LinesAreWords ==
  ASSUME wordCount \in Nat, TableOf(hashTable, 2 * wordCount), Len(text) \in Nat,
         Right(hashTable, Len(text), dropped),
         NEW s \in Seq(Entries), Gathers(s, 2 * wordCount), NEW k \in 1..Len(s)
  PROVE  /\ s[k] \in Entries
         /\ s[k].count = Cardinality(Occurrences(text, s[k].word, Len(text)) \ dropped)
         /\ \E p \in Ends(text, Len(text)) \ dropped : WordBefore(text, p) = s[k].word
<1>1. s[k] \in Entries
  BY ElementOfSeq
<1>2. PICK index \in 0..(2 * wordCount - 1) : \E j \in 1..Len(hashTable[index]) :
        s[k] = hashTable[index][j]
  BY DEF Gathers
<1>3. PICK j \in 1..Len(hashTable[index]) : s[k] = hashTable[index][j]
  BY <1>2
<1>4. /\ hashTable[index] \in Seq(Entries)
      /\ index \in DOMAIN hashTable
  BY <1>2 DEF TableOf
<1>5. j \in DOMAIN hashTable[index]
  BY <1>3, <1>4, LenProperties
<1>6. s[k].count = Cardinality(Occurrences(text, s[k].word, Len(text)) \ dropped)
  BY <1>3, <1>4, <1>5 DEF Right
<1>7. Occurrences(text, s[k].word, Len(text)) \ dropped # {}
  BY <1>1, <1>6, FS_EmptySet DEF Entries
<1>8. PICK p \in Occurrences(text, s[k].word, Len(text)) \ dropped : TRUE
  BY <1>7
<1> QED BY <1>1, <1>6, <1>8 DEF Occurrences

(* No more lines are printed than words were read. *)
LEMMA LinesAtMostWords ==
  ASSUME wordCount \in Nat, TableOf(hashTable, 2 * wordCount), Len(text) \in Nat,
         Right(hashTable, Len(text), dropped),
         NEW s \in Seq(Entries), Gathers(s, 2 * wordCount)
  PROVE  Len(s) <= Cardinality(Ends(text, Len(text)))
<1> DEFINE E == Ends(text, Len(text))
           f == [k \in 1..Len(s) |-> CHOOSE p \in E : WordBefore(text, p) = s[k].word]
<1>1. \A k \in 1..Len(s) : \E p \in E : WordBefore(text, p) = s[k].word
  BY LinesAreWords
<1> HIDE DEF E
<1>2. /\ f \in [1..Len(s) -> E]
      /\ \A k \in 1..Len(s) : WordBefore(text, f[k]) = s[k].word
  BY <1>1
<1> HIDE DEF f
<1>3. \A k, l \in 1..Len(s) : f[k] = f[l] => k = l
  <2>1. \A k, l \in 1..Len(s) : s[k].word = s[l].word => k = l
    BY DEF Gathers
  <2> QED BY <1>2, <2>1
<1>4. f \in Injection(1..Len(s), E)
  BY <1>2, <1>3 DEF Injection, IsInjective
<1>5. IsFiniteSet(E)
  BY EndsFinite DEF E
<1>6. Cardinality(1..Len(s)) <= Cardinality(E)
  BY <1>4, <1>5, FS_Injection
<1>7. Cardinality(1..Len(s)) = Len(s)
  <2>1. PICK n \in Nat : n = Len(s)
    BY LenProperties
  <2>2. 1 \in Int /\ n \in Int
    OBVIOUS
  <2>3. Cardinality(1..n) = IF 1 > n THEN 0 ELSE n - 1 + 1
    BY <2>2, FS_Interval
  <2> QED BY <2>1, <2>3
<1> QED BY <1>6, <1>7 DEF E

(* There is one line for each different word that found memory. *)
LEMMA LinesCountWords ==
  ASSUME text \in Texts, wordCount \in Nat, TableOf(hashTable, 2 * wordCount),
         wordCount = Cardinality(Ends(text, Len(text))),
         Right(hashTable, Len(text), dropped),
         NEW s \in Seq(Entries), Gathers(s, 2 * wordCount)
  PROVE  LET words == {WordBefore(text, p) : p \in Ends(text, Len(text)) \ dropped}
         IN  /\ \A w \in words : \E k \in 1..Len(s) : s[k].word = w
             /\ Len(s) = Cardinality(words)
<1> DEFINE words == {WordBefore(text, p) : p \in Ends(text, Len(text)) \ dropped}
<1>1. text \in Seq(Int) /\ Len(text) \in Nat /\ Len(s) \in Nat
  BY TextsAssumption, LenProperties
<1>2. ASSUME NEW k \in 1..Len(s)
      PROVE  s[k].word \in words
  BY <1>1, LinesAreWords
<1>3. ASSUME NEW w \in words
      PROVE  \E k \in 1..Len(s) : s[k].word = w
  <2>1. PICK p \in Ends(text, Len(text)) \ dropped : w = WordBefore(text, p)
    OBVIOUS
  <2>2. Index(w) \in 0..(2 * wordCount - 1)
    <3>1. p \in 2..Len(text) /\ p - 1 \in 1..Len(text) /\ p \in Nat \ {0}
      BY <1>1, EndsFinite
    <3>2. Start(text, p) \in 1..Len(text)
      BY <1>1, <3>1, StartBefore
    <3>3. Hash[w] \in Nat
      BY <2>1, <3>1, <3>2, HashAssumption DEF WordBefore
    <3>4. wordCount > 0
      <4>1. IsFiniteSet(Ends(text, Len(text))) /\ Ends(text, Len(text)) # {}
        BY <1>1, <2>1, EndsFinite
      <4>2. wordCount # 0
        BY <4>1, FS_EmptySet
      <4> QED BY <4>2
    <3> QED BY <3>3, <3>4 DEF Index
  <2>3. Holds(hashTable[Index(w)], w)
    BY <2>1 DEF Right
  <2>4. hashTable[Index(w)] \in Seq(Entries)
    BY <2>2 DEF TableOf
  <2>5. PICK j \in 1..Len(hashTable[Index(w)]) : hashTable[Index(w)][j].word = w
    BY <2>3, <2>4, LenProperties DEF Holds
  <2>6. PICK k \in 1..Len(s) : s[k] = hashTable[Index(w)][j]
    BY <2>2, <2>5 DEF Gathers
  <2> QED BY <2>5, <2>6
<1>4. Len(s) = Cardinality(words)
  <2> DEFINE f == [k \in 1..Len(s) |-> s[k].word]
  <2> HIDE DEF words
  <2>1. f \in [1..Len(s) -> words] /\ \A w \in words : \E k \in 1..Len(s) : f[k] = w
    BY <1>2, <1>3
  <2>2. \A k, l \in 1..Len(s) : f[k] = f[l] => k = l
    BY DEF Gathers
  <2> HIDE DEF f
  <2>3. f \in Bijection(1..Len(s), words)
    BY <2>1, <2>2 DEF Bijection, Injection, Surjection, IsInjective
  <2>4. ExistsBijection(1..Len(s), words)
    BY <2>3 DEF ExistsBijection
  <2> QED BY <1>1, <2>4, FS_CountingElements
<1> QED BY <1>3, <1>4

(* The words that the passes count are those of wc.h, but the one that the *)
(* text ends with.                                                         *)
LEMMA LastIsNotCounted ==
  ASSUME NEW t \in Seq(Int)
  PROVE  Ends(t, Len(t)) = WordEndsOf(t) \ {Len(t) + 1}
<1>1. Len(t) \in Nat
  OBVIOUS
<1>2. \A p : p \in 2..(Len(t) + 1) /\ p # Len(t) + 1 <=> p \in 2..Len(t)
  BY <1>1
<1> QED BY <1>2 DEF Ends, WordEndsOf

(* With memory for every word there is one line for each, with its count.  *)
LEMMA LinesAreRight ==
  ASSUME text \in Texts, wordCount \in Nat, TableOf(hashTable, 2 * wordCount),
         wordCount = Cardinality(Ends(text, Len(text))),
         Right(hashTable, Len(text), {}), dropped = {},
         NEW s \in Seq(Entries), Gathers(s, 2 * wordCount)
  PROVE  LET counted == WordEndsOf(text) \ {Len(text) + 1}
             words == {WordBefore(text, p) : p \in counted}
             Count(w) == Cardinality({p \in counted : WordBefore(text, p) = w})
             lines == {Entry(w, Count(w)) : w \in words}
         IN  /\ {s[k] : k \in DOMAIN s} = lines
             /\ Len(s) = Cardinality(lines)
<1> DEFINE counted == WordEndsOf(text) \ {Len(text) + 1}
           words == {WordBefore(text, p) : p \in counted}
           Count(w) == Cardinality({p \in counted : WordBefore(text, p) = w})
           lines == {Entry(w, Count(w)) : w \in words}
<1>1. text \in Seq(Int) /\ Len(text) \in Nat /\ DOMAIN s = 1..Len(s) /\ Len(s) \in Nat
  BY TextsAssumption, LenProperties
<1>2. counted = Ends(text, Len(text))
  BY <1>1, LastIsNotCounted
<1>3. ASSUME NEW k \in 1..Len(s)
      PROVE  s[k].word \in words /\ s[k] = Entry(s[k].word, Count(s[k].word))
  <2>1. /\ s[k] \in Entries
        /\ s[k].count = Cardinality(Occurrences(text, s[k].word, Len(text)) \ dropped)
        /\ \E p \in Ends(text, Len(text)) : WordBefore(text, p) = s[k].word
    BY <1>1, LinesAreWords
  <2>2. Occurrences(text, s[k].word, Len(text)) \ dropped
          = {p \in counted : WordBefore(text, p) = s[k].word}
    BY <1>2 DEF Occurrences
  <2>3. s[k] = Entry(s[k].word, s[k].count)
    BY <2>1 DEF Entries, Entry
  <2>4. s[k].word \in words
    BY <1>2, <2>1
  <2> QED BY <2>1, <2>2, <2>3, <2>4
<1>4. \A w \in words : \E k \in 1..Len(s) : s[k].word = w
  <2>1. words = {WordBefore(text, p) : p \in Ends(text, Len(text)) \ dropped}
    BY <1>2
  <2> QED BY <2>1, LinesCountWords
<1> HIDE DEF words, Count
<1>5. \A l \in lines : \E k \in 1..Len(s) : s[k] = l
  <2>1. SUFFICES ASSUME NEW w \in words PROVE \E k \in 1..Len(s) : s[k] = Entry(w, Count(w))
    OBVIOUS
  <2>2. PICK k \in 1..Len(s) : s[k].word = w
    BY <1>4
  <2> QED BY <1>3, <2>2
<1>6. \A k \in 1..Len(s) : s[k] \in lines
  BY <1>3
<1>7. {s[k] : k \in DOMAIN s} = lines
  <2> HIDE DEF lines
  <2> QED BY <1>1, <1>5, <1>6
<1>8. Len(s) = Cardinality(lines)
  <2> DEFINE f == [k \in 1..Len(s) |-> s[k]]
  <2> HIDE DEF lines
  <2>1. f \in [1..Len(s) -> lines] /\ \A l \in lines : \E k \in 1..Len(s) : f[k] = l
    BY <1>5, <1>6
  <2>2. \A k, l \in 1..Len(s) : f[k] = f[l] => k = l
    BY DEF Gathers
  <2> HIDE DEF f
  <2>3. f \in Bijection(1..Len(s), lines)
    BY <2>1, <2>2 DEF Bijection, Injection, Surjection, IsInjective
  <2>4. ExistsBijection(1..Len(s), lines)
    BY <2>3 DEF ExistsBijection
  <2> QED BY <1>1, <2>4, FS_CountingElements
<1> QED BY <1>7, <1>8 DEF words, Count

-----------------------------------------------------------------------------
(* What is allocated and what is printed, phase by phase. *)
OutInv ==
  /\ phase \in Phases
  /\ dropped \subseteq 1..Len(text)
  /\ phase = "count" => copies = 0
  /\ phase = "insert" => copies = Cardinality(Ends(text, i))
  /\ phase \in {"count", "insert", "crashed"} => printed = <<>>
  /\ phase = "crashed" => copies \in Nat
  /\ phase = "printed" =>
       /\ i = Len(text)
       /\ copies = Cardinality(Ends(text, i))
       /\ printed = Lists[2 * wordCount]
  /\ phase = "destroyed" =>
       /\ printed \in Seq(Entries)
       /\ Len(printed) <= Cardinality(Ends(text, Len(text)))
       /\ copies = Cardinality(Ends(text, Len(text))) - Len(printed)
       /\ Len(printed)
            = Cardinality({WordBefore(text, p) : p \in Ends(text, Len(text)) \ dropped})

LEMMA InitOutInv == Init => OutInv
  BY DEF Init, OutInv, Phases

(* A turn of the second loop copies a word exactly when it ends one.       *)
LEMMA InsertCopies ==
  ASSUME WcInv, OutInv, InsertStep \/ InsertFails
  PROVE  OutInv'
<1>1. /\ PassTypes /\ FirstIsLast
      /\ phase = "insert" /\ phase' = "insert" /\ text' = text /\ printed' = printed
      /\ i < Len(text) /\ i' = i + 1 /\ i \in Nat /\ Len(text) \in Nat
      /\ IF WordEnds THEN copies' = copies + 1 ELSE copies' = copies
      /\ dropped' \subseteq dropped \cup {i + 1}
  BY TextsAssumption DEF WcInv, InsertStep, InsertFails, Advance, PassTypes
<1>2. /\ copies = Cardinality(Ends(text, i)) /\ IsFiniteSet(Ends(text, i))
      /\ i + 1 \notin Ends(text, i)
      /\ Ends(text, i + 1) = IF WordEnds THEN Ends(text, i) \cup {i + 1} ELSE Ends(text, i)
  BY <1>1, NextEnd, EndsFinite DEF OutInv
<1>3. copies' = Cardinality(Ends(text, i + 1))
  <2>1. CASE WordEnds
    BY <1>1, <1>2, <2>1, FS_AddElement
  <2>2. CASE ~WordEnds
    BY <1>1, <1>2, <2>2
  <2> QED BY <2>1, <2>2
<1>4. dropped' \subseteq 1..Len(text)
  <2>1. i + 1 \in 1..Len(text)
    BY <1>1
  <2> QED BY <1>1, <2>1 DEF OutInv
<1> QED BY <1>1, <1>3, <1>4 DEF OutInv, Phases

(* In the table that is printed everything is counted. *)
LEMMA TableIsFull ==
  ASSUME WcInv, phase \in {"insert", "printed"}, i = Len(text)
  PROVE  /\ text \in Texts /\ wordCount \in Nat /\ Len(text) \in Nat
         /\ TableOf(hashTable, 2 * wordCount)
         /\ wordCount = Cardinality(Ends(text, Len(text)))
         /\ Right(hashTable, Len(text), dropped)
         /\ Lists[2 * wordCount] \in Seq(Entries)
         /\ Gathers(Lists[2 * wordCount], 2 * wordCount)
<1>1. /\ text \in Texts /\ wordCount \in Nat /\ Len(text) \in Nat
      /\ TableOf(hashTable, 2 * wordCount)
      /\ wordCount = Cardinality(Ends(text, Len(text)))
  BY TextsAssumption DEF WcInv, PassTypes, FirstPassCounts, TableOf
<1>2. Right(hashTable, Len(text), dropped)
  BY RightNow DEF WcInv
<1> QED BY <1>1, <1>2, ListsGather

LEMMA NextOutInv == WcInv /\ OutInv /\ [Next]_wcVars => OutInv'
<1> SUFFICES ASSUME WcInv, OutInv, [Next]_wcVars PROVE OutInv'
  OBVIOUS
<1>1. /\ text \in Texts /\ Len(text) \in Nat /\ i \in Nat
      /\ \A n \in Nat : Cardinality(Ends(text, n)) \in Nat
  BY TextsAssumption, EndsFinite, FS_CardinalityType DEF WcInv, PassTypes
<1>2. CASE CountStep
  BY <1>2 DEF CountStep, OutInv
<1>3. CASE Allocate
  <2>1. /\ text' = text /\ dropped' = dropped /\ phase' = "insert" /\ i' = 0
        /\ copies' = copies /\ printed' = printed /\ phase = "count"
    BY <1>3 DEF Allocate
  <2>2. Ends(text, 0) = {} /\ Cardinality(Ends(text, 0)) = 0
    BY FS_EmptySet DEF Ends
  <2> QED BY <2>1, <2>2 DEF OutInv, Phases
<1>4. CASE InsertStep \/ InsertFails
  BY <1>4, InsertCopies
<1>5. CASE AllocationCrashes
  <2>1. /\ text' = text /\ dropped' = dropped /\ phase' = "crashed"
        /\ copies' = copies /\ printed' = printed /\ phase \in {"count", "insert"}
    BY <1>5 DEF AllocationCrashes
  <2> QED BY <1>1, <2>1 DEF OutInv, Phases
<1>6. CASE Output
  <2>1. /\ UNCHANGED <<text, i, wordCount, hashTable, copies, dropped>>
        /\ phase = "insert" /\ phase' = "printed" /\ i = Len(text)
        /\ printed' = Lists[2 * wordCount]
    BY <1>6 DEF Output
  <2>2. Lists' = Lists
    BY <2>1 DEF Lists
  <2>3. printed' = Lists'[2 * wordCount']
    BY <2>1, <2>2
  <2> QED BY <2>1, <2>3 DEF OutInv, Phases
<1>7. CASE Destroy
  <2>1. /\ text' = text /\ dropped' = dropped /\ printed' = printed
        /\ phase = "printed" /\ phase' = "destroyed"
        /\ copies' = copies - Len(Lists[2 * wordCount])
    BY <1>7 DEF Destroy
  <2>2. i = Len(text) /\ copies = Cardinality(Ends(text, Len(text)))
        /\ printed = Lists[2 * wordCount]
    BY <2>1 DEF OutInv
  <2>3. printed \in Seq(Entries) /\ Len(printed) <= Cardinality(Ends(text, Len(text)))
    BY <2>1, <2>2, TableIsFull, LinesAtMostWords
  <2>4. Len(printed)
          = Cardinality({WordBefore(text, p) : p \in Ends(text, Len(text)) \ dropped})
    BY <2>1, <2>2, TableIsFull, LinesCountWords
  <2> QED BY <2>1, <2>2, <2>3, <2>4 DEF OutInv, Phases
<1>8. CASE UNCHANGED wcVars
  <2>1. UNCHANGED <<text, phase, i, wordCount, hashTable, copies, printed, dropped>>
    BY <1>8 DEF wcVars
  <2>2. Lists' = Lists
    BY <2>1 DEF Lists
  <2>3. printed = Lists[2 * wordCount] => printed' = Lists'[2 * wordCount']
    BY <2>1, <2>2
  <2> QED BY <2>1, <2>3 DEF OutInv
<1> QED BY <1>2, <1>3, <1>4, <1>5, <1>6, <1>7, <1>8 DEF Next, Terminated

LEMMA SpecOutInv == Spec => [](WcInv /\ OutInv)
<1>1. Init => OutInv
  BY InitOutInv
<1>2. WcInv /\ OutInv /\ [Next]_wcVars => OutInv'
  BY NextOutInv
<1>3. Spec => []WcInv
  BY WcInductive
<1> QED BY <1>1, <1>2, <1>3, PTL DEF Spec

(* The types of the word counter's state: no word is freed that was not    *)
(* copied, whatever the text.                                              *)
THEOREM WcTypeCorrect == Spec => []WcTypeOK
<1>1. ASSUME WcInv, OutInv PROVE WcTypeOK
  <2>1. /\ text \in Texts /\ Len(text) \in Nat /\ i \in Nat
        /\ Cardinality(Ends(text, i)) \in Nat /\ Cardinality(Ends(text, Len(text))) \in Nat
    BY <1>1, TextsAssumption, EndsFinite, FS_CardinalityType DEF WcInv, PassTypes
  <2>2. <<>> \in Seq(Entries)
    BY EmptySeq
  <2>3. printed \in Seq(Entries)
    <3>1. CASE phase = "printed"
      BY <1>1, <3>1, TableIsFull DEF OutInv
    <3>2. CASE phase # "printed"
      BY <1>1, <2>2, <3>2 DEF OutInv, Phases
    <3> QED BY <3>1, <3>2
  <2>4. Len(printed) \in Nat
    BY <2>3, LenProperties
  <2>5. copies \in Nat
    BY <1>1, <2>1, <2>4 DEF OutInv, Phases
  <2> QED BY <1>1, <2>3, <2>5 DEF WcTypeOK, WcInv, PassTypes, OutInv, Entries
<1> QED BY <1>1, SpecOutInv, PTL

(* wc_output prints one line for each word of the text, with the number of *)
(* times it occurs, but leaves the word that the text ends with out, if no *)
(* node was refused its memory.                                            *)
THEOREM OutputStaysRight == Spec => []OutputIsRight
<1>1. ASSUME WcInv, OutInv PROVE OutputIsRight
  <2>1. SUFFICES ASSUME phase = "printed", dropped = {}
                 PROVE  LET counted == WordEndsOf(text) \ {Len(text) + 1}
                            words == {WordBefore(text, p) : p \in counted}
                            Count(w) == Cardinality({p \in counted : WordBefore(text, p) = w})
                            lines == {Entry(w, Count(w)) : w \in words}
                        IN  /\ {printed[k] : k \in DOMAIN printed} = lines
                            /\ Len(printed) = Cardinality(lines)
    BY DEF OutputIsRight
  <2>2. i = Len(text) /\ printed = Lists[2 * wordCount]
    BY <1>1, <2>1 DEF OutInv
  <2>3. /\ text \in Texts /\ wordCount \in Nat
        /\ TableOf(hashTable, 2 * wordCount)
        /\ wordCount = Cardinality(Ends(text, Len(text)))
        /\ Right(hashTable, Len(text), {})
        /\ printed \in Seq(Entries)
        /\ Gathers(printed, 2 * wordCount)
    BY <1>1, <2>1, <2>2, TableIsFull
  <2> QED BY <2>1, <2>3, LinesAreRight
<1> QED BY <1>1, SpecOutInv, PTL

(* wc_destroy frees one copy for each different word that found memory,    *)
(* once, and leaves all the copies of words met again or without a node.   *)
THEOREM OnlyRepeatsAreLost == Spec => []LostAreRepeats
<1>1. OutInv => LostAreRepeats
  BY DEF OutInv, LostAreRepeats
<1> QED BY <1>1, SpecOutInv, PTL

=============================================================================
