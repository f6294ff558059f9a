----------------------------- MODULE WordCount -----------------------------
(***************************************************************************)
(* The word counter of warmup/wc.c: wc_init passes over the text twice, to *)
(* size the hash table and to fill it; wc_output prints it; wc_destroy     *)
(* frees it.  One step of wc_init is one turn of one of its two loops.     *)
(*                                                                         *)
(* The text is a sequence of characters: text[p] is word_array[p - 1], so  *)
(* firstSpace is one more than in the code, and 0 at first.                *)
(***************************************************************************)
EXTENDS Integers, Sequences, FiniteSets

CONSTANTS
  Texts,        \* the contents a text may have
  Separators,   \* the characters isspace accepts, and '\0'
  Hash          \* hashFunction

ASSUME TextsAssumption == \A t \in Texts : t \in Seq(Int)
ASSUME HashAssumption  ==
  \A t \in Texts : \A a, b \in 1..Len(t) : Hash[SubSeq(t, a, b)] \in Nat

VARIABLES
  text,
  phase,        \* what the program is doing
  i,            \* characters read by the loop
  firstSpace,
  wordCount,
  hashTable,    \* for each index the linked list, head first
  copies,       \* the number of words that substringCopy allocated, not yet freed
  printed,      \* the output
  dropped       \* history: the i of the words that insertWord found no memory for

wcVars == <<text, phase, i, firstSpace, wordCount, hashTable, copies, printed, dropped>>

Phases == {"count", "insert", "printed", "destroyed", "crashed"}

Entry(word, count) == [word |-> word, count |-> count]

Init ==
  /\ text \in Texts
  /\ phase = "count"
  /\ i = 0
  /\ firstSpace = 0
  /\ wordCount = 0
  /\ hashTable = <<>>
  /\ copies = 0
  /\ printed = <<>>
  /\ dropped = {}

-----------------------------------------------------------------------------
(* The loops of wc_init *)

AtSeparator == text[i + 1] \in Separators

\* Mutant: two separators in a row enclose a word.
WordEndsAnywhere == AtSeparator

(* The character read ends a word: it is a separator, and not the next one *)
(* after the last.                                                         *)
WordEnds == AtSeparator /\ i + 1 > firstSpace + 1

Advance ==
  /\ i' = i + 1
  /\ firstSpace' = IF AtSeparator THEN i + 1 ELSE firstSpace

\* Mutant: a word is counted when it is longer than one character.
CountsLongWords == AtSeparator /\ i > firstSpace + 1

CountsWord == WordEnds

CountStep ==
  /\ phase = "count"
  /\ i < Len(text)
  /\ wordCount' = IF CountsWord THEN wordCount + 1 ELSE wordCount
  /\ Advance
  /\ UNCHANGED <<text, phase, hashTable, copies, printed, dropped>>

(* allocateHashTableSize, and the reset for the second loop. *)
Allocate ==
  /\ phase = "count"
  /\ i = Len(text)
  /\ hashTable' = [index \in 0..(2 * wordCount - 1) |-> <<>>]
  /\ phase' = "insert"
  /\ i' = 0
  /\ firstSpace' = 0
  /\ UNCHANGED <<text, wordCount, copies, printed, dropped>>

(* substringCopy: what stands between the last separator and this one. *)
Word == SubSeq(text, firstSpace + 1, i)

Index(word) == Hash[word] % (2 * wordCount)

Holds(list, word) == \E k \in DOMAIN list : list[k].word = word

\* Mutant: the last node of the list is not looked at.
InsertSkipsLast(list, word) ==
  IF \E k \in 1..(Len(list) - 1) : list[k].word = word
    THEN [k \in DOMAIN list |->
            IF list[k].word = word THEN Entry(word, list[k].count + 1) ELSE list[k]]
    ELSE Append(list, Entry(word, 1))

\* Mutant: a new node has the count 0.
InsertCountsFromZero(list, word) ==
  IF Holds(list, word)
    THEN [k \in DOMAIN list |->
            IF list[k].word = word THEN Entry(word, list[k].count + 1) ELSE list[k]]
    ELSE Append(list, Entry(word, 0))

(* insertWord: count the word in its node, or link a new node at the end.  *)
InsertWord(list, word) ==
  IF Holds(list, word)
    THEN [k \in DOMAIN list |->
            IF list[k].word = word THEN Entry(word, list[k].count + 1) ELSE list[k]]
    ELSE Append(list, Entry(word, 1))

InsertStep ==
  /\ phase = "insert"
  /\ i < Len(text)
  /\ IF WordEnds
       THEN /\ hashTable' = [hashTable EXCEPT ![Index(Word)] = InsertWord(@, Word)]
            /\ copies' = copies + 1
       ELSE UNCHANGED <<hashTable, copies>>
  /\ Advance
  /\ UNCHANGED <<text, phase, wordCount, printed, dropped>>

(* newNode has no memory for a new word: nothing is linked, nothing said.  *)
InsertFails ==
  /\ phase = "insert"
  /\ i < Len(text)
  /\ WordEnds
  /\ ~Holds(hashTable[Index(Word)], Word)
  /\ dropped' = dropped \cup {i + 1}
  /\ copies' = copies + 1
  /\ Advance
  /\ UNCHANGED <<text, phase, wordCount, hashTable, printed>>

(* The other allocations are asserted or not looked at: of struct wc, of a *)
(* table that has a first index to write, of the copy of a word.           *)
AllocationCrashes ==
  /\ \/ phase = "count" /\ i = 0
     \/ phase = "count" /\ i = Len(text) /\ wordCount > 0
     \/ phase = "insert" /\ i < Len(text) /\ WordEnds
  /\ phase' = "crashed"
  /\ UNCHANGED <<text, i, firstSpace, wordCount, hashTable, copies, printed, dropped>>

-----------------------------------------------------------------------------
(* wc_output: the lists in the order of their indexes. *)
Lists[n \in 0..(2 * wordCount)] ==
  IF n = 0 THEN <<>> ELSE Lists[n - 1] \o hashTable[n - 1]

Output ==
  /\ phase = "insert"
  /\ i = Len(text)
  /\ printed' = Lists[2 * wordCount]
  /\ phase' = "printed"
  /\ UNCHANGED <<text, i, firstSpace, wordCount, hashTable, copies, dropped>>

\* Mutant: only the first node of each list is freed.
DestroyHeads ==
  /\ phase = "printed"
  /\ copies' = copies - Cardinality({n \in DOMAIN hashTable : hashTable[n] # <<>>})
  /\ hashTable' = <<>>
  /\ phase' = "destroyed"
  /\ UNCHANGED <<text, i, firstSpace, wordCount, printed, dropped>>

(* wc_destroy frees the nodes, and the word each of them points to.        *)
Destroy ==
  /\ phase = "printed"
  /\ copies' = copies - Len(Lists[2 * wordCount])
  /\ hashTable' = <<>>
  /\ phase' = "destroyed"
  /\ UNCHANGED <<text, i, firstSpace, wordCount, printed, dropped>>

Terminated == phase \in {"destroyed", "crashed"} /\ UNCHANGED wcVars

Next ==
  \/ CountStep
  \/ Allocate
  \/ InsertStep
  \/ InsertFails
  \/ AllocationCrashes
  \/ Output
  \/ Destroy
  \/ Terminated

Spec == Init /\ [][Next]_wcVars

-----------------------------------------------------------------------------
(* The reference.  wc.h promises the words of the text, "separated by      *)
(* spaces": a word ends where a separator follows it, and the last one may *)
(* end with the text.                                                      *)
WordEndsOf(t) ==
  {p \in 2..(Len(t) + 1) : /\ t[p - 1] \notin Separators
                           /\ p = Len(t) + 1 \/ t[p] \in Separators}

(* Those that have been passed after n characters. *)
Ends(t, n) ==
  {p \in 2..n : t[p] \in Separators /\ t[p - 1] \notin Separators}

(* The word that stands before p. *)
Start(t, p) ==
  CHOOSE a \in 1..p : /\ a = 1 \/ t[a - 1] \in Separators
                      /\ \A q \in a..(p - 1) : t[q] \notin Separators

WordBefore(t, p) == SubSeq(t, Start(t, p), p - 1)

Occurrences(t, word, n) == {p \in Ends(t, n) : WordBefore(t, p) = word}

-----------------------------------------------------------------------------
(* Type invariant. *)
WcTypeOK ==
  /\ text \in Texts
  /\ phase \in Phases
  /\ i \in 0..Len(text)
  /\ firstSpace \in 0..i
  /\ wordCount \in Nat
  /\ phase \in {"insert", "printed"} =>
       hashTable \in [0..(2 * wordCount - 1) ->
                       Seq([word : Seq(Int), count : Nat \ {0}])]
  /\ copies \in Nat
  /\ printed \in Seq([word : Seq(Int), count : Nat \ {0}])
  /\ dropped \subseteq 1..Len(text)

(* The loop invariant of the second pass: every word read so far, except   *)
(* those there was no memory for, has one node, in the list of its index,  *)
(* with the number of times it was read.                                   *)
CountsAreRight ==
  phase \in {"insert", "printed"} =>
    /\ \A index \in DOMAIN hashTable : \A k \in DOMAIN hashTable[index] :
         LET entry == hashTable[index][k] IN
           /\ index = Index(entry.word)
           /\ entry.count = Cardinality(Occurrences(text, entry.word, i) \ dropped)
           /\ \A j \in DOMAIN hashTable[index] \ {k} : hashTable[index][j].word # entry.word
    /\ \A p \in Ends(text, i) \ dropped :
         Holds(hashTable[Index(WordBefore(text, p))], WordBefore(text, p))

(* The two passes agree on what a word is: when the second finds one, no   *)
(* index is computed modulo 0, and the index is inside the table.          *)
IndexInTable ==
  phase = "insert" /\ i < Len(text) /\ WordEnds =>
    wordCount > 0 /\ Index(Word) \in DOMAIN hashTable

(* The output has one line for each word of the text, with the number of   *)
(* times it occurs - except, unless memory ran out, for exactly one thing: *)
(* the word that the text itself ends with, which wc.h:12-14 and 20-22     *)
(* promise like any other, is not counted, since only a separator makes    *)
(* wc_init look at what stands before it.                                  *)
OutputIsRight ==
  phase = "printed" /\ dropped = {} =>
    LET counted == WordEndsOf(text) \ {Len(text) + 1}
        words == {WordBefore(text, p) : p \in counted}
        Count(w) == Cardinality({p \in counted : WordBefore(text, p) = w})
        lines == {Entry(w, Count(w)) : w \in words}
    IN  /\ {printed[k] : k \in DOMAIN printed} = lines
        /\ Len(printed) = Cardinality(lines)

(* wc_destroy frees the copies that stand in nodes, each once: one for     *)
(* each different word that found memory at least once.  All the other     *)
(* copies, of words met again or refused a node, stay allocated, where     *)
(* wc.h:36-37 promises that there is "no memory loss".                     *)
LostAreRepeats ==
  phase = "destroyed" =>
    LET found == Ends(text, Len(text)) IN
    copies = Cardinality(found)
               - Cardinality({WordBefore(text, p) : p \in found \ dropped})

=============================================================================
