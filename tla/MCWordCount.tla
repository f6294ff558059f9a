---------------------------- MODULE MCWordCount ----------------------------
(* WordCount for TLC, with the hash function of the code: all texts over   *)
(* a space and two letters whose codes fall on the same index of a table   *)
(* of four lists.                                                          *)
EXTENDS WordCount

CONSTANTS
  MaxText,    \* bound: the length of a text
  IntBits     \* bits of an unsigned int, 32 in the code; small, so that words wrap around

(* hashFunction: the low bits are shifted left by 5, cyclically, and the   *)
(* character is added, as an unsigned int to an unsigned long.             *)
HashFunction(word) ==
  LET Shifted(h) == ((h * 32) % 2^IntBits) + (h \div 2^(IntBits - 5))
      hash[n \in 0..Len(word)] ==
        IF n = 0 THEN 0
        ELSE Shifted(hash[n - 1] % 2^IntBits) + (word[n] % 2^IntBits)
  IN  hash[Len(word)]

MCTexts == UNION {[1..n -> {32, 97, 101}] : n \in 0..MaxText}

MCHash == [word \in MCTexts |-> HashFunction(word)]
=============================================================================
