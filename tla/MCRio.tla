------------------------------- MODULE MCRio -------------------------------
(* Rio for TLC: all texts over the newline and two other bytes. *)
EXTENDS Rio

CONSTANT MaxText    \* bound: the length of a text

MCTexts == UNION {[1..n -> {NewLine, 97, 98}] : n \in 0..MaxText}
=============================================================================
