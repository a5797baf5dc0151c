---------------------------- MODULE MCChessSessions ---------------------------
EXTENDS ChessSessions, TLC
CONSTANTS b1, b2, b3, c1, c2, c3, c4

(* Two calls of the first browser, one of each other.                       *)
MCOwner(c) == CASE c \in {c1, c4} -> b1 [] c = c2 -> b2 [] c = c3 -> b3
===============================================================================
