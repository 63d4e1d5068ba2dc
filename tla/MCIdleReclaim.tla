--------------------------- MODULE MCIdleReclaim ---------------------------
(* Two cards on one server, or one on each of two.                         *)
EXTENDS IdleReclaim, TLC

CONSTANTS A, B, a1, a2, b1

Placed == [c \in Cards |-> IF c = b1 THEN B ELSE A]
=============================================================================
