--------------------------- MODULE MCDeclaration ---------------------------
(* Declarations of one task in progress together.                          *)
EXTENDS Declaration, TLC

Symmetric == Permutations(Calls) \union Permutations(Cards)
=============================================================================
